---------------------------- MODULE FileLogAppender ----------------------------
(***************************************************************************)
(* FileLogAppender and LogAppender of src/src/log.cpp: several threads log *)
(* to one file, which somebody else renames (log rotation) or makes        *)
(* impossible to open, while the formatter is replaced. m_mutex protects   *)
(* the stream and the formatter; m_lastTime and m_reopenError are read and *)
(* m_lastTime is written without it. Time is counted in seconds.           *)
(***************************************************************************)
EXTENDS LogFormatter

CONSTANTS
    Threads,
    Layouts,   (* the layouts whose patterns setFormatter() is given          *)
    Interval,  (* the 3 seconds after which the file is opened again          *)
    MaxTime    (* bound: the clock stops there                                *)

ASSUME AppenderAssumption ==
    /\ \A layout \in Layouts : IsLayout(layout)
    /\ Interval \in Nat \ {0} /\ MaxTime \in Nat

VARIABLES
    now,            (* time(0)                                                *)
    openable,       (* whether the file can be opened                         *)
    m_filestream,   (* closed, or open on the file of that name, or on one    *)
    renamedAt,      (* that has been renamed, at that time                    *)
    m_lastTime, m_reopenError,
    layout,         (* the layout meant by the formatter, ...                 *)
    m_formatter,    (* ... and what init() has made of its pattern            *)
    pc, time        (* of each thread: place in log(), the event's m_time     *)

fileVars == <<openable, m_filestream, renamedAt>>
vars == <<now, fileVars, m_lastTime, m_reopenError, layout, m_formatter, pc, time>>

TypeOK ==
    /\ now \in 0..MaxTime
    /\ openable \in BOOLEAN
    /\ m_filestream \in {"closed", "named", "renamed"}
    /\ renamedAt \in 0..now
    /\ m_lastTime \in 0..now
    /\ m_reopenError \in BOOLEAN
    /\ layout \in Layouts
    /\ m_formatter.m_error \in BOOLEAN
    /\ pc \in [Threads -> {"user", "log", "reopen", "setTime", "test", "write"}]
    /\ time \in [Threads -> 0..now]

(* The constructor opens the file.                                         *)
Init ==
    /\ now = 0
    /\ openable \in BOOLEAN
    /\ m_filestream = IF openable THEN "named" ELSE "closed"
    /\ renamedAt = 0
    /\ m_lastTime = 0
    /\ m_reopenError = ~openable
    /\ layout \in Layouts
    /\ m_formatter = init(PatternOf(layout))
    /\ pc = [t \in Threads |-> "user"]
    /\ time = [t \in Threads |-> 0]

-----------------------------------------------------------------------------
goto(t, from, to) == pc[t] = from /\ pc' = [pc EXCEPT ![t] = to]

Tick ==
    /\ now < MaxTime
    /\ now' = now + 1
    /\ UNCHANGED <<fileVars, m_lastTime, m_reopenError, layout, m_formatter, pc, time>>

rename ==
    /\ m_filestream = "named"
    /\ m_filestream' = "renamed"
    /\ renamedAt' = now
    /\ UNCHANGED <<now, openable, m_lastTime, m_reopenError, layout, m_formatter, pc, time>>

permit ==
    /\ openable' = ~openable
    /\ UNCHANGED <<now, m_filestream, renamedAt, m_lastTime, m_reopenError, layout,
                   m_formatter, pc, time>>

(* LogAppender::setFormatter().                                            *)
setFormatter(val) ==
    /\ layout' = val
    /\ m_formatter' = init(PatternOf(val))
    /\ UNCHANGED <<now, fileVars, m_lastTime, m_reopenError, pc, time>>

(* SYLAR_LOG_LEVEL makes the event; it is logged when the line is complete.*)
newEvent(t) ==
    /\ goto(t, "user", "log")
    /\ time' = [time EXCEPT ![t] = now]
    /\ UNCHANGED <<now, fileVars, m_lastTime, m_reopenError, layout, m_formatter>>

(* Mutation: m_lastTime is set before the file is opened again.            *)
log_TimeFirst(t) ==
    /\ goto(t, "log", IF time[t] >= m_lastTime + Interval THEN "reopen" ELSE "test")
    /\ m_lastTime' = IF time[t] >= m_lastTime + Interval THEN time[t] ELSE m_lastTime
    /\ UNCHANGED <<now, fileVars, m_reopenError, layout, m_formatter, time>>

(* log(): is it time to open the file again?                               *)
log(t) ==
    /\ goto(t, "log", IF time[t] >= m_lastTime + Interval THEN "reopen" ELSE "test")
    /\ UNCHANGED <<now, fileVars, m_lastTime, m_reopenError, layout, m_formatter, time>>

reopen(t) ==
    /\ goto(t, "reopen", "setTime")
    /\ m_filestream' = IF openable THEN "named" ELSE "closed"
    /\ m_reopenError' = ~openable
    /\ UNCHANGED <<now, openable, renamedAt, m_lastTime, layout, m_formatter, time>>

(* Mutation: the time at which the file is due again is kept.              *)
setTime_Next(t) ==
    /\ goto(t, "setTime", "test")
    /\ m_lastTime' = time[t] + Interval
    /\ UNCHANGED <<now, fileVars, m_reopenError, layout, m_formatter, time>>

setTime(t) ==
    /\ goto(t, "setTime", "test")
    /\ m_lastTime' = time[t]
    /\ UNCHANGED <<now, fileVars, m_reopenError, layout, m_formatter, time>>

testError(t) ==
    /\ goto(t, "test", IF m_reopenError THEN "user" ELSE "write")
    /\ UNCHANGED <<now, fileVars, m_lastTime, m_reopenError, layout, m_formatter, time>>

(* The line goes to the stream, or nowhere when that is closed by now.     *)
write(t) ==
    /\ goto(t, "write", "user")
    /\ UNCHANGED <<now, fileVars, m_lastTime, m_reopenError, layout, m_formatter, time>>

Next ==
    \/ Tick \/ rename \/ permit
    \/ \E val \in Layouts : setFormatter(val)
    \/ \E t \in Threads :
          newEvent(t) \/ log(t) \/ reopen(t) \/ setTime(t) \/ testError(t) \/ write(t)

Spec == Init /\ [][Next]_vars

-----------------------------------------------------------------------------
(* A file that has been renamed is left after Interval: no line goes there *)
(* whose event is that much younger than the renaming, although m_lastTime *)
(* is read and written without the lock, by threads whose events are of    *)
(* different ages.                                                         *)
RenamedIsLeft ==
    \A t \in Threads : pc[t] = "write" /\ m_filestream = "renamed" =>
        time[t] < renamedAt + Interval

(* The formatter does what its pattern says, and reports an error exactly  *)
(* if there is an unknown item in it.                                      *)
FormatterIsMeant == ReadAsMeant(layout, m_formatter)
=============================================================================
