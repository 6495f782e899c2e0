------------------------ MODULE FileLogAppender_proofs ------------------------
(***************************************************************************)
(* Theorems about FileLogAppender for any number of threads, any interval  *)
(* and any layouts.                                                        *)
(***************************************************************************)
EXTENDS FileLogAppender, LogFormatter_proofs, TLAPS

(* While the stream is on a renamed file, nothing younger than the renaming*)
(* has been or will be noted in m_lastTime: only after opening the file is *)
(* it noted. So every event that comes Interval later opens the file.      *)
OldTimesOnly ==
    m_filestream = "renamed" =>
        /\ m_lastTime <= renamedAt
        /\ \A t \in Threads :
              /\ pc[t] = "setTime" => time[t] <= renamedAt
              /\ pc[t] \in {"test", "write"} => time[t] < renamedAt + Interval

Inv == TypeOK /\ OldTimesOnly

(* init() reports an error or it does not, whatever it is given.           *)
LEMMA InitError ==
    ASSUME NEW pattern
    PROVE  init(pattern).m_error \in BOOLEAN
BY DEF init

LEMMA InitInv == Init => Inv
<1> SUFFICES ASSUME Init
             PROVE  Inv
  OBVIOUS
<1>1. m_formatter.m_error \in BOOLEAN
  BY InitError DEF Init
<1>2. TypeOK
  BY <1>1, AppenderAssumption DEF Init, TypeOK
<1>3. OldTimesOnly
  BY DEF Init, OldTimesOnly
<1> QED
  BY <1>2, <1>3 DEF Inv

LEMMA NextInv ==
    ASSUME Inv, [Next]_vars
    PROVE  Inv'
<1> USE AppenderAssumption DEF Inv, TypeOK, OldTimesOnly, goto
<1>0. /\ now \in Nat /\ renamedAt \in Nat /\ m_lastTime \in Nat
      /\ renamedAt <= now /\ m_lastTime <= now
      /\ \A t \in Threads : time[t] \in Nat /\ time[t] <= now
  OBVIOUS
<1>1. CASE Tick
  BY <1>0, <1>1 DEF Tick, fileVars
<1>2. CASE rename
  BY <1>0, <1>2 DEF rename
<1>3. CASE permit
  BY <1>0, <1>3 DEF permit
<1>4. ASSUME NEW val \in Layouts, setFormatter(val)
      PROVE  Inv'
  BY <1>0, <1>4, InitError DEF setFormatter, fileVars
<1>5. ASSUME NEW t \in Threads, newEvent(t)
      PROVE  Inv'
  BY <1>0, <1>5 DEF newEvent, fileVars
<1>6. ASSUME NEW t \in Threads, log(t)
      PROVE  Inv'
  BY <1>0, <1>6 DEF log, fileVars
<1>7. ASSUME NEW t \in Threads, reopen(t)
      PROVE  Inv'
  BY <1>0, <1>7 DEF reopen
<1>8. ASSUME NEW t \in Threads, setTime(t)
      PROVE  Inv'
  BY <1>0, <1>8 DEF setTime, fileVars
<1>9. ASSUME NEW t \in Threads, testError(t)
      PROVE  Inv'
  BY <1>0, <1>9 DEF testError, fileVars
<1>10. ASSUME NEW t \in Threads, write(t)
       PROVE  Inv'
  BY <1>0, <1>10 DEF write, fileVars
<1>11. CASE UNCHANGED vars
  BY <1>11 DEF vars, fileVars
<1> HIDE AppenderAssumption DEF Inv, TypeOK, OldTimesOnly, goto
<1> QED
  BY <1>1, <1>2, <1>3, <1>4, <1>5, <1>6, <1>7, <1>8, <1>9, <1>10, <1>11 DEF Next

(* The variables keep their types, and no noted time lies in the future.   *)
THEOREM TypeCorrect == Spec => []TypeOK
<1>1. Inv /\ [Next]_vars => Inv'
  BY NextInv
<1>2. Inv => TypeOK
  BY DEF Inv
<1> QED
  BY InitInv, <1>1, <1>2, PTL DEF Spec

(* A renamed file gets no line that is Interval younger than the renaming, *)
(* for any number of threads that read and write m_lastTime without a lock.*)
THEOREM RenamedFileIsLeft == Spec => []RenamedIsLeft
<1>1. Inv /\ [Next]_vars => Inv'
  BY NextInv
<1>2. Inv => RenamedIsLeft
  BY DEF Inv, OldTimesOnly, RenamedIsLeft
<1> QED
  BY InitInv, <1>1, <1>2, PTL DEF Spec

(* The formatter in use always does what its pattern says, for any layouts:*)
(* setFormatter() replaces it with one made of the pattern by init().      *)
THEOREM FormatterReadsAsMeant == Spec => []FormatterIsMeant
<1>1. Init => FormatterIsMeant
  BY AppenderAssumption, LayoutsAreRead DEF Init, FormatterIsMeant
<1>2. FormatterIsMeant /\ [Next]_vars => FormatterIsMeant'
  <2> SUFFICES ASSUME FormatterIsMeant, [Next]_vars
               PROVE  FormatterIsMeant'
    OBVIOUS
  <2>1. CASE \E val \in Layouts : setFormatter(val)
    <3>1. PICK val \in Layouts : setFormatter(val)
      BY <2>1
    <3>2. ReadAsMeant(val, init(PatternOf(val)))
      BY AppenderAssumption, LayoutsAreRead
    <3> QED
      BY <3>1, <3>2 DEF setFormatter, FormatterIsMeant
  <2>2. CASE UNCHANGED <<layout, m_formatter>>
    BY <2>2 DEF FormatterIsMeant
  <2>3. CASE ~\E val \in Layouts : setFormatter(val)
    <3>1. UNCHANGED <<layout, m_formatter>>
      BY <2>3 DEF Next, vars, Tick, rename, permit, newEvent, log, reopen, setTime,
                  testError, write
    <3> QED
      BY <2>2, <3>1
  <2> QED
    BY <2>1, <2>3
<1> QED
  BY <1>1, <1>2, PTL DEF Spec
=============================================================================
