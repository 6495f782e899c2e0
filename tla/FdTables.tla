------------------------------- MODULE FdTables -------------------------------
(***************************************************************************)
(* The two tables that are indexed by descriptors: the FdCtx of FdManager  *)
(* (src/src/fdManager.cpp) and the FdContext of IOManager                  *)
(* (src/src/iomanager.cpp), both of which grow, and the hooks that keep    *)
(* the first (src/src/hook.cpp): socket, accept, close, fcntl, ioctl. The  *)
(* kernel gives a closed number away again. A socket is used by the thread *)
(* that opened it; threads meet in the tables and in the numbers.          *)
(***************************************************************************)
EXTENDS Naturals, FiniteSets, FiniteSetsExt

CONSTANTS
    Threads,
    MaxFd,          (* bound: the largest descriptor                          *)
    InitFds,        (* size of FdManager::m_fds at first (64)                 *)
    InitContexts,   (* size of IOManager::m_fdContexts at first (32)          *)
    IoctlValues,    (* values that ioctl(FIONBIO) is called with              *)
    MaxGrowers      (* how many calls of addEvent() may be between the test of*)
                    (* the size and the resize at the same time               *)

Fds == 0..MaxFd

ASSUME TablesAssumption ==
    /\ MaxFd \in Nat /\ InitFds \in Nat /\ InitContexts \in Nat /\ MaxGrowers \in Nat
    /\ 2 <= InitFds /\ 2 <= InitContexts
    /\ IoctlValues \subseteq BOOLEAN
    /\ "nobody" \notin Threads

VARIABLES
    owner,         (* kernel: descriptors that are open, and whose they are   *)
    nonblock,      (* kernel: O_NONBLOCK                                      *)
    registration,  (* kernel: none, or the epoll event of an FdContext that is*)
                   (* in the table, or of one that is lost                    *)
    fdsSize, m_fds,      (* FdManager: size, and the descriptors with an FdCtx*)
    m_userNoBlock,       (* of the FdCtx                                      *)
    contextsSize,        (* of m_fdContexts                                   *)
    wanted,        (* O_NONBLOCK as the program has last set it on the socket *)
    pc, fd,        (* where a thread is in a call, and the call's descriptor  *)
    inTable        (* the FdContext that addEvent() holds is in the table     *)

kernelVars == <<owner, nonblock, registration>>
ctxVars    == <<fdsSize, m_fds, m_userNoBlock>>
vars == <<kernelVars, ctxVars, contextsSize, wanted, pc, fd, inTable>>

Nobody == "nobody"
Open == {f \in Fds : owner[f] # Nobody}

TypeOK ==
    /\ owner \in [Fds -> Threads \cup {Nobody}]
    /\ nonblock \in [Fds -> BOOLEAN]
    /\ registration \in [Fds -> {"none", "known", "lost"}]
    /\ fdsSize \in Nat /\ contextsSize \in Nat
    /\ m_fds \subseteq Fds \cap 0..(fdsSize - 1)
    /\ m_userNoBlock \in [Fds -> BOOLEAN]
    /\ wanted \in [Fds -> BOOLEAN]
    /\ pc \in [Threads -> {"user", "get", "create", "grow", "register", "delFd", "close_f"}]
    /\ fd \in [Threads -> Fds]
    /\ inTable \in [Threads -> BOOLEAN]

Init ==
    /\ owner = [f \in Fds |-> Nobody]
    /\ nonblock = [f \in Fds |-> FALSE]
    /\ registration = [f \in Fds |-> "none"]
    /\ fdsSize = InitFds /\ m_fds = {}
    /\ m_userNoBlock = [f \in Fds |-> FALSE]
    /\ contextsSize = InitContexts
    /\ wanted = [f \in Fds |-> FALSE]
    /\ pc = [t \in Threads |-> "user"]
    /\ fd = [t \in Threads |-> 0]
    /\ inTable = [t \in Threads |-> FALSE]

-----------------------------------------------------------------------------
goto(t, from, to) == pc[t] = from /\ pc' = [pc EXCEPT ![t] = to]

(* t calls a function on its descriptor f.                                 *)
enter(t, f, to) ==
    /\ goto(t, "user", to)
    /\ owner[f] = t
    /\ fd' = [fd EXCEPT ![t] = f]

(* fd * 1.5                                                                *)
newSize(f) == (3 * f) \div 2

(* socket(), and accept() likewise: the kernel gives the lowest number, of *)
(* a blocking socket; then FdManager::get(fd, true).                       *)
socket_f(t) ==
    /\ goto(t, "user", "get")
    /\ Open # Fds
    /\ LET f == Min(Fds \ Open)
       IN  /\ fd' = [fd EXCEPT ![t] = f]
           /\ owner' = [owner EXCEPT ![f] = t]
           /\ nonblock' = [nonblock EXCEPT ![f] = FALSE]
           /\ wanted' = [wanted EXCEPT ![f] = FALSE]
    /\ UNCHANGED <<registration, ctxVars, contextsSize, inTable>>

(* get() under the read lock; what it finds is returned.                   *)
get(t) ==
    /\ goto(t, "get", IF fd[t] \in m_fds THEN "user" ELSE "create")
    /\ UNCHANGED <<kernelVars, ctxVars, contextsSize, wanted, fd, inTable>>

(* Mutation: the size is not tested again under the write lock.            *)
fdsSizeFor_Untested(f) == newSize(f)

fdsSizeFor(f) == IF f >= fdsSize THEN newSize(f) ELSE fdsSize

(* get() under the write lock, with the constructor of FdCtx.              *)
create(t) ==
    /\ goto(t, "create", "user")
    /\ fdsSize' = fdsSizeFor(fd[t])
    /\ m_fds' = {f \in m_fds : f < fdsSize'} \cup {fd[t]}
    /\ m_userNoBlock' = [m_userNoBlock EXCEPT ![fd[t]] = FALSE]
    /\ nonblock' = [nonblock EXCEPT ![fd[t]] = TRUE]
    /\ UNCHANGED <<owner, registration, contextsSize, wanted, fd, inTable>>

-----------------------------------------------------------------------------
(* close(): get(), and if there is an FdCtx cancelAll() and delFd().       *)
close(t, f) ==
    /\ enter(t, f, IF f \in m_fds THEN "delFd" ELSE "close_f")
    /\ registration' = [registration EXCEPT ![f] =
            IF f \in m_fds /\ f < contextsSize /\ @ = "known" THEN "none" ELSE @]
    /\ UNCHANGED <<owner, nonblock, ctxVars, contextsSize, wanted, inTable>>

delFd(t) ==
    /\ goto(t, "delFd", "close_f")
    /\ m_fds' = m_fds \ {fd[t]}
    /\ UNCHANGED <<kernelVars, fdsSize, m_userNoBlock, contextsSize, wanted, fd, inTable>>

close_f(t) ==
    /\ goto(t, "close_f", "user")
    /\ owner' = [owner EXCEPT ![fd[t]] = Nobody]
    /\ registration' = [registration EXCEPT ![fd[t]] = "none"]
    /\ UNCHANGED <<nonblock, ctxVars, contextsSize, wanted, fd, inTable>>

(* Mutation: as the program says, also in the kernel.                      *)
sysNonblock_User(f, on) == on

(* The O_NONBLOCK that fcntl(F_SETFL) passes on.                           *)
sysNonblock(f, on) == f \in m_fds \/ on

setUserNonblock(t, f, on, sys) ==
    /\ enter(t, f, "user")
    /\ m_userNoBlock' = [m_userNoBlock EXCEPT ![f] = IF f \in m_fds THEN on ELSE @]
    /\ nonblock' = [nonblock EXCEPT ![f] = sys]
    /\ wanted' = [wanted EXCEPT ![f] = on]
    /\ UNCHANGED <<owner, registration, fdsSize, m_fds, contextsSize, inTable>>

fcntl(t, f, on) == setUserNonblock(t, f, on, sysNonblock(f, on))

(* ioctl(FIONBIO) passes on what it was given.                             *)
ioctl(t, f, on) == setUserNonblock(t, f, on, on)

(* What fcntl(F_GETFL) says of O_NONBLOCK.                                 *)
F_GETFL(f) == IF f \in m_fds THEN m_userNoBlock[f] ELSE nonblock[f]

-----------------------------------------------------------------------------
(* addEvent(): the size is tested under the read lock ...                  *)
addEvent(t, f) ==
    /\ f >= contextsSize => Cardinality({u \in Threads : pc[u] = "grow"}) < MaxGrowers
    /\ enter(t, f, IF f < contextsSize THEN "register" ELSE "grow")
    /\ inTable' = [inTable EXCEPT ![t] = TRUE]
    /\ UNCHANGED <<kernelVars, ctxVars, contextsSize, wanted>>

(* Mutation: the new size does not hold f.                                 *)
contextsSizeFor_Tight(f) == f

contextsSizeFor(f) == newSize(f)

(* ... and changed under the write lock: contextResize() drops what is     *)
(* behind the new size.                                                    *)
contextResize(t) ==
    /\ goto(t, "grow", "register")
    /\ contextsSize' = contextsSizeFor(fd[t])
    /\ registration' = [f \in Fds |->
            IF f >= contextsSize' /\ registration[f] = "known" THEN "lost" ELSE registration[f]]
    /\ inTable' = [u \in Threads |-> inTable[u] /\ fd[u] < contextsSize']
    /\ UNCHANGED <<owner, nonblock, ctxVars, wanted, fd>>

(* epoll_ctl: ADD of what is registered through a lost FdContext fails.    *)
register(t) ==
    /\ goto(t, "register", "user")
    /\ registration' = [registration EXCEPT ![fd[t]] =
            IF @ # "none" THEN @ ELSE IF inTable[t] THEN "known" ELSE "lost"]
    /\ UNCHANGED <<owner, nonblock, ctxVars, contextsSize, wanted, fd, inTable>>

(* cancelEvent() and delEvent(), when they find the event.                 *)
cancelEvent(t, f) ==
    /\ enter(t, f, "user")
    /\ f < contextsSize /\ registration[f] = "known"
    /\ registration' = [registration EXCEPT ![f] = "none"]
    /\ UNCHANGED <<owner, nonblock, ctxVars, contextsSize, wanted, inTable>>

(* The event occurs; idle() has the FdContext from the kernel.             *)
triggerEvent(f) ==
    /\ registration[f] # "none"
    /\ registration' = [registration EXCEPT ![f] = "none"]
    /\ UNCHANGED <<owner, nonblock, ctxVars, contextsSize, wanted, pc, fd, inTable>>

Next ==
    \/ \E t \in Threads :
          \/ socket_f(t) \/ get(t) \/ create(t)
          \/ delFd(t) \/ close_f(t)
          \/ contextResize(t) \/ register(t)
          \/ \E f \in Fds :
                \/ close(t, f)
                \/ \E on \in BOOLEAN : fcntl(t, f, on)
                \/ \E on \in IoctlValues : ioctl(t, f, on)
                \/ addEvent(t, f) \/ cancelEvent(t, f)
    \/ \E f \in Fds : triggerEvent(f)

Spec == Init /\ [][Next]_vars

-----------------------------------------------------------------------------
(* The program has the socket: socket() has returned and close() has not   *)
(* been called.                                                            *)
InUse(f) ==
    /\ f \in Open
    /\ fd[owner[f]] = f => pc[owner[f]] \notin {"get", "create", "delFd", "close_f"}

(* A hooked call on a socket never blocks its thread, and the program sees *)
(* the mode that it has set on this very socket, whatever closed and       *)
(* reopened the number and however the table has grown: there is an FdCtx, *)
(* it is not an earlier owner's, and the kernel's mode is non-blocking.    *)
SocketIsHooked ==
    \A f \in Fds : InUse(f) => f \in m_fds /\ nonblock[f] /\ F_GETFL(f) = wanted[f]

(* iomanager.h:49: cancelEvent() triggers and deletes the event that is    *)
(* registered: its FdContext is the one in the table.                      *)
EventIsKnown == \A f \in Fds : registration[f] # "lost"
=============================================================================
