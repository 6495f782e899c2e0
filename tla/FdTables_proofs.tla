--------------------------- MODULE FdTables_proofs ---------------------------
(***************************************************************************)
(* Theorems about FdTables for any number of threads, any largest          *)
(* descriptor and any initial sizes of the tables.                         *)
(***************************************************************************)
EXTENDS FdTables, NaturalsInduction, WellFoundedInduction, FiniteSetTheorems, TLAPS

(* Who is inside a call holds the descriptor; who is about to get an FdCtx *)
(* or has given it up finds none, and has set no mode on the new socket.   *)
CallHolds ==
    \A t \in Threads :
        /\ pc[t] # "user" => owner[fd[t]] = t
        /\ pc[t] \in {"get", "create", "close_f"} => fd[t] \notin m_fds
        /\ pc[t] \in {"get", "create"} => ~wanted[fd[t]]
        /\ pc[t] = "grow" => 2 <= fd[t]

(* FdManager keeps nothing of a closed descriptor, and does not shrink.    *)
ClosedIsForgotten == \A f \in Fds : f \notin Open => f \notin m_fds

Inv == TypeOK /\ 2 <= fdsSize /\ 2 <= contextsSize /\ CallHolds /\ ClosedIsForgotten

(* With one grower at a time the size that it has found too small is still *)
(* too small when it grows, so that what others have registered or hold is *)
(* kept.                                                                   *)
OneGrower ==
    /\ \A t, u \in Threads : pc[t] = "grow" /\ pc[u] = "grow" => t = u
    /\ \A t \in Threads :
          /\ pc[t] \in {"grow", "register"} => inTable[t]
          /\ pc[t] = "grow" => fd[t] >= contextsSize
          /\ pc[t] = "register" => fd[t] < contextsSize
    /\ \A f \in Fds : registration[f] = "known" => f < contextsSize

GrowerInv == OneGrower /\ EventIsKnown

-----------------------------------------------------------------------------
(* The kernel gives a number that nobody has.                              *)
LEMMA LowestFree ==
    ASSUME TypeOK, Open # Fds
    PROVE  Min(Fds \ Open) \in Fds /\ Min(Fds \ Open) \notin Open
<1> DEFINE S == Fds \ Open
           R == OpToRel(<, Nat)
<1>1. S # {} /\ S \subseteq Nat
  BY TablesAssumption DEF Open, Fds
<1> HIDE DEF S
<1>2. \A x, y \in S : <<y, x>> \in R <=> y < x
  BY <1>1 DEF OpToRel
<1>w. IsWellFoundedOn(R, Nat)
  BY NatLessThanWellFounded
<1> HIDE DEF R
<1>3. \E x \in S : \A y \in S : x <= y
  <2>1. PICK x \in S : \A y \in S : <<y, x>> \notin R
    BY <1>1, <1>w, WFMin
  <2>2. \A y \in S : x <= y
    <3> TAKE y \in S
    <3>1. x \in Nat /\ y \in Nat /\ ~(y < x)
      BY <1>1, <1>2, <2>1
    <3> QED
      BY <3>1
  <2> QED
    BY <2>2
<1>4. Min(S) \in S
  BY <1>3 DEF Min
<1> QED
  BY <1>4 DEF S

(* Both tables grow to hold the descriptor.                                *)
LEMMA NewSizeLemma ==
    ASSUME NEW f \in Fds
    PROVE  /\ f \in Nat /\ newSize(f) \in Nat
           /\ 2 <= f => f < newSize(f) /\ 2 <= newSize(f)
BY TablesAssumption DEF newSize, Fds

(* create() drops no FdCtx.                                                *)
LEMMA CreateLemma ==
    ASSUME TypeOK, 2 <= fdsSize, NEW t \in Threads, create(t)
    PROVE  /\ fdsSize' \in Nat /\ fdsSize <= fdsSize' /\ fd[t] < fdsSize'
           /\ m_fds' = m_fds \cup {fd[t]}
<1>1. fd[t] \in Fds /\ fd[t] \in Nat /\ fdsSize \in Nat
  BY NewSizeLemma DEF TypeOK
<1>2. /\ fdsSize' = IF fd[t] >= fdsSize THEN newSize(fd[t]) ELSE fdsSize
      /\ m_fds' = {f \in m_fds : f < fdsSize'} \cup {fd[t]}
  BY DEF create, fdsSizeFor
<1>3. fdsSize' \in Nat /\ fdsSize <= fdsSize' /\ fd[t] < fdsSize'
  <2>1. CASE fd[t] >= fdsSize
    <3>1. 2 <= fd[t]
      BY <1>1, <2>1
    <3>2. fd[t] < newSize(fd[t]) /\ newSize(fd[t]) \in Nat
      BY <1>1, <3>1, NewSizeLemma
    <3> QED
      BY <1>1, <1>2, <2>1, <3>2
  <2>2. CASE ~(fd[t] >= fdsSize)
    BY <1>1, <1>2, <2>2
  <2> QED
    BY <2>1, <2>2
<1>4. \A f \in m_fds : f < fdsSize'
  <2> TAKE f \in m_fds
  <2>1. f \in 0 .. fdsSize - 1
    BY DEF TypeOK
  <2> QED
    BY <1>1, <1>3, <2>1
<1> QED
  BY <1>2, <1>3, <1>4

(* Every action, for any number of growers and any ioctl().               *)
LEMMA NextInv ==
    ASSUME Inv, Next
    PROVE  Inv'
<1> USE TablesAssumption DEF Inv, TypeOK, CallHolds, ClosedIsForgotten, Open, Nobody
<1>0. Fds \subseteq Nat
  BY DEF Fds
<1>1. ASSUME NEW t \in Threads, socket_f(t)
      PROVE  Inv'
  <2>1. PICK n \in Fds :
              /\ n \notin Open /\ pc[t] = "user" /\ pc' = [pc EXCEPT ![t] = "get"]
              /\ fd' = [fd EXCEPT ![t] = n] /\ owner' = [owner EXCEPT ![n] = t]
              /\ nonblock' = [nonblock EXCEPT ![n] = FALSE]
              /\ wanted' = [wanted EXCEPT ![n] = FALSE]
              /\ UNCHANGED <<registration, ctxVars, contextsSize, inTable>>
    BY <1>1, LowestFree DEF socket_f, goto
  <2>2. TypeOK' /\ 2 <= fdsSize' /\ 2 <= contextsSize'
    BY <2>1 DEF ctxVars
  <2>3. CallHolds'
    BY <2>1 DEF ctxVars
  <2>4. ClosedIsForgotten'
    BY <2>1 DEF ctxVars
  <2> QED
    BY <2>2, <2>3, <2>4
<1>2. ASSUME NEW t \in Threads, get(t)
      PROVE  Inv'
  BY <1>0, <1>2 DEF get, goto, kernelVars, ctxVars
<1>3. ASSUME NEW t \in Threads, create(t)
      PROVE  Inv'
  <2>1. /\ fd[t] \in Fds /\ fdsSize' \in Nat /\ fdsSize <= fdsSize' /\ fd[t] < fdsSize'
        /\ m_fds' = m_fds \cup {fd[t]}
    BY <1>3, CreateLemma
  <2>2. pc[t] = "create" /\ pc' = [pc EXCEPT ![t] = "user"]
    BY <1>3 DEF create, goto
  <2>3. /\ m_userNoBlock' = [m_userNoBlock EXCEPT ![fd[t]] = FALSE]
        /\ nonblock' = [nonblock EXCEPT ![fd[t]] = TRUE]
        /\ UNCHANGED <<owner, registration, contextsSize, wanted, fd, inTable>>
    BY <1>3 DEF create
  <2>4. m_fds' \subseteq Fds \cap 0..(fdsSize' - 1)
    <3> SUFFICES ASSUME NEW f \in m_fds'
                 PROVE  f \in Fds /\ f \in Nat /\ f < fdsSize'
      BY <2>1
    <3>1. CASE f = fd[t]
      BY <1>0, <2>1, <3>1
    <3>2. CASE f \in m_fds
      <4>1. f \in Fds /\ f \in 0..(fdsSize - 1)
        BY <3>2
      <4> QED
        BY <1>0, <2>1, <4>1
    <3> QED
      BY <2>1, <3>1, <3>2
  <2>6. TypeOK' /\ 2 <= fdsSize' /\ 2 <= contextsSize'
    BY <2>1, <2>2, <2>3, <2>4
  <2>5. CallHolds' /\ ClosedIsForgotten'
    BY <2>1, <2>2, <2>3
  <2> QED
    BY <2>5, <2>6
<1>4. ASSUME NEW t \in Threads, delFd(t)
      PROVE  Inv'
  BY <1>0, <1>4 DEF delFd, goto, kernelVars
<1>5. ASSUME NEW t \in Threads, close_f(t)
      PROVE  Inv'
  BY <1>0, <1>5 DEF close_f, goto, ctxVars
<1>6. ASSUME NEW t \in Threads, contextResize(t)
      PROVE  Inv'
  BY <1>0, <1>6, NewSizeLemma DEF contextResize, contextsSizeFor, goto, ctxVars
<1>7. ASSUME NEW t \in Threads, register(t)
      PROVE  Inv'
  BY <1>0, <1>7 DEF register, goto, ctxVars
<1>8. ASSUME NEW t \in Threads, NEW f \in Fds, close(t, f)
      PROVE  Inv'
  BY <1>0, <1>8 DEF close, enter, goto, ctxVars
<1>9. ASSUME NEW t \in Threads, NEW f \in Fds, NEW on \in BOOLEAN, fcntl(t, f, on)
      PROVE  Inv'
  BY <1>0, <1>9 DEF fcntl, sysNonblock, setUserNonblock, enter, goto
<1>10. ASSUME NEW t \in Threads, NEW f \in Fds, NEW on \in IoctlValues, ioctl(t, f, on)
      PROVE  Inv'
  BY <1>0, <1>10 DEF ioctl, setUserNonblock, enter, goto
<1>11. ASSUME NEW t \in Threads, NEW f \in Fds, addEvent(t, f)
      PROVE  Inv'
  BY <1>0, <1>11 DEF addEvent, enter, goto, kernelVars, ctxVars
<1>12. ASSUME NEW t \in Threads, NEW f \in Fds, cancelEvent(t, f)
      PROVE  Inv'
  BY <1>0, <1>12 DEF cancelEvent, enter, goto, ctxVars
<1>13. ASSUME NEW f \in Fds, triggerEvent(f)
      PROVE  Inv'
  BY <1>0, <1>13 DEF triggerEvent, ctxVars
<1> HIDE TablesAssumption DEF Inv, TypeOK, CallHolds, ClosedIsForgotten, Open, Nobody
<1> QED
  BY <1>1, <1>2, <1>3, <1>4, <1>5, <1>6, <1>7, <1>8, <1>9, <1>10, <1>11, <1>12, <1>13 DEF Next

(* What a socket in use has.                                               *)
Hooked(f) == f \in m_fds /\ nonblock[f] /\ F_GETFL(f) = wanted[f]

(* Every action, if no blocking mode is passed on by ioctl().              *)
LEMMA NextHooked ==
    ASSUME IoctlValues \subseteq {TRUE}, Inv, SocketIsHooked, Next
    PROVE  SocketIsHooked'
<1> USE TablesAssumption DEF Inv, TypeOK, CallHolds, ClosedIsForgotten, Open, Nobody,
                             SocketIsHooked, InUse,
              Hooked, F_GETFL
<1>0. Fds \subseteq Nat
  BY DEF Fds
<1>1. ASSUME NEW t \in Threads, socket_f(t)
      PROVE  SocketIsHooked'
  <2>1. PICK n \in Fds :
              /\ n \notin Open /\ pc[t] = "user" /\ pc' = [pc EXCEPT ![t] = "get"]
              /\ fd' = [fd EXCEPT ![t] = n] /\ owner' = [owner EXCEPT ![n] = t]
              /\ nonblock' = [nonblock EXCEPT ![n] = FALSE]
              /\ wanted' = [wanted EXCEPT ![n] = FALSE]
              /\ UNCHANGED <<registration, ctxVars, contextsSize, inTable>>
    BY <1>1, LowestFree DEF socket_f, goto
  <2>2. ~InUse(n)'
    BY <2>1
  <2>3. ASSUME NEW f \in Fds, f # n, InUse(f)'
        PROVE  Hooked(f)'
    <3>1. InUse(f)
      BY <2>1, <2>3
    <3>2. Hooked(f)
      BY <3>1
    <3> QED
      BY <2>1, <2>3, <3>2 DEF ctxVars
  <2> QED
    BY <2>2, <2>3
<1>2. ASSUME NEW t \in Threads, get(t)
      PROVE  SocketIsHooked'
  BY <1>0, <1>2 DEF get, goto, kernelVars, ctxVars
<1>3. ASSUME NEW t \in Threads, create(t)
      PROVE  SocketIsHooked'
  <2>1. fd[t] \in Fds /\ m_fds' = m_fds \cup {fd[t]}
    BY <1>3, CreateLemma
  <2>2. /\ pc[t] = "create" /\ pc' = [pc EXCEPT ![t] = "user"]
        /\ m_userNoBlock' = [m_userNoBlock EXCEPT ![fd[t]] = FALSE]
        /\ nonblock' = [nonblock EXCEPT ![fd[t]] = TRUE]
        /\ UNCHANGED <<owner, registration, contextsSize, wanted, fd, inTable>>
    BY <1>3 DEF create, goto
  <2>3. Hooked(fd[t])'
    <3>1. wanted[fd[t]] = FALSE
      BY <2>1, <2>2
    <3>2. fd[t] \in m_fds' /\ nonblock'[fd[t]] = TRUE /\ m_userNoBlock'[fd[t]] = FALSE
      BY <2>1, <2>2
    <3> QED
      BY <2>2, <3>1, <3>2
  <2>4. ASSUME NEW f \in Fds, f # fd[t], InUse(f)'
        PROVE  Hooked(f)'
    <3>1. InUse(f)
      BY <2>2, <2>4
    <3>2. Hooked(f)
      BY <3>1
    <3> QED
      BY <2>1, <2>2, <2>4, <3>2
  <2>5. fd' = fd
    BY <2>2
  <2> QED
    BY <2>3, <2>4, <2>5
<1>4. ASSUME NEW t \in Threads, delFd(t)
      PROVE  SocketIsHooked'
  BY <1>0, <1>4 DEF delFd, goto, kernelVars
<1>5. ASSUME NEW t \in Threads, close_f(t)
      PROVE  SocketIsHooked'
  BY <1>0, <1>5 DEF close_f, goto, ctxVars
<1>6. ASSUME NEW t \in Threads, contextResize(t)
      PROVE  SocketIsHooked'
  BY <1>0, <1>6 DEF contextResize, contextsSizeFor, goto, ctxVars
<1>7. ASSUME NEW t \in Threads, register(t)
      PROVE  SocketIsHooked'
  BY <1>0, <1>7 DEF register, goto, ctxVars
<1>8. ASSUME NEW t \in Threads, NEW f \in Fds, close(t, f)
      PROVE  SocketIsHooked'
  BY <1>0, <1>8 DEF close, enter, goto, ctxVars
<1>9. ASSUME NEW t \in Threads, NEW f \in Fds, NEW on \in BOOLEAN, fcntl(t, f, on)
      PROVE  SocketIsHooked'
  BY <1>0, <1>9 DEF fcntl, sysNonblock, setUserNonblock, enter, goto
<1>10. ASSUME NEW t \in Threads, NEW f \in Fds, NEW on \in IoctlValues, ioctl(t, f, on)
      PROVE  SocketIsHooked'
  <2>1. on = TRUE
    OBVIOUS
  <2>2. /\ nonblock' = [nonblock EXCEPT ![f] = TRUE]
        /\ m_userNoBlock' = [m_userNoBlock EXCEPT ![f] = IF f \in m_fds THEN TRUE ELSE @]
        /\ wanted' = [wanted EXCEPT ![f] = TRUE]
        /\ pc' = pc /\ owner[f] = t /\ pc[t] = "user" /\ fd' = [fd EXCEPT ![t] = f]
        /\ UNCHANGED <<owner, m_fds>>
    BY <1>10, <2>1 DEF ioctl, setUserNonblock, enter, goto
  <2>3. ASSUME NEW g \in Fds, InUse(g)'
        PROVE  Hooked(g)'
    <3>1. InUse(g)
      BY <2>2, <2>3
    <3>2. Hooked(g)
      BY <3>1
    <3>3. CASE g = f
      <4>1. g \in m_fds /\ m_userNoBlock'[g] = TRUE /\ nonblock'[g] = TRUE /\ wanted'[g] = TRUE
        BY <2>2, <3>2, <3>3
      <4> QED
        BY <2>2, <4>1
    <3>4. CASE g # f
      BY <2>2, <3>2, <3>4
    <3> QED
      BY <3>3, <3>4
  <2> QED
    BY <2>3
<1>11. ASSUME NEW t \in Threads, NEW f \in Fds, addEvent(t, f)
      PROVE  SocketIsHooked'
  BY <1>0, <1>11 DEF addEvent, enter, goto, kernelVars, ctxVars
<1>12. ASSUME NEW t \in Threads, NEW f \in Fds, cancelEvent(t, f)
      PROVE  SocketIsHooked'
  BY <1>0, <1>12 DEF cancelEvent, enter, goto, ctxVars
<1>13. ASSUME NEW f \in Fds, triggerEvent(f)
      PROVE  SocketIsHooked'
  BY <1>0, <1>13 DEF triggerEvent, ctxVars
<1> HIDE TablesAssumption DEF Inv, TypeOK, CallHolds, ClosedIsForgotten, Open, Nobody,
                              SocketIsHooked, InUse,
              Hooked, F_GETFL
<1> QED
  BY <1>1, <1>2, <1>3, <1>4, <1>5, <1>6, <1>7, <1>8, <1>9, <1>10, <1>11, <1>12, <1>13 DEF Next

(* The guard of addEvent(): nobody is growing the table.                   *)
LEMMA GrowLemma ==
    ASSUME MaxGrowers <= 1, \A t, u \in Threads : pc[t] = "grow" /\ pc[u] = "grow" => t = u,
           Cardinality({u \in Threads : pc[u] = "grow"}) < MaxGrowers
    PROVE  \A u \in Threads : pc[u] # "grow"
<1> DEFINE G == {u \in Threads : pc[u] = "grow"}
<1>1. ASSUME NEW t \in Threads, pc[t] = "grow"
      PROVE  FALSE
  <2>1. G = {t}
    BY <1>1
  <2>2. Cardinality(G) = 1
    BY <2>1, FS_Singleton
  <2>3. Cardinality(G) < MaxGrowers
    OBVIOUS
  <2> HIDE DEF G
  <2> QED
    BY <2>2, <2>3, TablesAssumption
<1> QED
  BY <1>1

(* Every action, if one call at a time grows the table.                    *)
LEMMA NextGrower ==
    ASSUME MaxGrowers <= 1, Inv, GrowerInv, Next
    PROVE  GrowerInv'
<1> USE TablesAssumption DEF Inv, TypeOK, CallHolds, GrowerInv, OneGrower, EventIsKnown
<1>0. Fds \subseteq Nat
  BY DEF Fds
<1>1. ASSUME NEW t \in Threads, socket_f(t)
      PROVE  GrowerInv'
  BY <1>0, <1>1 DEF socket_f, goto, ctxVars
<1>2. ASSUME NEW t \in Threads, get(t)
      PROVE  GrowerInv'
  BY <1>0, <1>2 DEF get, goto, kernelVars, ctxVars
<1>3. ASSUME NEW t \in Threads, create(t)
      PROVE  GrowerInv'
  BY <1>0, <1>3 DEF create, fdsSizeFor, goto
<1>4. ASSUME NEW t \in Threads, delFd(t)
      PROVE  GrowerInv'
  BY <1>0, <1>4 DEF delFd, goto, kernelVars
<1>5. ASSUME NEW t \in Threads, close_f(t)
      PROVE  GrowerInv'
  BY <1>0, <1>5 DEF close_f, goto, ctxVars
<1>6. ASSUME NEW t \in Threads, contextResize(t)
      PROVE  GrowerInv'
  <2>1. /\ pc[t] = "grow" /\ fd[t] >= contextsSize /\ 2 <= fd[t]
        /\ contextsSize' = newSize(fd[t])
    BY <1>0, <1>6 DEF contextResize, contextsSizeFor, goto
  <2>2. contextsSize' \in Nat /\ fd[t] < contextsSize' /\ contextsSize < contextsSize'
    <3>1. fd[t] \in Fds /\ fd[t] \in Nat /\ contextsSize \in Nat
      BY <1>0
    <3>2. newSize(fd[t]) \in Nat /\ fd[t] < newSize(fd[t])
      BY <2>1, <3>1, NewSizeLemma
    <3> QED
      BY <2>1, <3>1, <3>2
  <2>3. /\ pc' = [pc EXCEPT ![t] = "register"]
        /\ registration' = [f \in Fds |->
                IF f >= contextsSize' /\ registration[f] = "known" THEN "lost"
                ELSE registration[f]]
        /\ inTable' = [u \in Threads |-> inTable[u] /\ fd[u] < contextsSize']
        /\ UNCHANGED fd
    BY <1>6 DEF contextResize, goto
  <2>4. \A f \in Fds : registration'[f] = registration[f]
    <3> TAKE f \in Fds
    <3>1. registration[f] = "known" => f < contextsSize /\ f \in Nat
      BY <1>0
    <3> QED
      BY <2>2, <2>3, <3>1
  <2>5. \A u \in Threads : pc[u] = "register" => inTable'[u] /\ fd[u] < contextsSize'
    <3> TAKE u \in Threads
    <3>1. pc[u] = "register" => inTable[u] /\ fd[u] < contextsSize /\ fd[u] \in Nat
      BY <1>0
    <3> QED
      BY <2>2, <2>3, <3>1
  <2>6. \A u \in Threads : pc'[u] = "grow" => FALSE
    BY <2>1, <2>3
  <2>7. inTable'[t] /\ fd[t] < contextsSize'
    BY <2>1, <2>2, <2>3
  <2>8. EventIsKnown' /\ \A f \in Fds : registration'[f] = "known" => f < contextsSize'
    <3>1. \A f \in Fds : registration[f] = "known" => f < contextsSize /\ f \in Nat
      BY <1>0
    <3> QED
      BY <2>2, <2>4, <3>1
  <2> QED
    BY <2>3, <2>5, <2>6, <2>7, <2>8
<1>7. ASSUME NEW t \in Threads, register(t)
      PROVE  GrowerInv'
  BY <1>0, <1>7 DEF register, goto, ctxVars
<1>8. ASSUME NEW t \in Threads, NEW f \in Fds, close(t, f)
      PROVE  GrowerInv'
  BY <1>0, <1>8 DEF close, enter, goto, ctxVars
<1>9. ASSUME NEW t \in Threads, NEW f \in Fds, NEW on \in BOOLEAN, fcntl(t, f, on)
      PROVE  GrowerInv'
  BY <1>0, <1>9 DEF fcntl, sysNonblock, setUserNonblock, enter, goto
<1>10. ASSUME NEW t \in Threads, NEW f \in Fds, NEW on \in IoctlValues, ioctl(t, f, on)
      PROVE  GrowerInv'
  BY <1>0, <1>10 DEF ioctl, setUserNonblock, enter, goto
<1>11. ASSUME NEW t \in Threads, NEW f \in Fds, addEvent(t, f)
      PROVE  GrowerInv'
  <2>1. f >= contextsSize => \A u \in Threads : pc[u] # "grow"
    BY <1>11, GrowLemma DEF addEvent
  <2> QED
    BY <1>0, <1>11, <2>1 DEF addEvent, enter, goto, kernelVars, ctxVars
<1>12. ASSUME NEW t \in Threads, NEW f \in Fds, cancelEvent(t, f)
      PROVE  GrowerInv'
  BY <1>0, <1>12 DEF cancelEvent, enter, goto, ctxVars
<1>13. ASSUME NEW f \in Fds, triggerEvent(f)
      PROVE  GrowerInv'
  BY <1>0, <1>13 DEF triggerEvent, ctxVars
<1> HIDE TablesAssumption DEF Inv, TypeOK, CallHolds, GrowerInv, OneGrower, EventIsKnown
<1> QED
  BY <1>1, <1>2, <1>3, <1>4, <1>5, <1>6, <1>7, <1>8, <1>9, <1>10, <1>11, <1>12, <1>13 DEF Next

-----------------------------------------------------------------------------
LEMMA InitInv == Init => Inv /\ SocketIsHooked /\ GrowerInv
<1> SUFFICES ASSUME Init
             PROVE  Inv /\ SocketIsHooked /\ GrowerInv
  OBVIOUS
<1>1. TypeOK
  BY TablesAssumption DEF Init, TypeOK, Fds
<1>2. 2 <= fdsSize /\ 2 <= contextsSize /\ CallHolds /\ ClosedIsForgotten
  BY TablesAssumption DEF Init, CallHolds, ClosedIsForgotten
<1>3. SocketIsHooked
  BY DEF Init, SocketIsHooked, InUse, Open
<1>4. GrowerInv
  BY DEF Init, GrowerInv, OneGrower, EventIsKnown
<1> QED
  BY <1>1, <1>2, <1>3, <1>4 DEF Inv

LEMMA StutterInv ==
    ASSUME UNCHANGED vars
    PROVE  /\ Inv => Inv'
           /\ SocketIsHooked => SocketIsHooked'
           /\ GrowerInv => GrowerInv'
<1> USE DEF vars, kernelVars, ctxVars
<1>1. Inv => Inv'
  BY DEF Inv, TypeOK, CallHolds, ClosedIsForgotten, Open
<1>2. SocketIsHooked => SocketIsHooked'
  BY DEF SocketIsHooked, InUse, Open, F_GETFL
<1>3. GrowerInv => GrowerInv'
  BY DEF GrowerInv, OneGrower, EventIsKnown
<1> QED
  BY <1>1, <1>2, <1>3

(* A call has its descriptor for itself from socket() to close_f(), and    *)
(* FdManager forgets a descriptor before the kernel gives its number away. *)
THEOREM Invariance == Spec => []Inv
<1>1. Inv /\ [Next]_vars => Inv'
  BY NextInv, StutterInv
<1> QED
  BY InitInv, <1>1, PTL DEF Spec

(* The variables keep their types; no FdCtx lies outside of the table.     *)
THEOREM TypeCorrect == Spec => []TypeOK
<1>1. Inv => TypeOK
  BY DEF Inv
<1> QED
  BY Invariance, <1>1, PTL

(* Every socket in use has its own FdCtx, is non-blocking in the kernel and*)
(* shows the program the mode that it has set, if ioctl(FIONBIO) is not    *)
(* called with 0 (which the code passes on: the mode in the kernel is then *)
(* blocking).                                                              *)
THEOREM SocketsAreHooked ==
    ASSUME IoctlValues \subseteq {TRUE}
    PROVE  Spec => []SocketIsHooked
<1>1. Inv /\ SocketIsHooked /\ [Next]_vars => SocketIsHooked'
  BY NextHooked, StutterInv
<1> QED
  BY Invariance, InitInv, <1>1, PTL DEF Spec

(* No registered FdContext falls out of the table, if at most one call of  *)
(* addEvent() is between its two looks at the size of the table.           *)
THEOREM EventsAreKnown ==
    ASSUME MaxGrowers <= 1
    PROVE  Spec => []EventIsKnown
<1>1. Inv /\ GrowerInv /\ [Next]_vars => GrowerInv'
  BY NextGrower, StutterInv
<1>2. GrowerInv => EventIsKnown
  BY DEF GrowerInv
<1> QED
  BY Invariance, InitInv, <1>1, <1>2, PTL DEF Spec
==============================================================================
