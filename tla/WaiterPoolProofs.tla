-------------------------- MODULE WaiterPoolProofs --------------------------
(***************************************************************************)
(* Theorems about the notification based connection pool of WaiterPool,     *)
(* for any clients, any number of slots, any timeout and any limits: types, *)
(* slot accounting, the deque of waiters, wake-ups, the replacement of      *)
(* connections, and that WaiterPool implements the safety part of ConnPool. *)
(***************************************************************************)
EXTENDS WaiterPool, FiniteSetTheorems, SequenceTheorems, TLAPS

(* Dropping the entries of the deque up to position k leaves a deque with    *)
(* the later entries in the same order (popFirst in wakeOnePoolWaiter).      *)
LEMMA DropUpTo ==
  ASSUME NEW S, NEW s \in Seq(S), NEW k \in 1 .. Len(s)
  PROVE  /\ SubSeq(s, k + 1, Len(s)) \in Seq(S)
         /\ Len(SubSeq(s, k + 1, Len(s))) = Len(s) - k
         /\ \A i \in 1 .. Len(s) - k : SubSeq(s, k + 1, Len(s))[i] = s[i + k]
<1>1. /\ Len(s) \in Nat
      /\ \A i \in k + 1 .. Len(s) : s[i] \in S
  BY LenProperties, ElementOfSeq
<1> QED
  BY <1>1, SubSeqProperties

(* Removing position k of the deque keeps every other entry, in order        *)
(* (removePoolWaiter).                                                       *)
LEMMA RemovePosition ==
  ASSUME NEW S, NEW s \in Seq(S), NEW k \in 1 .. Len(s)
  PROVE  LET r == SubSeq(s, 1, k - 1) \o SubSeq(s, k + 1, Len(s))
         IN  /\ r \in Seq(S)
             /\ Len(r) = Len(s) - 1
             /\ \A i \in 1 .. Len(s) - 1 : r[i] = s[IF i < k THEN i ELSE i + 1]
<1> DEFINE front == SubSeq(s, 1, k - 1)
           back  == SubSeq(s, k + 1, Len(s))
<1>1. /\ Len(s) \in Nat
      /\ \A i \in 1 .. k - 1 : s[i] \in S
  BY LenProperties, ElementOfSeq
<1>2. /\ front \in Seq(S)
      /\ Len(front) = k - 1
      /\ \A i \in 1 .. k - 1 : front[i] = s[i]
  BY <1>1, SubSeqProperties
<1>3. /\ back \in Seq(S)
      /\ Len(back) = Len(s) - k
      /\ \A i \in 1 .. Len(s) - k : back[i] = s[i + k]
  BY DropUpTo
<1>4. /\ front \o back \in Seq(S)
      /\ Len(front \o back) = Len(s) - 1
      /\ \A i \in 1 .. Len(s) - 1 : (front \o back)[i] =
             IF i <= k - 1 THEN front[i] ELSE back[i - (k - 1)]
  <2> HIDE DEF front, back
  <2>1. Len(front) + Len(back) = Len(s) - 1
    BY <1>1, <1>2, <1>3
  <2>2. /\ front \o back \in Seq(S)
        /\ Len(front \o back) = Len(front) + Len(back)
        /\ \A i \in 1 .. Len(front) + Len(back) : (front \o back)[i] =
               IF i <= Len(front) THEN front[i] ELSE back[i - Len(front)]
    BY <1>2, <1>3, ConcatProperties
  <2>3. Len(front) = k - 1
    BY <1>2
  <2> QED  BY <2>1, <2>2, <2>3
<1>5. ASSUME NEW i \in 1 .. Len(s) - 1
      PROVE  (front \o back)[i] = s[IF i < k THEN i ELSE i + 1]
  <2> HIDE DEF front, back
  <2>1. CASE i < k
    BY <2>1, <1>1, <1>2, <1>4
  <2>2. CASE ~(i < k)
    BY <2>2, <1>1, <1>3, <1>4
  <2> QED  BY <2>1, <2>2
<1> QED
  BY <1>4, <1>5

-----------------------------------------------------------------------------
(* Type correctness *)

(* dbOpen leaves every variable with its type. *)
LEMMA InitTypeOK == Init => TypeOK
BY NumConnsAssumption, MaxCallsAssumption, EmptySeq
   DEF Init, TypeOK, Conns, NoConn, Phases

(* The part of TypeOK that getFreeConn and returnConn share in all drivers,  *)
(* whatever their deques hold.                                               *)
SlotTypes == /\ busy \in [Conns -> BOOLEAN]
             /\ overdue \in [Conns -> SUBSET Limits]
             /\ pc \in [Clients -> Phases]
             /\ conn \in [Clients -> Conns \cup {NoConn}]

LEMMA TypeOKSlotTypes == TypeOK => SlotTypes
BY DEF TypeOK, SlotTypes

(* What one turn of the loop of getFreeConn leaves behind. *)
LEMMA ScanTypes ==
  ASSUME SlotTypes, NEW W, waiters \in Seq(W),
         NEW c \in Clients, c \in W, NEW p, Scan(c, p)
  PROVE  SlotTypes' /\ waiters' \in Seq(W)
<1> USE DEF SlotTypes, Phases
<1>1. CASE Take(c)
  BY <1>1 DEF Take, RefreshIfExpired
<1>2. CASE NoneFree /\ p /\ pc' = [pc EXCEPT ![c] = "out"]
           /\ UNCHANGED <<busy, overdue, waiters, conn>>
  BY <1>2
<1>3. CASE /\ waiters' = Append(waiters, c)
           /\ pc' = [pc EXCEPT ![c] = "wait"]
           /\ UNCHANGED <<busy, overdue, conn>>
  BY <1>3
<1> QED
  BY <1>1, <1>2, <1>3 DEF Scan

(* wakeOnePoolWaiter keeps the deque and the completed Futures well typed.   *)
LEMMA WakeTypes ==
  ASSUME TypeOK, WakeOnePoolWaiter
  PROVE  waiters' \in Seq(Clients) /\ done' \subseteq Clients
<1>1. ASSUME NEW k \in DOMAIN waiters,
             waiters' = SubSeq(waiters, k + 1, Len(waiters)),
             done' = done \cup {waiters[k]}
      PROVE  waiters' \in Seq(Clients) /\ done' \subseteq Clients
  <2>1. k \in 1 .. Len(waiters) /\ waiters[k] \in Clients
    BY LenProperties, ElementOfSeq DEF TypeOK
  <2> QED  BY <1>1, <2>1, DropUpTo DEF TypeOK
<1>2. CASE waiters' = <<>> /\ UNCHANGED done
  BY <1>2, EmptySeq DEF TypeOK
<1> QED
  BY <1>1, <1>2 DEF WakeOnePoolWaiter

(* Every step keeps every variable in its type. *)
LEMMA NextTypeOK == TypeOK /\ [Next]_vars => TypeOK'
<1> SUFFICES ASSUME TypeOK, [Next]_vars PROVE TypeOK'
  OBVIOUS
<1>1. ASSUME NEW c \in Clients, Call(c) PROVE TypeOK'
  <2>1. Scan(c, timeout = "zero")
    BY <1>1 DEF Call
  <2>2. calls' \in [Clients -> 0 .. MaxCalls] /\ late' \in [Clients -> BOOLEAN]
    BY <1>1, MaxCallsAssumption DEF Call, TypeOK
  <2>3. SlotTypes' /\ waiters' \in Seq(Clients)
    BY <2>1, ScanTypes, TypeOKSlotTypes DEF TypeOK
  <2> QED  BY <1>1, <2>2, <2>3 DEF Call, TypeOK, SlotTypes
<1>2. ASSUME NEW c \in Clients, SignalCallback(c) PROVE TypeOK'
  BY <1>2 DEF SignalCallback, TypeOK, Phases
<1>3. ASSUME NEW c \in Clients, TimerCallback(c) PROVE TypeOK'
  BY <1>3 DEF TimerCallback, TypeOK, Phases
<1>4. ASSUME NEW c \in Clients, ResumeSignalled(c) PROVE TypeOK'
  <2>1. Scan(c, late[c])
    BY <1>4 DEF ResumeSignalled
  <2>2. SlotTypes' /\ waiters' \in Seq(Clients)
    BY <2>1, ScanTypes, TypeOKSlotTypes DEF TypeOK
  <2> QED  BY <1>4, <2>2 DEF ResumeSignalled, TypeOK, SlotTypes
<1>5. ASSUME NEW c \in Clients, ResumeTimedOut(c) PROVE TypeOK'
  <2>1. waiters' \in Seq(Clients)
    <3>1. CASE UNCHANGED waiters
      BY <3>1 DEF TypeOK
    <3>2. ASSUME NEW k \in DOMAIN waiters,
                 waiters' = SubSeq(waiters, 1, k - 1)
                              \o SubSeq(waiters, k + 1, Len(waiters))
          PROVE  waiters' \in Seq(Clients)
      <4>1. k \in 1 .. Len(waiters)
        BY LenProperties DEF TypeOK
      <4> QED  BY <3>2, <4>1, RemovePosition DEF TypeOK
    <3> QED  BY <1>5, <3>1, <3>2 DEF ResumeTimedOut, RemovePoolWaiter
  <2> QED  BY <1>5, <2>1 DEF ResumeTimedOut, TypeOK, Phases
<1>6. ASSUME NEW c \in Clients, Return(c) PROVE TypeOK'
  <2>1. WakeOnePoolWaiter
    BY <1>6 DEF Return
  <2>2. /\ busy' \in [Conns -> BOOLEAN]
        /\ overdue' \in [Conns -> SUBSET Limits]
    BY <1>6 DEF Return, TypeOK
  <2> QED  BY <1>6, <2>1, <2>2, WakeTypes DEF Return, TypeOK, Phases
<1>7. ASSUME NEW c \in Clients, DeadlinePasses(c) PROVE TypeOK'
  BY <1>7 DEF DeadlinePasses, TypeOK
<1>8. ASSUME NEW i \in Conns, LimitPasses(i) PROVE TypeOK'
  <2>1. PICK l \in Limits : overdue' = [overdue EXCEPT ![i] = @ \cup {l}]
    BY <1>8 DEF LimitPasses
  <2> QED  BY <1>8, <2>1 DEF LimitPasses, TypeOK
<1>9. CASE UNCHANGED vars
  BY <1>9 DEF vars, TypeOK
<1> QED
  BY <1>1, <1>2, <1>3, <1>4, <1>5, <1>6, <1>7, <1>8, <1>9 DEF Next, Finished

(* Every variable keeps its type, for all values of the constants. *)
THEOREM TypeCorrect == Spec => []TypeOK
BY InitTypeOK, NextTypeOK, PTL DEF Spec

-----------------------------------------------------------------------------
(* Slot accounting.  Together with TypeOK it is inductive: a slot is taken   *)
(* only when isBusy is false, hence when nobody has it, and given back only  *)
(* by the client that has it.                                                *)

(* At the start no slot is busy and nobody has one. *)
LEMMA InitSlotAccounting == Init => SlotAccounting
BY DEF Init, SlotAccounting, NoConn, Conns

(* A client that has no slot keeps the accounts right through a scan. *)
LEMMA ScanSlotAccounting ==
  ASSUME SlotTypes, SlotAccounting,
         NEW c \in Clients, NEW p, pc[c] # "using", Scan(c, p)
  PROVE  SlotAccounting'
<1>1. \A i \in Conns : i # NoConn
  BY DEF Conns, NoConn
<1>2. conn[c] = NoConn
  BY DEF SlotAccounting
<1>3. CASE Take(c)
  <2>1. PICK i \in Conns : /\ FirstFree(i)
                          /\ busy' = [busy EXCEPT ![i] = TRUE]
                          /\ conn' = [conn EXCEPT ![c] = i]
                          /\ pc' = [pc EXCEPT ![c] = "using"]
    BY <1>3 DEF Take
  <2>2. \A d \in Clients : conn[d] # i
    BY <2>1 DEF FirstFree, SlotAccounting
  <2>3. \A d \in Clients : conn'[d] = IF d = c THEN i ELSE conn[d]
    BY <2>1 DEF SlotTypes
  <2>4. \A d \in Clients : pc'[d] = IF d = c THEN "using" ELSE pc[d]
    BY <2>1 DEF SlotTypes
  <2>5. \A j \in Conns : busy'[j] = (IF j = i THEN TRUE ELSE busy[j])
    BY <2>1 DEF SlotTypes
  <2>6. \A d \in Clients : conn'[d] = NoConn <=> pc'[d] # "using"
    BY <1>1, <2>1, <2>3, <2>4 DEF SlotAccounting
  <2>7. \A d, e \in Clients : conn'[d] = conn'[e] /\ conn'[d] # NoConn => d = e
    BY <2>2, <2>3 DEF SlotAccounting
  <2>8. \A j \in Conns : busy'[j] <=> \E d \in Clients : conn'[d] = j
    <3>1. ASSUME NEW j \in Conns, j # i
          PROVE  busy'[j] <=> \E d \in Clients : conn'[d] = j
      <4>1. busy'[j] = busy[j]
        BY <2>5, <3>1
      <4>2. \A d \in Clients : conn'[d] = j <=> conn[d] = j
        BY <1>1, <1>2, <2>3, <3>1
      <4> QED  BY <4>1, <4>2 DEF SlotAccounting
    <3>2. busy'[i] /\ conn'[c] = i
      BY <2>3, <2>5
    <3> QED  BY <3>1, <3>2
  <2> QED  BY <2>6, <2>7, <2>8 DEF SlotAccounting, NoConn, Conns
<1>4. CASE UNCHANGED <<busy, conn>> /\ (\/ pc' = [pc EXCEPT ![c] = "out"]
                                       \/ pc' = [pc EXCEPT ![c] = "wait"])
  <2>1. \A d \in Clients : pc'[d] # "using" <=> pc[d] # "using"
    BY <1>4 DEF SlotTypes
  <2> QED  BY <1>4, <2>1 DEF SlotAccounting, NoConn, Conns
<1> QED
  BY <1>3, <1>4 DEF Scan

(* A step that moves one client without slot and leaves the slots alone. *)
LEMMA MoveSlotAccounting ==
  ASSUME SlotTypes, SlotAccounting,
         NEW c \in Clients, NEW where, pc[c] # "using", where # "using",
         pc' = [pc EXCEPT ![c] = where], UNCHANGED <<busy, conn>>
  PROVE  SlotAccounting'
<1>1. \A d \in Clients : pc'[d] # "using" <=> pc[d] # "using"
  BY DEF SlotTypes
<1> QED  BY <1>1 DEF SlotAccounting, NoConn, Conns

(* What returnConn does with the slot, whatever it does with the deque. *)
GivesBack(c) == /\ pc[c] = "using"
                /\ busy' = [busy EXCEPT ![conn[c]] = FALSE]
                /\ conn' = [conn EXCEPT ![c] = NoConn]
                /\ pc' = [pc EXCEPT ![c] = "out"]

(* returnConn frees the slot of its borrower and no other. *)
LEMMA ReturnSlotAccounting ==
  ASSUME SlotTypes, SlotAccounting, NEW c \in Clients, GivesBack(c)
  PROVE  SlotAccounting'
<1> DEFINE i == conn[c]
<1>1. pc[c] = "using" /\ i \in Conns /\ i # NoConn
  BY DEF GivesBack, SlotAccounting, SlotTypes
<1>2. \A d \in Clients : conn'[d] = IF d = c THEN NoConn ELSE conn[d]
  BY DEF GivesBack, SlotTypes
<1>3. \A d \in Clients : pc'[d] = IF d = c THEN "out" ELSE pc[d]
  BY DEF GivesBack, SlotTypes
<1>4. \A j \in Conns : busy'[j] = (IF j = i THEN FALSE ELSE busy[j])
  BY <1>1 DEF GivesBack, SlotTypes
<1>5. \A d \in Clients \ {c} : conn[d] # i
  BY <1>1 DEF SlotAccounting
<1>6. \A d \in Clients : conn'[d] = NoConn <=> pc'[d] # "using"
  BY <1>2, <1>3 DEF SlotAccounting
<1>7. \A d, e \in Clients : conn'[d] = conn'[e] /\ conn'[d] # NoConn => d = e
  BY <1>2 DEF SlotAccounting
<1>8. \A j \in Conns : busy'[j] <=> \E d \in Clients : conn'[d] = j
  <2>1. NoConn \notin Conns
    BY DEF NoConn, Conns
  <2>2. ~busy'[i] /\ \A d \in Clients : conn'[d] # i
    BY <1>1, <1>2, <1>4, <1>5
  <2>3. ASSUME NEW j \in Conns, j # i
        PROVE  busy'[j] <=> \E d \in Clients : conn'[d] = j
    BY <1>2, <1>4, <2>1, <2>3 DEF SlotAccounting
  <2> QED  BY <2>2, <2>3
<1> QED
  BY <1>6, <1>7, <1>8 DEF SlotAccounting, NoConn, Conns

(* Every step keeps the accounts right. *)
LEMMA NextSlotAccounting ==
  TypeOK /\ SlotAccounting /\ [Next]_vars => SlotAccounting'
<1> SUFFICES ASSUME TypeOK, SlotAccounting, [Next]_vars PROVE SlotAccounting'
  OBVIOUS
<1>1. ASSUME NEW c \in Clients, Call(c) PROVE SlotAccounting'
  BY <1>1, ScanSlotAccounting, TypeOKSlotTypes DEF Call
<1>2. ASSUME NEW c \in Clients, SignalCallback(c) PROVE SlotAccounting'
  BY <1>2, MoveSlotAccounting, TypeOKSlotTypes DEF SignalCallback
<1>3. ASSUME NEW c \in Clients, TimerCallback(c) PROVE SlotAccounting'
  BY <1>3, MoveSlotAccounting, TypeOKSlotTypes DEF TimerCallback
<1>4. ASSUME NEW c \in Clients, ResumeSignalled(c) PROVE SlotAccounting'
  BY <1>4, ScanSlotAccounting, TypeOKSlotTypes DEF ResumeSignalled
<1>5. ASSUME NEW c \in Clients, ResumeTimedOut(c) PROVE SlotAccounting'
  BY <1>5, MoveSlotAccounting, TypeOKSlotTypes DEF ResumeTimedOut
<1>6. ASSUME NEW c \in Clients, Return(c) PROVE SlotAccounting'
  BY <1>6, ReturnSlotAccounting, TypeOKSlotTypes DEF Return, GivesBack
<1>7. ASSUME NEW c \in Clients, DeadlinePasses(c) PROVE SlotAccounting'
  BY <1>7 DEF DeadlinePasses, SlotAccounting, NoConn, Conns
<1>8. ASSUME NEW i \in Conns, LimitPasses(i) PROVE SlotAccounting'
  BY <1>8 DEF LimitPasses, SlotAccounting, NoConn, Conns
<1>9. CASE UNCHANGED vars
  BY <1>9 DEF vars, SlotAccounting, NoConn, Conns
<1> QED
  BY <1>1, <1>2, <1>3, <1>4, <1>5, <1>6, <1>7, <1>8, <1>9 DEF Next, Finished

(* No two coroutines ever share a pooled connection, a coroutine between     *)
(* getFreeConn and returnConn has exactly one, and isBusy marks exactly the  *)
(* lent slots: none is lost and none is lent twice.                          *)
THEOREM SlotsAccounted == Spec => []SlotAccounting
<1>1. Init => TypeOK /\ SlotAccounting
  BY InitTypeOK, InitSlotAccounting
<1>2. TypeOK /\ SlotAccounting /\ [Next]_vars => TypeOK' /\ SlotAccounting'
  BY NextTypeOK, NextSlotAccounting
<1> QED
  BY <1>1, <1>2, PTL DEF Spec

-----------------------------------------------------------------------------
(* Replacement of connections, the deque and its wake-ups *)

(* The action of NotReplacedWhileBorrowed. *)
KeepsBorrowed ==
  \A i \in Conns : busy[i] /\ busy'[i] => overdue[i] \subseteq overdue'[i]

(* Only a scan reconnects, and the slot it stops at is not busy; only        *)
(* returnConn restarts a clock of a busy slot, which is busy no longer.      *)
LEMMA NextKeepsBorrowed == TypeOK /\ [Next]_vars => KeepsBorrowed
<1> SUFFICES ASSUME TypeOK, [Next]_vars, NEW i \in Conns, busy[i], busy'[i]
             PROVE  overdue[i] \subseteq overdue'[i]
  BY DEF KeepsBorrowed
<1>1. ASSUME NEW c \in Clients, NEW p, Scan(c, p)
      PROVE  overdue[i] \subseteq overdue'[i]
  <2>1. CASE Take(c)
    <3>1. PICK j \in Conns : FirstFree(j) /\ RefreshIfExpired(j)
      BY <2>1 DEF Take
    <3>2. j # i
      BY <3>1 DEF FirstFree
    <3> QED  BY <3>1, <3>2 DEF RefreshIfExpired, TypeOK
  <2>2. CASE UNCHANGED overdue
    BY <2>2
  <2> QED  BY <1>1, <2>1, <2>2 DEF Scan
<1>2. ASSUME NEW c \in Clients, Return(c)
      PROVE  overdue[i] \subseteq overdue'[i]
  <2>1. conn[c] # i
    BY <1>2 DEF Return, TypeOK
  <2> QED  BY <1>2, <2>1 DEF Return, TypeOK
<1>3. ASSUME NEW j \in Conns, LimitPasses(j)
      PROVE  overdue[i] \subseteq overdue'[i]
  BY <1>3 DEF LimitPasses, TypeOK
<1>4. CASE UNCHANGED overdue
  BY <1>4
<1> QED
  BY <1>1, <1>2, <1>3, <1>4
     DEF Next, Call, SignalCallback, TimerCallback, ResumeSignalled, ResumeTimedOut,
         DeadlinePasses, Finished, vars

(* refreshConn of one call never replaces a connection another call has,     *)
(* whatever limits pass while it is lent.                                    *)
THEOREM BorrowedKept == Spec => NotReplacedWhileBorrowed
<1>1. TypeOK /\ [Next]_vars => [KeepsBorrowed]_vars
  BY NextKeepsBorrowed
<1>2. NotReplacedWhileBorrowed <=> [][KeepsBorrowed]_vars
  BY DEF NotReplacedWhileBorrowed, KeepsBorrowed
<1> QED
  BY <1>1, <1>2, TypeCorrect, PTL DEF Spec

-----------------------------------------------------------------------------
(* The deque.  QueueExact is inductive with TypeOK: an entry is the Future   *)
(* of a call whose Future is unfinished, so wakeOnePoolWaiter always finds   *)
(* its Future at the front, and one entry per call leaves nothing behind.    *)

Queued(c) == \E k \in DOMAIN waiters : waiters[k] = c

(* The places of the deque are numbers, and the entries are clients. *)
LEMMA QueuePlaces ==
  ASSUME TypeOK
  PROVE  /\ Len(waiters) \in Nat
         /\ DOMAIN waiters = 1 .. Len(waiters)
         /\ \A k \in DOMAIN waiters : waiters[k] \in Clients
BY LenProperties, ElementOfSeq DEF TypeOK

(* The queue is empty at the start and no Future is completed. *)
LEMMA InitQueueExact == Init => QueueExact
<1> SUFFICES ASSUME Init PROVE QueueExact
  OBVIOUS
<1>1. DOMAIN waiters = {}
  BY EmptySeq, LenProperties DEF Init
<1> QED
  BY <1>1 DEF Init, QueueExact

(* A client that is not queued takes a slot, gives up or joins the deque. *)
LEMMA ScanQueueExact ==
  ASSUME TypeOK, QueueExact, NEW c \in Clients, NEW p,
         pc[c] \in {"out", "signalled"}, done' = done \ {c}, Scan(c, p)
  PROVE  QueueExact'
<1>1. ~Queued(c)
  BY DEF QueueExact, Queued
<1>2. CASE UNCHANGED waiters /\ (\/ pc' = [pc EXCEPT ![c] = "out"]
                                \/ pc' = [pc EXCEPT ![c] = "using"])
  <2>1. \A d \in Clients \ {c} : pc'[d] = pc[d] /\ (d \in done' <=> d \in done)
    BY <1>2 DEF TypeOK
  <2>2. pc'[c] \notin {"wait", "timedout"} /\ c \notin done'
    BY <1>2 DEF TypeOK
  <2>3. done' \subseteq Clients
    BY DEF TypeOK
  <2> QED  BY <1>1, <1>2, <2>1, <2>2, <2>3 DEF QueueExact, Queued
<1>3. CASE waiters' = Append(waiters, c) /\ pc' = [pc EXCEPT ![c] = "wait"]
  <2> DEFINE n == Len(waiters)
  <2>1. /\ n \in Nat
        /\ DOMAIN waiters = 1 .. n
        /\ DOMAIN waiters' = 1 .. n + 1
        /\ \A k \in 1 .. n : waiters'[k] = waiters[k]
        /\ waiters'[n + 1] = c
    BY <1>3, QueuePlaces, AppendProperties, LenProperties DEF TypeOK
  <2>2. \A d \in Clients \ {c} : pc'[d] = pc[d] /\ (d \in done' <=> d \in done)
    BY <1>3 DEF TypeOK
  <2>3. pc'[c] = "wait" /\ c \notin done' /\ done' \subseteq Clients
    BY <1>3 DEF TypeOK
  <2> HIDE DEF n
  <2>4. \A k \in 1 .. n : waiters[k] # c
    BY <1>1, <2>1 DEF Queued
  <2>5. ASSUME NEW d \in Clients
        PROVE  (\E k \in DOMAIN waiters' : waiters'[k] = d)
                 <=> pc'[d] \in {"wait", "timedout"} /\ d \notin done'
    <3>1. CASE d = c
      BY <2>1, <2>3, <3>1
    <3>2. CASE d # c
      BY <2>1, <2>2, <3>2 DEF QueueExact
    <3> QED  BY <3>1, <3>2
  <2>6. \A j, k \in DOMAIN waiters' : waiters'[j] = waiters'[k] => j = k
    BY <2>1, <2>4 DEF QueueExact
  <2>7. \A d \in done' : pc'[d] \in {"wait", "signalled", "timedout"}
    BY <2>2, <2>3 DEF QueueExact
  <2> QED  BY <2>5, <2>6, <2>7 DEF QueueExact
<1> QED
  BY <1>2, <1>3 DEF Scan, Take

(* A step that leaves the deque alone and moves one client between states    *)
(* in which it is queued alike. *)
LEMMA MoveQueueExact ==
  ASSUME TypeOK, QueueExact, NEW c \in Clients, NEW where,
         pc' = [pc EXCEPT ![c] = where], UNCHANGED <<waiters, done>>,
         \/ c \in done /\ where = "signalled"
         \/ pc[c] = "wait" /\ where = "timedout"
  PROVE  QueueExact'
<1>1. \A d \in Clients : pc'[d] = IF d = c THEN where ELSE pc[d]
  BY DEF TypeOK
<1>2. done \subseteq Clients
  BY DEF TypeOK
<1> QED
  BY <1>1, <1>2 DEF QueueExact

(* removePoolWaiter takes the entry of the call out, if it is still there. *)
LEMMA TimedOutQueueExact ==
  ASSUME TypeOK, QueueExact, NEW c \in Clients, ResumeTimedOut(c)
  PROVE  QueueExact'
<1> DEFINE n == Len(waiters)
<1>1. /\ n \in Nat
      /\ DOMAIN waiters = 1 .. n
  BY QueuePlaces
<1>2. \A d \in Clients \ {c} : pc'[d] = pc[d] /\ (d \in done' <=> d \in done)
  BY DEF ResumeTimedOut, TypeOK
<1>3. pc'[c] = "out" /\ c \notin done' /\ done' \subseteq Clients
  BY DEF ResumeTimedOut, TypeOK
<1>4. CASE UNCHANGED waiters /\ ~Queued(c)
  BY <1>2, <1>3, <1>4 DEF QueueExact, Queued
<1>5. ASSUME NEW k \in DOMAIN waiters, waiters[k] = c,
             waiters' = SubSeq(waiters, 1, k - 1) \o SubSeq(waiters, k + 1, Len(waiters))
      PROVE  QueueExact'
  <2>1. k \in 1 .. n /\ waiters \in Seq(Clients)
    BY <1>1, <1>5 DEF TypeOK
  <2>2. /\ waiters' \in Seq(Clients)
        /\ Len(waiters') = n - 1
        /\ \A i \in 1 .. n - 1 : waiters'[i] = waiters[IF i < k THEN i ELSE i + 1]
    BY <1>5, <2>1, RemovePosition
  <2>3. DOMAIN waiters' = 1 .. n - 1
    BY <2>2, LenProperties
  <2> HIDE DEF n
  <2>4. \A i \in 1 .. n : waiters[i] = c => i = k
    BY <1>1, <1>5 DEF QueueExact
  <2>5. ASSUME NEW d \in Clients \ {c}
        PROVE  (\E i \in 1 .. n : waiters[i] = d) <=> (\E i \in 1 .. n - 1 : waiters'[i] = d)
    <3>1. ASSUME NEW i \in 1 .. n, waiters[i] = d
          PROVE  \E j \in 1 .. n - 1 : waiters'[j] = d
      <4>1. i # k
        BY <1>5, <3>1
      <4>2. CASE i < k
        BY <1>1, <2>1, <2>2, <3>1, <4>2
      <4>3. CASE i > k
        <5>1. i - 1 \in 1 .. n - 1 /\ ~(i - 1 < k) /\ (i - 1) + 1 = i
          BY <1>1, <2>1, <4>3
        <5> QED  BY <2>2, <3>1, <5>1
      <4> QED  BY <1>1, <2>1, <4>1, <4>2, <4>3
    <3>2. ASSUME NEW i \in 1 .. n - 1, waiters'[i] = d
          PROVE  \E j \in 1 .. n : waiters[j] = d
      <4>1. (IF i < k THEN i ELSE i + 1) \in 1 .. n
        BY <1>1, <2>1
      <4> QED  BY <2>2, <3>2, <4>1
    <3> QED  BY <3>1, <3>2
  <2>6. \A i \in 1 .. n - 1 : waiters'[i] # c
    BY <1>1, <2>1, <2>2, <2>4
  <2>7. \A d \in Clients : (\E i \in DOMAIN waiters' : waiters'[i] = d)
                           <=> pc'[d] \in {"wait", "timedout"} /\ d \notin done'
    BY <1>1, <1>2, <1>3, <2>3, <2>5, <2>6 DEF QueueExact
  <2>8. ASSUME NEW i \in 1 .. n - 1, NEW j \in 1 .. n - 1, waiters'[i] = waiters'[j]
        PROVE  i = j
    <3> DEFINE place(x) == IF x < k THEN x ELSE x + 1
    <3>1. place(i) \in 1 .. n /\ place(j) \in 1 .. n
      BY <1>1, <2>1
    <3>2. waiters[place(i)] = waiters[place(j)]
      BY <2>2, <2>8
    <3>3. place(i) = place(j)
      BY <1>1, <3>1, <3>2 DEF QueueExact
    <3> QED  BY <1>1, <2>1, <3>3
  <2> QED  BY <1>2, <1>3, <2>3, <2>7, <2>8 DEF QueueExact
<1> QED
  BY <1>4, <1>5 DEF ResumeTimedOut, RemovePoolWaiter, Queued

(* returnConn completes the Future at the front of the deque, which belongs  *)
(* to a suspended call, and takes exactly this one out.                      *)
LEMMA WakesFront ==
  ASSUME TypeOK, QueueExact, WakeOnePoolWaiter, waiters # <<>>
  PROVE  /\ Len(waiters) >= 1
         /\ waiters[1] \in Clients \ done
         /\ waiters' = SubSeq(waiters, 2, Len(waiters))
         /\ done' = done \cup {waiters[1]}
<1>1. /\ Len(waiters) \in Nat
      /\ DOMAIN waiters = 1 .. Len(waiters)
      /\ \A k \in DOMAIN waiters : waiters[k] \in Clients
  BY QueuePlaces
<1>2. Len(waiters) >= 1
  BY <1>1, EmptySeq DEF TypeOK
<1>3. \A k \in DOMAIN waiters : waiters[k] \notin done
  BY <1>1 DEF QueueExact
<1>4. ASSUME NEW k \in DOMAIN waiters, \A j \in 1 .. k - 1 : waiters[j] \in done
      PROVE  k = 1
  <2>1. CASE k > 1
    BY <1>1, <1>3, <1>4, <2>1
  <2> QED  BY <1>1, <2>1
<1>5. 1 \in DOMAIN waiters
  BY <1>1, <1>2
<1>6. PICK k \in DOMAIN waiters :
        /\ \A j \in 1 .. k - 1 : waiters[j] \in done
        /\ waiters' = SubSeq(waiters, k + 1, Len(waiters))
        /\ done' = done \cup {waiters[k]}
  BY <1>3, <1>5 DEF WakeOnePoolWaiter
<1>7. k = 1 /\ k + 1 = 2
  BY <1>4, <1>6
<1> QED
  BY <1>1, <1>2, <1>3, <1>5, <1>6, <1>7

(* returnConn: nothing is queued, or the front entry leaves the deque and    *)
(* its Future is completed. *)
LEMMA ReturnQueueExact ==
  ASSUME TypeOK, QueueExact, NEW c \in Clients, Return(c)
  PROVE  QueueExact'
<1> DEFINE n == Len(waiters)
<1>1. WakeOnePoolWaiter /\ pc[c] = "using" /\ pc' = [pc EXCEPT ![c] = "out"]
  BY DEF Return
<1>2. \A d \in Clients : pc'[d] = IF d = c THEN "out" ELSE pc[d]
  BY <1>1 DEF TypeOK
<1>3. ~Queued(c) /\ c \notin done
  BY <1>1 DEF QueueExact, Queued
<1>4. CASE waiters = <<>>
  <2>1. DOMAIN waiters = {}
    BY <1>4, EmptySeq, LenProperties
  <2>2. waiters' = waiters /\ done' = done
    BY <1>1, <1>4, <2>1 DEF WakeOnePoolWaiter
  <2>3. done \subseteq Clients
    BY DEF TypeOK
  <2> QED  BY <1>2, <1>3, <2>2, <2>3 DEF QueueExact, Queued
<1>5. CASE waiters # <<>>
  <2>1. /\ n >= 1
        /\ waiters[1] \in Clients \ done
        /\ waiters' = SubSeq(waiters, 2, n)
        /\ done' = done \cup {waiters[1]}
    BY <1>1, <1>5, WakesFront
  <2>2. n \in Nat /\ DOMAIN waiters = 1 .. n
    BY QueuePlaces
  <2>3. 1 \in 1 .. n /\ 1 + 1 = 2
    BY <2>1, <2>2
  <2>4. /\ waiters' \in Seq(Clients)
        /\ Len(waiters') = n - 1
        /\ \A i \in 1 .. n - 1 : waiters'[i] = waiters[i + 1]
    <3>1. waiters \in Seq(Clients) /\ 1 \in 1 .. Len(waiters)
      BY <2>3 DEF TypeOK
    <3>2. LET r == SubSeq(waiters, 1 + 1, Len(waiters))
          IN  /\ r \in Seq(Clients)
              /\ Len(r) = Len(waiters) - 1
              /\ \A i \in 1 .. Len(waiters) - 1 : r[i] = waiters[i + 1]
      BY <3>1, DropUpTo
    <3>3. waiters' = SubSeq(waiters, 1 + 1, Len(waiters))
      BY <2>1, <2>3
    <3> QED  BY <3>2, <3>3
  <2>5. DOMAIN waiters' = 1 .. n - 1
    BY <2>4, LenProperties
  <2> HIDE DEF n
  <2>6. ASSUME NEW i \in 1 .. n - 1
        PROVE  waiters'[i] # waiters[1]
    <3>1. i + 1 \in 1 .. n /\ i + 1 # 1 /\ waiters'[i] = waiters[i + 1]
      BY <2>2, <2>4
    <3> QED  BY <2>2, <2>3, <3>1 DEF QueueExact
  <2>7. ASSUME NEW d \in Clients, d # waiters[1]
        PROVE  (\E i \in 1 .. n : waiters[i] = d) <=> (\E i \in 1 .. n - 1 : waiters'[i] = d)
    <3>1. ASSUME NEW i \in 1 .. n, waiters[i] = d
          PROVE  \E j \in 1 .. n - 1 : waiters'[j] = d
      <4>1. i # 1
        BY <2>7, <3>1
      <4>2. i - 1 \in 1 .. n - 1 /\ (i - 1) + 1 = i
        BY <2>2, <4>1
      <4> QED  BY <2>4, <3>1, <4>2
    <3>2. ASSUME NEW i \in 1 .. n - 1, waiters'[i] = d
          PROVE  \E j \in 1 .. n : waiters[j] = d
      <4>1. i + 1 \in 1 .. n
        BY <2>2
      <4> QED  BY <2>4, <3>2, <4>1
    <3> QED  BY <3>1, <3>2
  <2>8. pc[waiters[1]] \in {"wait", "timedout"}
    BY <2>1, <2>2, <2>3 DEF QueueExact
  <2>9. c # waiters[1]
    BY <1>1, <2>8
  <2>10. ASSUME NEW d \in Clients
         PROVE  (\E i \in DOMAIN waiters' : waiters'[i] = d)
                  <=> pc'[d] \in {"wait", "timedout"} /\ d \notin done'
    <3>1. CASE d = waiters[1]
      BY <2>1, <2>5, <2>6, <3>1
    <3>2. CASE d # waiters[1]
      <4>1. (\E i \in DOMAIN waiters' : waiters'[i] = d)
              <=> pc[d] \in {"wait", "timedout"} /\ d \notin done
        BY <2>2, <2>5, <2>7, <3>2 DEF QueueExact
      <4>2. d \in done' <=> d \in done
        BY <2>1, <3>2
      <4>3. pc'[d] \in {"wait", "timedout"} <=> pc[d] \in {"wait", "timedout"}
        BY <1>1, <1>2
      <4> QED  BY <4>1, <4>2, <4>3
    <3> QED  BY <3>1, <3>2
  <2>11. \A i, j \in DOMAIN waiters' : waiters'[i] = waiters'[j] => i = j
    <3>1. ASSUME NEW i \in 1 .. n - 1, NEW j \in 1 .. n - 1, waiters'[i] = waiters'[j]
          PROVE  i = j
      <4>1. i + 1 \in 1 .. n /\ j + 1 \in 1 .. n
        BY <2>2
      <4>2. i + 1 = j + 1
        BY <2>2, <2>4, <3>1, <4>1 DEF QueueExact
      <4> QED  BY <4>2
    <3> QED  BY <2>5, <3>1
  <2>12. \A d \in done' : pc'[d] \in {"wait", "signalled", "timedout"}
    <3>1. \A d \in done : d \in Clients /\ d # c
      BY <1>3 DEF TypeOK
    <3> QED  BY <1>2, <2>1, <2>8, <2>9, <3>1 DEF QueueExact
  <2> QED  BY <2>10, <2>11, <2>12 DEF QueueExact
<1> QED
  BY <1>4, <1>5

(* Every step keeps the deque exact. *)
LEMMA NextQueueExact == TypeOK /\ QueueExact /\ [Next]_vars => QueueExact'
<1> SUFFICES ASSUME TypeOK, QueueExact, [Next]_vars PROVE QueueExact'
  OBVIOUS
<1>1. ASSUME NEW c \in Clients, Call(c) PROVE QueueExact'
  <2>1. c \notin done
    BY <1>1 DEF Call, QueueExact
  <2>2. done' = done \ {c}
    BY <1>1, <2>1 DEF Call
  <2> QED  BY <1>1, <2>2, ScanQueueExact DEF Call
<1>2. ASSUME NEW c \in Clients, SignalCallback(c) PROVE QueueExact'
  BY <1>2, MoveQueueExact DEF SignalCallback
<1>3. ASSUME NEW c \in Clients, TimerCallback(c) PROVE QueueExact'
  BY <1>3, MoveQueueExact DEF TimerCallback
<1>4. ASSUME NEW c \in Clients, ResumeSignalled(c) PROVE QueueExact'
  BY <1>4, ScanQueueExact DEF ResumeSignalled
<1>5. ASSUME NEW c \in Clients, ResumeTimedOut(c) PROVE QueueExact'
  BY <1>5, TimedOutQueueExact
<1>6. ASSUME NEW c \in Clients, Return(c) PROVE QueueExact'
  BY <1>6, ReturnQueueExact
<1>7. CASE UNCHANGED <<waiters, done, pc>>
  BY <1>7 DEF QueueExact
<1> QED
  BY <1>1, <1>2, <1>3, <1>4, <1>5, <1>6, <1>7
     DEF Next, DeadlinePasses, LimitPasses, Finished, vars

(* The deque of waiters holds exactly the Futures of suspended calls that    *)
(* are not completed, each once: no entry outlives its call, and no           *)
(* suspended call is missing.                                                *)
THEOREM QueueIsExact == Spec => []QueueExact
<1>1. Init => TypeOK /\ QueueExact
  BY InitTypeOK, InitQueueExact
<1>2. TypeOK /\ QueueExact /\ [Next]_vars => TypeOK' /\ QueueExact'
  BY NextTypeOK, NextQueueExact
<1> QED
  BY <1>1, <1>2, PTL DEF Spec

-----------------------------------------------------------------------------
(* Returned slots are announced. *)

(* The action of ReturnAnnounced. *)
Announces ==
  \A c \in Clients :
    /\ pc[c] = "using" /\ pc'[c] = "out"
    /\ \E d \in Clients : pc[d] = "wait" /\ d \notin done
    => \E d \in Clients \ done : /\ pc[d] \in {"wait", "timedout"}
                                 /\ done' = done \cup {d}

(* Only returnConn moves a client from its query out, and when a call is     *)
(* suspended the front of the deque is such a call.                          *)
LEMMA NextAnnounces == TypeOK /\ QueueExact /\ [Next]_vars => Announces
<1> SUFFICES ASSUME TypeOK, QueueExact, [Next]_vars,
                    NEW c \in Clients, pc[c] = "using", pc'[c] = "out",
                    NEW e \in Clients, pc[e] = "wait", e \notin done
             PROVE  \E d \in Clients \ done : /\ pc[d] \in {"wait", "timedout"}
                                               /\ done' = done \cup {d}
  BY DEF Announces
<1>1. Return(c)
  <2>1. ASSUME NEW d \in Clients, pc[d] # "using", NEW p, Scan(d, p) PROVE FALSE
    BY <2>1 DEF Scan, Take, TypeOK
  <2>2. ASSUME NEW d \in Clients, d # c, Return(d) PROVE FALSE
    BY <2>2 DEF Return, TypeOK
  <2>3. ASSUME NEW d \in Clients,
               SignalCallback(d) \/ TimerCallback(d) \/ ResumeTimedOut(d)
        PROVE  FALSE
    BY <2>3 DEF SignalCallback, TimerCallback, ResumeTimedOut, TypeOK
  <2>4. CASE UNCHANGED pc
    BY <2>4
  <2> QED
    BY <2>1, <2>2, <2>3, <2>4
       DEF Next, Call, ResumeSignalled, DeadlinePasses, LimitPasses, Finished, vars
<1>2. waiters # <<>>
  <2>1. \E k \in DOMAIN waiters : waiters[k] = e
    BY DEF QueueExact
  <2> QED  BY <2>1, EmptySeq, LenProperties
<1>3. /\ Len(waiters) >= 1
      /\ waiters[1] \in Clients \ done
      /\ done' = done \cup {waiters[1]}
  BY <1>1, <1>2, WakesFront DEF Return
<1>4. 1 \in DOMAIN waiters
  BY <1>3, QueuePlaces
<1>5. pc[waiters[1]] \in {"wait", "timedout"}
  BY <1>3, <1>4 DEF QueueExact
<1> QED
  BY <1>3, <1>5

(* When a slot comes back while a call is suspended, the Future of one       *)
(* suspended call is completed, never that of a call that has returned.      *)
THEOREM ReturnsAnnounced == Spec => ReturnAnnounced
<1>1. TypeOK /\ QueueExact /\ [Next]_vars => [Announces]_vars
  BY NextAnnounces
<1>2. ReturnAnnounced <=> [][Announces]_vars
  BY DEF ReturnAnnounced, Announces
<1> QED
  BY <1>1, <1>2, TypeCorrect, QueueIsExact, PTL DEF Spec

-----------------------------------------------------------------------------
(* Wake-ups are not lost.  The strengthening: finitely many Futures are      *)
(* completed, and when the timeout is out of sight no call is late.          *)

FreeConns == {i \in Conns : ~busy[i]}

NobodyLate == timeout = "long" => \A c \in Clients : ~late[c] /\ pc[c] # "timedout"

WakeupInv == /\ TypeOK
             /\ QueueExact
             /\ IsFiniteSet(done)
             /\ NobodyLate
             /\ NoLostWakeup

(* The free slots can be counted. *)
LEMMA FreeConnsFinite == IsFiniteSet(FreeConns) /\ Cardinality(FreeConns) \in Nat
<1>1. IsFiniteSet(Conns)
  BY NumConnsAssumption, FS_Interval DEF Conns
<1> QED
  BY <1>1, FS_Subset, FS_CardinalityType DEF FreeConns

(* At the start nothing is queued. *)
LEMMA InitWakeupInv == Init => WakeupInv
<1> SUFFICES ASSUME Init PROVE WakeupInv
  OBVIOUS
<1>1. TypeOK /\ QueueExact
  BY InitTypeOK, InitQueueExact
<1>2. IsFiniteSet(done)
  BY FS_EmptySet DEF Init
<1>3. NobodyLate
  BY DEF Init, NobodyLate
<1>4. NoLostWakeup
  BY DEF Init, NoLostWakeup
<1> QED
  BY <1>1, <1>2, <1>3, <1>4 DEF WakeupInv

(* Each step completes at most one Future. *)
LEMMA NextFiniteDone == TypeOK /\ QueueExact /\ IsFiniteSet(done) /\ [Next]_vars => IsFiniteSet(done')
<1> SUFFICES ASSUME TypeOK, QueueExact, IsFiniteSet(done), [Next]_vars PROVE IsFiniteSet(done')
  OBVIOUS
<1>1. ASSUME NEW c \in Clients, done' = done \ {c} PROVE IsFiniteSet(done')
  BY <1>1, FS_Subset
<1>2. CASE UNCHANGED done
  BY <1>2
<1>3. ASSUME WakeOnePoolWaiter PROVE IsFiniteSet(done')
  <2>1. ASSUME NEW k \in DOMAIN waiters, done' = done \cup {waiters[k]}
        PROVE  IsFiniteSet(done')
    BY <2>1, FS_AddElement
  <2> QED  BY <1>2, <1>3, <2>1 DEF WakeOnePoolWaiter
<1> QED
  BY <1>1, <1>2, <1>3
     DEF Next, Call, SignalCallback, TimerCallback, ResumeSignalled, ResumeTimedOut,
         Return, DeadlinePasses, LimitPasses, Finished, vars

(* When the timeout is out of sight no deadline passes and no timer fires. *)
LEMMA NextNobodyLate == TypeOK /\ NobodyLate /\ [Next]_vars => NobodyLate'
<1> SUFFICES ASSUME TypeOK, NobodyLate, [Next]_vars, timeout' = "long",
                    NEW d \in Clients
             PROVE  ~late'[d] /\ pc'[d] # "timedout"
  BY DEF NobodyLate
<1>1. timeout = "long"
  BY DEF Next, Call, SignalCallback, TimerCallback, ResumeSignalled, ResumeTimedOut,
         Return, DeadlinePasses, LimitPasses, Finished, vars
<1>2. ~late[d] /\ pc[d] # "timedout"
  BY <1>1 DEF NobodyLate
<1>3. ASSUME NEW c \in Clients, NEW p, Scan(c, p) PROVE pc'[d] # "timedout"
  BY <1>2, <1>3 DEF Scan, Take, TypeOK
<1>4. ASSUME NEW c \in Clients, Call(c) PROVE ~late'[d] /\ pc'[d] # "timedout"
  BY <1>1, <1>2, <1>3, <1>4 DEF Call, TypeOK
<1>5. ASSUME NEW c \in Clients, ResumeSignalled(c) PROVE ~late'[d] /\ pc'[d] # "timedout"
  BY <1>2, <1>3, <1>5 DEF ResumeSignalled
<1>6. ASSUME NEW c \in Clients, SignalCallback(c) \/ ResumeTimedOut(c) \/ Return(c)
      PROVE  ~late'[d] /\ pc'[d] # "timedout"
  BY <1>2, <1>6 DEF SignalCallback, ResumeTimedOut, Return, TypeOK
<1>7. ASSUME NEW c \in Clients, TimerCallback(c) \/ DeadlinePasses(c) PROVE FALSE
  BY <1>1, <1>7 DEF TimerCallback, DeadlinePasses, NobodyLate
<1>8. CASE UNCHANGED <<late, pc>>
  BY <1>2, <1>8
<1> QED
  BY <1>4, <1>5, <1>6, <1>7, <1>8 DEF Next, LimitPasses, Finished, vars

(* A taken slot costs at most one completed Future, a scan that finds no      *)
(* slot leaves none free, and a returned slot completes one Future.          *)
LEMMA NextNoLostWakeup == WakeupInv /\ [Next]_vars => NoLostWakeup'
<1> SUFFICES ASSUME WakeupInv, [Next]_vars, timeout' = "long", waiters' # <<>>
             PROVE  Cardinality(FreeConns') <= Cardinality(done')
  BY DEF NoLostWakeup, FreeConns
<1> USE DEF WakeupInv
<1>1. timeout = "long"
  BY DEF Next, Call, SignalCallback, TimerCallback, ResumeSignalled, ResumeTimedOut,
         Return, DeadlinePasses, LimitPasses, Finished, vars
<1>2. /\ IsFiniteSet(FreeConns) /\ Cardinality(FreeConns) \in Nat
      /\ IsFiniteSet(done) /\ Cardinality(done) \in Nat
  BY FreeConnsFinite, FS_CardinalityType
<1>3. IsFiniteSet(done') /\ Cardinality(done') \in Nat
  BY NextFiniteDone, FS_CardinalityType
<1>4. waiters # <<>> => Cardinality(FreeConns) <= Cardinality(done)
  BY <1>1 DEF NoLostWakeup, FreeConns
<1>5. ASSUME NEW c \in Clients, NEW p, Scan(c, p), done' = done \ {c}
      PROVE  Cardinality(FreeConns') <= Cardinality(done')
  <2>1. CASE Take(c)
    <3>1. PICK i \in Conns : ~busy[i] /\ busy' = [busy EXCEPT ![i] = TRUE]
      BY <2>1 DEF Take, FirstFree
    <3>2. i \in FreeConns /\ FreeConns' = FreeConns \ {i}
      BY <3>1 DEF FreeConns, TypeOK
    <3>3. Cardinality(FreeConns') = Cardinality(FreeConns) - 1
      BY <1>2, <3>2, FS_RemoveElement
    <3>4. Cardinality(done') >= Cardinality(done) - 1
      <4>1. CASE c \in done
        <5>1. Cardinality(done \ {c}) = Cardinality(done) - 1
          BY <1>2, <4>1, FS_RemoveElement
        <5> QED  BY <1>2, <1>5, <5>1
      <4>2. CASE c \notin done
        <5>1. done' = done
          BY <1>5, <4>2
        <5> QED  BY <1>2, <5>1
      <4> QED  BY <4>1, <4>2
    <3>5. waiters # <<>>
      BY <2>1 DEF Take
    <3> QED  BY <1>2, <1>3, <1>4, <3>3, <3>4, <3>5
  <2>2. CASE NoneFree /\ UNCHANGED busy
    <3>1. FreeConns' = {}
      BY <2>2 DEF NoneFree, FreeConns
    <3> QED  BY <1>3, <3>1, FS_EmptySet
  <2> QED  BY <1>5, <2>1, <2>2 DEF Scan
<1>6. ASSUME NEW c \in Clients, Call(c)
      PROVE  Cardinality(FreeConns') <= Cardinality(done')
  <2>1. done' = done \ {c}
    BY <1>6 DEF Call, QueueExact
  <2> QED  BY <1>5, <1>6, <2>1 DEF Call
<1>7. ASSUME NEW c \in Clients, ResumeSignalled(c)
      PROVE  Cardinality(FreeConns') <= Cardinality(done')
  BY <1>5, <1>7 DEF ResumeSignalled
<1>8. ASSUME NEW c \in Clients, ResumeTimedOut(c) PROVE FALSE
  BY <1>1, <1>8 DEF ResumeTimedOut, NobodyLate
<1>9. ASSUME NEW c \in Clients, Return(c)
      PROVE  Cardinality(FreeConns') <= Cardinality(done')
  <2>1. WakeOnePoolWaiter
    BY <1>9 DEF Return
  <2>2. waiters # <<>>
    <3>1. ASSUME waiters = <<>> PROVE waiters' = <<>>
      <4>1. DOMAIN waiters = {}
        BY <3>1, EmptySeq, LenProperties
      <4> QED  BY <2>1, <4>1 DEF WakeOnePoolWaiter
    <3> QED  BY <3>1
  <2>3. waiters[1] \notin done /\ done' = done \cup {waiters[1]}
    BY <2>1, <2>2, WakesFront
  <2>4. Cardinality(done') = Cardinality(done) + 1
    BY <1>2, <2>3, FS_AddElement
  <2>5. FreeConns' \subseteq FreeConns \cup {conn[c]}
    BY <1>9 DEF Return, FreeConns, TypeOK
  <2>6. /\ IsFiniteSet(FreeConns \cup {conn[c]})
        /\ Cardinality(FreeConns \cup {conn[c]}) \in Nat
        /\ Cardinality(FreeConns \cup {conn[c]}) <= Cardinality(FreeConns) + 1
    <3>1. /\ IsFiniteSet(FreeConns \cup {conn[c]})
          /\ Cardinality(FreeConns \cup {conn[c]}) =
                IF conn[c] \in FreeConns THEN Cardinality(FreeConns)
                ELSE Cardinality(FreeConns) + 1
      BY <1>2, FS_AddElement
    <3>2. Cardinality(FreeConns \cup {conn[c]}) \in Nat
      BY <3>1, FS_CardinalityType
    <3> QED  BY <1>2, <3>1, <3>2
  <2>7. /\ Cardinality(FreeConns') \in Nat
        /\ Cardinality(FreeConns') <= Cardinality(FreeConns \cup {conn[c]})
    BY <2>5, <2>6, FS_Subset, FS_CardinalityType
  <2> QED  BY <1>2, <1>4, <2>2, <2>4, <2>6, <2>7
<1>10. CASE UNCHANGED <<busy, waiters, done>>
  BY <1>4, <1>10 DEF FreeConns
<1> QED
  BY <1>6, <1>7, <1>8, <1>9, <1>10
     DEF Next, SignalCallback, TimerCallback, DeadlinePasses, LimitPasses, Finished, vars

(* When the timeout is out of sight, there are never more free slots beside  *)
(* a queued call than wake-ups under way.                                    *)
THEOREM WakeupsKept == Spec => []NoLostWakeup
<1>1. WakeupInv /\ [Next]_vars => WakeupInv'
  BY NextTypeOK, NextQueueExact, NextFiniteDone, NextNobodyLate, NextNoLostWakeup
     DEF WakeupInv
<1>2. WakeupInv => NoLostWakeup
  BY DEF WakeupInv
<1> QED
  BY InitWakeupInv, <1>1, <1>2, PTL DEF Spec

-----------------------------------------------------------------------------
(* Refinement: what the callers of getFreeConn and returnConn see is what   *)
(* ConnPool promises. *)

(* The refinement mapping of Pool. *)
Asking == {c \in Clients : pc[c] \in {"wait", "signalled", "timedout"}}
Holding == [c \in Clients |-> {conn[c]} \ {NoConn}]

(* A slot is lent exactly when some client has it. *)
LEMMA LentSlots ==
  ASSUME SlotTypes
  PROVE  Pool!Lent = {i \in Conns : \E c \in Clients : conn[c] = i}
BY DEF Pool!Lent, SlotTypes, Conns, NoConn

(* A step that moves one client and touches no slot. *)
LEMMA MoveMaps ==
  ASSUME SlotTypes, NEW c \in Clients, NEW where,
         pc' = [pc EXCEPT ![c] = where], UNCHANGED conn
  PROVE  /\ Holding' = Holding
         /\ where \in {"wait", "signalled", "timedout"} => Asking' = Asking \cup {c}
         /\ where \notin {"wait", "signalled", "timedout"} => Asking' = Asking \ {c}
BY DEF SlotTypes, Asking, Holding

(* A scan that finds a slot grants it; a scan that finds none refuses the    *)
(* call, or leaves it or makes it pending.                                   *)
LEMMA ScanMaps ==
  ASSUME SlotTypes, SlotAccounting, NEW c \in Clients, NEW p,
         pc[c] \in {"out", "signalled"}, Scan(c, p)
  PROVE  [Pool!Next]_(Pool!vars)
<1>1. CASE Take(c)
  <2>1. PICK i \in Conns : /\ ~busy[i]
                          /\ conn' = [conn EXCEPT ![c] = i]
                          /\ pc' = [pc EXCEPT ![c] = "using"]
    BY <1>1 DEF Take, FirstFree
  <2>2. i # NoConn
    BY DEF Conns, NoConn
  <2>3. i \notin Pool!Lent
    BY <2>1, LentSlots DEF SlotAccounting
  <2>4. conn[c] = NoConn
    BY DEF SlotAccounting
  <2>5. Holding' = [Holding EXCEPT ![c] = @ \cup {i}]
    BY <2>1, <2>2, <2>4 DEF Holding, SlotTypes
  <2>6. Asking' = Asking \ {c}
    BY <2>1 DEF Asking, SlotTypes
  <2>7. Pool!Grant(c)
    BY <2>3, <2>5, <2>6 DEF Pool!Grant, Holding, Asking
  <2> QED  BY <2>7 DEF Pool!Next
<1>2. CASE pc' = [pc EXCEPT ![c] = "out"] /\ UNCHANGED conn
  <2>1. Holding' = Holding /\ Asking' = Asking \ {c}
    <3>1. "out" \notin {"wait", "signalled", "timedout"}
      OBVIOUS
    <3> QED  BY <1>2, <3>1, MoveMaps
  <2>2. CASE c \in Asking
    BY <2>1, <2>2 DEF Pool!Next, Pool!Refuse, Holding, Asking
  <2>3. CASE c \notin Asking
    <3>1. Asking' = Asking
      BY <2>1, <2>3
    <3> QED  BY <2>1, <3>1 DEF Pool!vars, Holding, Asking
  <2> QED  BY <2>2, <2>3
<1>3. CASE pc' = [pc EXCEPT ![c] = "wait"] /\ UNCHANGED conn
  <2>1. Holding' = Holding /\ Asking' = Asking \cup {c}
    BY <1>3, MoveMaps
  <2>2. CASE c \notin Asking
    BY <2>1, <2>2 DEF Pool!Next, Pool!Ask, Holding, Asking
  <2>3. CASE c \in Asking
    <3>1. Asking' = Asking
      BY <2>1, <2>3
    <3> QED  BY <2>1, <3>1 DEF Pool!vars, Holding, Asking
  <2> QED  BY <2>2, <2>3
<1> QED
  BY <1>1, <1>2, <1>3 DEF Scan

(* returnConn gives the slot of its borrower back. *)
LEMMA ReturnMaps ==
  ASSUME SlotTypes, SlotAccounting, NEW c \in Clients, GivesBack(c)
  PROVE  Pool!Next
<1>1. pc[c] = "using" /\ conn[c] # NoConn
  BY DEF GivesBack, SlotAccounting
<1>2. Holding' = [Holding EXCEPT ![c] = @ \ {conn[c]}] /\ conn[c] \in Holding[c]
  BY <1>1 DEF GivesBack, Holding, SlotTypes
<1>3. Asking' = Asking
  BY <1>1 DEF GivesBack, Asking, SlotTypes
<1>4. Pool!GiveBack(c)
  BY <1>2, <1>3 DEF Pool!GiveBack, Holding, Asking
<1> QED
  BY <1>4 DEF Pool!Next

(* Every step of the pool is a step of ConnPool or changes nothing of it. *)
LEMMA NextMaps == TypeOK /\ SlotAccounting /\ [Next]_vars => [Pool!Next]_(Pool!vars)
<1> SUFFICES ASSUME TypeOK, SlotAccounting, [Next]_vars
             PROVE  [Pool!Next]_(Pool!vars)
  OBVIOUS
<1>1. ASSUME NEW c \in Clients, Call(c) PROVE [Pool!Next]_(Pool!vars)
  BY <1>1, ScanMaps, TypeOKSlotTypes DEF Call
<1>2. ASSUME NEW c \in Clients, SignalCallback(c) \/ TimerCallback(c)
      PROVE  [Pool!Next]_(Pool!vars)
  <2>1. Holding' = Holding /\ Asking' = Asking \cup {c} /\ c \in Asking
    BY <1>2, MoveMaps, TypeOKSlotTypes DEF SignalCallback, TimerCallback, Asking
  <2>2. Asking' = Asking
    BY <2>1
  <2> QED  BY <2>1, <2>2 DEF Pool!vars, Holding, Asking
<1>3. ASSUME NEW c \in Clients, ResumeSignalled(c) PROVE [Pool!Next]_(Pool!vars)
  BY <1>3, ScanMaps, TypeOKSlotTypes DEF ResumeSignalled
<1>4. ASSUME NEW c \in Clients, ResumeTimedOut(c) PROVE [Pool!Next]_(Pool!vars)
  <2>1. Holding' = Holding /\ Asking' = Asking \ {c} /\ c \in Asking
    <3>1. "out" \notin {"wait", "signalled", "timedout"}
      OBVIOUS
    <3>2. Holding' = Holding /\ Asking' = Asking \ {c}
      BY <1>4, <3>1, MoveMaps, TypeOKSlotTypes DEF ResumeTimedOut
    <3> QED  BY <1>4, <3>2 DEF ResumeTimedOut, Asking
  <2> QED  BY <2>1 DEF Pool!Next, Pool!Refuse, Holding, Asking
<1>5. ASSUME NEW c \in Clients, Return(c) PROVE [Pool!Next]_(Pool!vars)
  BY <1>5, ReturnMaps, TypeOKSlotTypes DEF Return, GivesBack
<1>6. CASE UNCHANGED <<pc, conn>>
  BY <1>6 DEF Pool!vars
<1> QED
  BY <1>1, <1>2, <1>3, <1>4, <1>5, <1>6
     DEF Next, DeadlinePasses, LimitPasses, Finished, vars

(* The pool of the PostgreSQL driver keeps what ConnPool promises to its     *)
(* callers: a slot is granted only while nobody has it, and it comes back    *)
(* only from its borrower.                                                   *)
THEOREM ImplementsConnPool == Spec => LendsLikeConnPool
<1>1. Init => Pool!Init
  BY DEF Init, Pool!Init
<1>2. TypeOK /\ SlotAccounting /\ [Next]_vars => [Pool!Next]_(Pool!vars)
  BY NextMaps
<1> QED
  BY <1>1, <1>2, TypeCorrect, SlotsAccounted, PTL
     DEF Spec, LendsLikeConnPool, Pool!SafeSpec
=============================================================================
