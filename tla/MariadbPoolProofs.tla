------------------------- MODULE MariadbPoolProofs --------------------------
(***************************************************************************)
(* Theorems about the pool of the MariaDB driver, for any clients, any      *)
(* number of slots, any timeout and any limits: its deque keeps the Futures *)
(* of calls that gave up, and yet no live waiter gets lost and no slot is   *)
(* lent twice.                                                              *)
(***************************************************************************)
EXTENDS MariadbPool, WaiterPoolProofs

(* Entries of the deque: clients, and Futures nobody looks at. *)
Entries == Clients \cup {Abandoned}

MdbTypeOK == /\ SlotTypes
             /\ waiters \in Seq(Entries)
             /\ done \subseteq Clients

(* What is left of QueueExact: the entries of live calls are exact, whatever *)
(* lies between them.                                                        *)
LiveQueueExact ==
  /\ \A c \in Clients : (\E k \in DOMAIN waiters : waiters[k] = c)
                          <=> pc[c] \in {"wait", "timedout"} /\ c \notin done
  /\ \A j, k \in DOMAIN waiters : waiters[j] = waiters[k] /\ waiters[j] \in Clients => j = k
  /\ \A c \in done : pc[c] \in {"wait", "signalled", "timedout"}

MdbInv == MdbTypeOK /\ SlotAccounting /\ LiveQueueExact

-----------------------------------------------------------------------------
(* The parts of the steps *)

LEMMA MdbInit == Init => MdbInv
<1> SUFFICES ASSUME Init PROVE MdbInv
  OBVIOUS
<1>1. SlotTypes
  BY InitTypeOK, TypeOKSlotTypes
<1>2. waiters \in Seq(Entries) /\ DOMAIN waiters = {} /\ done = {}
  BY EmptySeq, LenProperties DEF Init
<1>3. LiveQueueExact
  BY <1>2 DEF Init, LiveQueueExact
<1> QED
  BY <1>1, <1>2, <1>3, InitSlotAccounting DEF MdbInv, MdbTypeOK

(* The positions of the deque. *)
LEMMA LivePlaces ==
  ASSUME MdbTypeOK
  PROVE  /\ Len(waiters) \in Nat
         /\ DOMAIN waiters = 1 .. Len(waiters)
         /\ \A k \in DOMAIN waiters : waiters[k] \in Entries
BY LenProperties, ElementOfSeq DEF MdbTypeOK

(* A call that is not queued takes a slot, gives up or joins the deque. *)
LEMMA ScanLiveQueue ==
  ASSUME MdbTypeOK, LiveQueueExact, NEW c \in Clients, NEW p,
         pc[c] \in {"out", "signalled"}, done' = done \ {c}, Scan(c, p)
  PROVE  LiveQueueExact'
<1>1. \A k \in DOMAIN waiters : waiters[k] # c
  BY DEF LiveQueueExact
<1>2. \A d \in Clients \ {c} : pc'[d] = pc[d] /\ (d \in done' <=> d \in done)
  BY DEF Scan, Take, MdbTypeOK, SlotTypes
<1>3. c \notin done' /\ done' \subseteq Clients
  BY DEF MdbTypeOK
<1>4. CASE UNCHANGED waiters /\ pc'[c] \in {"out", "using"}
  BY <1>1, <1>2, <1>3, <1>4 DEF LiveQueueExact
<1>5. CASE waiters' = Append(waiters, c) /\ pc'[c] = "wait"
  <2> DEFINE n == Len(waiters)
  <2>1. /\ n \in Nat
        /\ DOMAIN waiters = 1 .. n
        /\ DOMAIN waiters' = 1 .. n + 1
        /\ \A k \in 1 .. n : waiters'[k] = waiters[k]
        /\ waiters'[n + 1] = c
    <3>1. c \in Entries /\ waiters \in Seq(Entries)
      BY DEF Entries, MdbTypeOK
    <3> QED  BY <1>5, <3>1, LivePlaces, AppendProperties, LenProperties
  <2> HIDE DEF n
  <2>2. ASSUME NEW d \in Clients
        PROVE  (\E k \in DOMAIN waiters' : waiters'[k] = d)
                 <=> pc'[d] \in {"wait", "timedout"} /\ d \notin done'
    <3>1. CASE d = c
      BY <1>3, <1>5, <2>1, <3>1
    <3>2. CASE d # c
      BY <1>2, <2>1, <3>2 DEF LiveQueueExact
    <3> QED  BY <3>1, <3>2
  <2>3. \A j, k \in DOMAIN waiters' :
           waiters'[j] = waiters'[k] /\ waiters'[j] \in Clients => j = k
    BY <1>1, <2>1 DEF LiveQueueExact
  <2>4. \A d \in done' : pc'[d] \in {"wait", "signalled", "timedout"}
    BY <1>2, <1>3 DEF LiveQueueExact
  <2> QED  BY <2>2, <2>3, <2>4 DEF LiveQueueExact
<1> QED
  BY <1>4, <1>5 DEF Scan, Take, MdbTypeOK, SlotTypes

(* A step that leaves the deque alone and moves one client between states in *)
(* which it is queued alike. *)
LEMMA MoveLiveQueue ==
  ASSUME MdbTypeOK, LiveQueueExact, NEW c \in Clients, NEW where,
         pc' = [pc EXCEPT ![c] = where], UNCHANGED <<waiters, done>>,
         \/ c \in done /\ where = "signalled"
         \/ pc[c] = "wait" /\ where = "timedout"
  PROVE  LiveQueueExact'
<1>1. \A d \in Clients : pc'[d] = IF d = c THEN where ELSE pc[d]
  BY DEF MdbTypeOK, SlotTypes
<1>2. done \subseteq Clients
  BY DEF MdbTypeOK
<1> QED
  BY <1>1, <1>2 DEF LiveQueueExact

(* The entry of a call that gives up stays in its place, but is nobody's. *)
LEMMA AbandonKeepsQueue ==
  ASSUME MdbTypeOK, LiveQueueExact, NEW c \in Clients, MdbResumeTimedOut(c)
  PROVE  waiters' \in Seq(Entries) /\ LiveQueueExact'
<1>1. /\ DOMAIN waiters' = DOMAIN waiters
      /\ \A k \in DOMAIN waiters : waiters'[k] = IF waiters[k] = c THEN Abandoned ELSE waiters[k]
  BY DEF MdbResumeTimedOut
<1>2. waiters' \in Seq(Entries)
  <2> DEFINE w == [k \in 1 .. Len(waiters) |->
                     IF waiters[k] = c THEN Abandoned ELSE waiters[k]]
  <2>1. w \in [1 .. Len(waiters) -> Entries] /\ Len(waiters) \in Nat
    BY LivePlaces DEF Entries
  <2>2. waiters' = w
    BY LivePlaces DEF MdbResumeTimedOut
  <2> HIDE DEF w
  <2> QED  BY <2>1, <2>2, SeqDef
<1>3. /\ \A d \in Clients \ {c} : pc'[d] = pc[d] /\ (d \in done' <=> d \in done)
      /\ pc'[c] = "out" /\ c \notin done' /\ done' \subseteq Clients
  BY DEF MdbResumeTimedOut, MdbTypeOK, SlotTypes
<1>4. \A d \in Clients, k \in DOMAIN waiters : waiters'[k] = d <=> waiters[k] = d /\ d # c
  BY <1>1, AbandonedAssumption
<1>5. \A d \in Clients : (\E k \in DOMAIN waiters' : waiters'[k] = d)
                           <=> pc'[d] \in {"wait", "timedout"} /\ d \notin done'
  BY <1>1, <1>3, <1>4 DEF LiveQueueExact
<1>6. \A j, k \in DOMAIN waiters' :
         waiters'[j] = waiters'[k] /\ waiters'[j] \in Clients => j = k
  BY <1>1, <1>4 DEF LiveQueueExact
<1>7. \A d \in done' : pc'[d] \in {"wait", "signalled", "timedout"}
  BY <1>3 DEF LiveQueueExact
<1> QED
  BY <1>2, <1>5, <1>6, <1>7 DEF LiveQueueExact

(* wakeOnePoolWaiter takes the front entry out, live or not: no entry of the *)
(* deque is a completed Future.                                              *)
LEMMA MdbWakesFront ==
  ASSUME MdbTypeOK, LiveQueueExact, MdbWakeOnePoolWaiter, waiters # <<>>
  PROVE  /\ Len(waiters) >= 1
         /\ waiters' = SubSeq(waiters, 2, Len(waiters))
         /\ done' = done \cup ({waiters[1]} \ {Abandoned})
<1>1. /\ Len(waiters) \in Nat
      /\ DOMAIN waiters = 1 .. Len(waiters)
      /\ \A k \in DOMAIN waiters : waiters[k] \in Entries
  BY LivePlaces
<1>2. Len(waiters) >= 1
  BY <1>1, EmptySeq DEF MdbTypeOK
<1>3. \A k \in DOMAIN waiters : waiters[k] \notin done
  BY <1>1, AbandonedAssumption DEF LiveQueueExact, MdbTypeOK
<1>4. ASSUME NEW k \in DOMAIN waiters, \A j \in 1 .. k - 1 : waiters[j] \in done
      PROVE  k = 1
  <2>1. CASE k > 1
    BY <1>1, <1>3, <1>4, <2>1
  <2> QED  BY <1>1, <2>1
<1>5. 1 \in DOMAIN waiters
  BY <1>1, <1>2
<1>6. PICK k \in DOMAIN waiters :
        /\ \A j \in 1 .. k - 1 : waiters[j] \in done
        /\ waiters' = SubSeq(waiters, k + 1, Len(waiters))
        /\ done' = done \cup ({waiters[k]} \ {Abandoned})
  BY <1>3, <1>5 DEF MdbWakeOnePoolWaiter
<1>7. k = 1 /\ k + 1 = 2
  BY <1>4, <1>6
<1> QED
  BY <1>2, <1>6, <1>7

(* returnConn: nothing is queued, or the front entry leaves the deque; if it *)
(* is a live one its Future is completed.                                    *)
LEMMA MdbReturnLiveQueue ==
  ASSUME MdbTypeOK, LiveQueueExact, NEW c \in Clients, MdbReturn(c)
  PROVE  waiters' \in Seq(Entries) /\ done' \subseteq Clients /\ LiveQueueExact'
<1> DEFINE n == Len(waiters)
<1>1. MdbWakeOnePoolWaiter /\ pc[c] = "using"
  BY DEF MdbReturn
<1>2. \A d \in Clients : pc'[d] = IF d = c THEN "out" ELSE pc[d]
  BY DEF MdbReturn, MdbTypeOK, SlotTypes
<1>3. c \notin done /\ \A k \in DOMAIN waiters : waiters[k] # c
  BY <1>1 DEF LiveQueueExact
<1>4. CASE waiters = <<>>
  <2>1. DOMAIN waiters = {}
    BY <1>4, EmptySeq, LenProperties
  <2>2. waiters' = waiters /\ done' = done
    BY <1>1, <1>4, <2>1 DEF MdbWakeOnePoolWaiter
  <2>3. done \subseteq Clients /\ waiters \in Seq(Entries)
    BY DEF MdbTypeOK
  <2> QED  BY <1>2, <1>3, <2>2, <2>3 DEF LiveQueueExact
<1>5. CASE waiters # <<>>
  <2> DEFINE first == waiters[1]
  <2>1. /\ n >= 1
        /\ waiters' = SubSeq(waiters, 2, n)
        /\ done' = done \cup ({first} \ {Abandoned})
    BY <1>1, <1>5, MdbWakesFront
  <2>2. n \in Nat /\ DOMAIN waiters = 1 .. n /\ first \in Entries
    BY <2>1, LivePlaces
  <2>3. 1 \in 1 .. n /\ 1 + 1 = 2
    BY <2>1, <2>2
  <2>4. /\ waiters' \in Seq(Entries)
        /\ Len(waiters') = n - 1
        /\ \A i \in 1 .. n - 1 : waiters'[i] = waiters[i + 1]
    <3>1. waiters \in Seq(Entries) /\ 1 \in 1 .. Len(waiters)
      BY <2>3 DEF MdbTypeOK
    <3>2. LET r == SubSeq(waiters, 1 + 1, Len(waiters))
          IN  /\ r \in Seq(Entries)
              /\ Len(r) = Len(waiters) - 1
              /\ \A i \in 1 .. Len(waiters) - 1 : r[i] = waiters[i + 1]
      BY <3>1, DropUpTo
    <3>3. waiters' = SubSeq(waiters, 1 + 1, Len(waiters))
      BY <2>1, <2>3
    <3> QED  BY <3>2, <3>3
  <2>5. DOMAIN waiters' = 1 .. n - 1
    BY <2>4, LenProperties
  <2> HIDE DEF n
  <2>6. first \in Clients => /\ pc[first] \in {"wait", "timedout"} /\ first \notin done
                             /\ first # c /\ first # Abandoned
    BY <1>3, <2>2, <2>3, AbandonedAssumption DEF LiveQueueExact
  <2>7. /\ done' = done \cup ({first} \cap Clients)
        /\ done' \subseteq Clients
    BY <2>1, <2>2, <2>6 DEF Entries, MdbTypeOK
  <2> HIDE DEF first
  <2>8. \A d \in Clients, i \in 1 .. n - 1 : waiters'[i] = d => d # first
    <3>1. ASSUME NEW d \in Clients, NEW i \in 1 .. n - 1, waiters'[i] = d, d = first
          PROVE  FALSE
      <4>1. i + 1 \in 1 .. n /\ i + 1 # 1 /\ waiters[i + 1] = d /\ waiters[1] = d
        BY <2>2, <2>4, <3>1 DEF first
      <4> QED  BY <2>2, <2>3, <4>1 DEF LiveQueueExact
    <3> QED  BY <3>1
  <2>9. ASSUME NEW d \in Clients, d # first
        PROVE  (\E i \in 1 .. n : waiters[i] = d) <=> (\E i \in 1 .. n - 1 : waiters'[i] = d)
    <3>1. ASSUME NEW i \in 1 .. n, waiters[i] = d
          PROVE  \E j \in 1 .. n - 1 : waiters'[j] = d
      <4>1. i # 1
        BY <2>9, <3>1 DEF first
      <4>2. i - 1 \in 1 .. n - 1 /\ (i - 1) + 1 = i
        BY <2>2, <4>1
      <4> QED  BY <2>4, <3>1, <4>2
    <3>2. ASSUME NEW i \in 1 .. n - 1, waiters'[i] = d
          PROVE  \E j \in 1 .. n : waiters[j] = d
      <4>1. i + 1 \in 1 .. n
        BY <2>2
      <4> QED  BY <2>4, <3>2, <4>1
    <3> QED  BY <3>1, <3>2
  <2>10. ASSUME NEW d \in Clients
         PROVE  (\E i \in DOMAIN waiters' : waiters'[i] = d)
                  <=> pc'[d] \in {"wait", "timedout"} /\ d \notin done'
    <3>1. CASE d = first
      BY <2>5, <2>7, <2>8, <3>1
    <3>2. CASE d # first
      <4>1. (\E i \in DOMAIN waiters' : waiters'[i] = d)
              <=> pc[d] \in {"wait", "timedout"} /\ d \notin done
        BY <2>2, <2>5, <2>9, <3>2 DEF LiveQueueExact
      <4>2. d \in done' <=> d \in done
        BY <2>7, <3>2
      <4>3. pc'[d] \in {"wait", "timedout"} <=> pc[d] \in {"wait", "timedout"}
        BY <1>1, <1>2
      <4> QED  BY <4>1, <4>2, <4>3
    <3> QED  BY <3>1, <3>2
  <2>11. ASSUME NEW i \in 1 .. n - 1, NEW j \in 1 .. n - 1,
                waiters'[i] = waiters'[j], waiters'[i] \in Clients
         PROVE  i = j
    <3>1. i + 1 \in 1 .. n /\ j + 1 \in 1 .. n
      BY <2>2
    <3>2. waiters[i + 1] = waiters[j + 1] /\ waiters[i + 1] \in Clients
      BY <2>4, <2>11
    <3>3. i + 1 = j + 1
      BY <2>2, <3>1, <3>2 DEF LiveQueueExact
    <3> QED  BY <3>3
  <2>12. \A d \in done' : pc'[d] \in {"wait", "signalled", "timedout"}
    <3>1. \A d \in done : d \in Clients /\ d # c
      BY <1>3 DEF MdbTypeOK
    <3> QED  BY <1>2, <2>6, <2>7, <3>1 DEF LiveQueueExact
  <2>13. LiveQueueExact'
    BY <2>5, <2>10, <2>11, <2>12 DEF LiveQueueExact
  <2> QED  BY <2>4, <2>7, <2>13
<1> QED
  BY <1>4, <1>5

-----------------------------------------------------------------------------
(* Every step keeps the invariant and is a step of ConnPool *)

LEMMA MdbNextInv == MdbInv /\ [MdbNext]_vars => MdbInv'
<1> SUFFICES ASSUME MdbInv, [MdbNext]_vars PROVE MdbInv'
  OBVIOUS
<1> USE DEF MdbInv
<1>1. ASSUME NEW c \in Clients, NEW p, Scan(c, p), pc[c] \in {"out", "signalled"},
             done' = done \ {c}
      PROVE  MdbInv'
  <2>1. SlotTypes' /\ waiters' \in Seq(Entries)
    BY <1>1, ScanTypes DEF MdbTypeOK, Entries
  <2>2. LiveQueueExact'
    BY <1>1, ScanLiveQueue
  <2>3. SlotAccounting'
    BY <1>1, ScanSlotAccounting DEF MdbTypeOK
  <2> QED  BY <1>1, <2>1, <2>2, <2>3 DEF MdbTypeOK
<1>2. ASSUME NEW c \in Clients, MdbCall(c) PROVE MdbInv'
  <2>1. c \notin done /\ pc[c] = "out"
    BY <1>2 DEF MdbCall, Call, LiveQueueExact
  <2> QED  BY <1>1, <1>2, <2>1 DEF MdbCall, Call
<1>3. ASSUME NEW c \in Clients, MdbResumeSignalled(c) PROVE MdbInv'
  BY <1>1, <1>3 DEF MdbResumeSignalled, ResumeSignalled
<1>4. ASSUME NEW c \in Clients, SignalCallback(c) \/ TimerCallback(c) PROVE MdbInv'
  <2>1. PICK where \in Phases \ {"using"} :
           /\ pc' = [pc EXCEPT ![c] = where]
           /\ \/ c \in done /\ where = "signalled"
              \/ pc[c] = "wait" /\ where = "timedout"
    BY <1>4 DEF SignalCallback, TimerCallback, Phases
  <2>2. pc[c] # "using" /\ UNCHANGED <<waiters, done, busy, overdue, conn>>
    BY <1>4 DEF SignalCallback, TimerCallback
  <2>3. MdbTypeOK'
    BY <2>1, <2>2 DEF MdbTypeOK, SlotTypes
  <2>4. SlotAccounting'
    BY <2>1, <2>2, MoveSlotAccounting DEF MdbTypeOK
  <2> QED  BY <2>1, <2>2, <2>3, <2>4, MoveLiveQueue
<1>5. ASSUME NEW c \in Clients, MdbResumeTimedOut(c) PROVE MdbInv'
  <2>1. waiters' \in Seq(Entries) /\ LiveQueueExact'
    BY <1>5, AbandonKeepsQueue
  <2>2. SlotTypes' /\ done' \subseteq Clients
    BY <1>5 DEF MdbResumeTimedOut, MdbTypeOK, SlotTypes, Phases
  <2>3. SlotAccounting'
    BY <1>5, MoveSlotAccounting DEF MdbResumeTimedOut, MdbTypeOK
  <2> QED  BY <2>1, <2>2, <2>3 DEF MdbTypeOK
<1>6. ASSUME NEW c \in Clients, MdbReturn(c) PROVE MdbInv'
  <2>1. waiters' \in Seq(Entries) /\ done' \subseteq Clients /\ LiveQueueExact'
    BY <1>6, MdbReturnLiveQueue
  <2>2. SlotTypes'
    BY <1>6 DEF MdbReturn, MdbTypeOK, SlotTypes, Phases
  <2>3. SlotAccounting'
    BY <1>6, ReturnSlotAccounting DEF MdbReturn, GivesBack, MdbTypeOK
  <2> QED  BY <2>1, <2>2, <2>3 DEF MdbTypeOK
<1>7. ASSUME NEW c \in Clients, DeadlinePasses(c) PROVE MdbInv'
  BY <1>7 DEF DeadlinePasses, MdbTypeOK, SlotTypes, SlotAccounting, LiveQueueExact, Conns, NoConn
<1>8. ASSUME NEW i \in Conns, LimitPasses(i) PROVE MdbInv'
  BY <1>8 DEF LimitPasses, MdbTypeOK, SlotTypes, SlotAccounting, LiveQueueExact, Conns, NoConn
<1>9. CASE UNCHANGED vars
  BY <1>9 DEF vars, MdbTypeOK, SlotTypes, SlotAccounting, LiveQueueExact, Conns, NoConn
<1> QED
  BY <1>2, <1>3, <1>4, <1>5, <1>6, <1>7, <1>8, <1>9 DEF MdbNext, Finished

LEMMA MdbInvariant == MdbSpec => []MdbInv
BY MdbInit, MdbNextInv, PTL DEF MdbSpec

(* No timed out Future in the deque costs another call its place: as long as *)
(* a call is suspended and its own Future is not completed, the deque holds  *)
(* that Future, exactly once, so a later returnConn can still reach it.      *)
THEOREM LiveWaitersQueued == MdbSpec => []LiveWaiterQueued
<1>1. MdbInv => LiveWaiterQueued
  BY DEF MdbInv, LiveQueueExact, LiveWaiterQueued
<1> QED
  BY <1>1, MdbInvariant, PTL

(* No slot of the MariaDB pool is lent twice or stays busy without a borrower. *)
THEOREM MdbSlotsAccounted == MdbSpec => []SlotAccounting
<1>1. MdbInv => SlotAccounting
  BY DEF MdbInv
<1> QED
  BY <1>1, MdbInvariant, PTL

(* Every step is a step of ConnPool or changes nothing of it. *)
LEMMA MdbNextMaps == MdbInv /\ [MdbNext]_vars => [Pool!Next]_(Pool!vars)
<1> SUFFICES ASSUME SlotTypes, SlotAccounting, [MdbNext]_vars
             PROVE  [Pool!Next]_(Pool!vars)
  BY DEF MdbInv, MdbTypeOK
<1>1. ASSUME NEW c \in Clients, MdbCall(c) \/ MdbResumeSignalled(c)
      PROVE  [Pool!Next]_(Pool!vars)
  BY <1>1, ScanMaps DEF MdbCall, Call, MdbResumeSignalled, ResumeSignalled
<1>2. ASSUME NEW c \in Clients, SignalCallback(c) \/ TimerCallback(c)
      PROVE  [Pool!Next]_(Pool!vars)
  <2>1. Holding' = Holding /\ Asking' = Asking \cup {c} /\ c \in Asking
    BY <1>2, MoveMaps DEF SignalCallback, TimerCallback, Asking
  <2>2. Asking' = Asking
    BY <2>1
  <2> QED  BY <2>1, <2>2 DEF Pool!vars, Holding, Asking
<1>3. ASSUME NEW c \in Clients, MdbResumeTimedOut(c) PROVE [Pool!Next]_(Pool!vars)
  <2>1. "out" \notin {"wait", "signalled", "timedout"}
    OBVIOUS
  <2>2. Holding' = Holding /\ Asking' = Asking \ {c}
    BY <1>3, <2>1, MoveMaps DEF MdbResumeTimedOut
  <2>3. c \in Asking
    BY <1>3 DEF MdbResumeTimedOut, Asking
  <2> QED  BY <2>2, <2>3 DEF Pool!Next, Pool!Refuse, Holding, Asking
<1>4. ASSUME NEW c \in Clients, MdbReturn(c) PROVE [Pool!Next]_(Pool!vars)
  BY <1>4, ReturnMaps DEF MdbReturn, GivesBack
<1>5. CASE UNCHANGED <<pc, conn>>
  BY <1>5 DEF Pool!vars
<1> QED
  BY <1>1, <1>2, <1>3, <1>4, <1>5
     DEF MdbNext, DeadlinePasses, LimitPasses, Finished, vars

(* The MariaDB pool implements ConnPool too: its unreliable wake-ups decide  *)
(* when a call is answered, never with whose slot.                           *)
THEOREM MdbImplementsConnPool == MdbSpec => LendsLikeConnPool
<1>1. Init => Pool!Init
  BY DEF Init, Pool!Init
<1> QED
  BY <1>1, MdbInvariant, MdbNextMaps, PTL
     DEF MdbSpec, LendsLikeConnPool, Pool!SafeSpec
=============================================================================
