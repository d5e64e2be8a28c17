-------------------------- MODULE MysqlPoolProofs ---------------------------
(***************************************************************************)
(* Theorems about the polling connection pool of MysqlPool, for any         *)
(* clients, any number of slots, any timeout and any limits.                *)
(***************************************************************************)
EXTENDS MysqlPool, TLAPS

(* dbOpen leaves every variable with its type. *)
LEMMA InitTypeOK == Init => TypeOK
BY MysqlPoolAssumption DEF Init, TypeOK, Conns, NoConn

(* What a look at the slots leaves behind. *)
LEMMA ScanTypes ==
  ASSUME TypeOK, NEW c \in Clients, Scan(c)
  PROVE  /\ busy' \in [Conns -> BOOLEAN]
         /\ overdue' \in [Conns -> SUBSET Limits]
         /\ pc' \in [Clients -> {"out", "asleep", "using"}]
         /\ conn' \in [Clients -> Conns \cup {NoConn}]
<1>1. ASSUME NEW i \in Conns,
             busy' = [busy EXCEPT ![i] = TRUE],
             \E left \in {{}, overdue[i]} : overdue' = [overdue EXCEPT ![i] = left],
             conn' = [conn EXCEPT ![c] = i],
             pc' = [pc EXCEPT ![c] = "using"]
      PROVE  /\ busy' \in [Conns -> BOOLEAN]
             /\ overdue' \in [Conns -> SUBSET Limits]
             /\ pc' \in [Clients -> {"out", "asleep", "using"}]
             /\ conn' \in [Clients -> Conns \cup {NoConn}]
  BY <1>1 DEF TypeOK
<1>2. CASE pc' = [pc EXCEPT ![c] = "asleep"] /\ UNCHANGED <<busy, overdue, conn>>
  BY <1>2 DEF TypeOK
<1> QED
  BY <1>1, <1>2 DEF Scan

(* Every step keeps every variable in its type. *)
LEMMA NextTypeOK == TypeOK /\ [Next]_vars => TypeOK'
<1> SUFFICES ASSUME TypeOK, [Next]_vars PROVE TypeOK'
  OBVIOUS
<1>1. ASSUME NEW c \in Clients, Call(c) PROVE TypeOK'
  <2>1. calls' \in [Clients -> 0 .. MaxCalls] /\ late' \in [Clients -> BOOLEAN]
    BY <1>1, MysqlPoolAssumption DEF Call, TypeOK
  <2> QED  BY <1>1, <2>1, ScanTypes DEF Call, TypeOK
<1>2. ASSUME NEW c \in Clients, WakeUp(c) PROVE TypeOK'
  <2>1. CASE Scan(c)
    BY <1>2, <2>1, ScanTypes DEF WakeUp, TypeOK
  <2>2. CASE pc' = [pc EXCEPT ![c] = "out"] /\ UNCHANGED <<busy, overdue, conn>>
    BY <1>2, <2>2 DEF WakeUp, TypeOK
  <2> QED  BY <1>2, <2>1, <2>2 DEF WakeUp
<1>3. ASSUME NEW c \in Clients, Return(c) PROVE TypeOK'
  BY <1>3 DEF Return, TypeOK
<1>4. ASSUME NEW c \in Clients, DeadlinePasses(c) PROVE TypeOK'
  BY <1>4 DEF DeadlinePasses, TypeOK
<1>5. ASSUME NEW i \in Conns, LimitPasses(i) PROVE TypeOK'
  BY <1>5 DEF LimitPasses, TypeOK
<1>6. CASE UNCHANGED vars
  BY <1>6 DEF vars, TypeOK
<1> QED
  BY <1>1, <1>2, <1>3, <1>4, <1>5, <1>6 DEF Next, Finished

(* Every variable keeps its type, for all values of the constants. *)
THEOREM TypeCorrect == Spec => []TypeOK
BY InitTypeOK, NextTypeOK, PTL DEF Spec

-----------------------------------------------------------------------------
(* Slot accounting *)

(* Giving client c the slot new (or NoConn) and marking the slots to match. *)
LEMMA Accounts ==
  ASSUME TypeOK, SlotAccounting, NEW c \in Clients,
         NEW phase, NEW new \in Conns \cup {NoConn},
         new = NoConn <=> phase # "using",
         \A d \in Clients \ {c} : conn[d] # new \/ new = NoConn,
         pc' = [pc EXCEPT ![c] = phase],
         conn' = [conn EXCEPT ![c] = new],
         \A i \in Conns : busy'[i] = IF i = new THEN TRUE
                                     ELSE IF i = conn[c] THEN FALSE ELSE busy[i]
  PROVE  SlotAccounting'
<1>1. NoConn \notin Conns
  BY DEF Conns, NoConn
<1>2. \A d \in Clients : conn'[d] = IF d = c THEN new ELSE conn[d]
  BY DEF TypeOK
<1>3. \A d \in Clients : pc'[d] = IF d = c THEN phase ELSE pc[d]
  BY DEF TypeOK
<1>4. \A d \in Clients : conn'[d] = NoConn <=> pc'[d] # "using"
  BY <1>2, <1>3 DEF SlotAccounting
<1>5. \A d, e \in Clients : conn'[d] = conn'[e] /\ conn'[d] # NoConn => d = e
  BY <1>2 DEF SlotAccounting
<1>6. ASSUME NEW i \in Conns PROVE busy'[i] <=> \E d \in Clients : conn'[d] = i
  <2>1. CASE i = new
    BY <1>2, <2>1
  <2>2. CASE i # new /\ i = conn[c]
    <3>1. \A d \in Clients : conn'[d] # i
      BY <1>1, <1>2, <2>2 DEF SlotAccounting
    <3> QED  BY <2>2, <3>1
  <2>3. CASE i # new /\ i # conn[c]
    <3>1. busy'[i] = busy[i]
      BY <2>3
    <3>2. \A d \in Clients : conn'[d] = i <=> conn[d] = i
      BY <1>2, <2>3
    <3> QED  BY <3>1, <3>2 DEF SlotAccounting
  <2> QED  BY <2>1, <2>2, <2>3
<1> QED
  BY <1>4, <1>5, <1>6 DEF SlotAccounting, NoConn, Conns

(* A client without a slot moves on without one. *)
LEMMA MoveAccounts ==
  ASSUME TypeOK, SlotAccounting, NEW c \in Clients, pc[c] # "using",
         NEW phase, phase # "using",
         pc' = [pc EXCEPT ![c] = phase], UNCHANGED <<busy, conn>>
  PROVE  SlotAccounting'
<1>1. \A d \in Clients : pc'[d] # "using" <=> pc[d] # "using"
  BY DEF TypeOK
<1> QED  BY <1>1 DEF SlotAccounting, NoConn, Conns

(* A slot is taken only when isBusy is false, hence when nobody has it. *)
LEMMA ScanAccounts ==
  ASSUME TypeOK, SlotAccounting, NEW c \in Clients, pc[c] # "using", Scan(c)
  PROVE  SlotAccounting'
<1>1. ASSUME NEW i \in Conns, ~busy[i],
             busy' = [busy EXCEPT ![i] = TRUE],
             conn' = [conn EXCEPT ![c] = i],
             pc' = [pc EXCEPT ![c] = "using"]
      PROVE  SlotAccounting'
  <2>1. i # NoConn /\ conn[c] = NoConn /\ NoConn \notin Conns
    BY DEF Conns, NoConn, SlotAccounting
  <2>2. \A d \in Clients : conn[d] # i
    BY <1>1 DEF SlotAccounting
  <2>3. \A j \in Conns : busy'[j] = IF j = i THEN TRUE
                                    ELSE IF j = conn[c] THEN FALSE ELSE busy[j]
    BY <1>1, <2>1 DEF TypeOK
  <2>4. i \in Conns \cup {NoConn} /\ (i = NoConn <=> "using" # "using")
    BY <2>1
  <2>5. \A d \in Clients \ {c} : conn[d] # i \/ i = NoConn
    BY <2>2
  <2> QED  BY <1>1, <2>3, <2>4, <2>5, Accounts
<1>2. CASE pc' = [pc EXCEPT ![c] = "asleep"] /\ UNCHANGED <<busy, conn>>
  <2>1. "asleep" # "using"
    OBVIOUS
  <2> QED  BY <1>2, <2>1, MoveAccounts
<1> QED
  BY <1>1, <1>2 DEF Scan, FirstFree

(* Every step keeps the accounts right. *)
LEMMA NextAccounts == TypeOK /\ SlotAccounting /\ [Next]_vars => SlotAccounting'
<1> SUFFICES ASSUME TypeOK, SlotAccounting, [Next]_vars PROVE SlotAccounting'
  OBVIOUS
<1>1. ASSUME NEW c \in Clients, Call(c) PROVE SlotAccounting'
  BY <1>1, ScanAccounts DEF Call
<1>2. ASSUME NEW c \in Clients, WakeUp(c) PROVE SlotAccounting'
  <2>1. CASE Scan(c)
    BY <1>2, <2>1, ScanAccounts DEF WakeUp
  <2>2. CASE pc' = [pc EXCEPT ![c] = "out"] /\ UNCHANGED <<busy, conn>>
    <3>1. "out" # "using" /\ pc[c] # "using"
      BY <1>2 DEF WakeUp
    <3> QED  BY <2>2, <3>1, MoveAccounts
  <2> QED  BY <1>2, <2>1, <2>2 DEF WakeUp
<1>3. ASSUME NEW c \in Clients, Return(c) PROVE SlotAccounting'
  <2>1. conn[c] \in Conns /\ NoConn \notin Conns
    BY <1>3 DEF Return, SlotAccounting, TypeOK, Conns, NoConn
  <2>2. \A i \in Conns : busy'[i] = IF i = NoConn THEN TRUE
                                    ELSE IF i = conn[c] THEN FALSE ELSE busy[i]
    BY <1>3, <2>1 DEF Return, TypeOK
  <2>3. "out" # "using" /\ NoConn \in Conns \cup {NoConn}
    OBVIOUS
  <2> QED  BY <1>3, <2>2, <2>3, Accounts DEF Return
<1>4. CASE UNCHANGED <<busy, pc, conn>>
  BY <1>4 DEF SlotAccounting, NoConn, Conns
<1> QED
  BY <1>1, <1>2, <1>3, <1>4 DEF Next, DeadlinePasses, LimitPasses, Finished, vars

(* No two coroutines share a MySQL connection, and isBusy marks exactly the  *)
(* lent ones: none is lost and none is lent twice.                           *)
THEOREM SlotsAccounted == Spec => []SlotAccounting
<1>1. Init => SlotAccounting
  BY DEF Init, SlotAccounting, NoConn, Conns
<1> QED
  BY <1>1, InitTypeOK, NextTypeOK, NextAccounts, PTL DEF Spec

-----------------------------------------------------------------------------
(* MysqlPool implements the safety part of ConnPool. *)

(* The refinement mapping of Pool. *)
Asking  == {c \in Clients : pc[c] = "asleep"}
Holding == [c \in Clients |-> {conn[c]} \ {NoConn}]

(* A slot is lent exactly when some client has it. *)
LEMMA LentSlots ==
  ASSUME TypeOK
  PROVE  Pool!Lent = {i \in Conns : \E c \in Clients : conn[c] = i}
BY DEF Pool!Lent, TypeOK, Conns, NoConn

(* A look at the slots grants one, or leaves the call pending. *)
LEMMA ScanMaps ==
  ASSUME TypeOK, SlotAccounting, NEW c \in Clients, pc[c] # "using", Scan(c)
  PROVE  [Pool!Next]_(Pool!vars)
<1>1. ASSUME NEW i \in Conns, ~busy[i],
             conn' = [conn EXCEPT ![c] = i],
             pc' = [pc EXCEPT ![c] = "using"]
      PROVE  [Pool!Next]_(Pool!vars)
  <2>1. i # NoConn /\ conn[c] = NoConn
    BY DEF Conns, NoConn, SlotAccounting
  <2>2. i \notin Pool!Lent
    BY <1>1, LentSlots DEF SlotAccounting
  <2>3. Holding' = [Holding EXCEPT ![c] = @ \cup {i}]
    BY <1>1, <2>1 DEF Holding, TypeOK
  <2>4. Asking' = Asking \ {c}
    BY <1>1 DEF Asking, TypeOK
  <2>5. Pool!Grant(c)
    BY <2>2, <2>3, <2>4 DEF Pool!Grant, Holding, Asking
  <2> QED  BY <2>5 DEF Pool!Next
<1>2. CASE pc' = [pc EXCEPT ![c] = "asleep"] /\ UNCHANGED conn
  <2>1. Asking' = Asking \cup {c} /\ Holding' = Holding
    BY <1>2 DEF Asking, Holding, TypeOK
  <2>2. CASE c \notin Asking
    BY <2>1, <2>2 DEF Pool!Next, Pool!Ask, Asking, Holding
  <2>3. CASE c \in Asking
    <3>1. Asking' = Asking
      BY <2>1, <2>3
    <3> QED  BY <2>1, <3>1 DEF Pool!vars, Asking, Holding
  <2> QED  BY <2>2, <2>3
<1> QED
  BY <1>1, <1>2 DEF Scan, FirstFree

(* Every step of the pool is a step of ConnPool or changes nothing of it. *)
LEMMA NextMaps == TypeOK /\ SlotAccounting /\ [Next]_vars => [Pool!Next]_(Pool!vars)
<1> SUFFICES ASSUME TypeOK, SlotAccounting, [Next]_vars
             PROVE  [Pool!Next]_(Pool!vars)
  OBVIOUS
<1>1. ASSUME NEW c \in Clients, Call(c) PROVE [Pool!Next]_(Pool!vars)
  BY <1>1, ScanMaps DEF Call
<1>2. ASSUME NEW c \in Clients, WakeUp(c) PROVE [Pool!Next]_(Pool!vars)
  <2>1. CASE Scan(c)
    BY <1>2, <2>1, ScanMaps DEF WakeUp
  <2>2. CASE pc' = [pc EXCEPT ![c] = "out"] /\ UNCHANGED conn
    <3>1. Asking' = Asking \ {c} /\ c \in Asking /\ Holding' = Holding
      BY <1>2, <2>2 DEF WakeUp, Asking, Holding, TypeOK
    <3> QED  BY <3>1 DEF Pool!Next, Pool!Refuse, Asking, Holding
  <2> QED  BY <1>2, <2>1, <2>2 DEF WakeUp
<1>3. ASSUME NEW c \in Clients, Return(c) PROVE [Pool!Next]_(Pool!vars)
  <2>1. pc[c] = "using" /\ conn[c] # NoConn
    BY <1>3 DEF Return, SlotAccounting
  <2>2. Holding' = [Holding EXCEPT ![c] = @ \ {conn[c]}] /\ conn[c] \in Holding[c]
    BY <1>3, <2>1 DEF Return, Holding, TypeOK
  <2>3. Asking' = Asking
    BY <1>3, <2>1 DEF Return, Asking, TypeOK
  <2>4. Pool!GiveBack(c)
    BY <2>2, <2>3 DEF Pool!GiveBack, Holding, Asking
  <2> QED  BY <2>4 DEF Pool!Next
<1>4. CASE UNCHANGED <<pc, conn>>
  BY <1>4 DEF Pool!vars
<1> QED
  BY <1>1, <1>2, <1>3, <1>4 DEF Next, DeadlinePasses, LimitPasses, Finished, vars

(* The polling pool keeps what ConnPool promises to its callers: a slot is   *)
(* granted only while nobody has it, and it comes back only from its         *)
(* borrower.                                                                 *)
THEOREM ImplementsConnPool == Spec => LendsLikeConnPool
<1>1. Init => Pool!Init
  BY DEF Init, Pool!Init
<1> QED
  BY <1>1, NextMaps, TypeCorrect, SlotsAccounted, PTL
     DEF Spec, LendsLikeConnPool, Pool!SafeSpec
=============================================================================
