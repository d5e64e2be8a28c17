----------------------------- MODULE MysqlPool -----------------------------
(***************************************************************************)
(* The polling connection pool of the MySQL driver (mysql_exec.nim): no     *)
(* waiters, a call that finds no free slot sleeps 10 ms, then looks at the  *)
(* deadline, and only before the deadline at the slots again.               *)
(***************************************************************************)
EXTENDS Integers

CONSTANTS Clients,    \* coroutines that share the pool
          NumConns,   \* maxConnections given to dbOpen
          Timeouts,   \* timeouts dbOpen may be given: "zero", "some", "long" (never reached)
          Limits,     \* nonzero ones of maxConnectionLifetime / maxConnectionIdleTime
          MaxCalls    \* bound: calls of getFreeConn each client makes

ASSUME MysqlPoolAssumption == /\ NumConns \in Nat
                              /\ MaxCalls \in Nat
                              /\ Timeouts \subseteq {"zero", "some", "long"}
                              /\ Limits \subseteq {"lifetime", "idle"}

Conns  == 1 .. NumConns
NoConn == 0               \* errorConnectionNum

VARIABLES timeout,  \* Connections.timeout
          busy,     \* Connection.isBusy per slot
          overdue,  \* the limits hasConnExpired finds exceeded, per slot
          pc,       \* "out", "asleep" in getFreeConn, or "using" a slot
          late,     \* whether calledAt + timeout has been reached
          conn,     \* the slot the client borrowed
          calls     \* calls of getFreeConn the client may still make

vars == <<timeout, busy, overdue, pc, late, conn, calls>>

Init == /\ timeout \in Timeouts
        /\ busy    = [i \in Conns |-> FALSE]
        /\ overdue = [i \in Conns |-> {}]
        /\ pc      = [c \in Clients |-> "out"]
        /\ late    = [c \in Clients |-> FALSE]
        /\ conn    = [c \in Clients |-> NoConn]
        /\ calls   = [c \in Clients |-> MaxCalls]

FirstFree(i) == /\ ~busy[i]
                /\ \A j \in Conns : busy[j] \/ i <= j

(* Mutants of Scan: isBusy is not set; the index returned is one too high.   *)
ScanUnmarked(c) ==
  \/ \E i \in Conns :
        /\ FirstFree(i)
        /\ conn' = [conn EXCEPT ![c] = i]
        /\ pc' = [pc EXCEPT ![c] = "using"]
        /\ UNCHANGED <<busy, overdue>>
  \/ /\ \A i \in Conns : busy[i]
     /\ pc' = [pc EXCEPT ![c] = "asleep"]
     /\ UNCHANGED <<busy, overdue, conn>>

ScanNext(c) ==
  \/ \E i \in Conns :
        /\ FirstFree(i)
        /\ busy' = [busy EXCEPT ![i] = TRUE]
        /\ conn' = [conn EXCEPT ![c] = i + 1]
        /\ pc' = [pc EXCEPT ![c] = "using"]
        /\ UNCHANGED overdue
  \/ /\ \A i \in Conns : busy[i]
     /\ pc' = [pc EXCEPT ![c] = "asleep"]
     /\ UNCHANGED <<busy, overdue, conn>>

(* The scan takes the first free slot, reconnecting it when it has expired   *)
(* (a failed refreshConn is swallowed), or goes to sleep for 10 ms.          *)
Scan(c) ==
  \/ \E i \in Conns :
        /\ FirstFree(i)
        /\ busy' = [busy EXCEPT ![i] = TRUE]
        /\ \E left \in {{}, overdue[i]} : overdue' = [overdue EXCEPT ![i] = left]
        /\ conn' = [conn EXCEPT ![c] = i]
        /\ pc' = [pc EXCEPT ![c] = "using"]
  \/ /\ \A i \in Conns : busy[i]
     /\ pc' = [pc EXCEPT ![c] = "asleep"]
     /\ UNCHANGED <<busy, overdue, conn>>

Call(c) == /\ pc[c] = "out"
           /\ calls[c] > 0
           /\ calls' = [calls EXCEPT ![c] = @ - 1]
           /\ late' = [late EXCEPT ![c] = (timeout = "zero")]
           /\ Scan(c)
           /\ UNCHANGED timeout

(* Mutants of WakeUp: the deadline is not looked at; the call gives up.      *)
WakeUpPatient(c) == /\ pc[c] = "asleep"
                    /\ Scan(c)
                    /\ UNCHANGED <<timeout, late, calls>>

WakeUpGivesUp(c) == /\ pc[c] = "asleep"
                    /\ pc' = [pc EXCEPT ![c] = "out"]
                    /\ UNCHANGED <<timeout, busy, overdue, conn, late, calls>>

(* After the sleep: past the deadline give up, else scan. *)
WakeUp(c) == /\ pc[c] = "asleep"
             /\ \/ /\ late[c]
                   /\ pc' = [pc EXCEPT ![c] = "out"]
                   /\ UNCHANGED <<busy, overdue, conn>>
                \/ /\ ~late[c]
                   /\ Scan(c)
             /\ UNCHANGED <<timeout, late, calls>>

(* returnConn wakes nobody. *)
Return(c) == /\ pc[c] = "using"
             /\ busy' = [busy EXCEPT ![conn[c]] = FALSE]
             /\ overdue' = [overdue EXCEPT ![conn[c]] = @ \ {"idle"}]
             /\ conn' = [conn EXCEPT ![c] = NoConn]
             /\ pc' = [pc EXCEPT ![c] = "out"]
             /\ UNCHANGED <<timeout, late, calls>>

DeadlinePasses(c) == /\ timeout = "some"
                     /\ pc[c] = "asleep"
                     /\ ~late[c]
                     /\ late' = [late EXCEPT ![c] = TRUE]
                     /\ UNCHANGED <<timeout, busy, overdue, pc, conn, calls>>

LimitPasses(i) == \E l \in Limits \ overdue[i] :
                    /\ overdue' = [overdue EXCEPT ![i] = @ \cup {l}]
                    /\ UNCHANGED <<timeout, busy, pc, late, conn, calls>>

Finished == /\ \A c \in Clients : pc[c] = "out" /\ calls[c] = 0
            /\ UNCHANGED vars

Next == \/ \E c \in Clients : \/ Call(c)
                              \/ WakeUp(c)
                              \/ Return(c)
                              \/ DeadlinePasses(c)
        \/ \E i \in Conns : LimitPasses(i)
        \/ Finished

Spec == Init /\ [][Next]_vars

(* The event loop fires every 10 ms timer and the clock advances. *)
LoopSpec == Spec /\ \A c \in Clients : WF_vars(WakeUp(c)) /\ WF_vars(DeadlinePasses(c))

(* Every borrower gives its slot back in the end. *)
BorrowerFairness == \A c \in Clients : WF_vars(Return(c))
-----------------------------------------------------------------------------
(* Every variable has its type. *)
TypeOK == /\ timeout \in Timeouts
          /\ busy \in [Conns -> BOOLEAN]
          /\ overdue \in [Conns -> SUBSET Limits]
          /\ pc \in [Clients -> {"out", "asleep", "using"}]
          /\ late \in [Clients -> BOOLEAN]
          /\ conn \in [Clients -> Conns \cup {NoConn}]
          /\ calls \in [Clients -> 0 .. MaxCalls]

(* isBusy marks exactly the borrowed slots and no slot has two borrowers.    *)
SlotAccounting ==
  /\ \A c \in Clients : conn[c] = NoConn <=> pc[c] # "using"
  /\ \A c, d \in Clients : conn[c] = conn[d] /\ conn[c] # NoConn => c = d
  /\ \A i \in Conns : busy[i] <=> \E c \in Clients : conn[c] = i

(* A sleeping call is answered, by a slot or by the pool timeout. *)
CallAnswered ==
  timeout # "long" => \A c \in Clients : pc[c] = "asleep" ~> pc[c] # "asleep"

(* Without a deadline in sight polling misses a free slot only while other   *)
(* calls take it; each makes finitely many, so every call gets one.          *)
Served ==
  timeout = "long" /\ BorrowerFairness
    => \A c \in Clients : pc[c] = "asleep" ~> pc[c] = "using"

(* The slots are lent as ConnPool demands. *)
Pool == INSTANCE ConnPool WITH
          asking <- {c \in Clients : pc[c] = "asleep"},
          lent   <- [c \in Clients |-> {conn[c]} \ {NoConn}]

LendsLikeConnPool == Pool!SafeSpec
=============================================================================
