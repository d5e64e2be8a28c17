------------------------------ MODULE ConnPool ------------------------------
(***************************************************************************)
(* What a connection pool promises to the coroutines that use it, whatever  *)
(* the driver: a slot is lent to at most one borrower, a call that has to   *)
(* wait is answered with a slot or with a refusal, and a slot comes back    *)
(* only from its borrower.  WaiterPool (PostgreSQL, SQLite, SurrealDB),     *)
(* MariadbPool and MysqlPool are shown to implement this specification.     *)
(***************************************************************************)

CONSTANTS Clients,  \* the coroutines that call getFreeConn
          Conns     \* the slots of Connections.conns

VARIABLES asking,   \* clients suspended in getFreeConn
          lent      \* lent[c]: the slots handed to client c and not yet returned

vars == <<asking, lent>>

Lent == UNION {lent[c] : c \in Clients}

Init == /\ asking = {}
        /\ lent = [c \in Clients |-> {}]

(* getFreeConn found no free slot: the call is pending. *)
Ask(c) == /\ c \notin asking
          /\ asking' = asking \cup {c}
          /\ UNCHANGED lent

(* getFreeConn answers with a free slot. *)
Grant(c) == \E i \in Conns \ Lent :
              /\ lent' = [lent EXCEPT ![c] = @ \cup {i}]
              /\ asking' = asking \ {c}

(* getFreeConn answers errorConnectionNum and the wrapper raises DbError. *)
Refuse(c) == /\ c \in asking
             /\ asking' = asking \ {c}
             /\ UNCHANGED lent

(* returnConn. *)
GiveBack(c) == \E i \in lent[c] :
                 /\ lent' = [lent EXCEPT ![c] = @ \ {i}]
                 /\ UNCHANGED asking

Next == \E c \in Clients : Ask(c) \/ Grant(c) \/ Refuse(c) \/ GiveBack(c)

(* A pending call is answered in the end, by a slot or by a refusal. *)
Answers(c) == (Grant(c) \/ Refuse(c)) /\ c \in asking

SafeSpec == Init /\ [][Next]_vars

Spec == SafeSpec /\ \A c \in Clients : WF_vars(Answers(c))

=============================================================================
