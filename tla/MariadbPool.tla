---------------------------- MODULE MariadbPool ----------------------------
(***************************************************************************)
(* The connection pool of the MariaDB driver (mariadb_exec.nim).  It has    *)
(* the waiters of WaiterPool but no removePoolWaiter: a call that times out *)
(* leaves its unfinished Future in the deque.                               *)
(***************************************************************************)
EXTENDS WaiterPool

(* The Future of a call that already returned; nobody looks at it. *)
Abandoned == "abandoned"

ASSUME AbandonedAssumption == Abandoned \notin Clients

(* Mutant: a false answer sends the call back to its waiter. *)
MdbRetryTimedOut(c) == /\ pc[c] = "timedout"
                       /\ pc' = [pc EXCEPT ![c] = "wait"]
                       /\ UNCHANGED <<timeout, busy, overdue, waiters, done, late, conn, calls>>

(* After a false answer getFreeConn returns at once. *)
MdbResumeTimedOut(c) ==
  /\ pc[c] = "timedout"
  /\ waiters' = [k \in DOMAIN waiters |->
                   IF waiters[k] = c THEN Abandoned ELSE waiters[k]]
  /\ done' = done \ {c}
  /\ pc' = [pc EXCEPT ![c] = "out"]
  /\ UNCHANGED <<timeout, busy, overdue, late, conn, calls>>

(* Mutant: every pending Future is dropped, the first one is completed. *)
MdbWakeClears == /\ waiters' = <<>>
                 /\ done' = done \cup (IF waiters = <<>> THEN {} ELSE {waiters[1]} \ {Abandoned})

(* wakeOnePoolWaiter completes the first unfinished Future, whoever owns it. *)
MdbWakeOnePoolWaiter ==
  \/ \E k \in DOMAIN waiters :
        /\ waiters[k] \notin done
        /\ \A j \in 1 .. k - 1 : waiters[j] \in done
        /\ waiters' = SubSeq(waiters, k + 1, Len(waiters))
        /\ done' = done \cup ({waiters[k]} \ {Abandoned})
  \/ /\ \A k \in DOMAIN waiters : waiters[k] \in done
     /\ waiters' = <<>>
     /\ UNCHANGED done

(* returnConn *)
MdbReturn(c) == /\ pc[c] = "using"
                /\ busy' = [busy EXCEPT ![conn[c]] = FALSE]
                /\ overdue' = [overdue EXCEPT ![conn[c]] = @ \ {"idle"}]
                /\ MdbWakeOnePoolWaiter
                /\ conn' = [conn EXCEPT ![c] = NoConn]
                /\ pc' = [pc EXCEPT ![c] = "out"]
                /\ UNCHANGED <<timeout, late, calls>>

(* getFreeConn up to its await or return, as in the PostgreSQL driver. *)
MdbCall(c) == Call(c)

MdbResumeSignalled(c) == ResumeSignalled(c)

MdbNext == \/ \E c \in Clients : \/ MdbCall(c)
                                 \/ SignalCallback(c)
                                 \/ TimerCallback(c)
                                 \/ MdbResumeSignalled(c)
                                 \/ MdbResumeTimedOut(c)
                                 \/ MdbReturn(c)
                                 \/ DeadlinePasses(c)
           \/ \E i \in Conns : LimitPasses(i)
           \/ Finished

MdbSpec == Init /\ [][MdbNext]_vars

MdbLoopSpec ==
  MdbSpec /\ \A c \in Clients :
               /\ WF_vars(SignalCallback(c) \/ TimerCallback(c))
               /\ WF_vars(MdbResumeSignalled(c) \/ MdbResumeTimedOut(c))
               /\ WF_vars(DeadlinePasses(c))
-----------------------------------------------------------------------------
(* The pool may leave a free slot unannounced, yet it lends every slot to    *)
(* one borrower and every waiting call its own live Future: each suspended   *)
(* call is queued exactly once, whatever abandoned entries lie in front.     *)
LiveWaiterQueued ==
  \A c \in Clients : pc[c] \in {"wait", "timedout"} /\ c \notin done
                     => \E k \in DOMAIN waiters :
                          /\ waiters[k] = c
                          /\ \A j \in DOMAIN waiters : waiters[j] = c => j = k
=============================================================================
