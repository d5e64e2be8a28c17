----------------------------- MODULE WaiterPool -----------------------------
(***************************************************************************)
(* The notification based connection pool of the PostgreSQL driver          *)
(* (query_builder/models/postgres/postgres_exec.nim, section "connection"); *)
(* the SQLite and SurrealDB drivers carry the same procedures.              *)
(*                                                                          *)
(* Everything runs on one asyncdispatch event loop, so a step is what the   *)
(* loop executes without yielding: a call of getFreeConn up to its await,   *)
(* one callback, or a whole returnConn.  A waiter is resumed in two hops:   *)
(* the callback that withTimeout put on the waiter's Future, or on its      *)
(* timer, decides the answer, and the continuation of getFreeConn reads it  *)
(* in a later turn.  Other coroutines run in between.                       *)
(***************************************************************************)
EXTENDS Integers, Sequences, FiniteSets

CONSTANTS Clients,    \* coroutines that share the pool
          NumConns,   \* maxConnections given to dbOpen
          Timeouts,   \* timeouts dbOpen may be given: "zero", "some", "long" (never reached)
          Limits,     \* nonzero ones of maxConnectionLifetime / maxConnectionIdleTime
          MaxCalls    \* bound: calls of getFreeConn each client makes

ASSUME NumConnsAssumption == NumConns \in Nat
ASSUME TimeoutAssumption  == Timeouts \subseteq {"zero", "some", "long"}
ASSUME LimitsAssumption   == Limits \subseteq {"lifetime", "idle"}
ASSUME MaxCallsAssumption == MaxCalls \in Nat

Conns  == 1 .. NumConns   \* indices 0 .. maxConnections - 1 of Connections.conns
NoConn == 0               \* errorConnectionNum

VARIABLES
  timeout,  \* Connections.timeout
  busy,     \* Connection.isBusy per slot
  overdue,  \* the limits hasConnExpired finds exceeded, per slot
  waiters,  \* Connections.waiters; an entry stands for the Future of that client
  done,     \* clients whose current waiter Future has been completed
  pc,       \* where each client is in getFreeConn
  late,     \* whether the deadline of the client's call has passed
  conn,     \* the slot the client borrowed
  calls     \* calls of getFreeConn the client may still make

vars == <<timeout, busy, overdue, waiters, done, pc, late, conn, calls>>

(* "out": not borrowing; "wait": suspended, undecided; "signalled" and       *)
(* "timedout": withTimeout has decided, the continuation is scheduled;      *)
(* "using": owns a slot.                                                     *)
Phases == {"out", "wait", "signalled", "timedout", "using"}

Init == /\ timeout \in Timeouts
        /\ busy    = [i \in Conns |-> FALSE]
        /\ overdue = [i \in Conns |-> {}]
        /\ waiters = <<>>
        /\ done    = {}
        /\ pc      = [c \in Clients |-> "out"]
        /\ late    = [c \in Clients |-> FALSE]
        /\ conn    = [c \in Clients |-> NoConn]
        /\ calls   = [c \in Clients |-> MaxCalls]

-----------------------------------------------------------------------------
(* The slot the scan of getFreeConn stops at: the lowest one not busy. *)
FirstFree(i) == /\ ~busy[i]
                /\ \A j \in Conns : busy[j] \/ i <= j

NoneFree == \A i \in Conns : busy[i]

RefreshAll(i) == overdue' = [j \in Conns |-> {}]   \* mutant: reconnects every slot

(* refreshConn on an expired slot either replaces the physical connection or *)
(* raises, and getFreeConn swallows the exception: the slot stays expired.   *)
RefreshIfExpired(i) == \E left \in {{}, overdue[i]} :
                          overdue' = [overdue EXCEPT ![i] = left]

(* Mutants of Take: isBusy is not set; the index returned is one too high.   *)
TakeUnmarked(c) == \E i \in Conns :
                     /\ FirstFree(i)
                     /\ RefreshIfExpired(i)
                     /\ conn' = [conn EXCEPT ![c] = i]
                     /\ pc' = [pc EXCEPT ![c] = "using"]
                     /\ UNCHANGED <<busy, waiters>>

TakeNext(c) == \E i \in Conns :
                 /\ FirstFree(i)
                 /\ busy' = [busy EXCEPT ![i] = TRUE]
                 /\ RefreshIfExpired(i)
                 /\ conn' = [conn EXCEPT ![c] = i + 1]
                 /\ pc' = [pc EXCEPT ![c] = "using"]
                 /\ UNCHANGED waiters

(* The loop body of getFreeConn when a slot is free. *)
Take(c) == \E i \in Conns :
             /\ FirstFree(i)
             /\ busy' = [busy EXCEPT ![i] = TRUE]
             /\ RefreshIfExpired(i)
             /\ conn' = [conn EXCEPT ![c] = i]
             /\ pc' = [pc EXCEPT ![c] = "using"]
             /\ UNCHANGED waiters

(* One turn of the loop of getFreeConn, up to its await or its return. *)
Scan(c, deadlinePassed) ==
  \/ Take(c)
  \/ /\ NoneFree
     /\ deadlinePassed                      \* return errorConnectionNum
     /\ pc' = [pc EXCEPT ![c] = "out"]
     /\ UNCHANGED <<busy, overdue, waiters, conn>>
  \/ /\ NoneFree
     /\ ~deadlinePassed                     \* waiters.addLast(w)
     /\ waiters' = Append(waiters, c)
     /\ pc' = [pc EXCEPT ![c] = "wait"]
     /\ UNCHANGED <<busy, overdue, conn>>

Call(c) == /\ pc[c] = "out"
           /\ calls[c] > 0
           /\ calls' = [calls EXCEPT ![c] = @ - 1]
           /\ late' = [late EXCEPT ![c] = (timeout = "zero")]
           /\ Scan(c, timeout = "zero")
           /\ UNCHANGED <<timeout, done>>

(* withTimeout, callback on the waiter's Future: the answer is true. *)
SignalCallback(c) == /\ pc[c] = "wait"
                     /\ c \in done
                     /\ pc' = [pc EXCEPT ![c] = "signalled"]
                     /\ UNCHANGED <<timeout, busy, overdue, waiters, done, late, conn, calls>>

(* withTimeout, callback on the timer: the answer is false, even when the    *)
(* waiter's Future was completed in the same turn but not yet looked at.     *)
TimerCallback(c) == /\ pc[c] = "wait"
                    /\ late[c]
                    /\ pc' = [pc EXCEPT ![c] = "timedout"]
                    /\ UNCHANGED <<timeout, busy, overdue, waiters, done, late, conn, calls>>

(* Mutant: a woken call that finds no free slot gives up. *)
ResumeOnce(c) == /\ pc[c] = "signalled"
                 /\ done' = done \ {c}
                 /\ Scan(c, TRUE)
                 /\ UNCHANGED <<timeout, late, calls>>

(* The continuation after a true answer scans again. *)
ResumeSignalled(c) == /\ pc[c] = "signalled"
                      /\ done' = done \ {c}
                      /\ Scan(c, late[c])
                      /\ UNCHANGED <<timeout, late, calls>>

LeaveWaiter(c) == UNCHANGED waiters   \* mutant: no removePoolWaiter

(* removePoolWaiter: a Future sits in the deque at most once. *)
RemovePoolWaiter(c) ==
  \/ \E k \in DOMAIN waiters :
        /\ waiters[k] = c
        /\ waiters' = SubSeq(waiters, 1, k - 1) \o SubSeq(waiters, k + 1, Len(waiters))
  \/ /\ \A k \in DOMAIN waiters : waiters[k] # c
     /\ UNCHANGED waiters

(* Mutant: a false answer sends the call back to its waiter. *)
RetryTimedOut(c) == /\ pc[c] = "timedout"
                    /\ pc' = [pc EXCEPT ![c] = "wait"]
                    /\ UNCHANGED <<timeout, busy, overdue, waiters, done, late, conn, calls>>

(* The continuation after a false answer gives up without another scan. *)
ResumeTimedOut(c) == /\ pc[c] = "timedout"
                     /\ RemovePoolWaiter(c)
                     /\ done' = done \ {c}
                     /\ pc' = [pc EXCEPT ![c] = "out"]
                     /\ UNCHANGED <<timeout, busy, overdue, late, conn, calls>>

WakeNobody == UNCHANGED <<waiters, done>>   \* mutant: returnConn wakes nobody

(* wakeOnePoolWaiter: drop finished Futures, complete the first unfinished. *)
WakeOnePoolWaiter ==
  \/ \E k \in DOMAIN waiters :
        /\ waiters[k] \notin done
        /\ \A j \in 1 .. k - 1 : waiters[j] \in done
        /\ waiters' = SubSeq(waiters, k + 1, Len(waiters))
        /\ done' = done \cup {waiters[k]}
  \/ /\ \A k \in DOMAIN waiters : waiters[k] \in done
     /\ waiters' = <<>>
     /\ UNCHANGED done

(* returnConn; lastUsedAt restarts the idle clock, the lifetime goes on. *)
Return(c) == /\ pc[c] = "using"
             /\ busy' = [busy EXCEPT ![conn[c]] = FALSE]
             /\ overdue' = [overdue EXCEPT ![conn[c]] = @ \ {"idle"}]
             /\ WakeOnePoolWaiter
             /\ conn' = [conn EXCEPT ![c] = NoConn]
             /\ pc' = [pc EXCEPT ![c] = "out"]
             /\ UNCHANGED <<timeout, late, calls>>

-----------------------------------------------------------------------------
(* Time: the deadline of a pending call passes; a slot exceeds a limit. *)
DeadlinePasses(c) == /\ timeout = "some"
                     /\ pc[c] \in {"wait", "signalled"}
                     /\ ~late[c]
                     /\ late' = [late EXCEPT ![c] = TRUE]
                     /\ UNCHANGED <<timeout, busy, overdue, waiters, done, pc, conn, calls>>

LimitPasses(i) == \E l \in Limits \ overdue[i] :
                    /\ overdue' = [overdue EXCEPT ![i] = @ \cup {l}]
                    /\ UNCHANGED <<timeout, busy, waiters, done, pc, late, conn, calls>>

(* Every client made its last call and holds nothing. *)
Finished == /\ \A c \in Clients : pc[c] = "out" /\ calls[c] = 0
            /\ UNCHANGED vars

Next == \/ \E c \in Clients : \/ Call(c)
                              \/ SignalCallback(c)
                              \/ TimerCallback(c)
                              \/ ResumeSignalled(c)
                              \/ ResumeTimedOut(c)
                              \/ Return(c)
                              \/ DeadlinePasses(c)
        \/ \E i \in Conns : LimitPasses(i)
        \/ Finished

Spec == Init /\ [][Next]_vars

(* The event loop runs every scheduled callback and continuation, and the    *)
(* clock advances; nothing forces a client to call or to finish its query.   *)
LoopFairness == \A c \in Clients : /\ WF_vars(SignalCallback(c) \/ TimerCallback(c))
                                   /\ WF_vars(ResumeSignalled(c) \/ ResumeTimedOut(c))
                                   /\ WF_vars(DeadlinePasses(c))

LoopSpec == Spec /\ LoopFairness

(* Every borrower gives its slot back in the end. *)
BorrowerFairness == \A c \in Clients : WF_vars(Return(c))

-----------------------------------------------------------------------------
(* Every variable has its type (Connections, Connection in                   *)
(* postgres_types.nim, locals of getFreeConn).                               *)
TypeOK == /\ timeout \in Timeouts
          /\ busy \in [Conns -> BOOLEAN]
          /\ overdue \in [Conns -> SUBSET Limits]
          /\ waiters \in Seq(Clients)
          /\ done \subseteq Clients
          /\ pc \in [Clients -> Phases]
          /\ late \in [Clients -> BOOLEAN]
          /\ conn \in [Clients -> Conns \cup {NoConn}]
          /\ calls \in [Clients -> 0 .. MaxCalls]

(* The flag isBusy and the borrowers agree: a client is in a query exactly   *)
(* when it has a slot, that slot is marked busy, no two clients share one,   *)
(* and no slot stays busy without a borrower (getFreeConn / returnConn).     *)
SlotAccounting ==
  /\ \A c \in Clients : conn[c] = NoConn <=> pc[c] # "using"
  /\ \A c, d \in Clients : conn[c] = conn[d] /\ conn[c] # NoConn => c = d
  /\ \A i \in Conns : busy[i] <=> \E c \in Clients : conn[c] = i

(* The deque of waiters holds exactly the Futures somebody still looks at:   *)
(* one entry per suspended call whose Future is unfinished, in any            *)
(* interleaving of returnConn with the two callbacks of withTimeout, and no  *)
(* entry of a call that already returned (removePoolWaiter).                 *)
QueueExact ==
  /\ \A c \in Clients : (\E k \in DOMAIN waiters : waiters[k] = c)
                          <=> pc[c] \in {"wait", "timedout"} /\ c \notin done
  /\ \A j, k \in DOMAIN waiters : waiters[j] = waiters[k] => j = k
  /\ \A c \in done : pc[c] \in {"wait", "signalled", "timedout"}

(* When the timeout is out of sight, a slot is never idle beside a queued       *)
(* waiter without a wake-up under way for it: each returnConn wakes one      *)
(* waiter, and one that comes too late (another call took the slot first)    *)
(* queues again.                                                             *)
NoLostWakeup ==
  timeout = "long" /\ waiters # <<>> => Cardinality({i \in Conns : ~busy[i]}) <= Cardinality(done)

(* A returned slot is announced: when returnConn runs while a suspended call *)
(* still waits for its Future, the Future of one suspended call completes,   *)
(* never that of a call which has already given up.                          *)
ReturnAnnounced ==
  [][\A c \in Clients :
       /\ pc[c] = "using" /\ pc'[c] = "out"
       /\ \E d \in Clients : pc[d] = "wait" /\ d \notin done
       => \E d \in Clients \ done : /\ pc[d] \in {"wait", "timedout"}
                                    /\ done' = done \cup {d}]_vars

(* A pooled connection is replaced (its clocks restart) only while nobody    *)
(* has it: refreshConn of one call never closes the socket of another.       *)
NotReplacedWhileBorrowed ==
  [][\A i \in Conns : busy[i] /\ busy'[i] => overdue[i] \subseteq overdue'[i]]_vars

(* A slot past its limits is reconnected before it is lent; one that could   *)
(* not be reconnected is not lent (design note on aged connections).         *)
LentRecycled ==
  [][\A i \in Conns : ~busy[i] /\ busy'[i] => overdue'[i] = {}]_vars

(* Whoever waits for a slot gets an answer, a slot or a pool timeout, even   *)
(* when wake-ups are taken by others or borrowers never finish.              *)
CallAnswered ==
  timeout = "some" => \A c \in Clients : pc[c] = "wait" ~> pc[c] \in {"using", "out"}

(* When the timeout is out of sight and borrowers return their slots, every  *)
(* suspended call gets a slot, although a running client may take a slot     *)
(* before the woken one resumes and sends it to the end of the deque: each   *)
(* client makes finitely many calls (MaxCalls), so that overtaking ends.     *)
(* Callers that come without end could overtake a woken call forever.        *)
Served ==
  timeout = "long" /\ BorrowerFairness
    => \A c \in Clients : pc[c] = "wait" ~> pc[c] = "using"

(* The slots are lent as ConnPool demands. *)
Pool == INSTANCE ConnPool WITH
          asking <- {c \in Clients : pc[c] \in {"wait", "signalled", "timedout"}},
          lent   <- [c \in Clients |-> {conn[c]} \ {NoConn}]

LendsLikeConnPool == Pool!SafeSpec
=============================================================================
