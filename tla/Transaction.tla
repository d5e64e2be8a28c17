---------------------------- MODULE Transaction ----------------------------
(***************************************************************************)
(* Coroutines that share one rdb object: transaction blocks (begin, body,   *)
(* commit or rollback) beside stand-alone queries.  The rdb object carries  *)
(* isInTransaction and transactionConn for everybody; a query object copies *)
(* them when it is built, begin and transactionEnd write them.  Slots are   *)
(* borrowed as ConnPool promises.                                           *)
(*                                                                          *)
(* A step is what the event loop runs between two awaits: a statement is    *)
(* sent in one step and answered in a later one, or never: in PostgreSQL a  *)
(* call ends at its deadline or when the connection is lost, and its        *)
(* command stays behind.  Connections are not renewed here.                 *)
(***************************************************************************)
EXTENDS Integers, FiniteSets

CONSTANTS Tasks,      \* coroutines that use the rdb object
          NumConns,   \* maxConnections
          BodyLen,    \* bound: statements in the body of a block
          Scenarios   \* the programs and the faults considered, see below

ASSUME TransactionAssumption ==
  /\ IsFiniteSet(Tasks)
  /\ NumConns \in Nat \ {0}
  /\ BodyLen \in Nat \ {0}

(* A scenario names the driver, the coroutines that run a transaction block, *)
(* one rdb.table(..) write, one rdb.raw(..) write or one write of a prepared *)
(* handle, whether the bodies of the blocks use rdb.raw(..), the statements  *)
(* the server may reject, and those whose call may end without an answer.    *)
(* A coroutine with a block does nothing else, nor does one with a handle.   *)
(* (Handles of PostgreSQL keep their slots the same way, but take answers    *)
(* from each other: see PgProtocol.)                                         *)
Statements == {"BEGIN", "body", "COMMIT", "ROLLBACK"}

IsScenario(s) ==
  /\ s.driver \in {"postgres", "sqlite"}
  /\ s.blocks \subseteq Tasks
  /\ s.queries \subseteq Tasks
  /\ s.raws \subseteq Tasks
  /\ s.prepareds \subseteq Tasks
  /\ s.blocks \cap (s.queries \cup s.raws \cup s.prepareds) = {}
  /\ s.prepareds \cap (s.queries \cup s.raws) = {}
  /\ s.prepareds # {} => s.driver = "sqlite"
  /\ s.rawBody \in BOOLEAN
  /\ s.fails \subseteq Statements
  /\ s.cuts \subseteq Statements
  /\ s.driver = "sqlite" => s.cuts = {}

ASSUME ScenariosAssumption == \A s \in Scenarios : IsScenario(s)

Conns  == 0 .. NumConns - 1
NoConn == NumConns                     \* errorConnectionNum
Writes == Tasks \X (1 .. BodyLen)      \* the written rows, by task and position

VARIABLES
  scenario,  \* one of Scenarios, never changed
  busy,      \* Connection.isBusy per slot
  inTx,      \* rdb.isInTransaction
  txConn,    \* rdb.transactionConn
  crossed,   \* history: handles at work while a block began or ended
  stuck,     \* per slot: a call ended with its command still in flight
  late,      \* server side, per slot: that command, until it is dealt with
  session,   \* server side, per slot: "auto", "open" or "aborted" transaction
  pending,   \* server side, per slot: writes of the open transaction
  applied,   \* server side: durable writes
  pc,        \* control state of each task
  slot,      \* connI of the statement a task has sent
  refused,   \* the driver did not send it: another command was in flight
  borrowed,  \* whether that statement took a slot of its own
  next,      \* position of the next statement of a task
  owned,     \* history: slot that begin took for the task and nobody returned
  outcome    \* how the task ended

taskVars   == <<slot, refused, borrowed, next>>
rdbVars    == <<scenario, inTx, txConn, crossed>>
wire       == <<stuck, late>>
serverVars == <<session, pending, applied>>
vars == <<busy, rdbVars, wire, serverVars, pc, taskVars, owned, outcome>>

Driver  == scenario.driver
Blocks  == scenario.blocks
Queries == scenario.queries
Raws    == scenario.raws
Prepareds == scenario.prepareds
Active  == Blocks \cup Queries \cup Raws \cup Prepareds
Fails   == scenario.fails
Cuts    == scenario.cuts

Init == /\ scenario \in Scenarios
        /\ busy     = [i \in Conns |-> FALSE]
        /\ inTx     = FALSE
        /\ txConn   = 0
        /\ crossed  = {}
        /\ stuck    = [i \in Conns |-> FALSE]
        /\ late     = [i \in Conns |-> {}]
        /\ session  = [i \in Conns |-> "auto"]
        /\ pending  = [i \in Conns |-> {}]
        /\ applied  = {}
        /\ pc       = [t \in Tasks |-> IF t \in Active THEN "idle" ELSE "done"]
        /\ slot     = [t \in Tasks |-> NoConn]
        /\ refused  = [t \in Tasks |-> FALSE]
        /\ borrowed = [t \in Tasks |-> FALSE]
        /\ next     = [t \in Tasks |-> 1]
        /\ owned    = [t \in Tasks |-> NoConn]
        /\ outcome  = [t \in Tasks |-> "none"]

-----------------------------------------------------------------------------
FirstFree(i) == ~busy[i] /\ \A j \in Conns : busy[j] \/ i <= j

NoneFree == \A i \in Conns : busy[i]

(* libpq sends nothing while a command is in flight, be it of a call that    *)
(* gave up, nor on a lost connection; SQLite runs a statement in one piece,  *)
(* so a second one on the same handle just comes later.                      *)
SendOn(t, i) ==
  /\ slot' = [slot EXCEPT ![t] = i]
  /\ refused' = [refused EXCEPT ![t] =
                   /\ Driver = "postgres"
                   /\ \/ stuck[i]
                      \/ \E u \in Tasks : slot[u] = i /\ ~refused[u]]

(* The call of the statement has ended, with an answer or without.           *)
Over(t) == /\ slot' = [slot EXCEPT ![t] = NoConn]
           /\ refused' = [refused EXCEPT ![t] = FALSE]

Statement(t) == IF pc[t] = "sent" THEN "body" ELSE pc[t]

NotSent(t) == refused[t] /\ UNCHANGED <<wire, serverVars>>

(* The deadline passes or the connection is lost: the call raises, and the   *)
(* server may still execute the command or have done so.                     *)
Unanswered(t) ==
  /\ ~refused[t]
  /\ Statement(t) \in Cuts
  /\ stuck' = [stuck EXCEPT ![slot[t]] = TRUE]
  /\ late' = [late EXCEPT ![slot[t]] = {<<t, Statement(t)>>}]
  /\ UNCHANGED serverVars

Finish(t, how) == /\ pc' = [pc EXCEPT ![t] = "done"]
                  /\ outcome' = [outcome EXCEPT ![t] = how]

(* An exception in a task: a block goes to its except branch, others end.    *)
(* A statement on a lost connection fails an assertion, which no             *)
(* CatchableError branch takes, so a block may end there, too.               *)
Raise(t) == \/ /\ t \in Blocks
               /\ pc' = [pc EXCEPT ![t] = "except"]
               /\ UNCHANGED outcome
            \/ /\ t \in Blocks => refused[t] /\ stuck[slot[t]]
               /\ Finish(t, "error")

(* What the server does with a statement.  BEGIN inside a transaction is a   *)
(* warning in PostgreSQL; a write happens at once or inside the open         *)
(* transaction; COMMIT of an aborted transaction rolls back without error.   *)
Opens(i) == /\ session' = [session EXCEPT ![i] = IF @ = "auto" THEN "open" ELSE @]
            /\ UNCHANGED <<pending, applied>>

WriteOn(t, i) ==
  \/ /\ session[i] = "auto"
     /\ applied' = applied \cup {<<t, next[t]>>}
     /\ UNCHANGED <<session, pending>>
  \/ /\ session[i] = "open"
     /\ pending' = [pending EXCEPT ![i] = @ \cup {<<t, next[t]>>}]
     /\ UNCHANGED <<session, applied>>

Closes(i) == /\ session' = [session EXCEPT ![i] = "auto"]
             /\ pending' = [pending EXCEPT ![i] = {}]

Ends(i, query) ==
  /\ Closes(i)
  /\ applied' = IF query = "COMMIT" /\ session[i] = "open"
                THEN applied \cup pending[i] ELSE applied

(* A statement the server rejects aborts an open PostgreSQL transaction.     *)
Rejects(i) ==
  /\ session' = [session EXCEPT ![i] =
                   IF @ = "open" /\ Driver = "postgres" THEN "aborted" ELSE @]
  /\ UNCHANGED <<pending, applied>>

(* The command a call left behind is executed after all,                     *)
LateRuns(i) ==
  /\ \E t \in Tasks, query \in Statements :
       /\ <<t, query>> \in late[i]
       /\ \/ query = "BEGIN" /\ Opens(i)
          \/ query = "body" /\ WriteOn(t, i)
          \/ query \in {"COMMIT", "ROLLBACK"} /\ Ends(i, query)
  /\ late' = [late EXCEPT ![i] = {}]
  /\ UNCHANGED <<busy, rdbVars, stuck, pc, taskVars, owned, outcome>>

(* or fails: rejected, cancelled by cancelQuery, or gone with a COMMIT that  *)
(* fails or with the connection, which give the transaction up.  Nobody      *)
(* reads the result either way.                                              *)
LateFails(i) ==
  /\ stuck[i]
  /\ \/ late[i] # {} /\ Rejects(i)
     \/ Closes(i) /\ UNCHANGED applied
  /\ late' = [late EXCEPT ![i] = {}]
  /\ UNCHANGED <<busy, rdbVars, stuck, pc, taskVars, owned, outcome>>

-----------------------------------------------------------------------------
(* Handles that are waiting for a slot or an answer, with the flag they read. *)
Crossed == crossed \cup {t \in Prepareds : pc[t] \in {"asking", "sent"}}

(* transactionStart: the flags of the shared rdb change before BEGIN is sent. *)
Begin(t) ==
  /\ t \in Blocks
  /\ pc[t] \in {"idle", "waiting"}
  /\ \E i \in Conns :
       /\ FirstFree(i)
       /\ busy' = [busy EXCEPT ![i] = TRUE]
       /\ inTx' = TRUE
       /\ txConn' = i
       /\ crossed' = Crossed
       /\ owned' = [owned EXCEPT ![t] = i]
       /\ SendOn(t, i)
  /\ pc' = [pc EXCEPT ![t] = "BEGIN"]
  /\ UNCHANGED <<scenario, wire, serverVars, borrowed, next, outcome>>

(* getFreeConn finds no free slot and awaits one. *)
BeginWaits(t) ==
  /\ t \in Blocks
  /\ pc[t] = "idle"
  /\ NoneFree
  /\ pc' = [pc EXCEPT ![t] = "waiting"]
  /\ UNCHANGED <<busy, rdbVars, wire, serverVars, taskVars, owned, outcome>>

(* No slot in time: begin, which is outside the try of the macro, raises. *)
BeginTimesOut(t) ==
  /\ pc[t] = "waiting"
  /\ Finish(t, "error")
  /\ UNCHANGED <<busy, rdbVars, wire, serverVars, taskVars, owned>>

(* BEGIN inside a transaction is an error in SQLite. *)
BeginDone(t) ==
  /\ pc[t] = "BEGIN"
  /\ ~refused[t]
  /\ session[slot[t]] = "auto" \/ Driver = "postgres"
  /\ Opens(slot[t])
  /\ pc' = [pc EXCEPT ![t] = "body"]
  /\ Over(t)
  /\ UNCHANGED <<busy, rdbVars, wire, borrowed, next, owned, outcome>>

BeginRejected(t) ==
  /\ ~refused[t]
  /\ "BEGIN" \in Fails \/ (Driver = "sqlite" /\ session[slot[t]] # "auto")
  /\ UNCHANGED <<wire, serverVars>>

(* BEGIN fails: the exception leaves the block, nothing is undone. *)
BeginFails(t) ==
  /\ pc[t] = "BEGIN"
  /\ NotSent(t) \/ Unanswered(t) \/ BeginRejected(t)
  /\ Finish(t, "error")
  /\ Over(t)
  /\ UNCHANGED <<busy, rdbVars, borrowed, next, owned>>

-----------------------------------------------------------------------------
Ready(t) == \/ t \in Blocks /\ pc[t] = "body" /\ next[t] <= BodyLen
            \/ t \notin Blocks /\ pc[t] = "idle"

(* What a query object copies from the rdb; raw() always copies false. *)
UsesTransaction(t) == inTx /\ t \notin Raws /\ ~(t \in Blocks /\ scenario.rawBody)

(* A query outside a transaction takes a slot of its own; one that waits for *)
(* it keeps the flag it has read.                                            *)
WantsSlot(t) == pc[t] = "asking" \/ (Ready(t) /\ ~UsesTransaction(t))

(* Building and sending a query: inside a transaction it goes to the copied  *)
(* transactionConn, otherwise to a slot of its own.                          *)
Send(t) ==
  /\ \/ /\ Ready(t)
        /\ UsesTransaction(t)
        /\ SendOn(t, txConn)
        /\ UNCHANGED <<busy, borrowed>>
     \/ /\ WantsSlot(t)
        /\ \E i \in Conns : /\ FirstFree(i)
                            /\ busy' = [busy EXCEPT ![i] = TRUE]
                            /\ SendOn(t, i)
        /\ borrowed' = [borrowed EXCEPT ![t] = TRUE]
  /\ pc' = [pc EXCEPT ![t] = "sent"]
  /\ UNCHANGED <<rdbVars, wire, serverVars, next, owned, outcome>>

SendWaits(t) ==
  /\ Ready(t)
  /\ ~UsesTransaction(t)
  /\ NoneFree
  /\ pc' = [pc EXCEPT ![t] = "asking"]
  /\ UNCHANGED <<busy, rdbVars, wire, serverVars, taskVars, owned, outcome>>

(* No slot in time. *)
SendTimesOut(t) ==
  /\ pc[t] = "asking"
  /\ Raise(t)
  /\ UNCHANGED <<busy, rdbVars, wire, serverVars, taskVars, owned>>

(* Mutant: the defer returns the slot inside a transaction too. *)
ReleaseAlways(t) == /\ busy' = [busy EXCEPT ![slot[t]] = FALSE]
                    /\ borrowed' = [borrowed EXCEPT ![t] = FALSE]

(* The defer of the exec wrapper, on the query's own copy of the flag; that   *)
(* of a prepared handle reads the shared flag again.                          *)
ReleaseBorrowed(t) ==
  /\ busy' = IF (t \in Prepareds /\ ~inTx) \/ (t \notin Prepareds /\ borrowed[t])
             THEN [busy EXCEPT ![slot[t]] = FALSE] ELSE busy
  /\ borrowed' = [borrowed EXCEPT ![t] = FALSE]

Answer(t) ==
  /\ pc[t] = "sent"
  /\ ~refused[t]
  /\ WriteOn(t, slot[t])
  /\ ReleaseBorrowed(t)
  /\ Over(t)
  /\ next' = [next EXCEPT ![t] = @ + 1]
  /\ \/ t \in Blocks /\ pc' = [pc EXCEPT ![t] = "body"] /\ UNCHANGED outcome
     \/ t \notin Blocks /\ Finish(t, "ok")
  /\ UNCHANGED <<rdbVars, wire, owned>>

StatementRejected(t) ==
  /\ ~refused[t]
  /\ "body" \in Fails \/ session[slot[t]] = "aborted"
  /\ Rejects(slot[t])
  /\ UNCHANGED wire

(* The statement fails: its slot goes back whatever is still on it. *)
AnswerFails(t) ==
  /\ pc[t] = "sent"
  /\ NotSent(t) \/ Unanswered(t) \/ StatementRejected(t)
  /\ ReleaseBorrowed(t)
  /\ Over(t)
  /\ Raise(t)
  /\ UNCHANGED <<rdbVars, next, owned>>

(* The body raises for a reason of its own. *)
BodyRaises(t) ==
  /\ t \in Blocks
  /\ pc[t] = "body"
  /\ "body" \in Fails
  /\ pc' = [pc EXCEPT ![t] = "except"]
  /\ UNCHANGED <<busy, rdbVars, wire, serverVars, taskVars, owned, outcome>>

-----------------------------------------------------------------------------
(* The macro: commit() ends the try, rollback() is the except branch. *)
Ending(t, query) ==
  /\ t \in Blocks
  /\ \/ query = "COMMIT" /\ pc[t] = "body" /\ next[t] > BodyLen
     \/ query = "ROLLBACK" /\ pc[t] = "except"

(* transactionEnd sends its statement on the transactionConn it finds. *)
End(t, query) ==
  /\ Ending(t, query)
  /\ SendOn(t, txConn)
  /\ pc' = [pc EXCEPT ![t] = query]
  /\ UNCHANGED <<busy, rdbVars, wire, serverVars, borrowed, next, owned, outcome>>

(* Outside a transaction COMMIT and ROLLBACK are warnings in PostgreSQL and  *)
(* errors in SQLite.                                                         *)
EndAccepted(t) == /\ ~refused[t]
                  /\ Driver = "postgres" \/ session[slot[t]] # "auto"

(* Mutants of LeaveTransaction: no returnConn; the flag stays set; the       *)
(* connection is reset to errorConnectionNum.                                *)
LeaveBusy(t) == /\ txConn' = 0
                /\ inTx' = FALSE
                /\ owned' = [owned EXCEPT ![t] = NoConn]
                /\ UNCHANGED busy

LeaveFlag(t) == /\ busy' = [busy EXCEPT ![txConn] = FALSE]
                /\ txConn' = 0
                /\ owned' = [owned EXCEPT ![t] = NoConn]
                /\ UNCHANGED inTx

LeaveNoConn(t) == /\ busy' = [busy EXCEPT ![txConn] = FALSE]
                  /\ txConn' = NoConn
                  /\ inTx' = FALSE
                  /\ owned' = [owned EXCEPT ![t] = NoConn]

(* returnConn(self.transactionConn) and the reset of the shared flags: the   *)
(* fields are read again after the statement was awaited.                    *)
LeaveTransaction(t) == /\ busy' = [busy EXCEPT ![txConn] = FALSE]
                       /\ txConn' = 0
                       /\ inTx' = FALSE
                       /\ owned' = [owned EXCEPT ![t] = NoConn]

EndDone(t, query) ==
  /\ pc[t] = query
  /\ EndAccepted(t)
  /\ Ends(slot[t], query)
  /\ LeaveTransaction(t)
  /\ crossed' = Crossed
  /\ Over(t)
  /\ Finish(t, IF query = "COMMIT" THEN "committed" ELSE "rolledback")
  /\ UNCHANGED <<scenario, wire, borrowed, next>>

(* Mutant: the exception of COMMIT or ROLLBACK is swallowed. *)
EndSwallows(t, query) ==
  Finish(t, IF query = "COMMIT" THEN "committed" ELSE "rolledback")

(* A failed COMMIT raises inside the try, a failed ROLLBACK leaves the block. *)
EndRaises(t, query) == \/ query = "COMMIT" /\ Raise(t)
                       \/ query = "ROLLBACK" /\ Finish(t, "error")

(* The server has given the transaction up when it rejects a COMMIT. *)
EndRejected(t, query) ==
  /\ ~refused[t]
  /\ query \in Fails
  /\ IF query = "COMMIT" THEN Closes(slot[t]) ELSE UNCHANGED <<session, pending>>
  /\ UNCHANGED <<wire, applied>>

(* PostgreSQL: the exception skips returnConn and the reset. *)
PgEndFails(t, query) ==
  /\ Driver = "postgres"
  /\ pc[t] = query
  /\ NotSent(t) \/ Unanswered(t) \/ EndRejected(t, query)
  /\ EndRaises(t, query)
  /\ Over(t)
  /\ UNCHANGED <<busy, rdbVars, borrowed, next, owned>>

(* SQLite: returnConn and the reset are in a defer and run all the same; the *)
(* transaction stays open on the handle.                                     *)
SqliteEndFails(t, query) ==
  /\ Driver = "sqlite"
  /\ pc[t] = query
  /\ query \in Fails \/ ~EndAccepted(t)
  /\ LeaveTransaction(t)
  /\ crossed' = Crossed
  /\ EndRaises(t, query)
  /\ Over(t)
  /\ UNCHANGED <<scenario, wire, serverVars, borrowed, next>>

AllDone == /\ \A t \in Tasks : pc[t] = "done"
           /\ UNCHANGED vars

Next == \/ \E t \in Tasks : \/ Begin(t)
                            \/ BeginWaits(t)
                            \/ BeginTimesOut(t)
                            \/ BeginDone(t)
                            \/ BeginFails(t)
                            \/ Send(t)
                            \/ SendWaits(t)
                            \/ SendTimesOut(t)
                            \/ Answer(t)
                            \/ AnswerFails(t)
                            \/ BodyRaises(t)
                            \/ \E query \in {"COMMIT", "ROLLBACK"} :
                                 \/ End(t, query)
                                 \/ EndDone(t, query)
                                 \/ PgEndFails(t, query)
                                 \/ SqliteEndFails(t, query)
        \/ \E i \in Conns : LateRuns(i) \/ LateFails(i)
        \/ AllDone

Spec == Init /\ [][Next]_vars
-----------------------------------------------------------------------------
(* Every variable has its type. *)
TypeOK ==
  /\ scenario \in Scenarios
  /\ busy \in [Conns -> BOOLEAN]
  /\ inTx \in BOOLEAN
  /\ txConn \in Conns
  /\ crossed \subseteq Tasks
  /\ stuck \in [Conns -> BOOLEAN]
  /\ late \in [Conns -> SUBSET (Tasks \X Statements)]
  /\ session \in [Conns -> {"auto", "open", "aborted"}]
  /\ pending \in [Conns -> SUBSET Writes]
  /\ applied \subseteq Writes
  /\ pc \in [Tasks -> {"idle", "waiting", "BEGIN", "body", "asking", "sent", "COMMIT",
                       "except", "ROLLBACK", "done"}]
  /\ slot \in [Tasks -> Conns \cup {NoConn}]
  /\ refused \in [Tasks -> BOOLEAN]
  /\ borrowed \in [Tasks -> BOOLEAN]
  /\ next \in [Tasks -> 1 .. BodyLen + 1]
  /\ owned \in [Tasks -> Conns \cup {NoConn}]
  /\ outcome \in [Tasks -> {"none", "ok", "committed", "rolledback", "error"}]

(* begin took the slot for the block, or the statement borrowed it. *)
Holds(t, i) == owned[t] = i \/ (borrowed[t] /\ slot[t] = i)

(* One block at a time, nobody else's query in its transaction; and every    *)
(* statement answered, none failing whose failure the drivers do not clean   *)
(* up after: BEGIN, ROLLBACK, and COMMIT where it leaves a transaction open. *)
OneBlock == Cardinality(Blocks) = 1
Alone == OneBlock /\ (Driver = "postgres" => Queries = {})
Clean == /\ Cuts = {}
         /\ Fails \subseteq (IF Driver = "postgres" THEN {"body", "COMMIT"} ELSE {"body"})

(* A slot is busy exactly while a block has it from its begin or a statement *)
(* borrowed it, and it has one holder: nobody returns a slot of somebody     *)
(* else, whatever fails or is cut short in PostgreSQL (in SQLite, as long as *)
(* COMMIT and ROLLBACK work and no block began or ended while a prepared     *)
(* handle was at work: its defer would keep its own slot or return that of   *)
(* the transaction).  And no task ends holding a slot, unless a BEGIN, a     *)
(* ROLLBACK or an answer failed: transactionStart and transactionEnd then    *)
(* leave the slot busy for good.                                             *)
SlotAccounting ==
  OneBlock /\ (Driver = "sqlite" => Clean /\ crossed = {}) =>
    /\ \A i \in Conns : busy[i] <=> \E t \in Tasks : Holds(t, i)
    /\ \A i \in Conns : \A t, u \in Tasks : Holds(t, i) /\ Holds(u, i) => t = u
    /\ Alone /\ Clean =>
         \A t \in Tasks : pc[t] = "done" => \A i \in Conns : ~Holds(t, i)

WritesOf(t) == {t} \X (1 .. BodyLen)

AnyPending == UNION {pending[i] : i \in Conns}

(* What the documentation promises of a transaction block: when it committed *)
(* all its writes are durable, when it was rolled back or raised none is,    *)
(* and none is left in a transaction that somebody could still commit.       *)
BlockAtomic ==
  \A t \in Blocks :
    /\ outcome[t] = "committed" => WritesOf(t) \subseteq applied
    /\ outcome[t] \in {"rolledback", "error"} =>
         WritesOf(t) \cap (applied \cup AnyPending) = {}

(* What is true of a block that is alone and whose body writes through query *)
(* objects, whatever statement fails or stays unanswered in PostgreSQL and   *)
(* whatever fails in an SQLite body.  Its writes become durable together or  *)
(* never; a block that ends without an exception tells which.  One that      *)
(* raises has written nothing, unless the answer of its COMMIT is missing:   *)
(* the server may have executed it, or do so later.  And nothing is left in  *)
(* an open transaction, unless an answer is missing or, after a failed body, *)
(* the ROLLBACK failed as well.                                              *)
AloneBlockAtomic ==
  Alone /\ ~scenario.rawBody /\ (Driver = "sqlite" => Clean) =>
    \A t \in Blocks :
      /\ WritesOf(t) \subseteq applied \/ WritesOf(t) \cap applied = {}
      /\ outcome[t] = "committed" => WritesOf(t) \subseteq applied
      /\ outcome[t] = "rolledback" => WritesOf(t) \cap (applied \cup AnyPending) = {}
      /\ outcome[t] = "error" =>
           /\ "COMMIT" \notin Cuts => WritesOf(t) \cap applied = {}
           /\ Cuts = {} /\ ~({"body", "ROLLBACK"} \subseteq Fails) =>
                WritesOf(t) \cap AnyPending = {}

(* A pooled slot carries no transaction: whoever borrows it next starts      *)
(* outside one, also beside queries that joined the transaction and behind   *)
(* statements that were never answered.                                      *)
FreeMeansIdle ==
  OneBlock /\ (Driver = "sqlite" => Clean)
    => \A i \in Conns : ~busy[i] => session[i] = "auto" /\ pending[i] = {}

(* While the shared flag is set, transactionConn is the slot begin took for  *)
(* the block, also when the block has long failed: a query that joins never  *)
(* writes on a slot of somebody else.  The flag is set from begin to end of  *)
(* the block when that is alone and its BEGIN, ROLLBACK and answers do not   *)
(* fail; in SQLite it never outlives the block once BEGIN has succeeded.     *)
FlagsMatchBlock ==
  OneBlock =>
    \A t \in Blocks :
      /\ inTx => owned[t] = txConn
      /\ Alone /\ Clean => (inTx <=> pc[t] \notin {"idle", "waiting", "done"})
      /\ Driver = "sqlite" /\ "BEGIN" \notin Fails /\ pc[t] = "done" => ~inTx
=============================================================================
