------------------------- MODULE TransactionProofs --------------------------
(***************************************************************************)
(* Theorems about transaction blocks on a shared rdb object (Transaction),  *)
(* for any tasks, any number of slots, any length of the bodies and any     *)
(* scenarios.                                                               *)
(***************************************************************************)
EXTENDS Transaction, FiniteSetTheorems, TLAPS

USE DEF Conns, NoConn

Phases == {"idle", "waiting", "BEGIN", "body", "asking", "sent", "COMMIT", "except",
           "ROLLBACK", "done"}

(* A call is under way; a task is past the point where it could send again   *)
(* anything but a ROLLBACK.                                                  *)
Calling == {"BEGIN", "sent", "COMMIT", "ROLLBACK"}

Past == {"except", "ROLLBACK", "done"}

(* A task has the slot of the statement it waits for; statements are sent in *)
(* order; only blocks begin transactions.                                    *)
Shape ==
  \A t \in Tasks :
    /\ slot[t] # NoConn <=> pc[t] \in Calling
    /\ borrowed[t] => pc[t] = "sent"
    /\ refused[t] => Driver = "postgres"
    /\ pc[t] \in {"idle", "waiting", "BEGIN"} => next[t] = 1
    /\ pc[t] \in {"asking", "sent"} => next[t] <= BodyLen
    /\ t \notin Blocks => pc[t] \in {"idle", "asking", "sent", "done"} /\ owned[t] = NoConn
    /\ pc[t] # "done" => t \in Active

(* One command at a time is in flight on a PostgreSQL connection, none is    *)
(* sent behind one that was abandoned, and what the server has still to do   *)
(* with an abandoned one does not depend on what its task does next.         *)
Wire ==
  /\ \A i \in Conns : Cuts = {} => ~stuck[i]
  /\ \A t \in Tasks : Driver = "postgres" /\ slot[t] # NoConn /\ ~refused[t] =>
       /\ ~stuck[slot[t]]
       /\ \A u \in Tasks : slot[u] = slot[t] /\ ~refused[u] => u = t
  /\ \A i \in Conns : \A t \in Tasks, query \in Statements : <<t, query>> \in late[i] =>
       /\ stuck[i] /\ pc[t] \in Past
       /\ query = "body" => next[t] <= BodyLen
       /\ query # "body" => t \in Blocks

(* What holds of the programs of the scenario. *)
LEMMA ScenarioFacts ==
  ASSUME TypeOK
  PROVE  /\ Driver \in {"postgres", "sqlite"}
         /\ Blocks \subseteq Tasks /\ Queries \subseteq Tasks /\ Raws \subseteq Tasks
         /\ Prepareds \subseteq Tasks
         /\ Blocks \cap (Queries \cup Raws \cup Prepareds) = {}
         /\ Prepareds \cap (Queries \cup Raws) = {}
         /\ Prepareds # {} => Driver = "sqlite"
         /\ Driver = "sqlite" => Cuts = {}
BY ScenariosAssumption
   DEF TypeOK, IsScenario, Driver, Blocks, Queries, Raws, Prepareds, Cuts

(* Every program starts with its tasks idle. *)
LEMMA InitTypes == Init => TypeOK /\ Shape /\ Wire
<1> SUFFICES ASSUME Init PROVE TypeOK /\ Shape /\ Wire
  OBVIOUS
<1>1. 0 \in Conns /\ 1 \in 1 .. BodyLen + 1 /\ 1 <= BodyLen
  BY TransactionAssumption
<1>2. pc \in [Tasks -> {"idle", "done"}]
  BY DEF Init
<1>3. TypeOK
  BY <1>1, <1>2 DEF Init, TypeOK
<1>4. Shape
  BY <1>1, <1>2 DEF Init, Shape, Calling, Active, Blocks, Queries, Raws, Prepareds
<1>5. Wire
  BY DEF Init, Wire
<1> QED  BY <1>3, <1>4, <1>5

(* The pieces actions are made of. *)
LEMMA SendTypes ==
  ASSUME TypeOK, NEW t \in Tasks, NEW i \in Conns, SendOn(t, i)
  PROVE  /\ slot' \in [Tasks -> Conns \cup {NoConn}] /\ refused' \in [Tasks -> BOOLEAN]
         /\ slot'[t] = i /\ (refused'[t] => Driver = "postgres")
         /\ \A u \in Tasks \ {t} : slot'[u] = slot[u] /\ refused'[u] = refused[u]
BY DEF SendOn, TypeOK

LEMMA OverTypes ==
  ASSUME TypeOK, NEW t \in Tasks, Over(t)
  PROVE  /\ slot' \in [Tasks -> Conns \cup {NoConn}] /\ refused' \in [Tasks -> BOOLEAN]
         /\ slot'[t] = NoConn /\ ~refused'[t]
         /\ \A u \in Tasks \ {t} : slot'[u] = slot[u] /\ refused'[u] = refused[u]
BY DEF Over, TypeOK

LEMMA FinishTypes ==
  ASSUME TypeOK, NEW t \in Tasks, NEW how \in {"ok", "committed", "rolledback", "error"},
         Finish(t, how)
  PROVE  /\ pc' \in [Tasks -> Phases] /\ pc'[t] = "done"
         /\ outcome' \in [Tasks -> {"none", "ok", "committed", "rolledback", "error"}]
         /\ outcome'[t] = how
         /\ \A u \in Tasks \ {t} : pc'[u] = pc[u] /\ outcome'[u] = outcome[u]
BY DEF Finish, TypeOK, Phases

LEMMA RaiseTypes ==
  ASSUME TypeOK, NEW t \in Tasks, Raise(t)
  PROVE  /\ pc' \in [Tasks -> Phases]
         /\ outcome' \in [Tasks -> {"none", "ok", "committed", "rolledback", "error"}]
         /\ \A u \in Tasks \ {t} : pc'[u] = pc[u] /\ outcome'[u] = outcome[u]
         /\ \/ t \in Blocks /\ pc'[t] = "except" /\ outcome'[t] = outcome[t]
            \/ /\ t \notin Blocks \/ refused[t]
               /\ pc'[t] = "done" /\ outcome'[t] = "error"
<1>1. CASE t \in Blocks /\ pc' = [pc EXCEPT ![t] = "except"] /\ UNCHANGED outcome
  BY <1>1 DEF TypeOK, Phases
<1>2. CASE (t \notin Blocks \/ refused[t]) /\ Finish(t, "error")
  BY <1>2, FinishTypes
<1> QED  BY <1>1, <1>2 DEF Raise

LEMMA ReleaseTypes ==
  ASSUME TypeOK, NEW t \in Tasks, slot[t] \in Conns, ReleaseBorrowed(t)
  PROVE  /\ busy' \in [Conns -> BOOLEAN] /\ borrowed' \in [Tasks -> BOOLEAN]
         /\ ~borrowed'[t] /\ \A u \in Tasks \ {t} : borrowed'[u] = borrowed[u]
         /\ \A i \in Conns \ {slot[t]} : busy'[i] = busy[i]
BY DEF ReleaseBorrowed, TypeOK

LEMMA UnansweredTypes ==
  ASSUME TypeOK, NEW t \in Tasks, pc[t] \in Calling, slot[t] \in Conns, Unanswered(t)
  PROVE  /\ stuck' \in [Conns -> BOOLEAN] /\ late' \in [Conns -> SUBSET (Tasks \X Statements)]
         /\ stuck'[slot[t]] /\ late'[slot[t]] = {<<t, Statement(t)>>}
         /\ \A i \in Conns \ {slot[t]} : stuck'[i] = stuck[i] /\ late'[i] = late[i]
         /\ UNCHANGED <<session, pending, applied>> /\ ~refused[t] /\ Statement(t) \in Cuts
         /\ Statement(t) \in Statements
<1>1. Statement(t) \in Statements
  BY DEF Statement, Statements, Calling
<1>2. {<<t, Statement(t)>>} \in SUBSET (Tasks \X Statements)
  BY <1>1
<1> QED  BY <1>1, <1>2 DEF Unanswered, TypeOK, serverVars

(* What the server does keeps the types.                                     *)
LEMMA ServerTypes ==
  ASSUME TypeOK, NEW i \in Conns,
         \/ Opens(i)
         \/ \E t \in Tasks : next[t] <= BodyLen /\ WriteOn(t, i)
         \/ \E query \in Statements : Ends(i, query)
         \/ Closes(i) /\ UNCHANGED applied
         \/ Rejects(i)
         \/ UNCHANGED serverVars
  PROVE  /\ session' \in [Conns -> {"auto", "open", "aborted"}]
         /\ pending' \in [Conns -> SUBSET Writes] /\ applied' \subseteq Writes
         /\ \A j \in Conns \ {i} : session'[j] = session[j] /\ pending'[j] = pending[j]
<1>1. CASE Opens(i) \/ Rejects(i) \/ UNCHANGED serverVars
  BY <1>1 DEF Opens, Rejects, serverVars, TypeOK
<1>2. CASE (\E query \in Statements : Ends(i, query)) \/ (Closes(i) /\ UNCHANGED applied)
  <2>1. /\ session' = [session EXCEPT ![i] = "auto"] /\ pending' = [pending EXCEPT ![i] = {}]
        /\ applied' = applied \/ applied' = applied \cup pending[i]
    BY <1>2 DEF Ends, Closes
  <2> QED  BY <2>1 DEF TypeOK
<1>3. ASSUME NEW t \in Tasks, next[t] <= BodyLen, WriteOn(t, i)
      PROVE  /\ session' \in [Conns -> {"auto", "open", "aborted"}]
             /\ pending' \in [Conns -> SUBSET Writes] /\ applied' \subseteq Writes
             /\ \A j \in Conns \ {i} : session'[j] = session[j] /\ pending'[j] = pending[j]
  <2>1. <<t, next[t]>> \in Writes
    <3>1. next[t] \in 1 .. BodyLen
      BY <1>3, TransactionAssumption DEF TypeOK
    <3> QED  BY <3>1 DEF Writes
  <2>2. CASE applied' = applied \cup {<<t, next[t]>>} /\ UNCHANGED <<session, pending>>
    BY <2>1, <2>2 DEF TypeOK
  <2>3. CASE /\ pending' = [pending EXCEPT ![i] = @ \cup {<<t, next[t]>>}]
             /\ UNCHANGED <<session, applied>>
    <3>1. pending[i] \cup {<<t, next[t]>>} \in SUBSET Writes
      BY <2>1 DEF TypeOK
    <3> QED  BY <2>3, <3>1 DEF TypeOK
  <2> QED  BY <1>3, <2>2, <2>3 DEF WriteOn
<1> QED  BY <1>1, <1>2, <1>3

LEMMA LeaveTypes ==
  ASSUME TypeOK, NEW t \in Tasks, LeaveTransaction(t)
  PROVE  /\ busy' \in [Conns -> BOOLEAN] /\ txConn' \in Conns /\ inTx' = FALSE
         /\ owned' \in [Tasks -> Conns \cup {NoConn}] /\ owned'[t] = NoConn
         /\ \A u \in Tasks \ {t} : owned'[u] = owned[u]
         /\ ~busy'[txConn] /\ \A i \in Conns \ {txConn} : busy'[i] = busy[i]
<1>1. 0 \in Conns
  BY TransactionAssumption
<1> QED  BY <1>1 DEF LeaveTransaction, TypeOK

(* A task that moves on changes nothing of the others. *)
Others(t) == \A u \in Tasks \ {t} :
               /\ pc'[u] = pc[u] /\ slot'[u] = slot[u] /\ refused'[u] = refused[u]
               /\ borrowed'[u] = borrowed[u] /\ next'[u] = next[u] /\ owned'[u] = owned[u]
               /\ outcome'[u] = outcome[u]

(* Shape of one task, and what it takes to keep it. *)
LEMMA ShapeOf ==
  ASSUME Shape, NEW t \in Tasks, scenario' = scenario, Others(t), pc[t] # "done",
         slot'[t] # NoConn <=> pc'[t] \in Calling,
         borrowed'[t] => pc'[t] = "sent",
         refused'[t] => Driver = "postgres",
         pc'[t] \in {"idle", "waiting", "BEGIN"} => next'[t] = 1,
         pc'[t] \in {"asking", "sent"} => next'[t] <= BodyLen,
         t \notin Blocks => pc'[t] \in {"idle", "asking", "sent", "done"} /\ owned'[t] = NoConn
  PROVE  Shape'
BY DEF Shape, Others, Driver, Blocks, Active, Queries, Raws, Prepareds

(* begin *)
LEMMA BeginTypes ==
  ASSUME TypeOK, Shape, NEW t \in Tasks, Begin(t)
  PROVE  TypeOK' /\ Shape' /\ Others(t)
<1>1. PICK i \in Conns : /\ busy' = [busy EXCEPT ![i] = TRUE]
                         /\ inTx' = TRUE /\ txConn' = i /\ crossed' = Crossed
                         /\ owned' = [owned EXCEPT ![t] = i]
                         /\ SendOn(t, i)
  BY DEF Begin
<1>2. /\ t \in Blocks /\ pc[t] \in {"idle", "waiting"} /\ pc' = [pc EXCEPT ![t] = "BEGIN"]
      /\ UNCHANGED <<scenario, stuck, late, session, pending, applied, borrowed, next, outcome>>
  BY DEF Begin, wire, serverVars
<1>3. /\ slot' \in [Tasks -> Conns \cup {NoConn}] /\ refused' \in [Tasks -> BOOLEAN]
      /\ slot'[t] = i /\ (refused'[t] => Driver = "postgres")
      /\ \A u \in Tasks \ {t} : slot'[u] = slot[u] /\ refused'[u] = refused[u]
  BY <1>1, SendTypes
<1>4. TypeOK'
  <2>1. pc' \in [Tasks -> Phases] /\ owned' \in [Tasks -> Conns \cup {NoConn}]
    BY <1>1, <1>2 DEF TypeOK, Phases
  <2>2. crossed' \subseteq Tasks /\ busy' \in [Conns -> BOOLEAN]
    BY <1>1, ScenarioFacts DEF TypeOK, Crossed
  <2> QED  BY <1>1, <1>2, <1>3, <2>1, <2>2 DEF TypeOK, Phases
<1>5. Others(t)
  BY <1>1, <1>2, <1>3 DEF Others, TypeOK
<1>6. Shape'
  <2>1. pc'[t] = "BEGIN" /\ ~borrowed'[t] /\ next'[t] = 1 /\ i # NoConn
    BY <1>2, TransactionAssumption DEF TypeOK, Shape
  <2> QED  BY <1>2, <1>3, <1>5, <2>1, ShapeOf DEF Calling
<1> QED  BY <1>4, <1>5, <1>6

(* Statements on a slot of the task's own or on the transaction's. *)
LEMMA SendStepTypes ==
  ASSUME TypeOK, Shape, NEW t \in Tasks, Send(t)
  PROVE  TypeOK' /\ Shape' /\ Others(t)
<1>1. /\ pc' = [pc EXCEPT ![t] = "sent"]
      /\ Ready(t) \/ pc[t] = "asking"
      /\ pc[t] # "done"
      /\ UNCHANGED <<scenario, inTx, txConn, crossed, stuck, late, session, pending, applied,
                     next, owned, outcome>>
      /\ borrowed' \in {borrowed, [borrowed EXCEPT ![t] = TRUE]}
      /\ busy' = busy \/ \E i \in Conns : busy' = [busy EXCEPT ![i] = TRUE]
  BY DEF Send, WantsSlot, Ready, rdbVars, wire, serverVars
<1>2. PICK i \in Conns : SendOn(t, i)
  BY DEF Send, TypeOK
<1>3. /\ slot' \in [Tasks -> Conns \cup {NoConn}] /\ refused' \in [Tasks -> BOOLEAN]
      /\ slot'[t] = i /\ (refused'[t] => Driver = "postgres")
      /\ \A u \in Tasks \ {t} : slot'[u] = slot[u] /\ refused'[u] = refused[u]
  BY <1>2, SendTypes
<1>4. TypeOK'
  BY <1>1, <1>3 DEF TypeOK
<1>5. Others(t)
  BY <1>1, <1>3 DEF Others, TypeOK
<1>6. Shape'
  <2>1. pc'[t] = "sent" /\ i # NoConn
    BY <1>1, TransactionAssumption DEF TypeOK
  <2>2. next'[t] <= BodyLen /\ (t \notin Blocks => owned'[t] = NoConn)
    BY <1>1, TransactionAssumption DEF Ready, Shape, TypeOK
  <2> QED  BY <1>1, <1>3, <1>5, <2>1, <2>2, ShapeOf DEF Calling
<1> QED  BY <1>4, <1>5, <1>6

(* The server executes a statement or rejects it. *)
LEMMA AnswerTypes ==
  ASSUME TypeOK, Shape, NEW t \in Tasks, Answer(t) \/ AnswerFails(t)
  PROVE  TypeOK' /\ Shape' /\ Others(t)
<1>1. /\ pc[t] = "sent" /\ slot[t] \in Conns /\ next[t] \in 1 .. BodyLen
  BY DEF Answer, AnswerFails, Shape, TypeOK, Calling
<1>2. /\ busy' \in [Conns -> BOOLEAN] /\ borrowed' \in [Tasks -> BOOLEAN]
      /\ ~borrowed'[t] /\ \A u \in Tasks \ {t} : borrowed'[u] = borrowed[u]
  BY <1>1, ReleaseTypes DEF Answer, AnswerFails
<1>3. /\ slot' \in [Tasks -> Conns \cup {NoConn}] /\ refused' \in [Tasks -> BOOLEAN]
      /\ slot'[t] = NoConn /\ ~refused'[t]
      /\ \A u \in Tasks \ {t} : slot'[u] = slot[u] /\ refused'[u] = refused[u]
  BY OverTypes DEF Answer, AnswerFails
<1>4. UNCHANGED <<scenario, inTx, txConn, crossed, owned>>
  BY DEF Answer, AnswerFails, rdbVars
<1>5. /\ pc' \in [Tasks -> Phases] /\ pc'[t] \in {"body", "except", "done"}
      /\ pc'[t] # "done" => t \in Blocks
      /\ t \notin Blocks => pc'[t] = "done"
      /\ outcome' \in [Tasks -> {"none", "ok", "committed", "rolledback", "error"}]
      /\ \A u \in Tasks \ {t} : pc'[u] = pc[u] /\ outcome'[u] = outcome[u]
  <2>1. CASE Answer(t) /\ t \in Blocks
    BY <2>1 DEF Answer, TypeOK, Phases, Finish
  <2>2. CASE Answer(t) /\ t \notin Blocks
    BY <2>2, FinishTypes DEF Answer
  <2>3. CASE AnswerFails(t)
    BY <2>3, RaiseTypes DEF AnswerFails
  <2> QED  BY <2>1, <2>2, <2>3
<1>6. /\ next' \in [Tasks -> 1 .. BodyLen + 1]
      /\ \A u \in Tasks \ {t} : next'[u] = next[u]
  <2>1. next' = next \/ next' = [next EXCEPT ![t] = @ + 1]
    BY DEF Answer, AnswerFails
  <2>2. next \in [Tasks -> 1 .. BodyLen + 1] /\ next[t] + 1 \in 1 .. BodyLen + 1
    BY <1>1, TransactionAssumption DEF TypeOK
  <2> QED  BY <2>1, <2>2
<1>7. /\ session' \in [Conns -> {"auto", "open", "aborted"}]
      /\ pending' \in [Conns -> SUBSET Writes] /\ applied' \subseteq Writes
  <2>1. WriteOn(t, slot[t]) \/ Rejects(slot[t]) \/ UNCHANGED serverVars
    BY DEF Answer, AnswerFails, NotSent, Unanswered, StatementRejected
  <2>2. next[t] <= BodyLen
    BY <1>1, TransactionAssumption
  <2> QED  BY <1>1, <2>1, <2>2, ServerTypes
<1>8. stuck' \in [Conns -> BOOLEAN] /\ late' \in [Conns -> SUBSET (Tasks \X Statements)]
  <2>1. CASE Unanswered(t)
    BY <1>1, <2>1, UnansweredTypes DEF Calling
  <2>2. CASE UNCHANGED wire
    BY <2>2 DEF wire, TypeOK
  <2> QED  BY <2>1, <2>2 DEF Answer, AnswerFails, NotSent, StatementRejected
<1>9. TypeOK'
  BY <1>2, <1>3, <1>4, <1>5, <1>6, <1>7, <1>8 DEF TypeOK, Phases
<1>10. Others(t)
  BY <1>2, <1>3, <1>4, <1>5, <1>6 DEF Others
<1>11. Shape'
  <2>1. t \notin Blocks => owned'[t] = NoConn
    BY <1>4 DEF Shape
  <2> QED  BY <1>1, <1>2, <1>3, <1>4, <1>5, <1>10, <2>1, ShapeOf DEF Calling
<1> QED  BY <1>9, <1>10, <1>11

(* BEGIN is answered. *)
LEMMA BeginAnswerTypes ==
  ASSUME TypeOK, Shape, NEW t \in Tasks, BeginDone(t) \/ BeginFails(t)
  PROVE  TypeOK' /\ Shape' /\ Others(t)
<1>1. /\ pc[t] = "BEGIN" /\ t \in Blocks /\ slot[t] \in Conns /\ ~borrowed[t] /\ next[t] = 1
      /\ Over(t)
      /\ UNCHANGED <<scenario, busy, inTx, txConn, crossed, borrowed, next>>
  BY DEF BeginDone, BeginFails, Shape, TypeOK, Calling, rdbVars
<1>2. /\ slot' \in [Tasks -> Conns \cup {NoConn}] /\ refused' \in [Tasks -> BOOLEAN]
      /\ slot'[t] = NoConn /\ ~refused'[t]
      /\ \A u \in Tasks \ {t} : slot'[u] = slot[u] /\ refused'[u] = refused[u]
  BY <1>1, OverTypes
<1>3. /\ pc' \in [Tasks -> Phases] /\ pc'[t] \in {"body", "done"}
      /\ outcome' \in [Tasks -> {"none", "ok", "committed", "rolledback", "error"}]
      /\ owned' \in [Tasks -> Conns \cup {NoConn}]
      /\ \A u \in Tasks \ {t} :
           pc'[u] = pc[u] /\ outcome'[u] = outcome[u] /\ owned'[u] = owned[u]
  <2>1. CASE BeginDone(t)
    BY <2>1 DEF BeginDone, TypeOK, Phases
  <2>2. CASE BeginFails(t)
    BY <2>2, FinishTypes DEF BeginFails, TypeOK
  <2> QED  BY <2>1, <2>2
<1>4. /\ session' \in [Conns -> {"auto", "open", "aborted"}]
      /\ pending' \in [Conns -> SUBSET Writes] /\ applied' \subseteq Writes
  <2>1. Opens(slot[t]) \/ UNCHANGED serverVars
    BY DEF BeginDone, BeginFails, NotSent, Unanswered, BeginRejected
  <2> QED  BY <1>1, <2>1, ServerTypes
<1>8. stuck' \in [Conns -> BOOLEAN] /\ late' \in [Conns -> SUBSET (Tasks \X Statements)]
  <2>1. CASE Unanswered(t)
    BY <1>1, <2>1, UnansweredTypes DEF Calling
  <2>2. CASE UNCHANGED wire
    BY <2>2 DEF wire, TypeOK
  <2> QED  BY <2>1, <2>2 DEF BeginDone, BeginFails, NotSent, BeginRejected
<1>5. TypeOK'
  BY <1>1, <1>2, <1>3, <1>4, <1>8 DEF TypeOK, Phases
<1>6. Others(t)
  BY <1>1, <1>2, <1>3 DEF Others
<1>7. Shape'
  BY <1>1, <1>2, <1>3, <1>6, ShapeOf DEF Calling
<1> QED  BY <1>5, <1>6, <1>7

(* A task that waits for a slot or gets none, or whose body raises. *)
LEMMA GiveUpTypes ==
  ASSUME TypeOK, Shape, NEW t \in Tasks,
         \/ BeginWaits(t) \/ BeginTimesOut(t) \/ SendWaits(t) \/ SendTimesOut(t)
         \/ BodyRaises(t)
  PROVE  TypeOK' /\ Shape' /\ Others(t)
<1>1. /\ UNCHANGED <<scenario, busy, inTx, txConn, crossed, stuck, late, session, pending,
                     applied, slot, refused, borrowed, next, owned>>
      /\ pc[t] \in {"idle", "waiting", "body", "asking"} /\ slot[t] = NoConn
  BY DEF BeginWaits, BeginTimesOut, SendWaits, SendTimesOut, BodyRaises, Ready, rdbVars, wire,
         serverVars, taskVars, Shape, Calling
<1>2. /\ pc' \in [Tasks -> Phases] /\ pc'[t] \in {"waiting", "asking", "except", "done"}
      /\ t \notin Blocks => pc'[t] \in {"asking", "done"}
      /\ pc'[t] = "waiting" => pc[t] = "idle"
      /\ pc'[t] = "asking" => next[t] <= BodyLen
      /\ outcome' \in [Tasks -> {"none", "ok", "committed", "rolledback", "error"}]
      /\ \A u \in Tasks \ {t} : pc'[u] = pc[u] /\ outcome'[u] = outcome[u]
  <2>1. CASE BeginWaits(t)
    BY <2>1 DEF BeginWaits, TypeOK, Phases
  <2>2. CASE BeginTimesOut(t)
    BY <2>2, FinishTypes DEF BeginTimesOut
  <2>3. CASE SendWaits(t)
    <3>1. next[t] <= BodyLen
      BY <2>3, TransactionAssumption DEF SendWaits, Ready, Shape
    <3> QED  BY <2>3, <3>1 DEF SendWaits, TypeOK, Phases
  <2>4. CASE SendTimesOut(t)
    BY <2>4, RaiseTypes DEF SendTimesOut
  <2>5. CASE BodyRaises(t)
    BY <2>5 DEF BodyRaises, TypeOK, Phases
  <2> QED  BY <2>1, <2>2, <2>3, <2>4, <2>5
<1>3. TypeOK'
  BY <1>1, <1>2 DEF TypeOK, Phases
<1>4. Others(t)
  BY <1>1, <1>2 DEF Others
<1>5. Shape'
  BY <1>1, <1>2, <1>4, ShapeOf DEF Calling, Shape
<1> QED  BY <1>3, <1>4, <1>5

(* COMMIT or ROLLBACK is sent. *)
LEMMA EndTypes ==
  ASSUME TypeOK, Shape, NEW t \in Tasks, NEW query \in {"COMMIT", "ROLLBACK"}, End(t, query)
  PROVE  TypeOK' /\ Shape' /\ Others(t)
<1>1. /\ t \in Blocks /\ ~borrowed[t] /\ pc' = [pc EXCEPT ![t] = query] /\ pc[t] # "done"
      /\ SendOn(t, txConn) /\ txConn \in Conns
      /\ UNCHANGED <<scenario, busy, inTx, txConn, crossed, stuck, late, session, pending,
                     applied, borrowed, next, owned, outcome>>
  BY DEF End, Ending, Shape, TypeOK, rdbVars, wire, serverVars
<1>2. /\ slot' \in [Tasks -> Conns \cup {NoConn}] /\ refused' \in [Tasks -> BOOLEAN]
      /\ slot'[t] = txConn /\ (refused'[t] => Driver = "postgres")
      /\ \A u \in Tasks \ {t} : slot'[u] = slot[u] /\ refused'[u] = refused[u]
  BY <1>1, SendTypes
<1>3. TypeOK'
  BY <1>1, <1>2 DEF TypeOK
<1>4. Others(t)
  BY <1>1, <1>2 DEF Others, TypeOK
<1>5. Shape'
  <2>1. pc'[t] = query /\ txConn # NoConn
    BY <1>1, TransactionAssumption DEF TypeOK
  <2> QED  BY <1>1, <1>2, <1>4, <2>1, ShapeOf DEF Calling
<1> QED  BY <1>3, <1>4, <1>5

(* transactionEnd gets its answer, good or bad. *)
LEMMA EndAnswerTypes ==
  ASSUME TypeOK, Shape, NEW t \in Tasks, NEW query \in {"COMMIT", "ROLLBACK"},
         EndDone(t, query) \/ PgEndFails(t, query) \/ SqliteEndFails(t, query)
  PROVE  TypeOK' /\ Shape' /\ Others(t)
<1>1. /\ pc[t] = query /\ t \in Blocks /\ slot[t] \in Conns /\ ~borrowed[t]
      /\ Over(t) /\ UNCHANGED <<scenario, borrowed, next>>
  BY DEF EndDone, PgEndFails, SqliteEndFails, Shape, TypeOK, Calling, rdbVars
<1>2. /\ slot' \in [Tasks -> Conns \cup {NoConn}] /\ refused' \in [Tasks -> BOOLEAN]
      /\ slot'[t] = NoConn /\ ~refused'[t]
      /\ \A u \in Tasks \ {t} : slot'[u] = slot[u] /\ refused'[u] = refused[u]
  BY <1>1, OverTypes
<1>3. /\ pc' \in [Tasks -> Phases] /\ pc'[t] \in {"except", "done"}
      /\ outcome' \in [Tasks -> {"none", "ok", "committed", "rolledback", "error"}]
      /\ \A u \in Tasks \ {t} : pc'[u] = pc[u] /\ outcome'[u] = outcome[u]
  <2>1. CASE EndDone(t, query)
    BY <2>1, FinishTypes DEF EndDone
  <2>2. CASE query = "COMMIT" /\ Raise(t)
    BY <1>1, <2>2, RaiseTypes
  <2>3. CASE query = "ROLLBACK" /\ Finish(t, "error")
    BY <2>3, FinishTypes
  <2> QED  BY <2>1, <2>2, <2>3 DEF PgEndFails, SqliteEndFails, EndRaises
<1>4. /\ busy' \in [Conns -> BOOLEAN] /\ txConn' \in Conns /\ inTx' \in BOOLEAN
      /\ owned' \in [Tasks -> Conns \cup {NoConn}] /\ crossed' \subseteq Tasks
      /\ \A u \in Tasks \ {t} : owned'[u] = owned[u]
  <2>1. CASE PgEndFails(t, query)
    BY <2>1 DEF PgEndFails, TypeOK, rdbVars
  <2>2. CASE LeaveTransaction(t) /\ crossed' = Crossed
    BY <2>2, LeaveTypes, ScenarioFacts DEF TypeOK, Crossed
  <2> QED  BY <2>1, <2>2 DEF EndDone, SqliteEndFails
<1>5. /\ session' \in [Conns -> {"auto", "open", "aborted"}]
      /\ pending' \in [Conns -> SUBSET Writes] /\ applied' \subseteq Writes
  <2>1. \/ Ends(slot[t], query) \/ (Closes(slot[t]) /\ UNCHANGED applied)
        \/ UNCHANGED serverVars
    BY DEF EndDone, PgEndFails, NotSent, Unanswered, EndRejected, SqliteEndFails, serverVars
  <2> QED  BY <1>1, <2>1, ServerTypes DEF Statements
<1>9. stuck' \in [Conns -> BOOLEAN] /\ late' \in [Conns -> SUBSET (Tasks \X Statements)]
  <2>1. CASE Unanswered(t)
    BY <1>1, <2>1, UnansweredTypes DEF Calling
  <2>2. CASE UNCHANGED wire
    BY <2>2 DEF wire, TypeOK
  <2> QED  BY <2>1, <2>2 DEF EndDone, PgEndFails, NotSent, EndRejected, SqliteEndFails
<1>6. TypeOK'
  BY <1>1, <1>2, <1>3, <1>4, <1>5, <1>9 DEF TypeOK, Phases
<1>7. Others(t)
  BY <1>1, <1>2, <1>3, <1>4 DEF Others
<1>8. Shape'
  BY <1>1, <1>2, <1>3, <1>7, ShapeOf DEF Calling
<1> QED  BY <1>6, <1>7, <1>8

(* The server deals with a command that was left behind. *)
LEMMA LateTypes ==
  ASSUME TypeOK, Shape, Wire, NEW i \in Conns, LateRuns(i) \/ LateFails(i)
  PROVE  /\ TypeOK' /\ Shape' /\ Wire'
         /\ UNCHANGED <<busy, scenario, inTx, txConn, crossed, stuck, pc, slot, refused,
                        borrowed, next, owned, outcome>>
         /\ late'[i] = {} /\ \A j \in Conns \ {i} : late'[j] = late[j]
<1>1. /\ UNCHANGED <<busy, scenario, inTx, txConn, crossed, stuck, pc, slot, refused,
                     borrowed, next, owned, outcome>>
      /\ late' = [late EXCEPT ![i] = {}]
  BY DEF LateRuns, LateFails, rdbVars, taskVars
<1>2. /\ session' \in [Conns -> {"auto", "open", "aborted"}]
      /\ pending' \in [Conns -> SUBSET Writes] /\ applied' \subseteq Writes
  <2>1. \/ Opens(i)
        \/ \E t \in Tasks : next[t] <= BodyLen /\ WriteOn(t, i)
        \/ \E query \in Statements : Ends(i, query)
        \/ Closes(i) /\ UNCHANGED applied
        \/ Rejects(i)
    BY DEF LateRuns, LateFails, Wire
  <2> QED  BY <2>1, ServerTypes
<1>3. TypeOK'
  BY <1>1, <1>2 DEF TypeOK
<1>4. Shape' /\ Wire'
  <2>1. /\ Driver' = Driver /\ Blocks' = Blocks /\ Active' = Active /\ Cuts' = Cuts
    BY <1>1 DEF Driver, Blocks, Active, Queries, Raws, Prepareds, Cuts
  <2>2. Shape'
    BY <1>1, <2>1 DEF Shape
  <2>3. \A j \in Conns : late'[j] \subseteq late[j]
    BY <1>1 DEF TypeOK
  <2>4. Wire'
    BY <1>1, <2>1, <2>3 DEF Wire
  <2> QED  BY <2>2, <2>4
<1>5. late'[i] = {} /\ \A j \in Conns \ {i} : late'[j] = late[j]
  BY <1>1 DEF TypeOK
<1> QED  BY <1>1, <1>3, <1>4, <1>5

(* Wire is kept by a step of one task: one that leaves the connections       *)
(* alone, sends, or ends a call with an answer or without.                   *)
LEMMA WireOf ==
  ASSUME TypeOK, Shape, Wire, NEW t \in Tasks, scenario' = scenario, Others(t),
         pc[t] \in Past => pc'[t] \in Past /\ next'[t] = next[t],
         \/ UNCHANGED <<slot, refused, wire>>
         \/ Over(t) /\ UNCHANGED wire
         \/ UNCHANGED wire /\ \E i \in Conns : SendOn(t, i)
         \/ /\ Over(t) /\ Unanswered(t) /\ pc[t] \in Calling /\ pc'[t] \in Past
            /\ next'[t] = next[t]
  PROVE  Wire'
<1>1. Driver' = Driver /\ Blocks' = Blocks /\ Cuts' = Cuts
  BY DEF Driver, Blocks, Cuts
<1>2. \A u \in Tasks : pc[u] \in Past => pc'[u] \in Past /\ next'[u] = next[u]
  BY DEF Others
<1>3. CASE UNCHANGED <<slot, refused, wire>>
  BY <1>1, <1>2, <1>3 DEF Wire, wire
<1>4. CASE Over(t) /\ UNCHANGED wire
  <2>1. slot'[t] = NoConn /\ \A u \in Tasks \ {t} : slot'[u] = slot[u] /\ refused'[u] = refused[u]
    BY <1>4, OverTypes
  <2> QED  BY <1>1, <1>2, <1>4, <2>1 DEF Wire, wire
<1>5. CASE UNCHANGED wire /\ \E i \in Conns : SendOn(t, i)
  <2>1. PICK i \in Conns : SendOn(t, i)
    BY <1>5
  <2>2. slot'[t] = i /\ \A u \in Tasks \ {t} : slot'[u] = slot[u] /\ refused'[u] = refused[u]
    BY <2>1, SendTypes
  <2>3. Driver = "postgres" /\ ~refused'[t]
          => ~stuck[i] /\ \A u \in Tasks : slot[u] = i => refused[u]
    BY <2>1 DEF SendOn, TypeOK
  <2>4. \A u \in Tasks : Driver' = "postgres" /\ slot'[u] # NoConn /\ ~refused'[u] =>
          /\ ~stuck'[slot'[u]]
          /\ \A v \in Tasks : slot'[v] = slot'[u] /\ ~refused'[v] => v = u
    BY <1>1, <1>5, <2>2, <2>3 DEF Wire, wire
  <2> QED  BY <1>1, <1>2, <1>5, <2>4 DEF Wire, wire
<1>6. CASE /\ Over(t) /\ Unanswered(t) /\ pc[t] \in Calling /\ pc'[t] \in Past
           /\ next'[t] = next[t]
  <2>1. slot'[t] = NoConn /\ \A u \in Tasks \ {t} : slot'[u] = slot[u] /\ refused'[u] = refused[u]
    BY <1>6, OverTypes
  <2>2. slot[t] \in Conns /\ slot[t] # NoConn
    BY <1>6 DEF Shape, TypeOK
  <2>3. /\ stuck'[slot[t]] /\ late'[slot[t]] = {<<t, Statement(t)>>}
        /\ \A i \in Conns \ {slot[t]} : stuck'[i] = stuck[i] /\ late'[i] = late[i]
        /\ ~refused[t] /\ Statement(t) \in Cuts
    BY <1>6, <2>2, UnansweredTypes
  <2>4. Driver = "postgres"
    BY <2>3, ScenarioFacts
  <2>5. \A u \in Tasks \ {t} : slot[u] = slot[t] => refused[u]
    BY <2>2, <2>3, <2>4 DEF Wire
  <2>6. \A u \in Tasks : slot'[u] # NoConn /\ ~refused'[u] =>
          /\ ~stuck'[slot'[u]]
          /\ \A v \in Tasks : slot'[v] = slot'[u] /\ ~refused'[v] => v = u
    <3> SUFFICES ASSUME NEW u \in Tasks, slot'[u] # NoConn, ~refused'[u]
                 PROVE  /\ ~stuck'[slot'[u]]
                        /\ \A v \in Tasks : slot'[v] = slot'[u] /\ ~refused'[v] => v = u
      OBVIOUS
    <3>1. u # t /\ slot'[u] = slot[u] /\ ~refused[u] /\ slot[u] # slot[t]
      BY <2>1, <2>5
    <3>2. slot[u] \in Conns
      BY <3>1 DEF TypeOK
    <3> QED  BY <2>1, <2>3, <2>4, <3>1, <3>2 DEF Wire
  <2>7. /\ Statement(t) = "body" => next[t] <= BodyLen
        /\ Statement(t) # "body" => t \in Blocks
    BY <1>6 DEF Statement, Calling, Shape
  <2>8. \A i \in Conns : \A u \in Tasks, query \in Statements : <<u, query>> \in late'[i] =>
          /\ stuck'[i] /\ pc'[u] \in Past
          /\ query = "body" => next'[u] <= BodyLen
          /\ query # "body" => u \in Blocks
    <3> SUFFICES ASSUME NEW i \in Conns, NEW u \in Tasks, NEW query \in Statements,
                        <<u, query>> \in late'[i]
                 PROVE  /\ stuck'[i] /\ pc'[u] \in Past
                        /\ query = "body" => next'[u] <= BodyLen
                        /\ query # "body" => u \in Blocks
      OBVIOUS
    <3>1. CASE i = slot[t]
      <4>1. u = t /\ query = Statement(t)
        BY <2>3, <3>1
      <4> QED  BY <1>6, <2>3, <2>7, <3>1, <4>1
    <3>2. CASE i # slot[t]
      BY <1>2, <2>3, <3>2 DEF Wire
    <3> QED  BY <3>1, <3>2
  <2> QED  BY <1>1, <2>3, <2>4, <2>6, <2>8 DEF Wire
<1> QED  BY <1>3, <1>4, <1>5, <1>6

(* Every step keeps the types and moves at most one task. *)
LEMMA WireStep ==
  ASSUME TypeOK, Shape, Wire, NEW t \in Tasks,
         \/ Begin(t) \/ BeginWaits(t) \/ BeginTimesOut(t) \/ BeginDone(t) \/ BeginFails(t)
         \/ Send(t) \/ SendWaits(t) \/ SendTimesOut(t) \/ Answer(t) \/ AnswerFails(t)
         \/ BodyRaises(t)
         \/ \E query \in {"COMMIT", "ROLLBACK"} :
              End(t, query) \/ EndDone(t, query) \/ PgEndFails(t, query) \/ SqliteEndFails(t, query)
  PROVE  TypeOK' /\ Shape' /\ Wire' /\ Others(t)
<1>1. TypeOK' /\ Shape' /\ Others(t)
  BY BeginTypes, SendStepTypes, AnswerTypes, BeginAnswerTypes, GiveUpTypes, EndTypes,
     EndAnswerTypes
<1>2. CASE Begin(t) \/ Send(t) \/ \E query \in {"COMMIT", "ROLLBACK"} : End(t, query)
  <2>1. /\ UNCHANGED <<scenario, wire, next>> /\ \E i \in Conns : SendOn(t, i)
        /\ pc[t] \in Past => pc'[t] \in Past
    BY <1>2 DEF Begin, Send, WantsSlot, Ready, End, Ending, rdbVars, TypeOK, Past
  <2> QED  BY <1>1, <2>1, WireOf
<1>3. CASE BeginWaits(t) \/ BeginTimesOut(t) \/ SendWaits(t) \/ SendTimesOut(t) \/ BodyRaises(t)
  <2>1. /\ UNCHANGED <<scenario, wire, next, slot, refused>> /\ pc[t] \notin Past
    BY <1>3 DEF BeginWaits, BeginTimesOut, SendWaits, SendTimesOut, BodyRaises, Ready, rdbVars,
                taskVars, Past
  <2> QED  BY <1>1, <2>1, WireOf
<1>4. CASE BeginDone(t) \/ BeginFails(t)
  <2>1. pc[t] = "BEGIN" /\ Over(t) /\ UNCHANGED <<scenario, next>>
    BY <1>4 DEF BeginDone, BeginFails, rdbVars
  <2>2. UNCHANGED wire \/ (Unanswered(t) /\ pc'[t] \in Past)
    BY <1>4 DEF BeginDone, BeginFails, NotSent, BeginRejected, Finish, TypeOK, Past
  <2> QED  BY <1>1, <2>1, <2>2, WireOf DEF Calling, Past
<1>5. CASE Answer(t) \/ AnswerFails(t)
  <2>1. pc[t] = "sent" /\ Over(t) /\ UNCHANGED scenario
    BY <1>5 DEF Answer, AnswerFails, rdbVars
  <2>2. UNCHANGED wire \/ (Unanswered(t) /\ pc'[t] \in Past /\ UNCHANGED next)
    BY <1>5, RaiseTypes DEF Answer, AnswerFails, NotSent, StatementRejected, Past
  <2> QED  BY <1>1, <2>1, <2>2, WireOf DEF Calling, Past
<1>6. ASSUME NEW query \in {"COMMIT", "ROLLBACK"},
             EndDone(t, query) \/ PgEndFails(t, query) \/ SqliteEndFails(t, query)
      PROVE  Wire'
  <2>1. pc[t] = query /\ Over(t) /\ UNCHANGED <<scenario, next>>
    BY <1>6 DEF EndDone, PgEndFails, SqliteEndFails, rdbVars
  <2>2. pc'[t] \in Past
    BY <1>6, RaiseTypes, FinishTypes DEF EndDone, PgEndFails, SqliteEndFails, EndRaises, Past
  <2>3. UNCHANGED wire \/ Unanswered(t)
    BY <1>6 DEF EndDone, PgEndFails, SqliteEndFails, NotSent, EndRejected
  <2> QED  BY <1>1, <2>1, <2>2, <2>3, WireOf DEF Calling
<1> QED  BY <1>1, <1>2, <1>3, <1>4, <1>5, <1>6

LEMMA NextTypes == TypeOK /\ Shape /\ Wire /\ [Next]_vars => TypeOK' /\ Shape' /\ Wire'
<1> SUFFICES ASSUME TypeOK, Shape, Wire, [Next]_vars PROVE TypeOK' /\ Shape' /\ Wire'
  OBVIOUS
<1>1. CASE UNCHANGED vars
  BY <1>1 DEF vars, rdbVars, wire, serverVars, taskVars, TypeOK, Shape, Wire, Driver, Blocks,
                 Active, Queries, Raws, Prepareds, Cuts
<1> QED
  BY <1>1, WireStep, LateTypes DEF Next, AllDone

(* Every variable of the shared rdb, the tasks and the server keeps its type. *)
THEOREM TypeCorrect == Spec => []TypeOK
BY InitTypes, NextTypes, PTL DEF Spec

-----------------------------------------------------------------------------
(* Scenarios with one transaction block: what the shared flags, the slots    *)
(* and the sessions look like while the block runs beside any number of      *)
(* queries, raw statements and handles.                                      *)

(* The block has not got a slot yet. *)
Early(b) == pc[b] \in {"idle", "waiting"}

(* Only the block b opens transactions, and its own statements go to the     *)
(* slot that the shared rdb names.                                           *)
Opening(b) ==
  /\ Early(b) => ~inTx /\ owned[b] = NoConn
  /\ Early(b) \/ pc[b] = "BEGIN" => \A i \in Conns : session[i] = "auto" /\ pending[i] = {}
  /\ pc[b] = "BEGIN" => inTx /\ slot[b] = txConn /\ owned[b] = txConn
  /\ pc[b] \in {"COMMIT", "ROLLBACK"} => slot[b] = txConn

(* One step, with the block named where only a block can take it. *)
Works(t) == \/ Send(t) \/ SendWaits(t) \/ SendTimesOut(t) \/ Answer(t) \/ AnswerFails(t)

EndAnswered(b, q) == EndDone(b, q) \/ PgEndFails(b, q) \/ SqliteEndFails(b, q)

LEMMA Steps ==
  ASSUME TypeOK, Shape, NEW b \in Tasks, Blocks = {b}, [Next]_vars
  PROVE  \/ UNCHANGED vars
         \/ Begin(b) \/ BeginWaits(b) \/ BeginTimesOut(b) \/ BeginDone(b) \/ BeginFails(b)
         \/ BodyRaises(b)
         \/ \E q \in {"COMMIT", "ROLLBACK"} : End(b, q) \/ EndAnswered(b, q)
         \/ \E t \in Tasks : Works(t)
         \/ \E i \in Conns : LateRuns(i) \/ LateFails(i)
<1> SUFFICES ASSUME Next PROVE
         \/ UNCHANGED vars
         \/ Begin(b) \/ BeginWaits(b) \/ BeginTimesOut(b) \/ BeginDone(b) \/ BeginFails(b)
         \/ BodyRaises(b)
         \/ \E q \in {"COMMIT", "ROLLBACK"} : End(b, q) \/ EndAnswered(b, q)
         \/ \E t \in Tasks : Works(t)
         \/ \E i \in Conns : LateRuns(i) \/ LateFails(i)
  OBVIOUS
<1>1. \A t \in Tasks : pc[t] \in {"waiting", "BEGIN", "COMMIT", "ROLLBACK"} => t = b
  BY DEF Shape
<1>2. ASSUME NEW t \in Tasks,
             \/ Begin(t) \/ BeginWaits(t) \/ BeginTimesOut(t) \/ BeginDone(t) \/ BeginFails(t)
             \/ BodyRaises(t)
      PROVE  t = b
  BY <1>1, <1>2 DEF Begin, BeginWaits, BeginTimesOut, BeginDone, BeginFails, BodyRaises
<1>3. ASSUME NEW t \in Tasks, NEW q \in {"COMMIT", "ROLLBACK"}, End(t, q) \/ EndAnswered(t, q)
      PROVE  t = b
  BY <1>1, <1>3 DEF End, Ending, EndAnswered, EndDone, PgEndFails, SqliteEndFails
<1> QED  BY <1>2, <1>3 DEF Next, AllDone, Works, EndAnswered

(* Every step keeps the scenario and, with it, the programs. *)
LEMMA Kept ==
  ASSUME scenario' = scenario
  PROVE  /\ Driver' = Driver /\ Fails' = Fails /\ Cuts' = Cuts
         /\ OneBlock' = OneBlock /\ Alone' = Alone /\ Clean' = Clean
         /\ Blocks' = Blocks /\ Queries' = Queries /\ Raws' = Raws
         /\ Prepareds' = Prepareds
BY DEF Driver, Fails, Cuts, OneBlock, Alone, Clean, Blocks, Queries, Raws, Prepareds

LEMMA StepKeepsScenario == [Next]_vars => scenario' = scenario
BY DEF Next, vars, rdbVars, AllDone, Begin, BeginWaits, BeginTimesOut, BeginDone, BeginFails,
       Send, SendWaits, SendTimesOut, Answer, AnswerFails, BodyRaises, End, EndDone, PgEndFails,
       SqliteEndFails, LateRuns, LateFails

(* What an answer does to the server: no transaction is opened, nothing is   *)
(* written inside one that is not open, and only PostgreSQL aborts one.      *)
LEMMA AnswerEffect ==
  ASSUME TypeOK, Shape, NEW t \in Tasks, Answer(t) \/ AnswerFails(t)
  PROVE  /\ slot[t] \in Conns
         /\ \A i \in Conns : \/ session'[i] = session[i]
                             \/ /\ i = slot[t] /\ session[i] = "open"
                                /\ session'[i] = "aborted" /\ Driver = "postgres"
                                /\ AnswerFails(t)
         /\ \A i \in Conns : \/ pending'[i] = pending[i]
                             \/ /\ i = slot[t] /\ session[i] = "open" /\ Answer(t)
                                /\ pending'[i] = pending[i] \cup {<<t, next[t]>>}
         /\ \/ applied' = applied
            \/ /\ session[slot[t]] = "auto" /\ Answer(t)
               /\ applied' = applied \cup {<<t, next[t]>>}
         /\ Answer(t) /\ session[slot[t]] = "open"
               => pending'[slot[t]] = pending[slot[t]] \cup {<<t, next[t]>>}
<1>1. slot[t] \in Conns
  BY DEF Answer, AnswerFails, Shape, TypeOK, Calling
<1>2. CASE AnswerFails(t)
  <2>1. Rejects(slot[t]) \/ UNCHANGED serverVars
    BY <1>2 DEF AnswerFails, NotSent, Unanswered, StatementRejected
  <2>2. UNCHANGED <<pending, applied>>
    BY <2>1 DEF Rejects, serverVars
  <2>3. \A i \in Conns : \/ session'[i] = session[i]
                        \/ /\ i = slot[t] /\ session[i] = "open"
                           /\ session'[i] = "aborted" /\ Driver = "postgres"
    BY <1>1, <2>1 DEF Rejects, serverVars, TypeOK
  <2>4. ~Answer(t)
    <3>1. next[t] \in Int /\ next' = next
      BY <1>2 DEF AnswerFails, TypeOK
    <3>2. Answer(t) => next'[t] = next[t] + 1
      BY DEF Answer, TypeOK
    <3> QED  BY <3>1, <3>2
  <2> QED  BY <1>1, <1>2, <2>2, <2>3, <2>4
<1>3. CASE Answer(t)
  <2>1. WriteOn(t, slot[t])
    BY <1>3 DEF Answer
  <2>2. CASE /\ session[slot[t]] = "auto" /\ applied' = applied \cup {<<t, next[t]>>}
             /\ UNCHANGED <<session, pending>>
    BY <1>1, <1>3, <2>2 DEF TypeOK
  <2>3. CASE /\ session[slot[t]] = "open" /\ UNCHANGED <<session, applied>>
             /\ pending' = [pending EXCEPT ![slot[t]] = @ \cup {<<t, next[t]>>}]
    BY <1>1, <1>3, <2>3 DEF TypeOK
  <2> QED  BY <2>1, <2>2, <2>3 DEF WriteOn
<1> QED  BY <1>2, <1>3

(* What it leaves on the connection. *)
LEMMA AnswerWire ==
  ASSUME TypeOK, Shape, NEW t \in Tasks, Answer(t) \/ AnswerFails(t)
  PROVE  /\ \A i \in Conns : i # slot[t] => stuck'[i] = stuck[i] /\ late'[i] = late[i]
         /\ \A i \in Conns : stuck[i] => stuck'[i]
         /\ \/ UNCHANGED wire
            \/ /\ late'[slot[t]] = {<<t, "body">>} /\ ~refused[t] /\ "body" \in Cuts
               /\ UNCHANGED <<session, pending, applied>> /\ AnswerFails(t)
<1>1. slot[t] \in Conns /\ pc[t] = "sent"
  BY DEF Answer, AnswerFails, Shape, TypeOK, Calling
<1>2. CASE UNCHANGED wire
  BY <1>2 DEF wire
<1>3. CASE Unanswered(t) /\ AnswerFails(t)
  <2>1. Statement(t) = "body"
    BY <1>1 DEF Statement
  <2> QED  BY <1>1, <1>3, <2>1, UnansweredTypes DEF Calling
<1> QED  BY <1>2, <1>3 DEF Answer, AnswerFails, NotSent, StatementRejected

(* What a command does that was left behind. *)
LEMMA LateEffect ==
  ASSUME TypeOK, Shape, Wire, NEW i \in Conns, LateRuns(i) \/ LateFails(i)
  PROVE  /\ stuck[i]
         /\ \A j \in Conns \ {i} : session'[j] = session[j] /\ pending'[j] = pending[j]
         /\ session'[i] # "auto" =>
              session[i] # "auto" \/ \E t \in Blocks : <<t, "BEGIN">> \in late[i]
         /\ \/ pending'[i] \in {pending[i], {}}
            \/ \E t \in Tasks : /\ <<t, "body">> \in late[i] /\ session[i] = "open"
                               /\ pending'[i] = pending[i] \cup {<<t, next[t]>>}
         /\ \/ applied' = applied
            \/ \E t \in Tasks : /\ <<t, "body">> \in late[i] /\ session[i] = "auto"
                               /\ applied' = applied \cup {<<t, next[t]>>}
            \/ \E t \in Blocks : /\ <<t, "COMMIT">> \in late[i] /\ session[i] = "open"
                                /\ applied' = applied \cup pending[i]
<1> USE DEF Statements
<1>1. CASE LateFails(i)
  BY <1>1 DEF LateFails, Rejects, Closes, TypeOK
<1>2. CASE LateRuns(i)
  <2>1. PICK t \in Tasks, query \in Statements :
          /\ <<t, query>> \in late[i]
          /\ \/ query = "BEGIN" /\ Opens(i)
             \/ query = "body" /\ WriteOn(t, i)
             \/ query \in {"COMMIT", "ROLLBACK"} /\ Ends(i, query)
    BY <1>2 DEF LateRuns
  <2>2. stuck[i] /\ (query # "body" => t \in Blocks)
    BY <2>1 DEF Wire
  <2>3. CASE query = "BEGIN" /\ Opens(i)
    BY <2>1, <2>2, <2>3 DEF Opens, TypeOK
  <2>4. CASE query = "body" /\ WriteOn(t, i)
    <3>1. CASE /\ session[i] = "auto" /\ applied' = applied \cup {<<t, next[t]>>}
               /\ UNCHANGED <<session, pending>>
      BY <2>1, <2>2, <2>4, <3>1 DEF TypeOK
    <3>2. CASE /\ session[i] = "open" /\ UNCHANGED <<session, applied>>
               /\ pending' = [pending EXCEPT ![i] = @ \cup {<<t, next[t]>>}]
      BY <2>1, <2>2, <2>4, <3>2 DEF TypeOK
    <3> QED  BY <2>4, <3>1, <3>2 DEF WriteOn
  <2>5. CASE query \in {"COMMIT", "ROLLBACK"} /\ Ends(i, query)
    BY <2>1, <2>2, <2>5 DEF Ends, Closes, TypeOK
  <2> QED  BY <2>1, <2>3, <2>4, <2>5
<1> QED  BY <1>1, <1>2

(* What an answer does to the slots. *)
LEMMA AnswerReleases ==
  ASSUME TypeOK, Shape, NEW t \in Tasks, Answer(t) \/ AnswerFails(t)
  PROVE  LET gives == (t \in Prepareds /\ ~inTx) \/ (t \notin Prepareds /\ borrowed[t])
         IN /\ gives => /\ ~busy'[slot[t]]
                       /\ \A i \in Conns \ {slot[t]} : busy'[i] = busy[i]
            /\ ~gives => busy' = busy
            /\ ~borrowed'[t]
            /\ \A u \in Tasks \ {t} : borrowed'[u] = borrowed[u]
<1>1. slot[t] \in Conns /\ ReleaseBorrowed(t)
  BY DEF Answer, AnswerFails, Shape, TypeOK, Calling
<1> QED  BY <1>1 DEF ReleaseBorrowed, TypeOK

(* A task that only sends, answers or gives up leaves the rdb and what the   *)
(* block owns alone.                                                         *)
LEMMA WorkKeeps ==
  ASSUME TypeOK, Shape, NEW t \in Tasks, Works(t) \/ BodyRaises(t)
  PROVE  /\ UNCHANGED <<scenario, inTx, txConn, crossed, owned>>
         /\ Others(t)
         /\ pc[t] \in {"idle", "body", "asking", "sent"}
         /\ pc'[t] \in {"body", "asking", "sent", "except", "done"}
         /\ t \in Blocks => pc[t] # "idle" /\ (pc'[t] = "done" => refused[t])
<1>1. UNCHANGED <<scenario, inTx, txConn, crossed, owned>>
  BY DEF Works, Send, SendWaits, SendTimesOut, Answer, AnswerFails, BodyRaises, rdbVars
<1>2. Others(t)
  BY SendStepTypes, AnswerTypes, GiveUpTypes DEF Works
<1>3. pc[t] \in {"idle", "body", "asking", "sent"} /\ (t \in Blocks => pc[t] # "idle")
  BY DEF Works, Send, SendWaits, SendTimesOut, Answer, AnswerFails, BodyRaises, WantsSlot, Ready
<1>4. /\ pc'[t] \in {"body", "asking", "sent", "except", "done"}
      /\ t \in Blocks => (pc'[t] = "done" => refused[t])
  <2>1. CASE Send(t) \/ SendWaits(t) \/ BodyRaises(t)
    BY <2>1 DEF Send, SendWaits, BodyRaises, TypeOK
  <2>2. CASE Answer(t)
    BY <2>2, FinishTypes DEF Answer, TypeOK
  <2>3. CASE SendTimesOut(t) \/ AnswerFails(t)
    BY <2>3, RaiseTypes DEF SendTimesOut, AnswerFails
  <2> QED  BY <2>1, <2>2, <2>3 DEF Works
<1> QED  BY <1>1, <1>2, <1>3, <1>4

LEMMA OpeningStep ==
  ASSUME TypeOK, Shape, Wire, NEW b \in Tasks, Blocks = {b}, Opening(b), [Next]_vars
  PROVE  Opening(b)'
<1> USE DEF Early
<1>1. CASE UNCHANGED vars
  BY <1>1 DEF vars, rdbVars, serverVars, taskVars, Opening
<1>2. CASE Begin(b)
  BY <1>2 DEF Begin, SendOn, serverVars, Opening, TypeOK
<1>3. CASE BeginTimesOut(b) \/ BeginDone(b) \/ BeginFails(b)
  <2>1. pc'[b] \in {"done", "body"}
    BY <1>3 DEF BeginTimesOut, BeginDone, BeginFails, Finish, TypeOK
  <2> QED  BY <2>1 DEF Opening
<1>4. CASE BeginWaits(b)
  BY <1>4 DEF BeginWaits, rdbVars, serverVars, Opening, TypeOK
<1>5. ASSUME NEW t \in Tasks, Works(t) \/ BodyRaises(t)
      PROVE  Opening(b)'
  <2>1. CASE t = b
    BY <1>5, <2>1, WorkKeeps DEF Opening
  <2>2. CASE t # b
    <3>1. /\ UNCHANGED <<inTx, txConn, owned>>
          /\ pc'[b] = pc[b] /\ slot'[b] = slot[b]
      BY <1>5, <2>2, WorkKeeps DEF Others
    <3>2. Early(b) \/ pc[b] = "BEGIN"
            => \A i \in Conns : session'[i] = "auto" /\ pending'[i] = {}
      <4>1. CASE Answer(t) \/ AnswerFails(t)
        BY <4>1, AnswerEffect DEF Opening
      <4>2. CASE UNCHANGED <<session, pending>>
        BY <4>2 DEF Opening
      <4> QED  BY <1>5, <4>1, <4>2
                  DEF Works, Send, SendWaits, SendTimesOut, BodyRaises, serverVars
    <3> QED  BY <3>1, <3>2 DEF Opening
  <2> QED  BY <2>1, <2>2
<1>6. ASSUME NEW q \in {"COMMIT", "ROLLBACK"}, End(b, q)
      PROVE  Opening(b)'
  BY <1>6 DEF End, SendOn, rdbVars, Opening, TypeOK
<1>7. ASSUME NEW q \in {"COMMIT", "ROLLBACK"}, EndAnswered(b, q)
      PROVE  Opening(b)'
  <2>1. pc'[b] \in {"done", "except"}
    BY <1>7, RaiseTypes, FinishTypes
       DEF EndAnswered, EndDone, PgEndFails, SqliteEndFails, EndRaises
  <2> QED  BY <2>1 DEF Opening
<1>8. ASSUME NEW i \in Conns, LateRuns(i) \/ LateFails(i)
      PROVE  Opening(b)'
  <2>1. UNCHANGED <<inTx, txConn, pc, slot, owned>>
    BY <1>8, LateTypes
  <2>2. pc[b] \notin Past => ~\E t \in Blocks : <<t, "BEGIN">> \in late[i]
    BY DEF Wire, Statements
  <2>3. Early(b) \/ pc[b] = "BEGIN"
          => \A j \in Conns : session'[j] = "auto" /\ pending'[j] = {}
    <3> SUFFICES ASSUME Early(b) \/ pc[b] = "BEGIN"
                 PROVE  \A j \in Conns : session'[j] = "auto" /\ pending'[j] = {}
      OBVIOUS
    <3>1. \A j \in Conns : session[j] = "auto" /\ pending[j] = {}
      BY DEF Opening
    <3>2. session'[i] = "auto" /\ pending'[i] = {}
      BY <1>8, <2>2, <3>1, LateEffect DEF Past
    <3>3. \A j \in Conns \ {i} : session'[j] = session[j] /\ pending'[j] = pending[j]
      BY <1>8, LateEffect
    <3> QED  BY <3>1, <3>2, <3>3
  <2> QED  BY <2>1, <2>3 DEF Opening
<1> QED  BY <1>1, <1>2, <1>3, <1>4, <1>5, <1>6, <1>7, <1>8, Steps

(* How slots and sessions are held while b is the only block, in PostgreSQL  *)
(* always and in SQLite when only statements of the body fail.  What is      *)
(* borrowed is nobody else's and not the slot of the transaction, as long as *)
(* handles of SQLite cannot have mistaken the shared flag for their own.     *)
(* The slot of the transaction is the only one with a transaction, and the   *)
(* only one where one may still begin or end.                                *)
Lending(b) ==
  /\ inTx => busy[txConn]
  /\ Driver = "postgres" \/ Early(b) \/ inTx =>
       \A t \in Tasks : borrowed[t] =>
         /\ busy[slot[t]]
         /\ inTx => slot[t] # txConn
         /\ \A u \in Tasks : borrowed[u] /\ slot[u] = slot[t] => u = t
  /\ \A i \in Conns : session[i] # "auto" \/ pending[i] # {} => inTx /\ i = txConn
  /\ \A i \in Conns : \A query \in Statements \ {"body"} :
       <<b, query>> \in late[i] => inTx /\ i = txConn
  /\ Early(b) => \A p \in Prepareds : pc[p] = "sent" => borrowed[p]
  /\ ~Early(b) /\ pc[b] # "done" => inTx
  /\ Driver = "sqlite" /\ pc[b] \in {"body", "asking", "sent", "COMMIT", "except", "ROLLBACK"}
       => session[txConn] = "open"

(* SQLite answers every statement.                                           *)
LEMMA SqliteAnswers ==
  ASSUME TypeOK, Shape, Wire, Driver = "sqlite"
  PROVE  /\ \A i \in Conns : ~stuck[i] /\ \A t \in Tasks, q \in Statements : <<t, q>> \notin late[i]
         /\ \A t \in Tasks : ~refused[t]
<1>1. Cuts = {} /\ Driver # "postgres"
  BY ScenarioFacts
<1> QED  BY <1>1 DEF Wire, Shape

(* The block takes a slot for its BEGIN. *)
LEMMA LendingBegin ==
  ASSUME TypeOK, Shape, Wire, NEW b \in Tasks, Blocks = {b}, Opening(b), Lending(b), Begin(b)
  PROVE  Lending(b)'
<1>1. scenario' = scenario /\ UNCHANGED <<borrowed, session, pending, late>> /\ Early(b)
  BY DEF Begin, rdbVars, taskVars, wire, serverVars, Early
<1>2. Driver' = Driver /\ Prepareds' = Prepareds
  BY <1>1, Kept
<1>3. \A i \in Conns : session[i] = "auto" /\ pending[i] = {}
  BY <1>1 DEF Opening
<1>4. ~borrowed[b] /\ \A u \in Tasks : borrowed[u] => slot[u] \in Conns
  BY <1>1 DEF Shape, TypeOK, Calling, Early
<1>5. PICK i \in Conns : /\ ~busy[i] /\ busy' = [busy EXCEPT ![i] = TRUE]
                         /\ inTx' = TRUE /\ txConn' = i /\ SendOn(b, i)
  BY DEF Begin, FirstFree
<1>6. /\ pc' = [pc EXCEPT ![b] = "BEGIN"]
      /\ \A u \in Tasks \ {b} : slot'[u] = slot[u]
  BY <1>5, SendTypes DEF Begin
<1>7. \A u \in Tasks : borrowed[u] => busy[slot[u]] /\ slot'[u] = slot[u]
  BY <1>1, <1>4, <1>6 DEF Lending
<1>8. \A u \in Tasks : borrowed'[u] =>
        /\ busy'[slot'[u]]
        /\ slot'[u] # txConn'
        /\ \A v \in Tasks : borrowed'[v] /\ slot'[v] = slot'[u] => v = u
  BY <1>1, <1>4, <1>5, <1>7 DEF Lending, TypeOK
<1>9. \A j \in Conns : \A query \in Statements : <<b, query>> \notin late'[j]
  BY <1>1 DEF Wire, Early, Past
<1>10. pc'[b] = "BEGIN"
  BY <1>6 DEF TypeOK
<1> QED  BY <1>1, <1>2, <1>3, <1>5, <1>8, <1>9, <1>10 DEF Lending, TypeOK, Early

(* The block waits, BEGIN is answered, the body raises, COMMIT or ROLLBACK   *)
(* is sent, or a task gets no slot: no slot changes hands.                   *)
LEMMA LendingMove ==
  ASSUME TypeOK, Shape, Wire, NEW b \in Tasks, Blocks = {b}, Opening(b), Lending(b),
         NEW t \in Tasks,
         \/ BeginWaits(b) \/ BeginTimesOut(b) \/ BeginDone(b) \/ BeginFails(b) \/ BodyRaises(b)
         \/ \E q \in {"COMMIT", "ROLLBACK"} : End(b, q)
         \/ SendWaits(t) \/ SendTimesOut(t)
  PROVE  Lending(b)'
<1>1. UNCHANGED <<scenario, busy, inTx, txConn, borrowed>>
  BY DEF BeginWaits, BeginTimesOut, BeginDone, BeginFails, BodyRaises, End, SendWaits,
         SendTimesOut, rdbVars, taskVars
<1>2. Driver' = Driver /\ Prepareds' = Prepareds
  BY <1>1, Kept
<1>3. \A u \in Tasks : borrowed[u] => slot'[u] = slot[u]
  <2>1. CASE UNCHANGED slot
    BY <2>1
  <2>2. CASE \E i \in Conns : SendOn(b, i) /\ ~borrowed[b]
    BY <2>2, SendTypes
  <2>3. CASE Over(b) /\ ~borrowed[b]
    BY <2>3, OverTypes
  <2> QED  BY <2>1, <2>2, <2>3 DEF BeginWaits, BeginTimesOut, BeginDone, BeginFails, BodyRaises,
              End, Ending, SendWaits, SendTimesOut, taskVars, Shape, TypeOK
<1>4. /\ Early(b)' => Early(b)
      /\ Early(b) => Early(b)' \/ (~inTx /\ pc'[b] = "done")
      /\ Early(b)' => \A p \in Prepareds : pc'[p] = "sent" => pc[p] = "sent"
      /\ ~Early(b)' /\ pc'[b] # "done" => inTx
  <2>1. CASE BeginWaits(b) \/ BeginTimesOut(b)
    <3>1. /\ Early(b) /\ pc'[b] \in {"waiting", "done"}
          /\ \A p \in Tasks : pc'[p] = "sent" => pc[p] = "sent"
      BY <2>1 DEF BeginWaits, BeginTimesOut, Finish, TypeOK, Early
    <3> QED  BY <3>1, ScenarioFacts DEF Opening, Early
  <2>2. CASE BeginDone(b) \/ BeginFails(b) \/ BodyRaises(b)
             \/ \E q \in {"COMMIT", "ROLLBACK"} : End(b, q)
    <3>1. pc[b] \in {"BEGIN", "body", "except"} /\ ~Early(b)'
      BY <2>2 DEF BeginDone, BeginFails, BodyRaises, End, Ending, Finish, TypeOK, Early
    <3> QED  BY <3>1 DEF Lending, Early
  <2>3. CASE SendWaits(t) \/ SendTimesOut(t)
    <3>1. Works(t)
      BY <2>3 DEF Works
    <3>2. /\ Others(t) /\ pc'[t] # "sent"
          /\ t = b => ~Early(b) /\ ~Early(b)' /\ pc[t] # "done"
      <4>1. pc'[t] # "sent" /\ pc[t] \in {"idle", "body", "asking"}
        BY <2>3, RaiseTypes DEF SendWaits, SendTimesOut, Ready, TypeOK
      <4> QED  BY <3>1, <4>1, WorkKeeps DEF SendWaits, SendTimesOut, Ready, Early, Shape
    <3> QED  BY <3>2, ScenarioFacts DEF Others, Lending, Early
  <2> QED  BY <2>1, <2>2, <2>3
<1>5. /\ \A i \in Conns : session'[i] # "auto" \/ pending'[i] # {} => inTx /\ i = txConn
      /\ \A i \in Conns : \A query \in Statements \ {"body"} :
           <<b, query>> \in late'[i] => inTx /\ i = txConn
      /\ Driver = "sqlite" /\ pc'[b] \in {"body", "asking", "sent", "COMMIT", "except", "ROLLBACK"}
           => session'[txConn] = "open"
  <2>1. CASE BeginDone(b)
    <3>1. /\ session' = [session EXCEPT ![txConn] = IF @ = "auto" THEN "open" ELSE @]
          /\ inTx /\ UNCHANGED <<pending, late>> /\ \A i \in Conns : session[i] = "auto"
      BY <2>1 DEF BeginDone, Opens, wire, Opening
    <3> QED  BY <3>1 DEF Lending, TypeOK
  <2>2. CASE BeginFails(b)
    <3>1. /\ UNCHANGED <<session, pending>> /\ pc'[b] = "done"
          /\ slot[b] = txConn /\ inTx /\ pc[b] = "BEGIN"
      BY <2>2 DEF BeginFails, NotSent, Unanswered, BeginRejected, Finish, serverVars, Opening, TypeOK
    <3>2. \A i \in Conns : i # txConn => late'[i] = late[i]
      <4>1. CASE Unanswered(b)
        BY <3>1, <4>1, UnansweredTypes DEF Calling, TypeOK
      <4> QED  BY <2>2, <4>1 DEF BeginFails, NotSent, BeginRejected, wire
    <3> QED  BY <3>1, <3>2 DEF Lending
  <2>3. CASE \/ BeginWaits(b) \/ BeginTimesOut(b) \/ BodyRaises(b)
             \/ \E q \in {"COMMIT", "ROLLBACK"} : End(b, q)
    <3>1. /\ UNCHANGED <<session, pending, late>>
          /\ \/ pc'[b] \notin {"body", "asking", "sent", "COMMIT", "except", "ROLLBACK"}
             \/ pc[b] \in {"body", "except"}
      BY <2>3 DEF BeginWaits, BeginTimesOut, BodyRaises, End, Ending, Finish, wire, serverVars, TypeOK
    <3> QED  BY <3>1 DEF Lending
  <2>4. CASE SendWaits(t) \/ SendTimesOut(t)
    <3>1. Works(t)
      BY <2>4 DEF Works
    <3>2. /\ Others(t) /\ UNCHANGED <<session, pending, late>>
          /\ t = b => pc[t] \in {"body", "asking"}
      BY <2>4, <3>1, WorkKeeps DEF SendWaits, SendTimesOut, Ready, wire, serverVars
    <3> QED  BY <3>2 DEF Others, Lending
  <2> QED  BY <2>1, <2>2, <2>3, <2>4
<1>6. Driver = "postgres" \/ Early(b)' \/ inTx => Driver = "postgres" \/ Early(b) \/ inTx
  BY <1>4
<1> QED  BY <1>1, <1>2, <1>3, <1>4, <1>5, <1>6 DEF Lending

(* A statement is sent: on the slot of the transaction, or on one that was   *)
(* free and therefore nobody's.                                              *)
LEMMA LendingSend ==
  ASSUME TypeOK, Shape, Wire, NEW b \in Tasks, Blocks = {b}, Opening(b), Lending(b),
         Driver = "sqlite" => Clean, NEW t \in Tasks, Send(t)
  PROVE  Lending(b)'
<1>1. UNCHANGED <<scenario, inTx, txConn, session, pending, late>> /\ Others(t) /\ ~borrowed[t]
  BY SendStepTypes DEF Send, WantsSlot, Ready, rdbVars, wire, serverVars, Shape
<1>2. Driver' = Driver /\ Prepareds' = Prepareds
  BY <1>1, Kept
<1>3. /\ pc' = [pc EXCEPT ![t] = "sent"]
      /\ t = b => pc[b] \in {"body", "asking"}
      /\ t # b => pc[t] \in {"idle", "asking"}
  BY DEF Send, WantsSlot, Ready
<1>4. CASE UsesTransaction(t) /\ UNCHANGED <<busy, borrowed>>
  <2>1. inTx /\ UNCHANGED <<busy, borrowed>> /\ ~Early(b)
    BY <1>4 DEF Send, UsesTransaction, Opening
  <2>2. \A u \in Tasks : borrowed[u] => slot'[u] = slot[u]
    BY <1>1 DEF Others
  <2>3. ~Early(b)' /\ (pc'[b] = pc[b] \/ (pc[b] \in {"body", "asking"} /\ pc'[b] = "sent"))
    BY <1>3, <2>1 DEF TypeOK, Early
  <2>4. pc[b] # "done" => inTx
    BY <2>1
  <2> QED  BY <1>1, <1>2, <2>1, <2>2, <2>3, <2>4 DEF Lending
<1>5. CASE \E i \in Conns : /\ FirstFree(i) /\ busy' = [busy EXCEPT ![i] = TRUE] /\ SendOn(t, i)
                            /\ borrowed' = [borrowed EXCEPT ![t] = TRUE]
  <2>1. PICK i \in Conns : /\ ~busy[i] /\ busy' = [busy EXCEPT ![i] = TRUE]
                           /\ slot'[t] = i /\ borrowed' = [borrowed EXCEPT ![t] = TRUE]
    BY <1>5, SendTypes DEF FirstFree
  <2>2. /\ Early(b)' <=> Early(b)
        /\ pc'[b] = pc[b] \/ (pc[b] \in {"body", "asking"} /\ pc'[b] = "sent")
    BY <1>3 DEF TypeOK, Early
  <2>3. \A u \in Tasks : borrowed'[u] <=> u = t \/ borrowed[u]
    BY <2>1 DEF TypeOK
  <2>4. ASSUME Driver = "postgres" \/ Early(b) \/ inTx, NEW u \in Tasks, borrowed'[u]
        PROVE  /\ busy'[slot'[u]]
               /\ inTx => slot'[u] # txConn
               /\ \A v \in Tasks : borrowed'[v] /\ slot'[v] = slot'[u] => v = u
    <3>1. \A v \in Tasks : borrowed[v] => slot[v] \in Conns /\ busy[slot[v]] /\ slot'[v] = slot[v]
                                          /\ v # t
      BY <1>1, <2>4, TransactionAssumption DEF Lending, Others, Shape, TypeOK, Calling
    <3>2. inTx => i # txConn
      BY <2>1 DEF Lending
    <3>3. \A v \in Tasks : borrowed[v] => slot[v] # i
      BY <2>1, <3>1
    <3>4. CASE u = t
      BY <2>1, <2>3, <3>1, <3>2, <3>3, <3>4 DEF TypeOK
    <3>5. CASE borrowed[u]
      BY <2>1, <2>3, <2>4, <3>1, <3>3, <3>5 DEF TypeOK, Lending
    <3> QED  BY <2>3, <2>4, <3>4, <3>5
  <2>5. inTx => busy'[txConn]
    BY <2>1 DEF Lending, TypeOK
  <2>6. Early(b) => \A p \in Prepareds : pc'[p] = "sent" => borrowed'[p]
    BY <1>1, <2>3, ScenarioFacts DEF Others, Lending
  <2>7. /\ ~Early(b)' /\ pc'[b] # "done" => inTx
        /\ Driver = "sqlite" /\ pc'[b] \in {"body", "asking", "sent", "COMMIT", "except", "ROLLBACK"}
             => session[txConn] = "open"
    BY <2>2 DEF Lending
  <2> QED  BY <1>1, <1>2, <2>2, <2>4, <2>5, <2>6, <2>7 DEF Lending
<1> QED  BY <1>4, <1>5 DEF Send

(* A statement is answered: what its defer gives back is the task's own.     *)
LEMMA LendingAnswer ==
  ASSUME TypeOK, Shape, Wire, NEW b \in Tasks, Blocks = {b}, Opening(b), Lending(b),
         NEW t \in Tasks, Answer(t) \/ AnswerFails(t)
  PROVE  Lending(b)'
<1>1. /\ UNCHANGED <<scenario, inTx, txConn>> /\ Others(t) /\ pc[t] = "sent" /\ pc'[t] # "sent"
      /\ pc'[t] \in {"body", "except", "done"}
      /\ t = b /\ pc'[b] = "done" => Driver = "postgres"
  <2>1. pc[t] = "sent" /\ pc'[t] \in {"body", "except", "done"}
    BY RaiseTypes, FinishTypes DEF Answer, AnswerFails, TypeOK
  <2>2. refused[t] => Driver = "postgres"
    BY DEF Shape
  <2> QED  BY <2>1, <2>2, WorkKeeps DEF Works
<1>2. Driver' = Driver /\ Prepareds' = Prepareds
  BY <1>1, Kept
<1>3. /\ Early(b)' <=> Early(b)
      /\ pc'[b] # "done" => pc[b] # "done"
      /\ pc'[b] = pc[b] \/ (pc[b] = "sent" /\ pc'[b] \in {"body", "except", "done"})
  BY <1>1 DEF Others, Early
<1>4. \A i \in Conns : session'[i] # "auto" \/ pending'[i] # {} => inTx /\ i = txConn
  <2>1. \A i \in Conns : session'[i] # "auto" => session[i] # "auto"
    BY AnswerEffect
  <2>2. \A i \in Conns : pending'[i] # {} => pending[i] # {} \/ session[i] # "auto"
    BY AnswerEffect
  <2> QED  BY <2>1, <2>2 DEF Lending
<1>5. Driver = "sqlite" => session'[txConn] = session[txConn]
  BY AnswerEffect DEF TypeOK
<1>6. ASSUME Driver = "postgres" \/ Early(b) \/ inTx
      PROVE  /\ inTx => busy'[txConn]
             /\ \A u \in Tasks : borrowed'[u] =>
                  /\ busy'[slot'[u]]
                  /\ inTx => slot'[u] # txConn
                  /\ \A v \in Tasks : borrowed'[v] /\ slot'[v] = slot'[u] => v = u
  <2>1. ~borrowed'[t] /\ \A u \in Tasks \ {t} : borrowed'[u] = borrowed[u] /\ slot'[u] = slot[u]
    BY <1>1, AnswerReleases DEF Others
  <2>2. \A u \in Tasks : borrowed[u] => slot[u] \in Conns
    BY DEF Shape, TypeOK, Calling
  <2>3. \A i \in Conns : busy[i] /\ ~busy'[i] => i = slot[t] /\ borrowed[t]
    <3>1. t \in Prepareds /\ ~inTx => borrowed[t]
      BY <1>1, <1>6, ScenarioFacts DEF Lending
    <3> QED  BY <3>1, AnswerReleases
  <2>4. inTx => busy'[txConn]
    BY <1>6, <2>3 DEF Lending, TypeOK
  <2> QED  BY <1>6, <2>1, <2>2, <2>3, <2>4 DEF Lending
<1>7. inTx => busy'[txConn]
  BY <1>6
<1>8. Early(b)' => \A p \in Prepareds : pc'[p] = "sent" => borrowed'[p]
  BY <1>1, <1>3, AnswerReleases, ScenarioFacts DEF Others, Lending
<1>9. /\ Driver = "sqlite" /\ pc'[b] \in {"body", "asking", "sent", "COMMIT", "except", "ROLLBACK"}
           => session'[txConn] = "open"
      /\ ~Early(b)' /\ pc'[b] # "done" => inTx
  BY <1>3, <1>5 DEF Lending
<1>10. \A i \in Conns : \A query \in Statements \ {"body"} :
         <<b, query>> \in late'[i] => inTx /\ i = txConn
  <2>1. \A i \in Conns : late'[i] = late[i] \/ late'[i] = {<<t, "body">>}
    BY AnswerWire DEF wire
  <2> QED  BY <2>1 DEF Lending
<1> QED  BY <1>1, <1>2, <1>3, <1>4, <1>6, <1>7, <1>8, <1>9, <1>10 DEF Lending

(* The transaction ends: its slot is the only one given back.                *)
LEMMA LendingEnd ==
  ASSUME TypeOK, Shape, Wire, NEW b \in Tasks, Blocks = {b}, Opening(b), Lending(b),
         Driver = "sqlite" => Clean, NEW q \in {"COMMIT", "ROLLBACK"}, EndAnswered(b, q)
  PROVE  Lending(b)'
<1> USE DEF EndAnswered
<1>1. /\ pc[b] = q /\ slot[b] = txConn /\ inTx /\ ~borrowed[b] /\ Over(b)
      /\ UNCHANGED <<scenario, borrowed>> /\ Others(b) /\ txConn \in Conns /\ txConn # NoConn
  BY EndAnswerTypes, TransactionAssumption
     DEF EndDone, PgEndFails, SqliteEndFails, rdbVars, Opening, Lending, Shape, Early, TypeOK
<1>2. Driver' = Driver /\ Prepareds' = Prepareds
  BY <1>1, Kept
<1>3. \A u \in Tasks : borrowed[u] => slot'[u] = slot[u] /\ u # b /\ slot[u] \in Conns
  BY <1>1 DEF Others, Shape, TypeOK, Calling
<1>4. CASE EndDone(b, q)
  <2>1. /\ session' = [session EXCEPT ![txConn] = "auto"]
        /\ pending' = [pending EXCEPT ![txConn] = {}]
        /\ LeaveTransaction(b) /\ pc'[b] = "done" /\ late' = late /\ ~refused[b]
    BY <1>1, <1>4 DEF EndDone, EndAccepted, Ends, Closes, Finish, wire, TypeOK
  <2>2. \A i \in Conns : session'[i] = "auto" /\ pending'[i] = {}
    BY <1>1, <2>1 DEF Lending, TypeOK
  <2>3. ~inTx' /\ \A i \in Conns \ {txConn} : busy'[i] = busy[i]
    BY <2>1, LeaveTypes
  <2>4. \A i \in Conns : \A query \in Statements \ {"body"} : <<b, query>> \notin late'[i]
    <3>1. ~stuck[txConn]
      BY <1>1, <2>1, ScenarioFacts, SqliteAnswers DEF Wire
    <3> QED  BY <2>1, <3>1 DEF Lending, Wire
  <2> QED  BY <1>1, <1>2, <1>3, <2>1, <2>2, <2>3, <2>4 DEF Lending, Early
<1>5. CASE PgEndFails(b, q)
  <2>1. /\ UNCHANGED <<busy, inTx, txConn>> /\ Driver = "postgres" /\ pc'[b] \in {"except", "done"}
    BY <1>1, <1>5, RaiseTypes, FinishTypes DEF PgEndFails, rdbVars, EndRaises
  <2>2. \/ session' = session /\ pending' = pending
        \/ /\ session' = [session EXCEPT ![txConn] = "auto"]
           /\ pending' = [pending EXCEPT ![txConn] = {}]
    <3>1. UNCHANGED serverVars \/ EndRejected(b, q)
      BY <1>5 DEF PgEndFails, NotSent, Unanswered
    <3> QED  BY <1>1, <3>1 DEF EndRejected, Closes, serverVars
  <2>3. \A i \in Conns : session'[i] # "auto" \/ pending'[i] # {} => inTx /\ i = txConn
    <3>1. \A i \in Conns : session[i] # "auto" \/ pending[i] # {} => inTx /\ i = txConn
      BY DEF Lending
    <3>2. session \in [Conns -> {"auto", "open", "aborted"}] /\ pending \in [Conns -> SUBSET Writes]
      BY DEF TypeOK
    <3> QED  BY <2>2, <3>1, <3>2
  <2>4. \A i \in Conns : i # txConn => late'[i] = late[i]
    <3>1. CASE Unanswered(b)
      BY <1>1, <3>1, UnansweredTypes DEF Calling
    <3> QED  BY <1>5, <3>1 DEF PgEndFails, NotSent, EndRejected, wire
  <2> QED  BY <1>1, <1>2, <1>3, <2>1, <2>3, <2>4 DEF Lending, Early
<1>6. CASE SqliteEndFails(b, q)
  <2>1. Driver = "sqlite" /\ q \notin Fails /\ ~refused[b] /\ session[txConn] = "open"
    BY <1>1, <1>6 DEF SqliteEndFails, Clean, Shape, Lending
  <2> QED  BY <1>1, <1>6, <2>1 DEF SqliteEndFails, EndAccepted
<1> QED  BY <1>4, <1>5, <1>6

(* The server opens and closes transactions late only on the slot of the     *)
(* block, which is then never given back.                                    *)
LEMMA LendingLate ==
  ASSUME TypeOK, Shape, Wire, NEW b \in Tasks, Blocks = {b}, Opening(b), Lending(b),
         NEW i \in Conns, LateRuns(i) \/ LateFails(i)
  PROVE  Lending(b)'
<1>1. /\ UNCHANGED <<busy, scenario, inTx, txConn, pc, slot, borrowed>>
      /\ late'[i] = {} /\ \A j \in Conns \ {i} : late'[j] = late[j]
  BY LateTypes
<1>2. Driver' = Driver /\ Prepareds' = Prepareds
  BY <1>1, Kept
<1>3. \A j \in Conns : session'[j] # "auto" \/ pending'[j] # {} => inTx /\ j = txConn
  <2>1. session'[i] # "auto" => inTx /\ i = txConn
    BY LateEffect DEF Lending, Statements
  <2>2. pending'[i] # {} => pending[i] # {} \/ session[i] # "auto"
    BY LateEffect
  <2> QED  BY <2>1, <2>2, LateEffect DEF Lending
<1>4. Driver # "sqlite"
  BY LateEffect, SqliteAnswers
<1>5. Early(b)' <=> Early(b)
  BY <1>1 DEF Early
<1> QED  BY <1>1, <1>2, <1>3, <1>4, <1>5 DEF Lending

LEMMA LendingStep ==
  ASSUME TypeOK, Shape, Wire, NEW b \in Tasks, Blocks = {b}, Opening(b), Lending(b),
         Driver = "sqlite" => Clean, [Next]_vars
  PROVE  Lending(b)'
<1>1. CASE UNCHANGED vars
  BY <1>1, Kept DEF vars, rdbVars, wire, serverVars, taskVars, Lending, Early
<1>2. CASE ~UNCHANGED vars
  BY <1>2, Steps, LendingBegin, LendingMove, LendingSend, LendingAnswer, LendingEnd, LendingLate
     DEF Works
<1> QED  BY <1>1, <1>2

(* In PostgreSQL without queries that join the transaction every statement   *)
(* has its connection for itself, so libpq refuses none but on a connection  *)
(* where one was left behind.                                                *)
Private(b) ==
  \A t \in Tasks :
    /\ slot[t] # NoConn => borrowed[t] \/ (t = b /\ slot[t] = txConn /\ inTx)
    /\ refused[t] => slot[t] # NoConn /\ stuck[slot[t]]

(* A slot that is free, or that of the transaction, has no statement of       *)
(* another task on it.                                                        *)
LEMMA NotRefused ==
  ASSUME TypeOK, Shape, NEW b \in Tasks, Lending(b), Private(b), Driver = "postgres",
         NEW t \in Tasks, slot[t] = NoConn, NEW i \in Conns, SendOn(t, i),
         ~busy[i] \/ (t = b /\ inTx /\ i = txConn)
  PROVE  refused'[t] => stuck[i]
<1>1. ~\E u \in Tasks : slot[u] = i /\ ~refused[u]
  <2> SUFFICES ASSUME NEW u \in Tasks, slot[u] = i PROVE FALSE
    OBVIOUS
  <2>1. i # NoConn /\ u # t
    BY TransactionAssumption
  <2>2. CASE borrowed[u]
    BY <2>1, <2>2 DEF Lending
  <2>3. CASE u = b /\ i = txConn /\ inTx
    BY <2>1, <2>3 DEF Lending
  <2> QED  BY <2>1, <2>2, <2>3 DEF Private
<1> QED  BY <1>1 DEF SendOn, TypeOK

(* Nothing is refused where every statement is answered.                     *)
LEMMA NoRefusal ==
  ASSUME TypeOK, Shape, Wire, NEW b \in Tasks, Cuts = {}, Driver = "postgres" => Private(b)
  PROVE  \A t \in Tasks : ~refused[t]
BY ScenarioFacts DEF Shape, Wire, Private, TypeOK

(* A connection that is stuck stays so: nobody renews it.                    *)
LEMMA StaysStuck ==
  ASSUME TypeOK, Shape, Wire, NEW b \in Tasks, Blocks = {b}, [Next]_vars
  PROVE  \A i \in Conns : stuck[i] => stuck'[i]
<1>1. CASE \E t \in Tasks : Unanswered(t)
  BY <1>1 DEF Unanswered, TypeOK
<1>2. CASE UNCHANGED stuck
  BY <1>2
<1>3. (\E t \in Tasks : Unanswered(t)) \/ UNCHANGED stuck
  <2> USE DEF wire
  <2>1. CASE UNCHANGED vars
    BY <2>1 DEF vars
  <2>2. ASSUME Begin(b) \/ BeginWaits(b) \/ BeginTimesOut(b) \/ BeginDone(b) \/ BeginFails(b)
               \/ BodyRaises(b) \/ \E q \in {"COMMIT", "ROLLBACK"} : End(b, q) \/ EndAnswered(b, q)
        PROVE  Unanswered(b) \/ UNCHANGED stuck
    BY <2>2 DEF Begin, BeginWaits, BeginTimesOut, BeginDone, BeginFails, BodyRaises, End,
                EndAnswered, EndDone, PgEndFails, SqliteEndFails, NotSent, BeginRejected, EndRejected
  <2>3. ASSUME NEW t \in Tasks, Works(t) PROVE Unanswered(t) \/ UNCHANGED stuck
    BY <2>3 DEF Works, Send, SendWaits, SendTimesOut, Answer, AnswerFails, NotSent,
                StatementRejected
  <2>4. ASSUME NEW i \in Conns, LateRuns(i) \/ LateFails(i) PROVE UNCHANGED stuck
    BY <2>4, LateTypes
  <2> QED  BY <2>1, <2>2, <2>3, <2>4, Steps
<1> QED  BY <1>1, <1>2, <1>3

LEMMA PrivateStep ==
  ASSUME TypeOK, Shape, Wire, NEW b \in Tasks, Blocks = {b}, Opening(b), Lending(b), Private(b),
         Driver = "postgres", Queries = {}, [Next]_vars
  PROVE  Private(b)'
<1>0. /\ \A i \in Conns : stuck[i] => stuck'[i]
      /\ \A t \in Tasks : slot[t] # NoConn => slot[t] \in Conns
  BY StaysStuck DEF TypeOK
<1>1. CASE UNCHANGED vars
  BY <1>1 DEF vars, rdbVars, wire, taskVars, Private
<1>2. CASE Begin(b)
  <2>1. PICK i \in Conns : ~busy[i] /\ inTx' = TRUE /\ txConn' = i /\ SendOn(b, i)
    BY <1>2 DEF Begin, FirstFree
  <2>2. slot[b] = NoConn /\ UNCHANGED borrowed /\ Others(b) /\ ~inTx /\ i # NoConn
    <3>1. pc[b] \in {"idle", "waiting"} /\ UNCHANGED borrowed /\ Others(b)
      BY <1>2, BeginTypes DEF Begin
    <3>2. i # NoConn
      BY TransactionAssumption
    <3> QED  BY <3>1, <3>2 DEF Shape, Calling, Opening, Early
  <2>3. slot'[b] = i /\ (refused'[b] => stuck[i])
    BY <2>1, <2>2, NotRefused, SendTypes
  <2> QED  BY <1>0, <2>1, <2>2, <2>3 DEF Private, Others
<1>3. CASE \/ BeginWaits(b) \/ BeginTimesOut(b) \/ BodyRaises(b)
           \/ \E t \in Tasks : SendWaits(t) \/ SendTimesOut(t)
  <2>1. UNCHANGED <<inTx, txConn, slot, refused, borrowed>>
    BY <1>3 DEF BeginWaits, BeginTimesOut, BodyRaises, SendWaits, SendTimesOut, rdbVars, taskVars
  <2> QED  BY <1>0, <2>1 DEF Private
<1>4. CASE \/ BeginDone(b) \/ BeginFails(b)
           \/ \E q \in {"COMMIT", "ROLLBACK"} : EndAnswered(b, q)
  <2>1. Over(b) /\ UNCHANGED borrowed /\ Others(b)
    BY <1>4, BeginAnswerTypes, EndAnswerTypes
       DEF BeginDone, BeginFails, EndAnswered, EndDone, PgEndFails, SqliteEndFails
  <2> QED  BY <1>0, <2>1, OverTypes DEF Private, Others
<1>5. ASSUME NEW t \in Tasks, Send(t) PROVE Private(b)'
  <2>1. /\ UNCHANGED <<inTx, txConn>> /\ Others(t) /\ slot[t] = NoConn
        /\ t \in Blocks \cup Raws
    BY <1>5, SendStepTypes, ScenarioFacts
       DEF Send, WantsSlot, Ready, rdbVars, Shape, Calling, Active
  <2>2. CASE Ready(t) /\ UsesTransaction(t) /\ SendOn(t, txConn) /\ UNCHANGED <<busy, borrowed>>
    <3>1. t = b /\ inTx /\ txConn \in Conns /\ txConn # NoConn
      BY <2>1, <2>2, TransactionAssumption DEF UsesTransaction, TypeOK
    <3>2. slot'[b] = txConn /\ (refused'[b] => stuck[txConn])
      BY <2>1, <2>2, <3>1, NotRefused, SendTypes
    <3> QED  BY <1>0, <2>1, <2>2, <3>1, <3>2 DEF Private, Others
  <2>3. CASE \E i \in Conns : /\ ~busy[i] /\ SendOn(t, i)
                              /\ borrowed' = [borrowed EXCEPT ![t] = TRUE]
    <3>1. PICK i \in Conns : ~busy[i] /\ SendOn(t, i) /\ borrowed' = [borrowed EXCEPT ![t] = TRUE]
      BY <2>3
    <3>2. refused'[t] => stuck[i]
      BY <2>1, <3>1, NotRefused
    <3>3. slot'[t] = i /\ borrowed'[t] /\ i # NoConn
      BY <3>1, SendTypes, TransactionAssumption DEF TypeOK
    <3> QED  BY <1>0, <2>1, <3>2, <3>3 DEF Private, Others
  <2> QED  BY <1>5, <2>2, <2>3 DEF Send, FirstFree
<1>6. ASSUME NEW t \in Tasks, Answer(t) \/ AnswerFails(t) PROVE Private(b)'
  <2>1. Over(t) /\ UNCHANGED <<inTx, txConn>> /\ Others(t)
    BY <1>6, WorkKeeps DEF Answer, AnswerFails, Works
  <2> QED  BY <1>0, <2>1, OverTypes DEF Private, Others
<1>7. ASSUME NEW q \in {"COMMIT", "ROLLBACK"}, End(b, q) PROVE Private(b)'
  <2>1. /\ UNCHANGED <<inTx, txConn, borrowed>> /\ Others(b) /\ slot[b] = NoConn
        /\ inTx /\ SendOn(b, txConn) /\ txConn \in Conns /\ txConn # NoConn
    <3>1. /\ UNCHANGED <<inTx, txConn, borrowed>> /\ Others(b) /\ SendOn(b, txConn)
          /\ pc[b] \in {"body", "except"}
      BY <1>7, EndTypes DEF End, Ending, rdbVars
    <3>2. txConn \in Conns /\ txConn # NoConn
      BY TransactionAssumption DEF TypeOK
    <3> QED  BY <3>1, <3>2 DEF Shape, Calling, Lending, Early
  <2>2. slot'[b] = txConn /\ (refused'[b] => stuck[txConn])
    BY <2>1, NotRefused, SendTypes
  <2> QED  BY <1>0, <2>1, <2>2 DEF Private, Others
<1>8. ASSUME NEW i \in Conns, LateRuns(i) \/ LateFails(i) PROVE Private(b)'
  <2>1. UNCHANGED <<inTx, txConn, slot, refused, borrowed>>
    BY <1>8, LateTypes
  <2> QED  BY <1>0, <2>1 DEF Private
<1> QED  BY <1>1, <1>2, <1>3, <1>4, <1>5, <1>6, <1>7, <1>8, Steps DEF Works

(* The flag goes up and down with the block's claim on its slot.             *)
Flags(b) == IF inTx THEN owned[b] = txConn ELSE owned[b] = NoConn

LEMMA FlagsStep ==
  ASSUME TypeOK, Shape, Wire, NEW b \in Tasks, Blocks = {b}, Flags(b), [Next]_vars
  PROVE  Flags(b)'
<1>1. CASE UNCHANGED vars
  BY <1>1 DEF vars, rdbVars, Flags
<1>2. CASE Begin(b)
  BY <1>2 DEF Begin, Flags, TypeOK
<1>3. CASE BeginWaits(b) \/ BeginTimesOut(b) \/ BeginDone(b) \/ BeginFails(b)
  BY <1>3 DEF BeginWaits, BeginTimesOut, BeginDone, BeginFails, rdbVars, Flags
<1>5. ASSUME NEW t \in Tasks, Works(t) \/ BodyRaises(t)
      PROVE  Flags(b)'
  BY <1>5, WorkKeeps DEF Flags
<1>6. ASSUME NEW q \in {"COMMIT", "ROLLBACK"}, End(b, q) \/ EndAnswered(b, q)
      PROVE  Flags(b)'
  <2>1. CASE End(b, q) \/ PgEndFails(b, q)
    BY <2>1 DEF End, PgEndFails, rdbVars, Flags
  <2>2. CASE EndDone(b, q) \/ SqliteEndFails(b, q)
    BY <2>2, LeaveTypes DEF EndDone, SqliteEndFails, Flags
  <2> QED  BY <1>6, <2>1, <2>2 DEF EndAnswered
<1>7. ASSUME NEW i \in Conns, LateRuns(i) \/ LateFails(i) PROVE Flags(b)'
  BY <1>7, LateTypes DEF Flags
<1> QED  BY <1>1, <1>2, <1>3, <1>5, <1>6, <1>7, Steps

(* The flag is down when the block is over, in SQLite when BEGIN works, in   *)
(* PostgreSQL when BEGIN, ROLLBACK and the answers do.                       *)
Flagged == \/ Alone /\ Clean
           \/ Driver = "sqlite" /\ "BEGIN" \notin Fails

DoneFlag(b) == pc[b] = "done" => ~inTx

LEMMA DoneFlagStep ==
  ASSUME TypeOK, Shape, Wire, NEW b \in Tasks, Blocks = {b}, Opening(b), DoneFlag(b), Flagged,
         Driver = "postgres" => Private(b), [Next]_vars
  PROVE  DoneFlag(b)'
<1>0. "BEGIN" \notin Fails /\ Cuts = {} /\ (Driver = "postgres" => "ROLLBACK" \notin Fails)
  BY ScenarioFacts DEF Flagged, Clean
<1>1. \A t \in Tasks : ~refused[t] /\ ~Unanswered(t)
  BY <1>0, NoRefusal DEF Unanswered
<1>2. CASE UNCHANGED vars
  BY <1>2 DEF vars, rdbVars, DoneFlag
<1>3. CASE Begin(b) \/ BeginWaits(b) \/ BeginTimesOut(b) \/ BeginDone(b)
  BY <1>3 DEF Begin, BeginWaits, BeginTimesOut, BeginDone, rdbVars, Opening, Early, DoneFlag,
              TypeOK
<1>4. ~BeginFails(b)
  <2>1. pc[b] = "BEGIN" => session[slot[b]] = "auto"
    BY DEF Opening, TypeOK
  <2> QED  BY <1>0, <1>1, <2>1, ScenarioFacts DEF BeginFails, NotSent, BeginRejected
<1>5. ASSUME NEW t \in Tasks, Works(t) \/ BodyRaises(t) PROVE DoneFlag(b)'
  <2>1. inTx' = inTx /\ (t # b => pc'[b] = pc[b]) /\ (t = b => pc'[b] # "done")
    BY <1>1, <1>5, WorkKeeps DEF Others
  <2> QED  BY <2>1 DEF DoneFlag
<1>6. ASSUME NEW q \in {"COMMIT", "ROLLBACK"}, End(b, q) \/ EndAnswered(b, q)
      PROVE  DoneFlag(b)'
  <2>1. CASE End(b, q)
    BY <2>1 DEF End, DoneFlag, TypeOK
  <2>2. CASE EndDone(b, q) \/ SqliteEndFails(b, q)
    BY <2>2, LeaveTypes DEF EndDone, SqliteEndFails, DoneFlag
  <2>3. CASE PgEndFails(b, q)
    <3>1. q = "COMMIT" /\ Raise(b)
      BY <1>0, <1>1, <2>3 DEF PgEndFails, NotSent, EndRejected, EndRaises
    <3>2. pc'[b] = "except"
      BY <1>1, <3>1, RaiseTypes
    <3> QED  BY <3>2 DEF DoneFlag
  <2> QED  BY <1>6, <2>1, <2>2, <2>3 DEF EndAnswered
<1>7. ASSUME NEW i \in Conns, LateRuns(i) \/ LateFails(i) PROVE DoneFlag(b)'
  BY <1>7, LateTypes DEF DoneFlag
<1> QED  BY <1>2, <1>3, <1>4, <1>5, <1>6, <1>7, Steps

(* The accounts of the slots, as long as no block began or ended while a      *)
(* handle was at work: then a handle has borrowed its slot exactly when it    *)
(* finds the shared flag down.                                                *)
HandlesRight ==
  \A p \in Prepareds : /\ pc[p] = "sent" => (borrowed[p] <=> ~inTx)
                       /\ pc[p] = "asking" => ~inTx

Accounts ==
  /\ crossed \subseteq Prepareds
  /\ crossed = {} =>
       /\ \A i \in Conns : busy[i] <=> \E t \in Tasks : Holds(t, i)
       /\ \A i \in Conns : \A t, u \in Tasks : Holds(t, i) /\ Holds(u, i) => t = u
       /\ HandlesRight

(* A free slot becomes the block's, or a borrower's. *)
LEMMA AccountsTake ==
  ASSUME TypeOK, Shape, Accounts, NEW t \in Tasks, NEW i \in Conns, ~busy[i],
         busy' = [busy EXCEPT ![i] = TRUE], Others(t), crossed' = {} => crossed = {},
         \A j \in Conns : (Holds(t, j))' <=> j = i \/ Holds(t, j),
         scenario' = scenario,
         crossed' \subseteq Prepareds, crossed' = {} => HandlesRight'
  PROVE  Accounts'
<1>1. \A u \in Tasks \ {t} : \A j \in Conns : (Holds(u, j))' <=> Holds(u, j)
  BY DEF Others, Holds
<1>2. Prepareds' = Prepareds
  BY Kept
<1> SUFFICES ASSUME crossed' = {}
             PROVE  /\ \A j \in Conns : busy'[j] <=> \E u \in Tasks : (Holds(u, j))'
                    /\ \A j \in Conns : \A u, v \in Tasks : (Holds(u, j))' /\ (Holds(v, j))' => u = v
  BY <1>2 DEF Accounts
<1>3. /\ \A u \in Tasks : ~Holds(u, i)
      /\ \A j \in Conns : busy[j] <=> \E u \in Tasks : Holds(u, j)
      /\ \A j \in Conns : \A u, v \in Tasks : Holds(u, j) /\ Holds(v, j) => u = v
  BY DEF Accounts
<1>4. ASSUME NEW j \in Conns PROVE busy'[j] <=> \E u \in Tasks : (Holds(u, j))'
  <2>1. CASE j = i
    <3>1. busy'[j] /\ (Holds(t, j))'
      BY <2>1 DEF TypeOK
    <3> QED  BY <3>1
  <2>2. CASE j # i
    <3>1. busy'[j] = busy[j] /\ \A u \in Tasks : (Holds(u, j))' <=> Holds(u, j)
      BY <1>1, <2>2 DEF TypeOK
    <3> QED  BY <1>3, <3>1
  <2> QED  BY <2>1, <2>2
<1>5. ASSUME NEW j \in Conns, NEW u \in Tasks, NEW v \in Tasks, (Holds(u, j))', (Holds(v, j))'
      PROVE  u = v
  <2>1. CASE j = i
    BY <1>1, <1>3, <1>5, <2>1
  <2>2. CASE j # i
    BY <1>1, <1>3, <1>5, <2>2
  <2> QED  BY <2>1, <2>2
<1> QED  BY <1>4, <1>5

(* A slot is given back by the only task that holds it. *)
LEMMA AccountsGive ==
  ASSUME TypeOK, Shape, Accounts, NEW t \in Tasks, NEW i \in Conns,
         Holds(t, i), ~(Holds(t, i))',
         \A j \in Conns \ {i} : (Holds(t, j))' <=> Holds(t, j),
         ~busy'[i], \A j \in Conns \ {i} : busy'[j] = busy[j],
         Others(t), crossed' = {} => crossed = {}, scenario' = scenario,
         crossed' \subseteq Prepareds, crossed' = {} => HandlesRight'
  PROVE  Accounts'
<1>1. \A u \in Tasks \ {t} : \A j \in Conns : (Holds(u, j))' <=> Holds(u, j)
  BY DEF Others, Holds
<1>2. Prepareds' = Prepareds
  BY Kept
<1> SUFFICES ASSUME crossed' = {}
             PROVE  /\ \A j \in Conns : busy'[j] <=> \E u \in Tasks : (Holds(u, j))'
                    /\ \A j \in Conns : \A u, v \in Tasks : (Holds(u, j))' /\ (Holds(v, j))' => u = v
  BY <1>2 DEF Accounts
<1>3. \A u \in Tasks : Holds(u, i) => u = t
  BY DEF Accounts
<1> QED  BY <1>1, <1>3 DEF Accounts

(* A step that moves no slot. *)
LEMMA AccountsMove ==
  ASSUME TypeOK, Shape, Accounts, NEW t \in Tasks,
         \A j \in Conns : (Holds(t, j))' <=> Holds(t, j),
         \A j \in Conns : busy'[j] = busy[j],
         Others(t), crossed' = {} => crossed = {}, scenario' = scenario,
         crossed' \subseteq Prepareds, crossed' = {} => HandlesRight'
  PROVE  Accounts'
<1>1. \A u \in Tasks : \A j \in Conns : (Holds(u, j))' <=> Holds(u, j)
  BY DEF Others, Holds
<1>2. Prepareds' = Prepareds
  BY Kept
<1> QED  BY <1>1, <1>2 DEF Accounts

(* Handles do not notice a step that leaves the flag and them alone.          *)
LEMMA HandlesKeep ==
  ASSUME TypeOK, Accounts, scenario' = scenario, inTx' = inTx, crossed' = crossed,
         NEW t \in Tasks, Others(t),
         t \in Prepareds => /\ pc'[t] = "sent" => (borrowed'[t] <=> ~inTx)
                            /\ pc'[t] = "asking" => ~inTx
  PROVE  crossed' \subseteq Prepareds /\ (crossed' = {} => HandlesRight')
<1>1. Prepareds' = Prepareds /\ Prepareds \subseteq Tasks
  BY Kept, ScenarioFacts
<1>2. ASSUME crossed = {}, NEW p \in Prepareds
      PROVE  /\ pc'[p] = "sent" => (borrowed'[p] <=> ~inTx)
             /\ pc'[p] = "asking" => ~inTx
  <2>1. CASE p = t
    BY <1>2, <2>1
  <2>2. CASE p # t
    <3>1. pc'[p] = pc[p] /\ borrowed'[p] = borrowed[p]
      BY <1>1, <2>2 DEF Others
    <3>2. /\ pc[p] = "sent" => (borrowed[p] <=> ~inTx)
          /\ pc[p] = "asking" => ~inTx
      BY <1>2 DEF Accounts, HandlesRight
    <3> QED  BY <3>1, <3>2
  <2> QED  BY <2>1, <2>2
<1> QED  BY <1>1, <1>2 DEF Accounts, HandlesRight

LEMMA AccountsStep ==
  ASSUME TypeOK, Shape, Wire, NEW b \in Tasks, Blocks = {b}, Opening(b), Lending(b), Flags(b),
         Accounts, [Next]_vars, Driver = "sqlite" => Clean
  PROVE  Accounts'
<1>0. scenario' = scenario /\ Prepareds' = Prepareds /\ b \notin Prepareds
  BY StepKeepsScenario, Kept, ScenarioFacts
<1>1. CASE UNCHANGED vars
  BY <1>0, <1>1 DEF vars, rdbVars, taskVars, Accounts, HandlesRight, Holds
<1>2. CASE Begin(b)
  <2>1. PICK i \in Conns : /\ ~busy[i] /\ busy' = [busy EXCEPT ![i] = TRUE]
                           /\ owned' = [owned EXCEPT ![b] = i] /\ crossed' = Crossed
    BY <1>2 DEF Begin, FirstFree
  <2>2. /\ Others(b) /\ owned[b] = NoConn /\ ~borrowed[b] /\ UNCHANGED borrowed
        /\ pc' = [pc EXCEPT ![b] = "BEGIN"]
    BY <1>2, BeginTypes DEF Begin, Opening, Shape, Early
  <2>3. \A j \in Conns : (Holds(b, j))' <=> j = i \/ Holds(b, j)
    BY <2>1, <2>2, TransactionAssumption DEF Holds, TypeOK
  <2>4. /\ crossed' \subseteq Prepareds /\ (crossed' = {} => crossed = {})
        /\ crossed' = {} => HandlesRight'
    BY <1>0, <2>1, <2>2, ScenarioFacts DEF Crossed, Accounts, HandlesRight, Others
  <2> QED  BY <1>0, <2>1, <2>2, <2>3, <2>4, AccountsTake
<1>3. CASE \/ BeginWaits(b) \/ BeginTimesOut(b) \/ BeginDone(b) \/ BeginFails(b)
           \/ BodyRaises(b)
           \/ \E q \in {"COMMIT", "ROLLBACK"} : End(b, q) \/ PgEndFails(b, q)
  <2>2. UNCHANGED <<busy, inTx, crossed, borrowed, owned>> /\ Others(b) /\ ~borrowed[b]
    <3>1. CASE BeginWaits(b) \/ BeginTimesOut(b) \/ BodyRaises(b)
      BY <3>1, GiveUpTypes DEF BeginWaits, BeginTimesOut, BodyRaises, rdbVars, taskVars, Shape
    <3>2. CASE BeginDone(b) \/ BeginFails(b)
      BY <3>2, BeginAnswerTypes DEF BeginDone, BeginFails, rdbVars, Shape
    <3>3. ASSUME NEW q \in {"COMMIT", "ROLLBACK"}, End(b, q)
          PROVE  UNCHANGED <<busy, inTx, crossed, borrowed, owned>> /\ Others(b) /\ ~borrowed[b]
      BY <3>3, EndTypes DEF End, Ending, rdbVars, Shape
    <3>4. ASSUME NEW q \in {"COMMIT", "ROLLBACK"}, PgEndFails(b, q)
          PROVE  UNCHANGED <<busy, inTx, crossed, borrowed, owned>> /\ Others(b) /\ ~borrowed[b]
      BY <3>4, EndAnswerTypes DEF PgEndFails, rdbVars, Shape
    <3> QED  BY <1>3, <3>1, <3>2, <3>3, <3>4
  <2>3. \A j \in Conns : (Holds(b, j))' <=> Holds(b, j)
    BY <2>2 DEF Holds
  <2>4. crossed' \subseteq Prepareds /\ (crossed' = {} => HandlesRight')
    BY <1>0, <2>2, HandlesKeep
  <2> QED  BY <1>0, <2>2, <2>3, <2>4, AccountsMove
<1>5. ASSUME NEW t \in Tasks, Send(t) PROVE Accounts'
  <2>1. /\ UNCHANGED <<inTx, crossed, owned>> /\ Others(t) /\ slot[t] = NoConn /\ ~borrowed[t]
        /\ pc' = [pc EXCEPT ![t] = "sent"]
    BY <1>5, SendStepTypes DEF Send, WantsSlot, Ready, rdbVars, Shape, Calling
  <2>2. t \in Prepareds => t \notin Raws /\ t \notin Blocks
    BY ScenarioFacts
  <2>3. CASE UsesTransaction(t) /\ UNCHANGED <<busy, borrowed>>
    <3>1. inTx /\ UNCHANGED <<busy, borrowed>>
      BY <2>3 DEF UsesTransaction
    <3>2. \A j \in Conns : (Holds(t, j))' <=> Holds(t, j)
      BY <2>1, <3>1 DEF Holds
    <3>3. crossed' \subseteq Prepareds /\ (crossed' = {} => HandlesRight')
      BY <1>0, <2>1, <3>1, HandlesKeep DEF TypeOK
    <3> QED  BY <1>0, <2>1, <3>1, <3>2, <3>3, AccountsMove
  <2>4. CASE WantsSlot(t) /\ \E i \in Conns :
               /\ ~busy[i] /\ busy' = [busy EXCEPT ![i] = TRUE] /\ SendOn(t, i)
               /\ borrowed' = [borrowed EXCEPT ![t] = TRUE]
    <3>1. PICK i \in Conns : /\ ~busy[i] /\ busy' = [busy EXCEPT ![i] = TRUE]
                             /\ slot'[t] = i /\ borrowed' = [borrowed EXCEPT ![t] = TRUE]
      BY <2>4, SendTypes
    <3>2. \A j \in Conns : (Holds(t, j))' <=> j = i \/ Holds(t, j)
      BY <2>1, <3>1 DEF Holds, TypeOK
    <3>3. crossed = {} /\ t \in Prepareds => ~inTx
      BY <2>2, <2>4 DEF WantsSlot, UsesTransaction, Accounts, HandlesRight
    <3>4. crossed' \subseteq Prepareds /\ (crossed' = {} => HandlesRight')
      BY <1>0, <2>1, <3>1, <3>3, ScenarioFacts DEF Others, Accounts, HandlesRight, TypeOK
    <3> QED  BY <1>0, <2>1, <3>1, <3>2, <3>4, AccountsTake
  <2> QED  BY <1>5, <2>3, <2>4 DEF Send, FirstFree
<1>6. ASSUME NEW t \in Tasks, SendWaits(t) \/ SendTimesOut(t) PROVE Accounts'
  <2>1. /\ UNCHANGED <<busy, inTx, crossed, owned, borrowed, slot>> /\ Others(t)
        /\ pc'[t] # "sent"
        /\ pc'[t] = "asking" => ~UsesTransaction(t)
    BY <1>6, GiveUpTypes, RaiseTypes DEF SendWaits, SendTimesOut, rdbVars, taskVars, TypeOK
  <2>2. \A j \in Conns : (Holds(t, j))' <=> Holds(t, j)
    BY <2>1 DEF Holds
  <2>3. t \in Prepareds => t \notin Raws /\ t \notin Blocks
    BY ScenarioFacts
  <2>4. crossed' \subseteq Prepareds /\ (crossed' = {} => HandlesRight')
    BY <1>0, <2>1, <2>3, HandlesKeep DEF UsesTransaction
  <2> QED  BY <1>0, <2>1, <2>2, <2>4, AccountsMove
<1>7. ASSUME NEW t \in Tasks, Answer(t) \/ AnswerFails(t) PROVE Accounts'
  <2>1. /\ UNCHANGED <<inTx, txConn, crossed, owned>> /\ Others(t)
        /\ pc[t] = "sent" /\ pc'[t] \notin {"sent", "asking"} /\ slot[t] \in Conns
        /\ ~borrowed'[t]
    <3>1. pc[t] = "sent" /\ pc'[t] \notin {"sent", "asking"}
      BY <1>7, RaiseTypes DEF Answer, AnswerFails, Finish, TypeOK
    <3> QED  BY <1>7, <3>1, WorkKeeps, AnswerEffect, AnswerReleases DEF Works
  <2>2. crossed' \subseteq Prepareds /\ (crossed' = {} => HandlesRight')
    BY <1>0, <2>1, HandlesKeep
  <2>3. CASE crossed # {}
    BY <1>0, <2>1, <2>2, <2>3 DEF Accounts
  <2>4. CASE crossed = {} /\ borrowed[t]
    <3>1. t \in Prepareds => ~inTx
      BY <2>1, <2>4 DEF Accounts, HandlesRight
    <3>0. PICK i \in Conns : i = slot[t]
      BY <2>1
    <3>2. ~busy'[i] /\ \A j \in Conns \ {i} : busy'[j] = busy[j]
      BY <1>7, <2>1, <2>4, <3>0, <3>1, AnswerReleases
    <3>3. owned[t] # i
      <4>1. CASE t = b
        BY <2>1, <2>4, <3>0, <4>1, TransactionAssumption DEF Flags, Lending
      <4>2. CASE t # b
        BY <2>1, <3>0, <4>2, TransactionAssumption DEF Shape
      <4> QED  BY <4>1, <4>2
    <3>4. Holds(t, i) /\ ~(Holds(t, i))'
      BY <2>1, <2>4, <3>0, <3>3 DEF Holds
    <3>5. \A j \in Conns \ {i} : (Holds(t, j))' <=> Holds(t, j)
      BY <2>1, <3>0 DEF Holds
    <3> QED  BY <1>0, <2>1, <2>2, <3>2, <3>4, <3>5, AccountsGive
  <2>5. CASE crossed = {} /\ ~borrowed[t]
    <3>1. t \in Prepareds => inTx
      BY <2>1, <2>5 DEF Accounts, HandlesRight
    <3>2. \A j \in Conns : busy'[j] = busy[j]
      BY <1>7, <2>5, <3>1, AnswerReleases
    <3>3. \A j \in Conns : (Holds(t, j))' <=> Holds(t, j)
      BY <2>1, <2>5 DEF Holds
    <3> QED  BY <1>0, <2>1, <2>2, <3>2, <3>3, AccountsMove
  <2> QED  BY <2>3, <2>4, <2>5
<1>8. ASSUME NEW q \in {"COMMIT", "ROLLBACK"}, EndDone(b, q) PROVE Accounts'
  <2>1. /\ pc[b] = q /\ inTx /\ ~borrowed[b] /\ UNCHANGED borrowed /\ Others(b)
        /\ LeaveTransaction(b) /\ crossed' = Crossed /\ txConn \in Conns
    BY <1>8, EndAnswerTypes DEF EndDone, Lending, Shape, TypeOK, Early
  <2>2. /\ ~busy'[txConn] /\ \A j \in Conns \ {txConn} : busy'[j] = busy[j]
        /\ owned[b] = txConn /\ owned'[b] = NoConn
    BY <2>1, LeaveTypes DEF Flags
  <2>3. Holds(b, txConn) /\ \A j \in Conns : ~(Holds(b, j))'
    BY <2>1, <2>2, TransactionAssumption DEF Holds
  <2>4. \A j \in Conns \ {txConn} : ~Holds(b, j)
    BY <2>1, <2>2 DEF Holds
  <2>5. /\ crossed' \subseteq Prepareds /\ (crossed' = {} => crossed = {})
        /\ crossed' = {} => HandlesRight'
    BY <1>0, <2>1, ScenarioFacts DEF Crossed, Others, Accounts, HandlesRight
  <2> QED  BY <1>0, <2>1, <2>2, <2>3, <2>4, <2>5, AccountsGive
<1>9. ASSUME NEW q \in {"COMMIT", "ROLLBACK"}, SqliteEndFails(b, q) PROVE Accounts'
  <2>1. /\ Driver = "sqlite" /\ q \notin Fails /\ ~refused[b] /\ session[txConn] = "open"
        /\ slot[b] = txConn
    BY <1>9 DEF SqliteEndFails, Clean, Shape, Lending, Opening
  <2> QED  BY <1>9, <2>1 DEF SqliteEndFails, EndAccepted
<1>10. ASSUME NEW i \in Conns, LateRuns(i) \/ LateFails(i) PROVE Accounts'
  BY <1>0, <1>10, LateTypes DEF Accounts, HandlesRight, Holds
<1> QED  BY <1>1, <1>2, <1>3, <1>5, <1>6, <1>7, <1>8, <1>9, <1>10, Steps DEF Works, EndAnswered

(* Where the writes of the block are: in the open transaction of its slot    *)
(* while the body runs and until COMMIT is answered, in nobody's when it is  *)
(* over, and all durable or none.                                            *)
Nowhere(b) == \A i \in Conns : \A k \in 1 .. BodyLen : <<b, k>> \notin pending[i]

Undone(b) == \A k \in 1 .. BodyLen : <<b, k>> \notin applied

Durable(b) == \A k \in 1 .. BodyLen : <<b, k>> \in applied

(* The block cannot know: its COMMIT was executed but never answered.        *)
Unsure(b) == /\ "COMMIT" \in Cuts /\ outcome[b] \in {"none", "error"} /\ pc[b] \in Past
             /\ inTx /\ stuck[txConn]

Inside(b) == /\ session[txConn] = "open" /\ ~stuck[txConn]
             /\ \A k \in 1 .. BodyLen : k < next[b] => <<b, k>> \in pending[txConn]

(* A statement of the block that was left behind is on the connection of its *)
(* transaction, a COMMIT with the whole body before it.                      *)
LeftBehind(b) ==
  \A i \in Conns : \A q \in Statements : <<b, q>> \in late[i] =>
    /\ i = txConn /\ inTx /\ outcome[b] \in {"none", "error"}
    /\ q \in {"body", "COMMIT"} => session[i] = "open"
    /\ q = "COMMIT" => /\ "COMMIT" \in Cuts /\ Undone(b)
                       /\ \A k \in 1 .. BodyLen : <<b, k>> \in pending[i]

Atomic(b) ==
  /\ pc[b] # "asking"
  /\ pc[b] # "done" => outcome[b] = "none"
  /\ Undone(b) \/ (Durable(b) /\ (outcome[b] = "committed" \/ Unsure(b)))
  /\ outcome[b] = "committed" => Durable(b)
  /\ outcome[b] \in {"committed", "rolledback"} => Nowhere(b)
  /\ pc[b] \in {"body", "sent", "COMMIT"} => Inside(b)
  /\ pc[b] = "sent" => slot[b] = txConn
  /\ pc[b] = "COMMIT" => next[b] > BodyLen
  /\ LeftBehind(b)
  /\ Driver = "postgres" /\ Cuts = {} /\ "body" \notin Fails /\ pc[b] \in {"except", "ROLLBACK"}
       => Nowhere(b)
  /\ outcome[b] = "error" /\ Cuts = {} /\ ~({"body", "ROLLBACK"} \subseteq Fails) => Nowhere(b)

(* The scenarios in which a block is atomic. *)
Promised(b) == /\ ~scenario.rawBody
               /\ Driver = "sqlite" => Clean
               /\ Driver = "postgres" => Private(b)

(* Steps that the block and its transaction do not notice. *)
LEMMA AtomicSame ==
  ASSUME TypeOK, NEW b \in Tasks, Atomic(b), UNCHANGED <<scenario, inTx, txConn>>,
         pc'[b] = pc[b], outcome'[b] = outcome[b], next'[b] = next[b], slot'[b] = slot[b],
         \A i \in Conns : \A k \in 1 .. BodyLen : <<b, k>> \in pending'[i] <=> <<b, k>> \in pending[i],
         \A k \in 1 .. BodyLen : <<b, k>> \in applied' <=> <<b, k>> \in applied,
         session[txConn] = "open" => session'[txConn] = "open",
         stuck[txConn] => stuck'[txConn],
         pc[b] \in {"body", "sent", "COMMIT"} /\ ~stuck[txConn] => ~stuck'[txConn],
         \A i \in Conns : \A q \in Statements : <<b, q>> \in late'[i] => <<b, q>> \in late[i]
  PROVE  Atomic(b)'
<1>1. Driver' = Driver /\ Fails' = Fails /\ Cuts' = Cuts /\ txConn \in Conns
  BY Kept DEF TypeOK
<1>2. /\ Undone(b)' <=> Undone(b)
      /\ Durable(b)' <=> Durable(b)
      /\ Nowhere(b)' <=> Nowhere(b)
  BY DEF Undone, Durable, Nowhere
<1>3. Unsure(b) => Unsure(b)'
  BY <1>1 DEF Unsure
<1>4. pc[b] \in {"body", "sent", "COMMIT"} /\ Inside(b) => Inside(b)'
  BY <1>1 DEF Inside
<1>5. LeftBehind(b)'
  BY <1>1, <1>2 DEF Atomic, LeftBehind
<1> QED  BY <1>1, <1>2, <1>3, <1>4, <1>5 DEF Atomic

(* The others' statements do not touch the block's transaction. *)
LEMMA AtomicBeside ==
  ASSUME TypeOK, Shape, Wire, NEW b \in Tasks, Blocks = {b}, Opening(b), Lending(b), Atomic(b),
         Promised(b), NEW t \in Tasks \ {b}, Works(t)
  PROVE  Atomic(b)'
<1>1. /\ UNCHANGED <<scenario, inTx, txConn>> /\ Others(t) /\ txConn \in Conns
      /\ pc'[b] = pc[b] /\ outcome'[b] = outcome[b] /\ next'[b] = next[b] /\ slot'[b] = slot[b]
  BY WorkKeeps DEF Others, TypeOK
<1>2. CASE Send(t) \/ SendWaits(t) \/ SendTimesOut(t)
  <2>1. UNCHANGED <<stuck, late, session, pending, applied>>
    BY <1>2 DEF Send, SendWaits, SendTimesOut, wire, serverVars
  <2> QED  BY <1>1, <2>1, AtomicSame
<1>3. CASE Answer(t) \/ AnswerFails(t)
  <2>1. \A k \in 1 .. BodyLen : <<b, k>> # <<t, next[t]>>
    OBVIOUS
  <2>2. /\ \A i \in Conns : \A k \in 1 .. BodyLen : <<b, k>> \in pending'[i] <=> <<b, k>> \in pending[i]
        /\ \A k \in 1 .. BodyLen : <<b, k>> \in applied' <=> <<b, k>> \in applied
    BY <1>3, <2>1, AnswerEffect
  <2>3. Driver = "postgres" /\ inTx => slot[t] # txConn
    <3>1. slot[t] # NoConn
      BY <1>3, AnswerEffect, TransactionAssumption
    <3>2. Driver = "postgres" => borrowed[t]
      BY <3>1 DEF Promised, Private
    <3> QED  BY <3>2 DEF Lending
  <2>4. session[txConn] = "open" => session'[txConn] = "open"
    <3>1. session[txConn] = "open" => inTx
      BY <1>1 DEF Lending
    <3> QED  BY <1>1, <1>3, <2>3, <3>1, AnswerEffect
  <2>5. /\ stuck[txConn] => stuck'[txConn]
        /\ pc[b] \in {"body", "sent", "COMMIT"} /\ ~stuck[txConn] => ~stuck'[txConn]
    <3>1. pc[b] \in {"body", "sent", "COMMIT"} => inTx
      BY DEF Lending, Early
    <3>2. Driver = "sqlite" => ~AnswerFails(t) \/ UNCHANGED wire
      BY ScenarioFacts DEF AnswerFails, NotSent, Unanswered, StatementRejected
    <3>3. Driver = "sqlite" => UNCHANGED wire
      BY <1>3, <3>2 DEF Answer
    <3> QED  BY <1>1, <1>3, <2>3, <3>1, <3>3, AnswerWire, ScenarioFacts DEF wire
  <2>6. \A i \in Conns : \A q \in Statements : <<b, q>> \in late'[i] => <<b, q>> \in late[i]
    <3>1. \A i \in Conns : late'[i] = late[i] \/ late'[i] = {<<t, "body">>}
      BY <1>3, AnswerWire DEF wire
    <3> QED  BY <3>1
  <2> QED  BY <1>1, <2>2, <2>4, <2>5, <2>6, AtomicSame
<1> QED  BY <1>2, <1>3 DEF Works

(* The block's own statements all go to its transaction. *)
LEMMA AtomicBody ==
  ASSUME TypeOK, Shape, Wire, NEW b \in Tasks, Blocks = {b}, Opening(b), Lending(b), Atomic(b),
         Promised(b), Works(b) \/ BodyRaises(b)
  PROVE  Atomic(b)'
<1>1. /\ UNCHANGED <<scenario, inTx, txConn>> /\ inTx /\ b \notin Raws /\ pc[b] \in {"body", "sent"}
      /\ txConn \in Conns /\ txConn # NoConn
  <2>1. UNCHANGED <<scenario, inTx, txConn>> /\ pc[b] \in {"idle", "body", "asking", "sent"}
        /\ (b \in Blocks => pc[b] # "idle")
    BY WorkKeeps
  <2>2. b \in Blocks /\ b \notin Raws
    BY ScenarioFacts
  <2>3. pc[b] # "asking" /\ (pc[b] \in {"body", "sent"} => inTx)
    BY DEF Lending, Early, Atomic
  <2>4. txConn \in Conns /\ txConn # NoConn
    BY TransactionAssumption DEF TypeOK
  <2> QED  BY <2>1, <2>2, <2>3, <2>4
<1>2. Driver' = Driver /\ Fails' = Fails /\ Cuts' = Cuts
  BY <1>1, Kept
<1>3. UsesTransaction(b)
  BY <1>1 DEF UsesTransaction, Promised
<1>4. Inside(b) /\ Undone(b) /\ outcome[b] = "none"
  BY <1>1 DEF Atomic, Unsure, Past
<1>5. \A i \in Conns : \A q \in Statements : <<b, q>> \notin late[i]
  BY <1>1 DEF Wire, Past
<1>6. CASE Send(b)
  <2>1. /\ UNCHANGED <<stuck, late, session, pending, applied, next, outcome>>
        /\ SendOn(b, txConn) /\ pc'[b] = "sent"
    BY <1>1, <1>3, <1>6 DEF Send, WantsSlot, wire, serverVars, TypeOK
  <2>2. slot'[b] = txConn
    BY <1>1, <2>1, SendTypes
  <2> QED  BY <1>1, <1>2, <1>4, <1>5, <2>1, <2>2
              DEF Atomic, Inside, Undone, LeftBehind
<1>7. CASE SendWaits(b) \/ SendTimesOut(b)
  BY <1>1, <1>3, <1>7 DEF SendWaits, SendTimesOut
<1>8. CASE Answer(b)
  <2>1. /\ pc[b] = "sent" /\ pc'[b] = "body" /\ outcome'[b] = outcome[b] /\ UNCHANGED wire
        /\ next'[b] = next[b] + 1 /\ slot[b] = txConn /\ session[txConn] = "open"
    BY <1>4, <1>8 DEF Answer, Atomic, Inside, TypeOK
  <2>2. /\ session'[txConn] = "open" /\ applied' = applied
        /\ pending'[txConn] = pending[txConn] \cup {<<b, next[b]>>}
    BY <1>8, <2>1, AnswerEffect DEF Answer, WriteOn, TypeOK
  <2>3. \A k \in 1 .. BodyLen : k < next'[b] => <<b, k>> \in pending'[txConn]
    <3>1. next[b] \in Nat
      BY DEF TypeOK
    <3>2. \A k \in 1 .. BodyLen : k < next[b] + 1 => k < next[b] \/ k = next[b]
      BY <3>1, TransactionAssumption
    <3> QED  BY <1>4, <2>1, <2>2, <3>2 DEF Inside
  <2> QED  BY <1>1, <1>2, <1>4, <1>5, <2>1, <2>2, <2>3
              DEF Atomic, Inside, Undone, LeftBehind, wire
<1>9. CASE AnswerFails(b)
  <2>1. /\ pc[b] = "sent" /\ slot[b] = txConn /\ UNCHANGED <<pending, applied>> /\ ~refused[b]
        /\ pc'[b] = "except" /\ outcome'[b] = outcome[b]
    <3>1. pc[b] = "sent" /\ slot[b] = txConn
      BY <1>9 DEF AnswerFails, Atomic
    <3>2. ~refused[b]
      BY <1>4, <3>1, ScenarioFacts DEF Promised, Private, Inside, Shape
    <3>3. UNCHANGED <<pending, applied>>
      BY <1>9 DEF AnswerFails, NotSent, Unanswered, StatementRejected, Rejects, serverVars
    <3> QED  BY <1>9, <3>1, <3>2, <3>3, RaiseTypes DEF AnswerFails
  <2>2. \/ StatementRejected(b) /\ "body" \in Fails /\ UNCHANGED <<stuck, late>>
        \/ Unanswered(b) /\ Cuts # {}
    BY <1>4, <1>9, <2>1 DEF AnswerFails, NotSent, StatementRejected, Unanswered, Inside, wire
  <2>3. LeftBehind(b)'
    <3>1. CASE UNCHANGED late
      BY <1>5, <3>1 DEF LeftBehind
    <3>2. CASE Unanswered(b)
      <4>1. Statement(b) = "body"
        BY <2>1 DEF Statement
      <4>2. /\ UNCHANGED session
            /\ \A i \in Conns : late'[i] = IF i = txConn THEN {<<b, "body">>} ELSE late[i]
        BY <1>1, <2>1, <3>2, <4>1, UnansweredTypes DEF Calling
      <4>3. \A i \in Conns : \A q \in Statements : <<b, q>> \in late'[i] => i = txConn /\ q = "body"
        BY <1>5, <4>2
      <4> QED  BY <1>1, <1>4, <2>1, <4>2, <4>3 DEF LeftBehind, Inside
    <3> QED  BY <2>2, <3>1, <3>2
  <2> QED  BY <1>1, <1>2, <1>4, <2>1, <2>2, <2>3 DEF Atomic, Undone
<1>10. CASE BodyRaises(b)
  <2>1. /\ pc'[b] = "except" /\ "body" \in Fails
        /\ UNCHANGED <<stuck, late, pending, applied, outcome>>
    BY <1>10 DEF BodyRaises, wire, serverVars, TypeOK
  <2> QED  BY <1>1, <1>2, <1>4, <1>5, <2>1 DEF Atomic, Undone, LeftBehind
<1> QED  BY <1>6, <1>7, <1>8, <1>9, <1>10 DEF Works

(* BEGIN finds no transaction and no write of the block anywhere. *)
LEMMA AtomicBegin ==
  ASSUME TypeOK, Shape, Wire, NEW b \in Tasks, Blocks = {b}, Opening(b), Lending(b), Atomic(b),
         Begin(b) \/ BeginWaits(b) \/ BeginTimesOut(b) \/ BeginDone(b) \/ BeginFails(b)
  PROVE  Atomic(b)'
<1>1. /\ pc[b] \in {"idle", "waiting", "BEGIN"} /\ UNCHANGED <<scenario, pending, applied, next>>
      /\ next[b] = 1 /\ outcome[b] = "none"
  BY DEF Begin, BeginWaits, BeginTimesOut, BeginDone, BeginFails, NotSent, Unanswered,
         BeginRejected, Opens, rdbVars, serverVars, taskVars, Shape, Atomic
<1>2. Nowhere(b) /\ Nowhere(b)' /\ Undone(b) /\ Undone(b)'
  BY <1>1 DEF Opening, Early, Nowhere, Atomic, Unsure, Past, Undone
<1>3. \A i \in Conns : \A q \in Statements : <<b, q>> \notin late[i]
  BY <1>1 DEF Wire, Past
<1>4. CASE Begin(b) \/ BeginWaits(b)
  <2>1. pc'[b] \in {"waiting", "BEGIN"} /\ UNCHANGED <<outcome, late>>
    BY <1>4 DEF Begin, BeginWaits, wire, TypeOK
  <2> QED  BY <1>1, <1>2, <1>3, <2>1 DEF Atomic, LeftBehind
<1>5. CASE BeginTimesOut(b) \/ BeginFails(b)
  <2>1. pc'[b] = "done" /\ outcome'[b] = "error"
    BY <1>5, FinishTypes DEF BeginTimesOut, BeginFails
  <2>2. LeftBehind(b)'
    <3>1. CASE UNCHANGED late
      BY <1>3, <3>1 DEF LeftBehind
    <3>2. CASE BeginFails(b) /\ Unanswered(b)
      <4>1. /\ pc[b] = "BEGIN" /\ slot[b] = txConn /\ inTx /\ UNCHANGED <<inTx, txConn>>
            /\ Statement(b) = "BEGIN" /\ txConn \in Conns
        BY <3>2 DEF BeginFails, Opening, rdbVars, Statement, TypeOK
      <4>2. \A i \in Conns : late'[i] = IF i = txConn THEN {<<b, "BEGIN">>} ELSE late[i]
        BY <3>2, <4>1, UnansweredTypes DEF Calling
      <4> QED  BY <1>3, <2>1, <4>1, <4>2 DEF LeftBehind
    <3> QED  BY <1>5, <3>1, <3>2 DEF BeginTimesOut, BeginFails, NotSent, BeginRejected, wire
  <2> QED  BY <1>2, <2>1, <2>2 DEF Atomic
<1>6. CASE BeginDone(b)
  <2>1. /\ pc'[b] = "body" /\ UNCHANGED <<outcome, txConn, stuck, late>> /\ slot[b] = txConn
        /\ session[txConn] = "auto" /\ txConn \in Conns /\ ~refused[b]
        /\ session' = [session EXCEPT ![slot[b]] = IF @ = "auto" THEN "open" ELSE @]
    BY <1>6 DEF BeginDone, Opens, rdbVars, wire, Opening, TypeOK
  <2>2. session'[txConn] = "open" /\ \A k \in 1 .. BodyLen : ~(k < next'[b])
    BY <1>1, <2>1 DEF TypeOK
  <2>3. ~stuck[txConn]
    <3>1. slot[b] # NoConn
      BY <2>1, TransactionAssumption
    <3> QED  BY <2>1, <3>1, SqliteAnswers, ScenarioFacts DEF Wire
  <2> QED  BY <1>1, <1>2, <1>3, <2>1, <2>2, <2>3 DEF Atomic, Inside, LeftBehind
<1> QED  BY <1>4, <1>5, <1>6

(* COMMIT finds the whole body pending; what fails leaves nothing durable.   *)
LEMMA AtomicEnd ==
  ASSUME TypeOK, Shape, Wire, NEW b \in Tasks, Blocks = {b}, Opening(b), Lending(b), Atomic(b),
         Promised(b), NEW q \in {"COMMIT", "ROLLBACK"}, End(b, q) \/ EndAnswered(b, q)
  PROVE  Atomic(b)'
<1>1. scenario' = scenario /\ txConn \in Conns /\ txConn # NoConn
  BY TransactionAssumption
     DEF End, EndAnswered, EndDone, PgEndFails, SqliteEndFails, rdbVars, TypeOK
<1>2. Driver' = Driver /\ Fails' = Fails /\ Cuts' = Cuts
  BY <1>1, Kept
<1>3. CASE End(b, q)
  <2>1. /\ UNCHANGED <<inTx, txConn, stuck, late, session, pending, applied, next, outcome>>
        /\ pc'[b] = q
        /\ \/ q = "COMMIT" /\ pc[b] = "body" /\ next[b] > BodyLen
           \/ q = "ROLLBACK" /\ pc[b] = "except"
    BY <1>3 DEF End, Ending, rdbVars, wire, serverVars, TypeOK
  <2>2. LeftBehind(b)'
    BY <1>2, <2>1 DEF Atomic, LeftBehind, Undone
  <2>3. /\ Unsure(b) => Unsure(b)'
        /\ q = "COMMIT" => Inside(b)'
    BY <1>2, <2>1 DEF Atomic, Unsure, Inside, Past
  <2> QED  BY <1>1, <1>2, <2>1, <2>2, <2>3 DEF Atomic, Nowhere, Undone, Durable
<1>4. CASE EndAnswered(b, q)
  <2>1. /\ pc[b] = q /\ slot[b] = txConn /\ outcome[b] = "none" /\ inTx
    BY <1>4 DEF EndAnswered, EndDone, PgEndFails, SqliteEndFails, Opening, Lending, Early, Atomic
  <2>2. \A i \in Conns : i # txConn => pending[i] = {}
    BY DEF Lending
  <2>3. q = "COMMIT" => Inside(b) /\ Undone(b) /\ \A k \in 1 .. BodyLen : <<b, k>> \in pending[txConn]
    <3> SUFFICES ASSUME q = "COMMIT"
                 PROVE  Inside(b) /\ Undone(b) /\ \A k \in 1 .. BodyLen : <<b, k>> \in pending[txConn]
      OBVIOUS
    <3>1. Inside(b) /\ Undone(b) /\ next[b] > BodyLen /\ next[b] \in Nat
      BY <2>1 DEF Atomic, Unsure, Past, TypeOK
    <3>2. \A k \in 1 .. BodyLen : k < next[b]
      BY <3>1, TransactionAssumption
    <3> QED  BY <3>1, <3>2 DEF Inside
  <2>4. ~refused[b] => ~stuck[txConn] /\ Undone(b) /\ \A i \in Conns : \A s \in Statements : <<b, s>> \notin late[i]
    <3>1. ~refused[b] => ~stuck[txConn]
      BY <1>1, <2>1, SqliteAnswers, ScenarioFacts DEF Wire
    <3> QED  BY <2>1, <3>1 DEF Atomic, Unsure, LeftBehind, Wire
  <2>5. CASE EndDone(b, q)
    <3>1. /\ pc'[b] = "done" /\ ~refused[b] /\ late' = late
          /\ outcome'[b] = IF q = "COMMIT" THEN "committed" ELSE "rolledback"
          /\ pending' = [pending EXCEPT ![txConn] = {}]
          /\ applied' = IF q = "COMMIT" /\ session[txConn] = "open"
                        THEN applied \cup pending[txConn] ELSE applied
      BY <2>1, <2>5 DEF EndDone, EndAccepted, Ends, Closes, Finish, wire, TypeOK
    <3>2. Nowhere(b)'
      BY <2>2, <3>1 DEF Nowhere, TypeOK
    <3>3. IF q = "COMMIT" THEN Durable(b)' ELSE Undone(b)'
      BY <2>3, <2>4, <3>1 DEF Inside, Durable, Undone
    <3>4. LeftBehind(b)'
      BY <2>4, <3>1 DEF LeftBehind
    <3> QED  BY <1>1, <1>2, <3>1, <3>2, <3>3, <3>4 DEF Atomic
  <2>6. CASE PgEndFails(b, q)
    <3>1. UNCHANGED <<applied, inTx, txConn>> /\ (Unanswered(b) \/ UNCHANGED wire)
      BY <2>6 DEF PgEndFails, NotSent, Unanswered, EndRejected, rdbVars, serverVars
    <3>2. pc'[b] \in {"except", "done"}
      BY <2>6, RaiseTypes, FinishTypes DEF PgEndFails, EndRaises
    <3>3. /\ pc'[b] = "except" => outcome'[b] = "none" /\ q = "COMMIT"
          /\ pc'[b] = "done" => outcome'[b] = "error" /\ (q = "ROLLBACK" \/ refused[b])
      BY <2>1, <2>6, RaiseTypes, FinishTypes DEF PgEndFails, EndRaises
    <3>4. stuck[txConn] => stuck'[txConn]
      BY <3>1 DEF Unanswered, wire, TypeOK
    <3>5. LeftBehind(b)'
      <4>1. CASE Unanswered(b)
        <5>1. Statement(b) = q /\ q \in Cuts /\ UNCHANGED <<session, pending>> /\ ~refused[b]
          BY <2>1, <4>1 DEF Statement, Unanswered, serverVars
        <5>2. \A i \in Conns : late'[i] = IF i = txConn THEN {<<b, q>>} ELSE late[i]
          BY <1>1, <2>1, <4>1, <5>1, UnansweredTypes DEF Calling
        <5>3. \A i \in Conns : \A s \in Statements : <<b, s>> \in late'[i] => i = txConn /\ s = q
          BY <2>4, <5>1, <5>2
        <5> QED  BY <1>1, <1>2, <2>1, <2>3, <3>1, <3>2, <3>3, <5>1, <5>3
                    DEF LeftBehind, Inside, Undone
      <4>2. CASE EndRejected(b, q) \/ NotSent(b)
        <5>1. UNCHANGED late /\ (~refused[b] \/ UNCHANGED <<session, pending>>)
          BY <4>2 DEF EndRejected, NotSent, wire, serverVars
        <5> QED  BY <1>2, <2>1, <2>4, <3>1, <3>2, <3>3, <5>1 DEF Atomic, LeftBehind, Undone
      <4> QED  BY <2>6, <4>1, <4>2 DEF PgEndFails
    <3>6. Undone(b)' \/ (Durable(b)' /\ Unsure(b)')
      <4>1. Undone(b) \/ (Durable(b) /\ Unsure(b))
        BY <2>1 DEF Atomic
      <4> QED  BY <1>2, <3>1, <3>2, <3>3, <3>4, <4>1 DEF Undone, Durable, Unsure, Past
    <3>7. Cuts = {} => EndRejected(b, q) /\ q \in Fails
      <4>1. Cuts = {} => ~refused[b]
        BY NoRefusal DEF Promised
      <4> QED  BY <2>6, <4>1 DEF PgEndFails, NotSent, Unanswered, EndRejected
    <3>8. Cuts = {} /\ q = "COMMIT" => pc'[b] = "except" /\ Nowhere(b)'
      <4> SUFFICES ASSUME Cuts = {}, q = "COMMIT" PROVE pc'[b] = "except" /\ Nowhere(b)'
        OBVIOUS
      <4>1. pending' = [pending EXCEPT ![txConn] = {}] /\ ~refused[b]
        BY <2>1, <3>7 DEF EndRejected, Closes
      <4> QED  BY <2>2, <3>2, <3>3, <4>1 DEF Nowhere, TypeOK
    <3>9. Cuts = {} /\ q = "ROLLBACK" /\ "body" \notin Fails => Nowhere(b)'
      <4> SUFFICES ASSUME Cuts = {}, q = "ROLLBACK", "body" \notin Fails PROVE Nowhere(b)'
        OBVIOUS
      <4>1. Nowhere(b) /\ UNCHANGED pending
        BY <2>1, <2>6, <3>7 DEF PgEndFails, Atomic, EndRejected
      <4> QED  BY <4>1 DEF Nowhere
    <3>10. Cuts = {} /\ q = "ROLLBACK" => "ROLLBACK" \in Fails
      BY <3>7
    <3> QED  BY <1>2, <3>2, <3>3, <3>5, <3>6, <3>8, <3>9, <3>10 DEF Atomic
  <2>7. CASE SqliteEndFails(b, q)
    <3>1. /\ Driver = "sqlite" /\ q \notin Fails /\ ~refused[b] /\ session[txConn] = "open"
      BY <2>1, <2>7 DEF SqliteEndFails, Promised, Clean, Shape, Lending
    <3> QED  BY <2>1, <2>7, <3>1 DEF SqliteEndFails, EndAccepted
  <2> QED  BY <1>4, <2>5, <2>6, <2>7 DEF EndAnswered
<1> QED  BY <1>3, <1>4

(* What the server does late: it may still commit the whole block, or give   *)
(* the transaction up.                                                       *)
LEMMA AtomicLate ==
  ASSUME TypeOK, Shape, Wire, NEW b \in Tasks, Blocks = {b}, Atomic(b),
         NEW i \in Conns, LateRuns(i) \/ LateFails(i)
  PROVE  Atomic(b)'
<1>1. /\ UNCHANGED <<scenario, inTx, txConn, stuck, pc, slot, next, outcome>>
      /\ late'[i] = {} /\ \A j \in Conns \ {i} : late'[j] = late[j]
  BY LateTypes
<1>2. Driver' = Driver /\ Fails' = Fails /\ Cuts' = Cuts /\ Cuts # {} /\ stuck[i]
  BY <1>1, Kept, LateEffect DEF Wire
<1>3. /\ \A j \in Conns \ {i} : session'[j] = session[j] /\ pending'[j] = pending[j]
  BY LateEffect
<1>4. Undone(b)' \/ (Durable(b)' /\ (outcome[b] = "committed" \/ Unsure(b)'))
  <2>1. Unsure(b) => Unsure(b)'
    BY <1>1, <1>2 DEF Unsure
  <2>2. CASE applied' = applied
    BY <2>1, <2>2 DEF Atomic, Undone, Durable
  <2>3. ASSUME NEW t \in Tasks, <<t, "body">> \in late[i], session[i] = "auto",
               applied' = applied \cup {<<t, next[t]>>}
        PROVE  Undone(b)' \/ (Durable(b)' /\ (outcome[b] = "committed" \/ Unsure(b)'))
    <3>1. t # b
      BY <2>3 DEF Atomic, LeftBehind, Statements
    <3>2. \A k \in 1 .. BodyLen : <<b, k>> # <<t, next[t]>>
      BY <3>1
    <3>3. (Undone(b) => Undone(b)') /\ (Durable(b) => Durable(b)')
      BY <2>3, <3>2 DEF Undone, Durable
    <3> QED  BY <2>1, <3>3 DEF Atomic
  <2>4. CASE <<b, "COMMIT">> \in late[i] /\ applied' = applied \cup pending[i]
    <3>1. Durable(b)'
      BY <2>4 DEF Atomic, LeftBehind, Durable, Statements
    <3>2. Unsure(b)
      BY <1>2, <2>4 DEF Atomic, LeftBehind, Unsure, Wire, Statements
    <3> QED  BY <2>1, <3>1, <3>2
  <2> QED  BY <2>2, <2>3, <2>4, LateEffect
<1>5. outcome[b] = "committed" => Durable(b)'
  BY <1>4, TransactionAssumption, LateEffect DEF Atomic, Durable
<1>6. outcome[b] \in {"committed", "rolledback"} => Nowhere(b)'
  <2> SUFFICES ASSUME outcome[b] \in {"committed", "rolledback"}, NEW j \in Conns, NEW k \in 1 .. BodyLen
               PROVE  <<b, k>> \notin pending'[j]
    BY DEF Nowhere
  <2>1. <<b, k>> \notin pending[j] /\ <<b, "body">> \notin late[i]
    BY DEF Atomic, Nowhere, LeftBehind, Statements
  <2>2. CASE j # i
    BY <1>3, <2>1, <2>2
  <2>3. CASE j = i /\ pending'[i] \in {pending[i], {}}
    BY <2>1, <2>3
  <2>4. ASSUME NEW t \in Tasks, <<t, "body">> \in late[i],
               pending'[i] = pending[i] \cup {<<t, next[t]>>}, j = i
        PROVE  <<b, k>> \notin pending'[j]
    <3>1. <<b, k>> # <<t, next[t]>>
      BY <2>1, <2>4
    <3> QED  BY <2>1, <2>4, <3>1
  <2> QED  BY <2>2, <2>3, <2>4, LateEffect
<1>7. pc[b] \in {"body", "sent", "COMMIT"} => Inside(b)'
  <2>1. pc[b] \in {"body", "sent", "COMMIT"} => Inside(b) /\ txConn # i /\ txConn \in Conns
    BY <1>2 DEF Atomic, Inside, TypeOK
  <2> QED  BY <1>1, <1>3, <2>1 DEF Inside
<1>8. LeftBehind(b)'
  <2> SUFFICES ASSUME NEW j \in Conns, NEW q \in Statements, <<b, q>> \in late'[j]
               PROVE  /\ j = txConn /\ inTx /\ outcome[b] \in {"none", "error"}
                      /\ q \in {"body", "COMMIT"} => session'[j] = "open"
                      /\ q = "COMMIT" => /\ "COMMIT" \in Cuts /\ Undone(b)'
                                         /\ \A k \in 1 .. BodyLen : <<b, k>> \in pending'[j]
    BY <1>1, <1>2 DEF LeftBehind
  <2>1. j # i /\ <<b, q>> \in late[j] /\ session'[j] = session[j] /\ pending'[j] = pending[j]
    BY <1>1, <1>3
  <2>2. \A s \in Statements : <<b, s>> \notin late[i]
    BY <2>1 DEF Atomic, LeftBehind
  <2>3. Undone(b) => Undone(b)'
    <3>1. applied' = applied \/ \E t \in Tasks : t # b /\ applied' = applied \cup {<<t, next[t]>>}
      BY <2>2, LateEffect DEF Statements
    <3>2. \A t \in Tasks : t # b => \A k \in 1 .. BodyLen : <<b, k>> # <<t, next[t]>>
      OBVIOUS
    <3> QED  BY <3>1, <3>2 DEF Undone
  <2> QED  BY <2>1, <2>3 DEF Atomic, LeftBehind
<1> QED  BY <1>1, <1>2, <1>4, <1>5, <1>6, <1>7, <1>8 DEF Atomic

LEMMA AtomicStep ==
  ASSUME TypeOK, Shape, Wire, NEW b \in Tasks, Blocks = {b}, Opening(b), Lending(b), Atomic(b),
         Promised(b), [Next]_vars
  PROVE  Atomic(b)'
<1>1. CASE UNCHANGED vars
  BY <1>1, AtomicSame DEF vars, rdbVars, wire, serverVars, taskVars
<1>2. CASE ~UNCHANGED vars
  BY <1>2, Steps, AtomicBeside, AtomicBody, AtomicBegin, AtomicEnd, AtomicLate
<1> QED  BY <1>1, <1>2

(* All of it together, each part in the scenarios it is about.               *)
Undisturbed == Driver = "sqlite" => Clean

Kind == Alone /\ ~scenario.rawBody /\ Undisturbed

BlockInv(b) ==
  /\ Opening(b) /\ Flags(b)
  /\ Undisturbed => Lending(b) /\ Accounts
  /\ Driver = "postgres" /\ Queries = {} => Private(b)
  /\ Flagged => DoneFlag(b)
  /\ Kind => Atomic(b)

SingleBlock == \A b \in Tasks : Blocks = {b} => BlockInv(b)

LEMMA SingleBlockInit == Init => SingleBlock
<1> SUFFICES ASSUME Init, NEW b \in Tasks, Blocks = {b} PROVE BlockInv(b)
  BY DEF SingleBlock
<1>1. pc[b] = "idle" /\ 0 \in Conns /\ 0 # NoConn
  BY TransactionAssumption DEF Init, Active
<1>2. \A t \in Tasks : pc[t] \notin {"asking", "sent"} /\ ~borrowed[t] /\ owned[t] = NoConn
  BY DEF Init
<1>3. \A i \in Conns : ~busy[i] /\ i # NoConn
  BY TransactionAssumption DEF Init
<1>4. Opening(b) /\ Lending(b)
  BY <1>1, <1>2, ScenarioFacts, InitTypes DEF Init, Opening, Lending, Early
<1>5. Private(b) /\ Flags(b) /\ DoneFlag(b)
  BY <1>1, <1>2 DEF Init, Private, Flags, DoneFlag
<1>6. Atomic(b)
  BY <1>1 DEF Init, Atomic, Undone, LeftBehind
<1>7. Accounts
  BY <1>2, <1>3, ScenarioFacts, InitTypes DEF Init, Accounts, HandlesRight, Holds
<1> QED  BY <1>4, <1>5, <1>6, <1>7 DEF BlockInv

LEMMA SingleBlockStep == TypeOK /\ Shape /\ Wire /\ SingleBlock /\ [Next]_vars => SingleBlock'
<1> SUFFICES ASSUME TypeOK, Shape, Wire, SingleBlock, [Next]_vars, NEW b \in Tasks, Blocks' = {b}
             PROVE  BlockInv(b)'
  BY DEF SingleBlock
<1>1. scenario' = scenario
  BY StepKeepsScenario
<1>2. /\ Driver' = Driver /\ Fails' = Fails /\ Alone' = Alone /\ Clean' = Clean
      /\ Blocks = {b} /\ Queries' = Queries
      /\ Undisturbed' = Undisturbed /\ Flagged' = Flagged /\ Kind' = Kind
  BY <1>1, Kept DEF Undisturbed, Flagged, Kind
<1>3. BlockInv(b) /\ Driver \in {"postgres", "sqlite"}
  BY <1>2, ScenarioFacts DEF SingleBlock
<1>4. /\ Driver = "postgres" => Undisturbed
      /\ Kind => Undisturbed
      /\ Driver = "postgres" /\ Alone => Queries = {}
      /\ Driver = "postgres" /\ Flagged => Alone
  BY DEF Undisturbed, Kind, Alone, Flagged
<1>5. Opening(b)' /\ Flags(b)'
  BY <1>2, <1>3, OpeningStep, FlagsStep DEF BlockInv
<1>6. Undisturbed => Lending(b)' /\ Accounts'
  BY <1>2, <1>3, LendingStep, AccountsStep DEF BlockInv, Undisturbed
<1>7. Driver = "postgres" /\ Queries = {} => Private(b)'
  BY <1>2, <1>3, <1>4, PrivateStep DEF BlockInv
<1>8. Flagged => DoneFlag(b)'
  <2> SUFFICES ASSUME Flagged PROVE DoneFlag(b)'
    OBVIOUS
  <2>1. Driver = "postgres" => Private(b)
    BY <1>3, <1>4 DEF BlockInv
  <2> QED  BY <1>2, <1>3, <2>1, DoneFlagStep DEF BlockInv
<1>9. Kind => Atomic(b)'
  <2> SUFFICES ASSUME Kind PROVE Atomic(b)'
    OBVIOUS
  <2>1. Promised(b)
    BY <1>3, <1>4 DEF BlockInv, Promised, Kind, Undisturbed
  <2> QED  BY <1>2, <1>3, <1>4, <2>1, AtomicStep DEF BlockInv
<1> QED  BY <1>2, <1>5, <1>6, <1>7, <1>8, <1>9 DEF BlockInv

(* The inductive invariant. *)
IInv == TypeOK /\ Shape /\ Wire /\ SingleBlock

LEMMA IInvAlways == Spec => []IInv
<1>1. Init => IInv
  BY InitTypes, SingleBlockInit DEF IInv
<1>2. IInv /\ [Next]_vars => IInv'
  BY NextTypes, SingleBlockStep DEF IInv
<1> QED  BY <1>1, <1>2, PTL DEF Spec

(* A scenario of one block names it. *)
LEMMA TheBlock ==
  ASSUME IInv, OneBlock
  PROVE  \E b \in Tasks : Blocks = {b} /\ BlockInv(b)
<1>1. Blocks \subseteq Tasks
  BY ScenarioFacts DEF IInv
<1>2. IsFiniteSet(Blocks)
  BY <1>1, TransactionAssumption, FS_Subset
<1>3. \E b : Blocks = {b}
  BY <1>2, FS_Singleton DEF OneBlock
<1> QED  BY <1>1, <1>3 DEF IInv, SingleBlock

(* A slot is busy exactly while the block has it from its begin to its end or *)
(* a statement borrowed it, and it has one holder: the slot a defer or        *)
(* transactionEnd returns is never somebody else's, whatever fails, waits or  *)
(* stays unanswered.  None is left behind when nothing of that happens to     *)
(* BEGIN, ROLLBACK or an answer.                                              *)
THEOREM SlotsAccounted == Spec => []SlotAccounting
<1>1. IInv => SlotAccounting
  <2> SUFFICES ASSUME IInv, OneBlock, Driver = "sqlite" => Clean /\ crossed = {}
               PROVE  /\ \A i \in Conns : busy[i] <=> \E t \in Tasks : Holds(t, i)
                      /\ \A i \in Conns : \A t, u \in Tasks : Holds(t, i) /\ Holds(u, i) => t = u
                      /\ Alone /\ Clean =>
                           \A t \in Tasks : pc[t] = "done" => \A i \in Conns : ~Holds(t, i)
    BY DEF SlotAccounting
  <2>1. PICK b \in Tasks : Blocks = {b} /\ BlockInv(b)
    BY TheBlock
  <2>2. Accounts /\ crossed = {}
    BY <2>1, ScenarioFacts DEF IInv, BlockInv, Undisturbed, Accounts
  <2>3. ASSUME Alone /\ Clean, NEW t \in Tasks, pc[t] = "done", NEW i \in Conns
        PROVE  ~Holds(t, i)
    <3>1. owned[t] = NoConn
      <4>1. CASE t = b
        BY <2>1, <2>3, <4>1 DEF BlockInv, Flagged, DoneFlag, Flags
      <4>2. CASE t # b
        BY <2>1, <4>2 DEF IInv, Shape
      <4> QED  BY <4>1, <4>2
    <3>2. ~borrowed[t]
      BY <2>3 DEF IInv, Shape
    <3> QED  BY <3>1, <3>2, TransactionAssumption DEF Holds
  <2> QED  BY <2>2, <2>3 DEF Accounts
<1> QED  BY <1>1, IInvAlways, PTL

(* A block that is alone is all or nothing, whatever fails or stays           *)
(* unanswered in PostgreSQL and whatever fails in an SQLite body: a block     *)
(* that ends without an exception tells which, one that raises has written    *)
(* nothing unless the answer of its COMMIT is missing, and leaves nothing in  *)
(* a transaction unless an answer is missing or body and ROLLBACK both failed. *)
THEOREM BlocksAtomic == Spec => []AloneBlockAtomic
<1>1. IInv => AloneBlockAtomic
  <2> SUFFICES ASSUME IInv, Kind, NEW b \in Blocks
               PROVE  /\ WritesOf(b) \subseteq applied \/ WritesOf(b) \cap applied = {}
                      /\ outcome[b] = "committed" => WritesOf(b) \subseteq applied
                      /\ outcome[b] = "rolledback" => WritesOf(b) \cap (applied \cup AnyPending) = {}
                      /\ outcome[b] = "error" =>
                           /\ "COMMIT" \notin Cuts => WritesOf(b) \cap applied = {}
                           /\ Cuts = {} /\ ~({"body", "ROLLBACK"} \subseteq Fails) =>
                                WritesOf(b) \cap AnyPending = {}
    BY DEF AloneBlockAtomic, Kind, Undisturbed
  <2>1. Atomic(b)
    BY TheBlock DEF Kind, Alone, BlockInv
  <2>2. /\ Durable(b) => WritesOf(b) \subseteq applied
        /\ Undone(b) => WritesOf(b) \cap applied = {}
    BY DEF Durable, Undone, WritesOf
  <2>3. Nowhere(b) => WritesOf(b) \cap AnyPending = {}
    BY DEF Nowhere, WritesOf, AnyPending
  <2>4. outcome[b] = "rolledback" => Undone(b) /\ Nowhere(b)
    BY <2>1 DEF Atomic, Unsure
  <2>5. /\ outcome[b] = "error" /\ "COMMIT" \notin Cuts => Undone(b)
        /\ outcome[b] = "error" /\ Cuts = {} /\ ~({"body", "ROLLBACK"} \subseteq Fails) => Nowhere(b)
    BY <2>1 DEF Atomic, Unsure
  <2> QED  BY <2>1, <2>2, <2>3, <2>4, <2>5 DEF Atomic
<1> QED  BY <1>1, IInvAlways, PTL

(* Whoever borrows a slot of the pool starts outside any transaction.         *)
THEOREM FreeSlotsIdle == Spec => []FreeMeansIdle
<1>1. IInv => FreeMeansIdle
  BY TheBlock DEF IInv, FreeMeansIdle, BlockInv, Undisturbed, Lending, TypeOK
<1> QED  BY <1>1, IInvAlways, PTL

(* While isInTransaction is set, transactionConn is the slot that begin took  *)
(* for the block, in every scenario of one block; and it is set exactly from  *)
(* begin to end of the block in those whose failures the drivers clean up     *)
(* after.                                                                     *)
THEOREM FlagsRight == Spec => []FlagsMatchBlock
<1>1. IInv => FlagsMatchBlock
  <2> SUFFICES ASSUME IInv, OneBlock, NEW b \in Blocks
               PROVE  /\ inTx => owned[b] = txConn
                      /\ Alone /\ Clean => (inTx <=> pc[b] \notin {"idle", "waiting", "done"})
                      /\ Driver = "sqlite" /\ "BEGIN" \notin Fails /\ pc[b] = "done" => ~inTx
    BY DEF FlagsMatchBlock
  <2>1. Blocks = {b} /\ BlockInv(b) /\ b \in Tasks
    BY TheBlock
  <2>2. inTx => owned[b] = txConn
    BY <2>1 DEF BlockInv, Flags
  <2>3. Alone /\ Clean => (inTx <=> pc[b] \notin {"idle", "waiting", "done"})
    BY <2>1 DEF BlockInv, Undisturbed, Flagged, DoneFlag, Lending, Opening, Early
  <2>4. Driver = "sqlite" /\ "BEGIN" \notin Fails /\ pc[b] = "done" => ~inTx
    BY <2>1 DEF BlockInv, Flagged, DoneFlag
  <2> QED  BY <2>2, <2>3, <2>4
<1> QED  BY <1>1, IInvAlways, PTL

=============================================================================
