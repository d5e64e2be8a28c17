------------------------ MODULE PreparedCacheProofs -------------------------
(***************************************************************************)
(* Theorems about the prepared statement cache of PreparedCache, for any    *)
(* handles, any number of slots and any scenarios.                          *)
(***************************************************************************)
EXTENDS PreparedCache, FiniteSetTheorems, TLAPS

USE DEF Conns, NoConn, Entries, NoEntry

Phases == {"new", "open", "preparing", "executing", "closed"}

Active(h) == pc[h] \in {"preparing", "executing"}

(* A handle has an entry from prepare on, and a slot while a call is at work. *)
Shape == \A h \in Handles : /\ pc[h] = "new" <=> entry[h] = NoEntry
                            /\ Active(h) <=> slot[h] # NoConn

(* dbOpen leaves every variable with its type. *)
LEMMA InitTypes == Init => TypeOK /\ Shape
BY PreparedAssumption DEF Init, TypeOK, Shape, Active

(* What ensureStmt leaves behind, given well typed names and connections. *)
LEMMA EnsureTypes ==
  ASSUME TypeOK, Shape, NEW h \in Handles, pc[h] = "open", NEW i \in Conns,
         NEW server \in [Conns -> SUBSET Entries],
         NEW names \in [Entries -> SUBSET Conns],
         EnsureStmt(h, i, server, names)
  PROVE  /\ onServer' \in [Conns -> SUBSET Entries]
         /\ named' \in [Entries -> SUBSET Conns]
         /\ pc' \in [Handles -> Phases]
         /\ slot' \in [Handles -> Conns \cup {NoConn}]
         /\ \/ pc'[h] \in {"preparing", "executing"} /\ slot'[h] = i
            \/ pc'[h] = "open" /\ slot'[h] = NoConn
         /\ \A g \in Handles \ {h} : pc'[g] = pc[g] /\ slot'[g] = slot[g]
<1>1. entry[h] \in Entries /\ slot[h] = NoConn
  BY DEF TypeOK, Shape, Active
<1>2. onServer' \in [Conns -> SUBSET Entries] /\ named' \in [Entries -> SUBSET Conns]
  BY <1>1 DEF EnsureStmt
<1>3. \/ pc' = [pc EXCEPT ![h] = "executing"] /\ slot' = [slot EXCEPT ![h] = i]
      \/ pc' = [pc EXCEPT ![h] = "preparing"] /\ slot' = [slot EXCEPT ![h] = i]
      \/ UNCHANGED <<pc, slot>>
  BY DEF EnsureStmt
<1>4. /\ pc' \in [Handles -> Phases]
      /\ slot' \in [Handles -> Conns \cup {NoConn}]
  BY <1>3 DEF TypeOK, Phases
<1>5. \/ pc'[h] \in {"preparing", "executing"} /\ slot'[h] = i
      \/ pc'[h] = "open" /\ slot'[h] = NoConn
  BY <1>1, <1>3 DEF TypeOK
<1>6. \A g \in Handles \ {h} : pc'[g] = pc[g] /\ slot'[g] = slot[g]
  BY <1>3 DEF TypeOK
<1> QED
  BY <1>2, <1>4, <1>5, <1>6

(* Emptying the names of a slot keeps the types. *)
LEMMA ClearTypes ==
  ASSUME TypeOK, NEW i \in Conns
  PROVE  /\ ClearPreparedSlot(i) \in [Entries -> SUBSET Conns]
         /\ Reconnected(i) \in [Conns -> SUBSET Entries]
BY DEF TypeOK, ClearPreparedSlot, Reconnected

(* How a call on its own slot goes. *)
LEMMA UseTypes ==
  ASSUME TypeOK, Shape, NEW h \in Handles, Use(h)
  PROVE  \E i \in Conns :
           /\ FirstFree(i)
           /\ \/ /\ CutOff(i)
                 /\ EnsureStmt(h, i, Reconnected(i), ClearPreparedSlot(i))
              \/ UNCHANGED dealloc /\ EnsureStmt(h, i, onServer, named)
           /\ busy' = [busy EXCEPT ![i] = pc'[h] # "open"]
           /\ onServer' \in [Conns -> SUBSET Entries]
           /\ named' \in [Entries -> SUBSET Conns]
           /\ dealloc' \subseteq Conns
           /\ pc' \in [Handles -> Phases]
           /\ slot' \in [Handles -> Conns \cup {NoConn}]
           /\ \/ pc'[h] \in {"preparing", "executing"} /\ slot'[h] = i
              \/ pc'[h] = "open" /\ slot'[h] = NoConn
           /\ \A g \in Handles \ {h} : pc'[g] = pc[g] /\ slot'[g] = slot[g]
<1>1. PICK i \in Conns :
           /\ FirstFree(i)
           /\ \/ /\ CutOff(i)
                 /\ EnsureStmt(h, i, Reconnected(i), ClearPreparedSlot(i))
              \/ UNCHANGED dealloc /\ EnsureStmt(h, i, onServer, named)
           /\ busy' = [busy EXCEPT ![i] = pc'[h] # "open"]
  BY DEF Use
<1>2. pc[h] = "open" /\ onServer \in [Conns -> SUBSET Entries]
      /\ named \in [Entries -> SUBSET Conns]
  BY DEF Use, Ready, TypeOK
<1>3. dealloc' \subseteq Conns
  BY <1>1 DEF CutOff, TypeOK
<1>4. CASE EnsureStmt(h, i, Reconnected(i), ClearPreparedSlot(i))
  BY <1>1, <1>2, <1>3, <1>4, ClearTypes, EnsureTypes
<1>5. CASE EnsureStmt(h, i, onServer, named)
  BY <1>1, <1>2, <1>3, <1>5, EnsureTypes
<1> QED
  BY <1>1, <1>4, <1>5

(* Every step keeps every variable in its type and the handles in shape. *)
LEMMA NextTypes == TypeOK /\ Shape /\ [Next]_vars => TypeOK' /\ Shape'
<1> SUFFICES ASSUME TypeOK, Shape, [Next]_vars PROVE TypeOK' /\ Shape'
  OBVIOUS
<1> USE DEF cacheVars, handleVars, contextVars, flushVars
<1>1. ASSUME NEW h \in Handles, Prepare(h) PROVE TypeOK' /\ Shape'
  <2>1. PICK e \in Entries : /\ StmtEntry(e)
                             /\ refs' = [refs EXCEPT ![e] = @ + 1]
                             /\ entry' = [entry EXCEPT ![h] = e]
    BY <1>1 DEF Prepare
  <2>2. TypeOK'
    <3>1. cached' \in Entries \cup {NoEntry} /\ created' \in Entries \cup {NoEntry}
      BY <2>1 DEF StmtEntry, TypeOK
    <3>2. refs' \in [Entries -> Nat] /\ entry' \in [Handles -> Entries \cup {NoEntry}]
      BY <2>1 DEF TypeOK
    <3> QED  BY <1>1, <3>1, <3>2 DEF Prepare, TypeOK
  <2> QED  BY <1>1, <2>1, <2>2 DEF Prepare, TypeOK, Shape, Active
<1>2. ASSUME NEW h \in Handles, Use(h) PROVE TypeOK' /\ Shape'
  <2>1. /\ \E i \in Conns : busy' = [busy EXCEPT ![i] = pc'[h] # "open"]
        /\ onServer' \in [Conns -> SUBSET Entries]
        /\ named' \in [Entries -> SUBSET Conns]
        /\ dealloc' \subseteq Conns
        /\ pc' \in [Handles -> Phases]
        /\ slot' \in [Handles -> Conns \cup {NoConn}]
        /\ \/ pc'[h] \in {"preparing", "executing"} /\ slot'[h] # NoConn
           \/ pc'[h] = "open" /\ slot'[h] = NoConn
        /\ \A g \in Handles \ {h} : pc'[g] = pc[g] /\ slot'[g] = slot[g]
    BY <1>2, UseTypes
  <2>2. busy' \in [Conns -> BOOLEAN]
    BY <2>1 DEF TypeOK
  <2>3. uses' \in [Handles -> 0 .. MaxUses]
    BY <1>2, PreparedAssumption DEF Use, Ready, TypeOK
  <2>4. TypeOK'
    BY <1>2, <2>1, <2>2, <2>3 DEF Use, TypeOK, Phases
  <2>5. entry' = entry /\ pc[h] = "open"
    BY <1>2 DEF Use, Ready
  <2> QED  BY <2>1, <2>4, <2>5 DEF Shape, Active
<1>3. ASSUME NEW h \in Handles, UseInContext(h) PROVE TypeOK' /\ Shape'
  <2>1. /\ pc[h] = "open" /\ context \in Conns
        /\ EnsureStmt(h, context, onServer, named)
        /\ onServer \in [Conns -> SUBSET Entries]
        /\ named \in [Entries -> SUBSET Conns]
    BY <1>3 DEF UseInContext, Ready, TypeOK
  <2>2. /\ onServer' \in [Conns -> SUBSET Entries]
        /\ named' \in [Entries -> SUBSET Conns]
        /\ pc' \in [Handles -> Phases]
        /\ slot' \in [Handles -> Conns \cup {NoConn}]
        /\ \/ pc'[h] \in {"preparing", "executing"} /\ slot'[h] # NoConn
           \/ pc'[h] = "open" /\ slot'[h] = NoConn
        /\ \A g \in Handles \ {h} : pc'[g] = pc[g] /\ slot'[g] = slot[g]
    BY <2>1, EnsureTypes
  <2>3. uses' \in [Handles -> 0 .. MaxUses]
    BY <1>3, PreparedAssumption DEF UseInContext, Ready, TypeOK
  <2>4. TypeOK'
    BY <1>3, <2>2, <2>3 DEF UseInContext, TypeOK, Phases
  <2>5. entry' = entry
    BY <1>3 DEF UseInContext
  <2> QED  BY <2>1, <2>2, <2>4, <2>5 DEF Shape, Active
<1>4. ASSUME NEW h \in Handles, PrepareDone(h) PROVE TypeOK' /\ Shape'
  <2>1. entry[h] \in Entries /\ slot[h] \in Conns
    BY <1>4 DEF PrepareDone, TypeOK, Shape, Active
  <2>2. TypeOK'
    BY <1>4, <2>1 DEF PrepareDone, TypeOK
  <2> QED  BY <1>4, <2>2 DEF PrepareDone, TypeOK, Shape, Active
<1>5. ASSUME NEW h \in Handles, Active(h), ReturnConn(h), entry' = entry
      PROVE  /\ busy' \in [Conns -> BOOLEAN]
             /\ within' \subseteq Handles /\ context' = context
             /\ slot' \in [Handles -> Conns \cup {NoConn}]
             /\ pc' \in [Handles -> Phases]
             /\ Shape'
  BY <1>5 DEF ReturnConn, TypeOK, Shape, Active, Phases
<1>6. ASSUME NEW h \in Handles, PrepareFails(h) \/ ExecuteDone(h)
      PROVE  TypeOK' /\ Shape'
  <2>1. Active(h) /\ ReturnConn(h) /\ entry' = entry
    BY <1>6 DEF PrepareFails, ExecuteDone, Active
  <2> QED  BY <1>5, <1>6, <2>1 DEF PrepareFails, ExecuteDone, TypeOK, Phases
<1>7. ASSUME NEW h \in Handles, PrepareTimesOut(h) PROVE TypeOK' /\ Shape'
  <2>1. /\ Active(h) /\ ReturnConn(h) /\ entry' = entry
        /\ entry[h] \in Entries /\ slot[h] \in Conns
    BY <1>7 DEF PrepareTimesOut, Active, Shape, TypeOK
  <2>2. onServer' \in [Conns -> SUBSET Entries]
    BY <1>7, <2>1 DEF PrepareTimesOut, TypeOK
  <2> QED  BY <1>5, <1>7, <2>1, <2>2 DEF PrepareTimesOut, TypeOK, Phases
<1>8. ASSUME NEW h \in Handles, Close(h) PROVE TypeOK' /\ Shape'
  <2>1. refs' \in [Entries -> Nat]
    <3>1. refs[entry[h]] \in Nat
      BY <1>8 DEF Close, TypeOK, Shape
    <3>2. (IF refs[entry[h]] > 0 THEN refs[entry[h]] - 1 ELSE refs[entry[h]]) \in Nat
      BY <3>1
    <3> QED  BY <1>8, <3>2 DEF Close, TypeOK
  <2>2. TypeOK'
    BY <1>8, <2>1 DEF Close, TypeOK
  <2> QED  BY <1>8, <2>2 DEF Close, TypeOK, Shape, Active
<1>9. CASE EnterContext
  <2>1. PICK i \in Conns :
           /\ \/ /\ CutOff(i)
                 /\ onServer' = Reconnected(i)
                 /\ named' = ClearPreparedSlot(i)
              \/ UNCHANGED <<onServer, named, dealloc>>
           /\ busy' = [busy EXCEPT ![i] = TRUE]
           /\ context' = i
    BY <1>9 DEF EnterContext
  <2>2. /\ onServer' \in [Conns -> SUBSET Entries]
        /\ named' \in [Entries -> SUBSET Conns]
        /\ dealloc' \subseteq Conns
    BY <2>1, ClearTypes DEF CutOff, TypeOK
  <2> QED  BY <1>9, <2>1, <2>2 DEF EnterContext, TypeOK, Shape, Active
<1>10. CASE LeaveContext
  BY <1>10 DEF LeaveContext, TypeOK, Shape, Active
<1>11. CASE FlushStmt \/ FlushStart
  <2>1. flushes' \in 0 .. MaxFlushes /\ cached \in Entries
    BY <1>11, PreparedAssumption DEF FlushStmt, FlushStart, Flushable, TypeOK
  <2>2. CASE FlushStmt
    <3>1. /\ onServer' \in [Conns -> SUBSET Entries]
          /\ named' \in [Entries -> SUBSET Conns]
      BY <2>1, <2>2 DEF FlushStmt, TypeOK
    <3> QED  BY <2>1, <2>2, <3>1 DEF FlushStmt, TypeOK, Shape, Active
  <2>3. CASE FlushStart
    BY <2>1, <2>3 DEF FlushStart, TypeOK, Shape, Active
  <2> QED  BY <1>11, <2>2, <2>3
<1>12. ASSUME NEW i \in Conns, Deallocated(i) PROVE TypeOK' /\ Shape'
  BY <1>12 DEF Deallocated, TypeOK, Shape, Active
<1>13. CASE FlushDone
  BY <1>13 DEF FlushDone, TypeOK, Shape, Active
<1>14. CASE UNCHANGED vars
  BY <1>14 DEF vars, TypeOK, Shape, Active
<1> QED
  BY <1>1, <1>2, <1>3, <1>4, <1>6, <1>7, <1>8, <1>9, <1>10, <1>11, <1>12, <1>13, <1>14
     DEF Next, AllClosed

(* Every variable keeps its type, for all values of the constants. *)
THEOREM TypeCorrect == Spec => []TypeOK
BY InitTypes, NextTypes, PTL DEF Spec

-----------------------------------------------------------------------------
(* Reference counts *)

OpenHandles(e) == {h \in Handles : entry[h] = e /\ pc[h] \notin {"new", "closed"}}

(* RefCountExact with the finiteness that makes a cardinality count. *)
Counted == \A e \in Entries : /\ IsFiniteSet(OpenHandles(e))
                              /\ refs[e] = Cardinality(OpenHandles(e))

(* No handle, no count. *)
LEMMA InitCounted == Init => Counted
<1> SUFFICES ASSUME Init, NEW e \in Entries
             PROVE  IsFiniteSet(OpenHandles(e)) /\ refs[e] = Cardinality(OpenHandles(e))
  BY DEF Counted
<1>1. OpenHandles(e) = {} /\ refs[e] = 0
  BY DEF Init, OpenHandles
<1> QED  BY <1>1, FS_EmptySet

(* prepare adds its handle to the entry it counts it in. *)
LEMMA PrepareCounted ==
  ASSUME TypeOK, Shape, Counted, NEW h \in Handles, Prepare(h)
  PROVE  Counted'
<1>1. PICK e \in Entries : /\ refs' = [refs EXCEPT ![e] = @ + 1]
                           /\ entry' = [entry EXCEPT ![h] = e]
  BY DEF Prepare
<1>2. /\ \A g \in Handles \ {h} : entry'[g] = entry[g] /\ pc'[g] = pc[g]
      /\ entry'[h] = e /\ pc'[h] = "open" /\ pc[h] = "new"
  BY <1>1 DEF Prepare, TypeOK
<1>3. h \notin OpenHandles(e) /\ OpenHandles(e)' = OpenHandles(e) \cup {h}
  BY <1>2 DEF OpenHandles
<1>4. \A d \in Entries \ {e} : OpenHandles(d)' = OpenHandles(d)
  BY <1>2 DEF OpenHandles
<1>5. IsFiniteSet(OpenHandles(e))' /\ refs'[e] = Cardinality(OpenHandles(e))'
  <2>1. IsFiniteSet(OpenHandles(e)) /\ refs[e] = Cardinality(OpenHandles(e))
    BY DEF Counted
  <2>2. /\ IsFiniteSet(OpenHandles(e) \cup {h})
        /\ Cardinality(OpenHandles(e) \cup {h}) = Cardinality(OpenHandles(e)) + 1
    BY <1>3, <2>1, FS_AddElement
  <2>3. refs'[e] = refs[e] + 1
    BY <1>1 DEF TypeOK
  <2> QED  BY <1>3, <2>1, <2>2, <2>3
<1>6. \A d \in Entries \ {e} :
        IsFiniteSet(OpenHandles(d))' /\ refs'[d] = Cardinality(OpenHandles(d))'
  BY <1>1, <1>4 DEF Counted, TypeOK
<1> QED  BY <1>5, <1>6 DEF Counted

(* close takes its handle out of the entry it was counted in. *)
LEMMA CloseCounted ==
  ASSUME TypeOK, Shape, Counted, NEW h \in Handles, Close(h)
  PROVE  Counted'
<1>1. PICK e \in Entries : pc[h] = "open" /\ e = entry[h]
  BY DEF Close, TypeOK, Shape
<1>2. /\ \A g \in Handles \ {h} : pc'[g] = pc[g]
      /\ entry' = entry /\ pc'[h] = "closed"
  BY DEF Close, TypeOK
<1>3. h \in OpenHandles(e) /\ OpenHandles(e)' = OpenHandles(e) \ {h}
  BY <1>1, <1>2 DEF OpenHandles
<1>4. \A d \in Entries \ {e} : OpenHandles(d)' = OpenHandles(d)
  BY <1>1, <1>2 DEF OpenHandles
<1>5. IsFiniteSet(OpenHandles(e))' /\ refs'[e] = Cardinality(OpenHandles(e))'
  <2>1. /\ IsFiniteSet(OpenHandles(e)) /\ refs[e] = Cardinality(OpenHandles(e))
        /\ refs[e] \in Nat
    BY DEF Counted, TypeOK
  <2>2. /\ IsFiniteSet(OpenHandles(e) \ {h})
        /\ Cardinality(OpenHandles(e) \ {h}) = Cardinality(OpenHandles(e)) - 1
    BY <1>3, <2>1, FS_RemoveElement
  <2>3. Cardinality(OpenHandles(e) \ {h}) \in Nat
    BY <2>2, FS_CardinalityType
  <2>4. refs[e] > 0
    BY <2>1, <2>2, <2>3
  <2>5. refs'[e] = refs[e] - 1
    BY <1>1, <2>4 DEF Close, TypeOK
  <2> QED  BY <1>3, <2>1, <2>2, <2>5
<1>6. \A d \in Entries \ {e} :
        IsFiniteSet(OpenHandles(d))' /\ refs'[d] = Cardinality(OpenHandles(d))'
  BY <1>1, <1>4 DEF Counted, TypeOK, Close
<1> QED  BY <1>5, <1>6 DEF Counted

(* A call that begins or ends leaves its handle open, and so does a context. *)
LEMMA OtherCounted ==
  ASSUME Counted, refs' = refs, entry' = entry,
         \A h \in Handles : pc'[h] \in {"new", "closed"} <=> pc[h] \in {"new", "closed"}
  PROVE  Counted'
<1>1. \A e \in Entries : OpenHandles(e)' = OpenHandles(e)
  BY DEF OpenHandles
<1> QED  BY <1>1 DEF Counted

(* Every step keeps the counts exact. *)
LEMMA NextCounted == TypeOK /\ Shape /\ Counted /\ [Next]_vars => Counted'
<1> SUFFICES ASSUME TypeOK, Shape, Counted, [Next]_vars PROVE Counted'
  OBVIOUS
<1> USE DEF cacheVars, handleVars, contextVars, flushVars
<1>1. ASSUME NEW h \in Handles, Use(h) PROVE Counted'
  <2>1. /\ pc'[h] \in {"preparing", "executing", "open"}
        /\ \A g \in Handles \ {h} : pc'[g] = pc[g]
    BY <1>1, UseTypes
  <2>2. pc[h] = "open" /\ refs' = refs /\ entry' = entry
    BY <1>1 DEF Use, Ready
  <2> QED  BY <2>1, <2>2, OtherCounted
<1>2. ASSUME NEW h \in Handles, UseInContext(h) PROVE Counted'
  <2>1. /\ pc[h] = "open" /\ refs' = refs /\ entry' = entry /\ context \in Conns
        /\ onServer \in [Conns -> SUBSET Entries]
        /\ named \in [Entries -> SUBSET Conns]
        /\ EnsureStmt(h, context, onServer, named)
    BY <1>2 DEF UseInContext, Ready, TypeOK
  <2>2. /\ pc'[h] \in {"preparing", "executing", "open"}
        /\ \A g \in Handles \ {h} : pc'[g] = pc[g]
    BY <2>1, EnsureTypes
  <2> QED  BY <2>1, <2>2, OtherCounted
<1>3. ASSUME NEW h \in Handles, PrepareDone(h) PROVE Counted'
  <2>1. \A g \in Handles : pc'[g] \in {"new", "closed"} <=> pc[g] \in {"new", "closed"}
    BY <1>3 DEF PrepareDone, TypeOK
  <2> QED  BY <1>3, <2>1, OtherCounted DEF PrepareDone
<1>4. ASSUME NEW h \in Handles, PrepareFails(h) \/ PrepareTimesOut(h) \/ ExecuteDone(h)
      PROVE  Counted'
  <2>1. /\ pc[h] \in {"preparing", "executing"} /\ ReturnConn(h)
        /\ refs' = refs /\ entry' = entry
    BY <1>4 DEF PrepareFails, PrepareTimesOut, ExecuteDone
  <2>2. \A g \in Handles : pc'[g] \in {"new", "closed"} <=> pc[g] \in {"new", "closed"}
    BY <2>1 DEF ReturnConn, TypeOK
  <2> QED  BY <2>1, <2>2, OtherCounted
<1>5. CASE UNCHANGED <<refs, entry, pc>>
  BY <1>5, OtherCounted
<1> QED
  BY <1>1, <1>2, <1>3, <1>4, <1>5, PrepareCounted, CloseCounted
     DEF Next, AllClosed, vars, EnterContext, LeaveContext, FlushStmt, FlushStart,
         Deallocated, FlushDone

(* The refCount of an entry is the number of its open handles, also after    *)
(* flushStmt took it out of the cache and prepare made another one.          *)
THEOREM RefCountsExact == Spec => []RefCountExact
<1>1. Counted => RefCountExact
  BY DEF Counted, RefCountExact, OpenHandles
<1> QED
  BY <1>1, InitTypes, NextTypes, InitCounted, NextCounted, PTL DEF Spec

-----------------------------------------------------------------------------
(* Slots.  A slot a call or a context works on is busy and its own, so that  *)
(* nobody reconnects it meanwhile.                                           *)
SlotInv ==
  /\ \A h \in Handles : slot[h] # NoConn => busy[slot[h]]
  /\ \A g, h \in Handles : slot[g] = slot[h] /\ slot[g] # NoConn => g = h
  /\ context # NoConn => busy[context]
  /\ \A h \in Handles : slot[h] = context /\ slot[h] # NoConn => h \in within
  /\ \A h \in within : slot[h] = context /\ slot[h] # NoConn

(* At the start no slot is busy. *)
LEMMA InitSlotInv == Init => SlotInv
BY DEF Init, SlotInv

(* A call that ends frees its slot, or leaves it to its context. *)
LEMMA ReturnSlotInv ==
  ASSUME TypeOK, Shape, SlotInv, NEW h \in Handles, Active(h), ReturnConn(h)
  PROVE  SlotInv'
<1>1. slot[h] \in Conns
  BY DEF TypeOK, Shape
<1>2. \A g \in Handles : slot'[g] = IF g = h THEN NoConn ELSE slot[g]
  BY DEF ReturnConn, TypeOK
<1>3. \A i \in Conns : busy'[i] = IF i = slot[h] THEN h \in within ELSE busy[i]
  BY <1>1 DEF ReturnConn, TypeOK
<1>4. context' = context /\ within' = within \ {h}
  BY DEF ReturnConn
<1>5. \A g \in Handles : slot'[g] # NoConn => busy'[slot'[g]]
  BY <1>2, <1>3 DEF SlotInv, TypeOK
<1>6. context' # NoConn => busy'[context']
  <2>1. CASE context = slot[h]
    BY <1>1, <1>3, <1>4, <2>1 DEF SlotInv
  <2>2. CASE context # slot[h]
    BY <1>3, <1>4, <2>2 DEF SlotInv, TypeOK
  <2> QED  BY <2>1, <2>2
<1> QED
  BY <1>2, <1>4, <1>5, <1>6 DEF SlotInv, TypeOK

(* Every step keeps the slots of calls and contexts busy and apart. *)
LEMMA NextSlotInv == TypeOK /\ Shape /\ SlotInv /\ [Next]_vars => SlotInv'
<1> SUFFICES ASSUME TypeOK, Shape, SlotInv, [Next]_vars PROVE SlotInv'
  OBVIOUS
<1> USE DEF cacheVars, handleVars, contextVars, flushVars
<1>1. ASSUME NEW h \in Handles, Use(h) PROVE SlotInv'
  <2>1. PICK i \in Conns :
           /\ ~busy[i]
           /\ busy' = [busy EXCEPT ![i] = pc'[h] # "open"]
           /\ \/ pc'[h] \in {"preparing", "executing"} /\ slot'[h] = i
              \/ pc'[h] = "open" /\ slot'[h] = NoConn
           /\ \A g \in Handles \ {h} : slot'[g] = slot[g]
    BY <1>1, UseTypes DEF FirstFree
  <2>2. \A g \in Handles : slot[g] # i
    BY <2>1 DEF SlotInv
  <2>3. slot[h] = NoConn /\ h \notin within
    BY <1>1 DEF Use, Ready, Shape, Active, SlotInv
  <2>4. context' = context /\ within' = within /\ context # i
    BY <1>1, <2>1 DEF Use, SlotInv
  <2>5. \A j \in Conns : busy'[j] = IF j = i THEN pc'[h] # "open" ELSE busy[j]
    BY <2>1 DEF TypeOK
  <2>6. \A g \in Handles : slot'[g] # NoConn => busy'[slot'[g]]
    BY <2>1, <2>2, <2>5 DEF SlotInv, TypeOK
  <2>7. context' # NoConn => busy'[context']
    BY <2>4, <2>5 DEF SlotInv, TypeOK
  <2>8. \A f, g \in Handles : slot'[f] = slot'[g] /\ slot'[f] # NoConn => f = g
    <3>1. \A f, g \in Handles \ {h} :
            slot'[f] = slot'[g] /\ slot'[f] # NoConn => f = g
      BY <2>1 DEF SlotInv
    <3>2. \A g \in Handles \ {h} : slot'[h] = slot'[g] => slot'[h] = NoConn
      BY <2>1, <2>2
    <3> QED  BY <3>1, <3>2
  <2>9. \A g \in Handles : slot'[g] = context' /\ slot'[g] # NoConn => g \in within'
    BY <2>1, <2>4 DEF SlotInv
  <2>10. \A g \in within' : slot'[g] = context' /\ slot'[g] # NoConn
    <3>1. \A g \in within : g \in Handles \ {h}
      BY <2>3 DEF TypeOK
    <3> QED  BY <2>1, <2>4, <3>1 DEF SlotInv
  <2> QED  BY <2>6, <2>7, <2>8, <2>9, <2>10 DEF SlotInv
<1>2. ASSUME NEW h \in Handles, UseInContext(h) PROVE SlotInv'
  <2>1. /\ context \in Conns /\ within = {} /\ context' = context /\ busy' = busy
        /\ within' = IF pc'[h] = "open" THEN {} ELSE {h}
        /\ pc[h] = "open"
        /\ onServer \in [Conns -> SUBSET Entries]
        /\ named \in [Entries -> SUBSET Conns]
        /\ EnsureStmt(h, context, onServer, named)
    BY <1>2 DEF UseInContext, Ready, TypeOK
  <2>2. /\ \/ pc'[h] \in {"preparing", "executing"} /\ slot'[h] = context
           \/ pc'[h] = "open" /\ slot'[h] = NoConn
        /\ \A g \in Handles \ {h} : slot'[g] = slot[g]
    BY <2>1, EnsureTypes
  <2>3. \A g \in Handles : slot[g] # context
    BY <2>1 DEF SlotInv
  <2> QED  BY <2>1, <2>2, <2>3 DEF SlotInv
<1>3. ASSUME NEW h \in Handles, PrepareFails(h) \/ PrepareTimesOut(h) \/ ExecuteDone(h)
      PROVE  SlotInv'
  <2>1. Active(h) /\ ReturnConn(h)
    BY <1>3 DEF PrepareFails, PrepareTimesOut, ExecuteDone, Active
  <2> QED  BY <2>1, ReturnSlotInv
<1>4. CASE EnterContext
  <2>1. PICK i \in Conns : /\ ~busy[i]
                           /\ busy' = [busy EXCEPT ![i] = TRUE]
                           /\ context' = i
    BY <1>4 DEF EnterContext, FirstFree
  <2>2. \A j \in Conns : busy'[j] <=> (j = i \/ busy[j])
    BY <2>1 DEF TypeOK
  <2>3. /\ slot' = slot /\ within' = within /\ within = {}
        /\ \A g \in Handles : slot[g] # i
    BY <1>4, <2>1 DEF EnterContext, SlotInv
  <2> QED  BY <2>1, <2>2, <2>3 DEF SlotInv, TypeOK
<1>5. CASE LeaveContext
  <2>1. /\ context \in Conns /\ within = {} /\ within' = {} /\ context' = NoConn
        /\ slot' = slot /\ busy' = [busy EXCEPT ![context] = FALSE]
    BY <1>5 DEF LeaveContext, TypeOK
  <2>2. \A g \in Handles : slot[g] # context
    BY <2>1 DEF SlotInv
  <2>3. \A j \in Conns : busy'[j] = IF j = context THEN FALSE ELSE busy[j]
    BY <2>1 DEF TypeOK
  <2> QED  BY <2>1, <2>2, <2>3 DEF SlotInv, TypeOK
<1>6. CASE UNCHANGED <<busy, slot, context, within>>
  BY <1>6 DEF SlotInv
<1> QED
  BY <1>1, <1>2, <1>3, <1>4, <1>5, <1>6
     DEF Next, AllClosed, vars, Prepare, PrepareDone, Close, FlushStmt, FlushStart,
         Deallocated, FlushDone
-----------------------------------------------------------------------------
(* Names, as long as flushStmt runs while nobody holds a handle.             *)

Open(h) == pc[h] \notin {"new", "closed"}

(* Every open handle has the cached entry, whose names the connections know; *)
(* an entry that does not exist yet has left no trace.                       *)
QuietInv ==
  /\ flushing = NoEntry => dealloc = {}
  /\ \A h \in Handles : Open(h) => entry[h] = cached /\ flushing = NoEntry
  /\ flushing = NoEntry /\ cached # NoEntry => \A i \in named[cached] : cached \in onServer[i]
  /\ \A h \in Handles : pc[h] = "executing" => entry[h] \in onServer[slot[h]]
  /\ \A e \in Entries : e > created => /\ named[e] = {}
                                       /\ \A i \in Conns : e \notin onServer[i]
  /\ cached <= created

(* Without timeouts the connections know no other name, and the slot of a    *)
(* PREPARE has none yet.                                                     *)
OnceInv ==
  /\ flushing = NoEntry /\ cached # NoEntry =>
       \A i \in Conns : cached \in onServer[i] => i \in named[cached]
  /\ \A h \in Handles : pc[h] = "preparing" => slot[h] \notin named[entry[h]]

(* The cache is empty at the start. *)
LEMMA InitQuiet == Init => QuietInv /\ OnceInv
BY DEF Init, QuietInv, OnceInv, Open

(* What borrowing slot i, with or without a new connection, and ensureStmt   *)
(* on it do to the names and the connections.                                *)
LEMMA EnsureNames ==
  ASSUME TypeOK, Shape, QuietInv, NEW h \in Handles, pc[h] = "open", NEW i \in Conns,
         NEW server, NEW names,
         \/ server = onServer /\ names = named
         \/ server = Reconnected(i) /\ names = ClearPreparedSlot(i),
         EnsureStmt(h, i, server, names)
  PROVE  /\ cached \in Entries /\ entry[h] = cached /\ flushing = NoEntry
         /\ \A j \in names[cached] : cached \in server[j]
         /\ \A j \in Conns \ {i} : server[j] = onServer[j]
         /\ server[i] \subseteq onServer[i]
         /\ \A e \in Entries : names[e] \subseteq named[e]
         /\ \A j \in named[cached] : j # i => j \in names[cached]
         /\ \/ /\ onServer' = server /\ named' = names
               /\ pc'[h] = "executing" => i \in names[cached]
               /\ pc'[h] = "preparing" => i \notin names[cached]
            \/ /\ onServer' = [server EXCEPT ![i] = @ \cup {cached}]
               /\ named' = [names EXCEPT ![cached] = @ \cup {i}]
               /\ pc'[h] = "executing"
         /\ server \in [Conns -> SUBSET Entries]
         /\ names \in [Entries -> SUBSET Conns]
<1>1. cached \in Entries /\ entry[h] = cached /\ flushing = NoEntry
  BY DEF TypeOK, Shape, QuietInv, Open
<1>2. server \in [Conns -> SUBSET Entries] /\ names \in [Entries -> SUBSET Conns]
  BY ClearTypes DEF TypeOK
<1>3. /\ \A j \in Conns \ {i} : server[j] = onServer[j]
      /\ server[i] \subseteq onServer[i]
  BY DEF TypeOK, Reconnected
<1>4. /\ \A e \in Entries : names[e] \subseteq named[e]
      /\ \A j \in named[cached] : j # i => j \in names[cached]
  BY <1>1 DEF TypeOK, ClearPreparedSlot
<1>5. \A j \in names[cached] : cached \in server[j]
  <2>1. CASE server = onServer /\ names = named
    BY <1>1, <2>1 DEF QuietInv
  <2>2. CASE server = Reconnected(i) /\ names = ClearPreparedSlot(i)
    <3>1. names[cached] = named[cached] \ {i}
      BY <1>1, <2>2 DEF ClearPreparedSlot
    <3> QED  BY <1>1, <1>2, <1>3, <3>1 DEF QuietInv
  <2> QED  BY <2>1, <2>2
<1>6. \/ /\ onServer' = server /\ named' = names
         /\ pc'[h] = "executing" => i \in names[cached]
         /\ pc'[h] = "preparing" => i \notin names[cached]
      \/ /\ onServer' = [server EXCEPT ![i] = @ \cup {cached}]
         /\ named' = [names EXCEPT ![cached] = @ \cup {i}]
         /\ pc'[h] = "executing"
  BY <1>1 DEF EnsureStmt, TypeOK
<1> QED
  BY <1>1, <1>2, <1>3, <1>4, <1>5, <1>6

(* ensureStmt on a slot nobody else works on keeps the names right. *)
LEMMA EnsureQuiet ==
  ASSUME TypeOK, Shape, QuietInv, NEW h \in Handles, pc[h] = "open", NEW i \in Conns,
         \A g \in Handles : slot[g] # i,
         NEW server, NEW names,
         \/ server = onServer /\ names = named
         \/ server = Reconnected(i) /\ names = ClearPreparedSlot(i),
         EnsureStmt(h, i, server, names),
         UNCHANGED <<entry, cached, created, flushing>>, dealloc' \subseteq dealloc
  PROVE  QuietInv' /\ (OnceInv => OnceInv')
<1>1. /\ cached \in Entries /\ entry[h] = cached /\ flushing = NoEntry
      /\ \A j \in names[cached] : cached \in server[j]
      /\ \A j \in Conns \ {i} : server[j] = onServer[j]
      /\ server[i] \subseteq onServer[i]
      /\ \A e \in Entries : names[e] \subseteq named[e]
      /\ \A j \in named[cached] : j # i => j \in names[cached]
      /\ server \in [Conns -> SUBSET Entries]
      /\ names \in [Entries -> SUBSET Conns]
  BY EnsureNames
<1>2. /\ \A j \in Conns \ {i} : onServer'[j] = server[j]
      /\ \A e \in Entries \ {cached} : named'[e] = names[e]
      /\ \/ /\ onServer'[i] = server[i] /\ named'[cached] = names[cached]
            /\ pc'[h] = "executing" => i \in names[cached]
            /\ pc'[h] = "preparing" => i \notin names[cached]
         \/ /\ onServer'[i] = server[i] \cup {cached}
            /\ named'[cached] = names[cached] \cup {i}
            /\ pc'[h] = "executing"
  <2>1. \/ /\ onServer' = server /\ named' = names
           /\ pc'[h] = "executing" => i \in names[cached]
           /\ pc'[h] = "preparing" => i \notin names[cached]
        \/ /\ onServer' = [server EXCEPT ![i] = @ \cup {cached}]
           /\ named' = [names EXCEPT ![cached] = @ \cup {i}]
           /\ pc'[h] = "executing"
    BY EnsureNames
  <2> QED  BY <1>1, <2>1
<1>3. /\ \/ pc'[h] \in {"preparing", "executing"} /\ slot'[h] = i
         \/ pc'[h] = "open" /\ slot'[h] = NoConn
      /\ \A g \in Handles \ {h} : pc'[g] = pc[g] /\ slot'[g] = slot[g]
  BY <1>1, EnsureTypes
<1>4. \A g \in Handles : Active(g) => slot[g] \in Conns \ {i}
  BY DEF TypeOK, Shape
<1>5. \A j \in Conns \ {i} :
        /\ onServer'[j] = onServer[j]
        /\ j \in named'[cached] <=> j \in named[cached]
  BY <1>1, <1>2
<1>6. \A j \in named'[cached] : cached \in onServer'[j]
  BY <1>1, <1>2
<1>7. QuietInv'
  <2>1. \A g \in Handles : Open(g)' => entry'[g] = cached' /\ flushing' = NoEntry
    BY <1>1, <1>3 DEF QuietInv, Open
  <2>2. \A g \in Handles : pc'[g] = "executing" => entry'[g] \in onServer'[slot'[g]]
    <3>1. pc'[h] = "executing" => entry'[h] \in onServer'[slot'[h]]
      BY <1>1, <1>2, <1>3
    <3>2. \A g \in Handles \ {h} :
            pc'[g] = "executing" => entry'[g] \in onServer'[slot'[g]]
      BY <1>3, <1>4, <1>5 DEF QuietInv, Active
    <3> QED  BY <3>1, <3>2
  <2>3. \A e \in Entries : e > created' => /\ named'[e] = {}
                                           /\ \A j \in Conns : e \notin onServer'[j]
    <3> SUFFICES ASSUME NEW e \in Entries, e > created
                 PROVE  named'[e] = {} /\ \A j \in Conns : e \notin onServer'[j]
      OBVIOUS
    <3>1. e # cached /\ named[e] = {} /\ \A j \in Conns : e \notin onServer[j]
      BY PreparedAssumption DEF QuietInv, TypeOK
    <3>2. named'[e] = names[e]
      BY <1>1, <1>2, <3>1
    <3>3. \A j \in Conns : e \in onServer'[j] => e \in server[j]
      BY <1>1, <1>2, <3>1
    <3> QED  BY <1>1, <3>1, <3>2, <3>3
  <2> QED  BY <1>1, <1>6, <2>1, <2>2, <2>3 DEF QuietInv
<1>8. ASSUME OnceInv PROVE OnceInv'
  <2>1. \A j \in Conns : cached \in onServer'[j] => j \in named'[cached]
    <3>1. \A j \in Conns \ {i} : cached \in onServer'[j] => j \in named'[cached]
      BY <1>1, <1>5, <1>8 DEF OnceInv
    <3>2. cached \in server[i] => i \in names[cached]
      <4>1. CASE server = onServer /\ names = named
        BY <1>1, <1>8, <4>1 DEF OnceInv
      <4>2. CASE server = Reconnected(i)
        BY <4>2 DEF Reconnected, TypeOK
      <4> QED  BY <4>1, <4>2
    <3>3. cached \in onServer'[i] => i \in named'[cached]
      BY <1>1, <1>2, <3>2
    <3> QED  BY <3>1, <3>3
  <2>2. pc'[h] = "preparing" => slot'[h] \notin named'[entry'[h]]
    BY <1>1, <1>2, <1>3
  <2>3. \A g \in Handles \ {h} : pc'[g] = "preparing" => slot'[g] \notin named'[entry'[g]]
    <3> SUFFICES ASSUME NEW g \in Handles \ {h}, pc[g] = "preparing"
                 PROVE  slot[g] \notin named'[entry[g]]
      BY <1>3
    <3>1. slot[g] \in Conns \ {i} /\ slot[g] \notin named[entry[g]]
      BY <1>4, <1>8 DEF Active, OnceInv
    <3>2. entry[g] = cached
      BY DEF QuietInv, Open
    <3> QED  BY <1>5, <3>1, <3>2
  <2> QED  BY <2>1, <2>2, <2>3 DEF OnceInv
<1> QED  BY <1>7, <1>8

(* A call that ends changes no name; a timed out PREPARE may reach the       *)
(* server all the same.                                                      *)
LEMMA ReturnQuiet ==
  ASSUME TypeOK, Shape, QuietInv, NEW h \in Handles, Active(h), ReturnConn(h),
         UNCHANGED <<cached, created, named, entry, flushing, dealloc>>,
         \/ UNCHANGED onServer
         \/ onServer' = [onServer EXCEPT ![slot[h]] = @ \cup {entry[h]}]
  PROVE  QuietInv' /\ (OnceInv /\ onServer' = onServer => OnceInv')
<1>1. /\ \A g \in Handles \ {h} : pc'[g] = pc[g] /\ slot'[g] = slot[g]
      /\ pc'[h] = "open" /\ Open(h)
  BY DEF ReturnConn, TypeOK, Active, Open
<1>2. entry[h] = cached
  BY <1>1 DEF QuietInv
<1>3. \A j \in Conns : /\ onServer[j] \subseteq onServer'[j]
                        /\ onServer'[j] \subseteq onServer[j] \cup {cached}
  BY <1>2 DEF TypeOK
<1>4. \A g \in Handles : pc'[g] = "executing" => entry'[g] \in onServer'[slot'[g]]
  BY <1>1, <1>3 DEF QuietInv, TypeOK, Shape, Active
<1>5. \A g \in Handles : Open(g)' => entry'[g] = cached' /\ flushing' = NoEntry
  BY <1>1 DEF QuietInv, Open
<1>6. \A e \in Entries : e > created' => /\ named'[e] = {}
                                         /\ \A j \in Conns : e \notin onServer'[j]
  <2> SUFFICES ASSUME NEW e \in Entries, e > created
               PROVE  named[e] = {} /\ \A j \in Conns : e \notin onServer'[j]
    OBVIOUS
  <2>1. e # cached /\ named[e] = {} /\ \A j \in Conns : e \notin onServer[j]
    BY PreparedAssumption DEF QuietInv, TypeOK
  <2> QED  BY <1>3, <2>1
<1>7. cached # NoEntry /\ flushing = NoEntry => \A j \in named[cached] : cached \in onServer'[j]
  BY <1>3 DEF QuietInv, TypeOK
<1>8. QuietInv'
  BY <1>4, <1>5, <1>6, <1>7 DEF QuietInv
<1>9. OnceInv /\ onServer' = onServer => OnceInv'
  BY <1>1 DEF OnceInv
<1> QED  BY <1>8, <1>9

(* PREPARE stores the name on the connection and in the slot. *)
LEMMA PrepareDoneQuiet ==
  ASSUME TypeOK, Shape, SlotInv, QuietInv, NEW h \in Handles, PrepareDone(h)
  PROVE  QuietInv' /\ (OnceInv => OnceInv')
<1> DEFINE i == slot[h]
<1>1. pc[h] = "preparing" /\ Open(h) /\ i \in Conns
  BY DEF PrepareDone, Open, TypeOK, Shape, Active
<1>2. /\ entry[h] = cached /\ cached \in Entries /\ flushing = NoEntry
      /\ UNCHANGED <<cached, created, entry, slot, flushing, dealloc>>
  BY <1>1 DEF PrepareDone, QuietInv, TypeOK, Shape, flushVars
<1>3. /\ \A j \in Conns \ {i} : onServer'[j] = onServer[j]
      /\ onServer'[i] = onServer[i] \cup {cached}
      /\ \A e \in Entries \ {cached} : named'[e] = named[e]
      /\ named'[cached] = named[cached] \cup {i}
  BY <1>1, <1>2 DEF PrepareDone, TypeOK
<1>4. \A g \in Handles \ {h} : pc'[g] = pc[g]
  BY DEF PrepareDone, TypeOK
<1>5. pc'[h] = "executing"
  BY DEF PrepareDone, TypeOK
<1>6. \A g \in Handles \ {h} : Active(g) => slot[g] \in Conns \ {i}
  BY <1>1 DEF TypeOK, Shape, SlotInv
<1>7. QuietInv'
  <2>1. \A g \in Handles : Open(g)' => entry'[g] = cached' /\ flushing' = NoEntry
    BY <1>2, <1>4 DEF QuietInv, Open
  <2>2. \A g \in Handles : pc'[g] = "executing" => entry'[g] \in onServer'[slot'[g]]
    <3>1. entry'[h] \in onServer'[slot'[h]]
      BY <1>2, <1>3
    <3>2. \A g \in Handles \ {h} :
            pc'[g] = "executing" => entry'[g] \in onServer'[slot'[g]]
      BY <1>2, <1>3, <1>4, <1>6 DEF QuietInv, Active
    <3> QED  BY <3>1, <3>2
  <2>3. \A e \in Entries : e > created' => /\ named'[e] = {}
                                           /\ \A j \in Conns : e \notin onServer'[j]
    <3> SUFFICES ASSUME NEW e \in Entries, e > created
                 PROVE  named'[e] = {} /\ \A j \in Conns : e \notin onServer'[j]
      BY <1>2
    <3>1. e # cached /\ named[e] = {} /\ \A j \in Conns : e \notin onServer[j]
      BY PreparedAssumption DEF QuietInv, TypeOK
    <3> QED  BY <1>3, <3>1
  <2>4. \A j \in named'[cached] : cached \in onServer'[j]
    BY <1>2, <1>3 DEF QuietInv, TypeOK
  <2> QED  BY <1>2, <2>1, <2>2, <2>3, <2>4 DEF QuietInv
<1>8. ASSUME OnceInv PROVE OnceInv'
  <2>1. \A j \in Conns : cached \in onServer'[j] => j \in named'[cached]
    BY <1>2, <1>3, <1>8 DEF OnceInv
  <2>2. \A g \in Handles : pc'[g] = "preparing" => slot'[g] \notin named'[entry'[g]]
    <3> SUFFICES ASSUME NEW g \in Handles \ {h}, pc[g] = "preparing"
                 PROVE  slot[g] \notin named'[entry[g]]
      BY <1>2, <1>4, <1>5
    <3>1. slot[g] # i /\ slot[g] \notin named[entry[g]]
      BY <1>6, <1>8 DEF Active, OnceInv
    <3>2. entry[g] = cached
      BY DEF QuietInv, Open
    <3> QED  BY <1>3, <3>1, <3>2
  <2> QED  BY <1>2, <2>1, <2>2 DEF OnceInv
<1> QED  BY <1>7, <1>8

(* prepare takes the cached entry or makes a new one, of which there is no   *)
(* trace yet.                                                                *)
LEMMA PrepareQuiet ==
  ASSUME TypeOK, Shape, QuietInv, NEW h \in Handles, Prepare(h), scenario.flush = "quiet"
  PROVE  QuietInv' /\ (OnceInv => OnceInv')
<1>1. PICK e \in Entries : StmtEntry(e) /\ entry' = [entry EXCEPT ![h] = e]
  BY DEF Prepare
<1>2. /\ flushing = NoEntry /\ UNCHANGED <<named, onServer, slot, flushing, dealloc>>
      /\ pc[h] = "new"
  BY DEF Prepare, flushVars
<1>3. /\ \A g \in Handles \ {h} : pc'[g] = pc[g] /\ entry'[g] = entry[g]
      /\ pc'[h] = "open" /\ entry'[h] = e
  BY <1>1 DEF Prepare, TypeOK
<1>4. cached' = e /\ (cached = e \/ cached = NoEntry) /\ created <= created' /\ e <= created'
  BY <1>1 DEF StmtEntry, TypeOK, QuietInv
<1>5. cached = NoEntry => named[e] = {} /\ \A j \in Conns : e \notin onServer[j]
  <2> SUFFICES ASSUME cached = NoEntry
               PROVE  named[e] = {} /\ \A j \in Conns : e \notin onServer[j]
    OBVIOUS
  <2>1. e > created
    BY <1>1 DEF StmtEntry, TypeOK
  <2> QED  BY <2>1 DEF QuietInv
<1>6. \A g \in Handles \ {h} : Open(g) => entry[g] = e
  BY <1>4 DEF QuietInv, TypeOK, Shape, Open
<1>7. QuietInv'
  <2>1. \A g \in Handles : Open(g)' => entry'[g] = cached' /\ flushing' = NoEntry
    BY <1>2, <1>3, <1>4, <1>6 DEF Open
  <2>2. \A g \in Handles : pc'[g] = "executing" => entry'[g] \in onServer'[slot'[g]]
    BY <1>2, <1>3 DEF QuietInv
  <2>3. \A d \in Entries : d > created' => /\ named'[d] = {}
                                           /\ \A j \in Conns : d \notin onServer'[j]
    <3> SUFFICES ASSUME NEW d \in Entries, d > created'
                 PROVE  named[d] = {} /\ \A j \in Conns : d \notin onServer[j]
      BY <1>2
    <3>1. created \in Int /\ created' \in Int
      BY <1>1, PreparedAssumption DEF StmtEntry, TypeOK
    <3>2. d > created
      BY <1>4, <3>1
    <3> QED  BY <3>2 DEF QuietInv
  <2>4. \A j \in named'[cached'] : cached' \in onServer'[j]
    BY <1>2, <1>4, <1>5 DEF QuietInv
  <2> QED  BY <1>2, <1>4, <2>1, <2>2, <2>3, <2>4 DEF QuietInv
<1>8. ASSUME OnceInv PROVE OnceInv'
  <2>1. \A j \in Conns : cached' \in onServer'[j] => j \in named'[cached']
    BY <1>2, <1>4, <1>5, <1>8 DEF OnceInv
  <2>2. \A g \in Handles : pc'[g] = "preparing" => slot'[g] \notin named'[entry'[g]]
    BY <1>2, <1>3, <1>8 DEF OnceInv
  <2> QED  BY <2>1, <2>2 DEF OnceInv
<1> QED  BY <1>7, <1>8

(* A context borrows a slot nobody works on, with or without a new           *)
(* connection.                                                               *)
LEMMA EnterQuiet ==
  ASSUME TypeOK, Shape, SlotInv, QuietInv, EnterContext
  PROVE  QuietInv' /\ (OnceInv => OnceInv')
<1>1. PICK i \in Conns : /\ ~busy[i]
                         /\ \/ /\ CutOff(i)
                               /\ onServer' = Reconnected(i)
                               /\ named' = ClearPreparedSlot(i)
                            \/ UNCHANGED <<onServer, named, dealloc>>
  BY DEF EnterContext, FirstFree
<1>2. UNCHANGED <<cached, created, pc, entry, slot, flushing>> /\ dealloc' \subseteq dealloc
  BY <1>1 DEF EnterContext, handleVars, CutOff
<1>3. CASE UNCHANGED <<onServer, named, dealloc>>
  BY <1>2, <1>3 DEF QuietInv, OnceInv, Open
<1>4. CASE onServer' = Reconnected(i) /\ named' = ClearPreparedSlot(i)
  <2>1. /\ \A j \in Conns \ {i} : onServer'[j] = onServer[j]
        /\ onServer'[i] = {}
    BY <1>4 DEF Reconnected, TypeOK
  <2>2. \A e \in Entries : named'[e] = IF e = cached THEN named[e] \ {i} ELSE named[e]
    BY <1>4 DEF ClearPreparedSlot
  <2>3. \A g \in Handles : Active(g) => slot[g] \in Conns \ {i} /\ entry[g] = cached
    BY <1>1 DEF TypeOK, Shape, SlotInv, QuietInv, Open, Active
  <2>4. \A g \in Handles : Open(g)' => entry'[g] = cached' /\ flushing' = NoEntry
    BY <1>2 DEF QuietInv, Open
  <2>5. \A g \in Handles : pc'[g] = "executing" => entry'[g] \in onServer'[slot'[g]]
    BY <1>2, <2>1, <2>3 DEF QuietInv, Active
  <2>6. \A e \in Entries : e > created' => /\ named'[e] = {}
                                           /\ \A j \in Conns : e \notin onServer'[j]
    BY <1>2, <2>1, <2>2 DEF QuietInv
  <2>7. cached # NoEntry => named'[cached] = named[cached] \ {i} /\ named[cached] \subseteq Conns
    BY <2>2 DEF TypeOK
  <2>8. flushing = NoEntry /\ cached # NoEntry =>
          \A j \in named'[cached] : cached \in onServer'[j]
    BY <2>1, <2>7 DEF QuietInv
  <2>9. QuietInv'
    BY <1>2, <2>4, <2>5, <2>6, <2>8 DEF QuietInv
  <2>10. ASSUME OnceInv PROVE OnceInv'
    <3>1. flushing = NoEntry /\ cached # NoEntry =>
            \A j \in Conns : cached \in onServer'[j] => j \in named'[cached]
      BY <2>1, <2>7, <2>10 DEF OnceInv
    <3>2. \A g \in Handles : pc'[g] = "preparing" => slot'[g] \notin named'[entry'[g]]
      <4> SUFFICES ASSUME NEW g \in Handles, pc[g] = "preparing"
                   PROVE  slot[g] \notin named'[entry[g]]
        BY <1>2
      <4>1. slot[g] \notin named[entry[g]] /\ entry[g] = cached /\ entry[g] \in Entries
        BY <2>3, <2>10 DEF OnceInv, Active, TypeOK, Shape
      <4> QED  BY <2>7, <4>1
    <3> QED  BY <1>2, <3>1, <3>2 DEF OnceInv
  <2> QED  BY <2>9, <2>10
<1> QED  BY <1>1, <1>3, <1>4

(* flushStmt runs while no handle is open: what it takes away nobody uses.   *)
LEMMA FlushQuiet ==
  ASSUME TypeOK, QuietInv, scenario.flush = "quiet",
         \/ FlushStmt \/ FlushStart \/ FlushDone \/ \E i \in Conns : Deallocated(i)
  PROVE  /\ \A h \in Handles : ~Open(h)
         /\ QuietInv' /\ (OnceInv => OnceInv')
<1>1. \A h \in Handles : ~Open(h)
  BY DEF FlushStmt, FlushStart, FlushDone, Deallocated, Flushable, QuietInv, Open
<1>2. UNCHANGED <<created, pc, entry, slot>>
  BY DEF FlushStmt, FlushStart, FlushDone, Deallocated, handleVars, cacheVars
<1>3. \A e \in Entries : named'[e] \subseteq named[e]
  BY DEF FlushStmt, FlushStart, FlushDone, Deallocated, cacheVars, TypeOK
<1>4. \A j \in Conns : onServer'[j] \subseteq onServer[j]
  <2>1. CASE FlushStmt
    BY <2>1 DEF FlushStmt
  <2>2. CASE \E i \in Conns : Deallocated(i)
    BY <2>2 DEF Deallocated, TypeOK
  <2>3. CASE FlushStart \/ FlushDone
    BY <2>3 DEF FlushStart, FlushDone
  <2> QED  BY <2>1, <2>2, <2>3
<1>5. flushing' = NoEntry => dealloc' = {} /\ cached' = NoEntry
  <2>1. CASE FlushStmt
    BY <2>1 DEF FlushStmt, QuietInv
  <2>2. CASE \E i \in Conns : Deallocated(i)
    BY <2>2 DEF Deallocated, QuietInv
  <2>3. CASE FlushStart
    BY <2>3 DEF FlushStart, Flushable
  <2>4. CASE FlushDone
    BY <2>4 DEF FlushDone
  <2> QED  BY <2>1, <2>2, <2>3, <2>4
<1>6. cached' = NoEntry \/ cached' = cached
  BY DEF FlushStmt, FlushStart, FlushDone, Deallocated, cacheVars
<1>7. \A e \in Entries : e > created' => /\ named'[e] = {}
                                         /\ \A j \in Conns : e \notin onServer'[j]
  BY <1>2, <1>3, <1>4 DEF QuietInv
<1>8. cached' <= created'
  BY <1>2, <1>6 DEF QuietInv, TypeOK
<1>9. QuietInv'
  BY <1>1, <1>2, <1>5, <1>7, <1>8 DEF QuietInv, Open
<1>10. OnceInv'
  BY <1>1, <1>2, <1>5 DEF OnceInv, Open
<1> QED  BY <1>1, <1>9, <1>10

(* Every step keeps the names right, and their uniqueness without timeouts.  *)
LEMMA NextQuiet ==
  TypeOK /\ Shape /\ SlotInv /\ QuietInv /\ scenario.flush = "quiet" /\ [Next]_vars =>
    QuietInv' /\ (OnceInv /\ ~scenario.timeouts => OnceInv')
<1> SUFFICES ASSUME TypeOK, Shape, SlotInv, QuietInv, scenario.flush = "quiet", [Next]_vars
             PROVE  QuietInv' /\ (OnceInv /\ ~scenario.timeouts => OnceInv')
  OBVIOUS
<1> USE DEF cacheVars, handleVars, contextVars, flushVars
<1>1. ASSUME NEW h \in Handles, Use(h)
      PROVE  QuietInv' /\ (OnceInv => OnceInv')
  <2>1. /\ pc[h] = "open"
        /\ UNCHANGED <<entry, cached, created, flushing>> /\ dealloc' \subseteq dealloc
    BY <1>1 DEF Use, Ready, CutOff
  <2>2. PICK i \in Conns :
           /\ ~busy[i]
           /\ \/ EnsureStmt(h, i, Reconnected(i), ClearPreparedSlot(i))
              \/ EnsureStmt(h, i, onServer, named)
    BY <1>1 DEF Use, FirstFree
  <2>3. \A g \in Handles : slot[g] # i
    BY <2>2 DEF SlotInv
  <2> QED  BY <2>1, <2>2, <2>3, EnsureQuiet
<1>2. ASSUME NEW h \in Handles, UseInContext(h)
      PROVE  QuietInv' /\ (OnceInv => OnceInv')
  <2>1. /\ pc[h] = "open" /\ context \in Conns /\ within = {}
        /\ UNCHANGED <<entry, cached, created, flushing, dealloc>>
        /\ EnsureStmt(h, context, onServer, named)
    BY <1>2 DEF UseInContext, Ready, TypeOK
  <2>2. \A g \in Handles : slot[g] # context
    BY <2>1 DEF SlotInv
  <2> QED  BY <2>1, <2>2, EnsureQuiet
<1>3. ASSUME NEW h \in Handles, PrepareFails(h) \/ ExecuteDone(h)
      PROVE  QuietInv' /\ (OnceInv => OnceInv')
  <2>1. /\ Active(h) /\ ReturnConn(h)
        /\ UNCHANGED <<cached, created, named, entry, flushing, dealloc, onServer>>
    BY <1>3 DEF PrepareFails, ExecuteDone, Active
  <2> QED  BY <2>1, ReturnQuiet
<1>4. ASSUME NEW h \in Handles, PrepareTimesOut(h)
      PROVE  QuietInv' /\ scenario.timeouts
  <2>1. /\ Active(h) /\ ReturnConn(h) /\ scenario.timeouts
        /\ UNCHANGED <<cached, created, named, entry, flushing, dealloc>>
        /\ \/ UNCHANGED onServer
           \/ onServer' = [onServer EXCEPT ![slot[h]] = @ \cup {entry[h]}]
    BY <1>4 DEF PrepareTimesOut, Active
  <2> QED  BY <2>1, ReturnQuiet
<1>5. ASSUME NEW h \in Handles, Close(h)
      PROVE  QuietInv' /\ (OnceInv => OnceInv')
  <2>1. /\ \A g \in Handles : pc'[g] = pc[g] \/ pc'[g] = "closed"
        /\ UNCHANGED <<cached, created, named, onServer, entry, slot, flushing, dealloc>>
    BY <1>5 DEF Close, TypeOK
  <2>2. \A g \in Handles : /\ Open(g)' => Open(g)
                           /\ pc'[g] = "executing" => pc[g] = "executing"
                           /\ pc'[g] = "preparing" => pc[g] = "preparing"
    BY <2>1 DEF Open
  <2>3. \A g \in Handles : Open(g)' => entry'[g] = cached' /\ flushing' = NoEntry
    BY <2>1, <2>2 DEF QuietInv
  <2>4. \A g \in Handles : pc'[g] = "executing" => entry'[g] \in onServer'[slot'[g]]
    BY <2>1, <2>2 DEF QuietInv
  <2>5. QuietInv'
    BY <2>1, <2>3, <2>4 DEF QuietInv
  <2>6. OnceInv => OnceInv'
    BY <2>1, <2>2 DEF OnceInv
  <2> QED  BY <2>5, <2>6
<1>6. CASE LeaveContext \/ UNCHANGED vars
  BY <1>6 DEF LeaveContext, vars, QuietInv, OnceInv, Open
<1> QED
  BY <1>1, <1>2, <1>3, <1>4, <1>5, <1>6, PrepareQuiet, PrepareDoneQuiet, EnterQuiet,
     FlushQuiet DEF Next, AllClosed

(* The scenario is chosen once. *)
LEMMA SameScenario == [Next]_vars => scenario' = scenario
BY DEF Next, AllClosed, vars, cacheVars, handleVars, contextVars, flushVars, Prepare, Use,
       UseInContext, PrepareDone, PrepareFails, PrepareTimesOut, ExecuteDone, Close,
       EnterContext, LeaveContext, FlushStmt, FlushStart, Deallocated, FlushDone

WhenQuiet == scenario.flush = "quiet" => QuietInv
WhenOnce  == scenario.flush = "quiet" /\ ~scenario.timeouts => OnceInv

(* The invariants the name theorems rest on, together. *)
LEMMA QuietAlways == Spec => [](TypeOK /\ Shape /\ SlotInv /\ WhenQuiet /\ WhenOnce)
<1>1. Init => TypeOK /\ Shape /\ SlotInv /\ WhenQuiet /\ WhenOnce
  BY InitTypes, InitSlotInv, InitQuiet DEF WhenQuiet, WhenOnce
<1>2. TypeOK /\ Shape /\ SlotInv /\ WhenQuiet /\ WhenOnce /\ [Next]_vars =>
        TypeOK' /\ Shape' /\ SlotInv' /\ WhenQuiet' /\ WhenOnce'
  BY NextTypes, NextSlotInv, NextQuiet, SameScenario DEF WhenQuiet, WhenOnce
<1> QED  BY <1>1, <1>2, PTL DEF Spec

(* A statement is only executed by a name the physical connection it runs on *)
(* knows, also across reconnections and while another handle prepares.       *)
THEOREM KnownNamesExecuted == Spec => []ExecutesKnownName
<1>1. WhenQuiet => ExecutesKnownName
  BY DEF WhenQuiet, QuietInv, ExecutesKnownName
<1> QED  BY <1>1, QuietAlways, PTL

(* No PREPARE is sent for a name the physical connection has already.        *)
THEOREM NamesPreparedOnce == Spec => []PreparedOnce
<1>1. TypeOK /\ Shape /\ WhenQuiet /\ WhenOnce => PreparedOnce
  BY DEF WhenQuiet, WhenOnce, QuietInv, OnceInv, PreparedOnce, TypeOK, Shape, Active, Open
<1> QED  BY <1>1, QuietAlways, PTL

(* Borrowing a slot anew carries no name over to the new connection.         *)
LEMMA EnsureForgets ==
  ASSUME TypeOK, Shape, QuietInv, NEW h \in Handles, pc[h] = "open", NEW i \in Conns,
         NEW server, NEW names,
         \/ server = onServer /\ names = named
         \/ server = Reconnected(i) /\ names = ClearPreparedSlot(i),
         EnsureStmt(h, i, server, names)
  PROVE  \A j \in Conns : ~Carried(j)
<1>1. /\ cached \in Entries
      /\ \A j \in Conns \ {i} : server[j] = onServer[j]
      /\ server \in [Conns -> SUBSET Entries]
      /\ names \in [Entries -> SUBSET Conns]
      /\ \/ onServer' = server /\ named' = names
         \/ onServer' = [server EXCEPT ![i] = @ \cup {cached}]
  BY EnsureNames
<1>2. \A j \in Conns \ {i} : onServer'[j] = onServer[j]
  BY <1>1
<1>3. onServer'[i] = {} => onServer' = server /\ named' = names
  BY <1>1
<1>4. ASSUME onServer[i] # {}, onServer'[i] = {} PROVE i \notin named'[cached]
  BY <1>1, <1>3, <1>4 DEF ClearPreparedSlot
<1> QED  BY <1>2, <1>4 DEF Carried, QuietInv, Open

(* A new connection of a slot knows no statement, and as long as flushStmt   *)
(* runs while nobody holds a handle no open handle believes otherwise.       *)
THEOREM NamesForgotten == Spec => QuietRefreshForgetsNames
<1> DEFINE Forgets == scenario.flush = "quiet" => \A i \in Conns : ~Carried(i)
<1>1. TypeOK /\ Shape /\ WhenQuiet /\ [Next]_vars => [Forgets]_vars
  <2> SUFFICES ASSUME TypeOK, Shape, QuietInv, scenario.flush = "quiet", Next
               PROVE  \A i \in Conns : ~Carried(i)
    BY DEF WhenQuiet
  <2> USE DEF cacheVars, handleVars, contextVars, flushVars
  <2>1. ASSUME NEW h \in Handles, Use(h) PROVE \A i \in Conns : ~Carried(i)
    <3>1. PICK i \in Conns : \/ EnsureStmt(h, i, Reconnected(i), ClearPreparedSlot(i))
                             \/ EnsureStmt(h, i, onServer, named)
      BY <2>1 DEF Use
    <3>2. pc[h] = "open"
      BY <2>1 DEF Use, Ready
    <3> QED  BY <3>1, <3>2, EnsureForgets
  <2>2. ASSUME NEW h \in Handles, UseInContext(h) PROVE \A i \in Conns : ~Carried(i)
    <3>1. /\ pc[h] = "open" /\ context \in Conns
          /\ EnsureStmt(h, context, onServer, named)
      BY <2>2 DEF UseInContext, Ready, TypeOK
    <3> QED  BY <3>1, EnsureForgets
  <2>3. CASE EnterContext
    <3>1. CASE UNCHANGED onServer
      BY <3>1 DEF Carried
    <3>2. CASE \E i \in Conns : /\ onServer' = Reconnected(i)
                                /\ named' = ClearPreparedSlot(i)
      <4>1. PICK i \in Conns : /\ onServer' = Reconnected(i)
                               /\ named' = ClearPreparedSlot(i)
        BY <3>2
      <4>2. \A j \in Conns \ {i} : onServer'[j] = onServer[j]
        BY <4>1 DEF Reconnected, TypeOK
      <4>3. \A h \in Handles : Open(h) => entry[h] \in Entries /\ i \notin named'[entry[h]]
        BY <4>1 DEF ClearPreparedSlot, QuietInv, Open, TypeOK, Shape
      <4> QED  BY <4>2, <4>3 DEF Carried, Open
    <3> QED  BY <2>3, <3>1, <3>2 DEF EnterContext
  <2>4. ASSUME NEW h \in Handles, PrepareDone(h) \/ PrepareTimesOut(h)
        PROVE  \A i \in Conns : ~Carried(i)
    <3>1. \/ UNCHANGED onServer
          \/ onServer' = [onServer EXCEPT ![slot[h]] = @ \cup {entry[h]}]
      BY <2>4 DEF PrepareDone, PrepareTimesOut
    <3>2. \A i \in Conns : onServer[i] \subseteq onServer'[i]
      BY <3>1 DEF TypeOK
    <3> QED  BY <3>2 DEF Carried
  <2>5. CASE \/ FlushStmt \/ FlushStart \/ FlushDone \/ \E i \in Conns : Deallocated(i)
    BY <2>5, FlushQuiet DEF Carried, Open
  <2>6. CASE UNCHANGED onServer
    BY <2>6 DEF Carried
  <2> QED
    BY <2>1, <2>2, <2>3, <2>4, <2>5, <2>6
       DEF Next, AllClosed, vars, Prepare, PrepareFails, ExecuteDone, Close, LeaveContext
<1> QED
  BY <1>1, QuietAlways, PTL DEF Spec, QuietRefreshForgetsNames
=============================================================================
