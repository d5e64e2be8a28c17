--------------------------- MODULE PreparedCache ---------------------------
(***************************************************************************)
(* The prepared statement cache of the four SQL drivers for one SQL text:   *)
(* handles (prepare / get or exec / close), the shared entry in             *)
(* Connections.preparedCache with one statement per slot, what really is    *)
(* prepared on each physical connection, reconnection of aged slots         *)
(* (refreshConn), withConn and flushStmt.  PostgreSQL keeps a name per slot *)
(* and the server a list of names; the other drivers keep the statement     *)
(* itself, which flushStmt closes.                                          *)
(*                                                                          *)
(* A handle belongs to one coroutine and runs outside transactions, so each *)
(* use borrows a slot as ConnPool promises or runs on the slot of a         *)
(* withConn context.  flushStmt works on slots it has not borrowed.         *)
(***************************************************************************)
EXTENDS Integers, FiniteSets

CONSTANTS Handles,      \* PostgresPreparedStatement objects
          NumConns,     \* maxConnections
          MaxUses,      \* bound: executions per handle
          MaxFlushes,   \* bound: calls of flushStmt
          Aging,        \* whether connection limits are set and can pass
          Scenarios     \* what may happen in a behaviour: a set of scenarios

ASSUME PreparedAssumption == /\ NumConns \in Nat
                             /\ MaxUses \in Nat
                             /\ MaxFlushes \in Nat
                             /\ Aging \in BOOLEAN

Drivers == {"postgres", "mariadb", "mysql", "sqlite"}

(* flush: flushStmt runs "quiet" (nobody holds or prepares a handle          *)
(* meanwhile) or at "any" time; timeouts: a PREPARE may time out, which only *)
(* PostgreSQL and MariaDB look after.                                        *)
ASSUME ScenariosAssumption ==
  /\ Scenarios \subseteq [driver : Drivers, flush : {"quiet", "any"}, timeouts : BOOLEAN]
  /\ \A s \in Scenarios : s.timeouts => s.driver \in {"postgres", "mariadb"}

Conns   == 1 .. NumConns
NoConn  == 0
Entries == 1 .. MaxFlushes + 1   \* numbered by gPreparedStmtCounter
NoEntry == 0

VARIABLES
  scenario,  \* one of Scenarios, never changed
  cached,    \* the entry preparedCache holds for the SQL, or NoEntry
  created,   \* entries created so far
  named,     \* named[e]: slots whose stmtNames or stmts entry is not empty
  refs,      \* refCount per entry
  onServer,  \* onServer[i]: entries prepared on the physical connection
  busy,      \* Connection.isBusy per slot
  pc,        \* control state of each handle
  entry,     \* the entry a handle refers to
  slot,      \* connI of the handle's use
  uses,      \* uses left
  context,   \* the slot a withConn body has, or NoConn
  within,    \* the handle that body is using, at most one
  flushing,  \* the entry flushStmt is working on, or NoEntry
  dealloc,   \* slots with a DEALLOCATE of flushStmt in flight
  flushes    \* calls of flushStmt left

cacheVars  == <<cached, created, named, refs>>
handleVars == <<pc, entry, slot, uses>>
contextVars == <<context, within>>
flushVars  == <<scenario, flushing, dealloc, flushes>>
vars == <<cacheVars, onServer, busy, handleVars, contextVars, flushVars>>

Init == /\ scenario \in Scenarios
        /\ cached   = NoEntry
        /\ created  = 0
        /\ named    = [e \in Entries |-> {}]
        /\ refs     = [e \in Entries |-> 0]
        /\ onServer = [i \in Conns |-> {}]
        /\ busy     = [i \in Conns |-> FALSE]
        /\ pc       = [h \in Handles |-> "new"]
        /\ entry    = [h \in Handles |-> NoEntry]
        /\ slot     = [h \in Handles |-> NoConn]
        /\ uses     = [h \in Handles |-> MaxUses]
        /\ context  = NoConn
        /\ within   = {}
        /\ flushing = NoEntry
        /\ dealloc  = {}
        /\ flushes  = MaxFlushes

-----------------------------------------------------------------------------
(* getStmtEntry *)
StmtEntry(e) == \/ /\ cached # NoEntry
                   /\ e = cached
                   /\ UNCHANGED <<cached, created>>
                \/ /\ cached = NoEntry
                   /\ e = created + 1
                   /\ cached' = e
                   /\ created' = e

Prepare(h) == /\ pc[h] = "new"
              /\ scenario.flush = "any" \/ flushing = NoEntry
              /\ \E e \in Entries :
                    /\ StmtEntry(e)
                    /\ refs' = [refs EXCEPT ![e] = @ + 1]
                    /\ entry' = [entry EXCEPT ![h] = e]
              /\ pc' = [pc EXCEPT ![h] = "open"]
              /\ UNCHANGED <<named, onServer, busy, slot, uses, contextVars, flushVars>>

NamesKept(i) == named   \* mutant: the names of the old connection stay

(* clearPreparedSlot empties the slot in every entry of the cache.           *)
ClearPreparedSlot(i) ==
  [e \in Entries |-> IF e = cached THEN named[e] \ {i} ELSE named[e]]

FirstFree(i) == ~busy[i] /\ \A j \in Conns : busy[j] \/ i <= j

(* refreshConn opens a new connection, on which nothing is prepared; a       *)
(* DEALLOCATE in flight on the old one fails, which deallocStmtSafely        *)
(* swallows.                                                                 *)
Reconnected(i) == [onServer EXCEPT ![i] = {}]

CutOff(i) == dealloc' = dealloc \ {i}

(* ensureStmt, ensurePreparedStmt: the slot's statement is looked up and     *)
(* executed, or prepared first, which only SQLite does without a pause.  A   *)
(* PREPARE on a PostgreSQL connection with a DEALLOCATE in flight cannot be  *)
(* sent and raises.                                                          *)
EnsureStmt(h, i, server, names) ==
  \/ /\ i \in names[entry[h]]
     /\ onServer' = server /\ named' = names
     /\ pc' = [pc EXCEPT ![h] = "executing"]
     /\ slot' = [slot EXCEPT ![h] = i]
  \/ /\ i \notin names[entry[h]] /\ scenario.driver = "sqlite"
     /\ onServer' = [server EXCEPT ![i] = @ \cup {entry[h]}]
     /\ named' = [names EXCEPT ![entry[h]] = @ \cup {i}]
     /\ pc' = [pc EXCEPT ![h] = "executing"]
     /\ slot' = [slot EXCEPT ![h] = i]
  \/ /\ i \notin names[entry[h]] /\ scenario.driver # "sqlite" /\ i \notin dealloc'
     /\ onServer' = server /\ named' = names
     /\ pc' = [pc EXCEPT ![h] = "preparing"]
     /\ slot' = [slot EXCEPT ![h] = i]
  \/ /\ i \notin names[entry[h]] /\ i \in dealloc'
     /\ onServer' = server /\ named' = names
     /\ UNCHANGED <<pc, slot>>

Ready(h) == pc[h] = "open" /\ uses[h] > 0

(* get, first, exec on a slot of the handle's own; raising gives it back. *)
Use(h) ==
  /\ Ready(h)
  /\ uses' = [uses EXCEPT ![h] = @ - 1]
  /\ \E i \in Conns :
       /\ FirstFree(i)
       /\ \/ Aging /\ CutOff(i) /\ EnsureStmt(h, i, Reconnected(i), ClearPreparedSlot(i))
          \/ UNCHANGED dealloc /\ EnsureStmt(h, i, onServer, named)
       /\ busy' = [busy EXCEPT ![i] = pc'[h] # "open"]
  /\ UNCHANGED <<scenario, cached, created, refs, entry, contextVars, flushing, flushes>>

(* withConn borrows a slot for its body, which awaits one call at a time.    *)
EnterContext ==
  /\ context = NoConn
  /\ \E i \in Conns :
       /\ FirstFree(i)
       /\ \/ /\ Aging
             /\ CutOff(i)
             /\ onServer' = Reconnected(i)
             /\ named' = ClearPreparedSlot(i)
          \/ UNCHANGED <<onServer, named, dealloc>>
       /\ busy' = [busy EXCEPT ![i] = TRUE]
       /\ context' = i
  /\ UNCHANGED <<scenario, cached, created, refs, handleVars, within, flushing, flushes>>

UseInContext(h) ==
  /\ Ready(h)
  /\ context # NoConn
  /\ within = {}
  /\ uses' = [uses EXCEPT ![h] = @ - 1]
  /\ UNCHANGED dealloc
  /\ EnsureStmt(h, context, onServer, named)
  /\ within' = IF pc'[h] = "open" THEN {} ELSE {h}
  /\ UNCHANGED <<scenario, cached, created, refs, busy, entry, context, flushing, flushes>>

LeaveContext ==
  /\ context # NoConn
  /\ within = {}
  /\ busy' = [busy EXCEPT ![context] = FALSE]
  /\ context' = NoConn
  /\ UNCHANGED <<cacheVars, onServer, handleVars, within, flushVars>>

(* The defer of getRows / runExec; a context keeps its slot. *)
ReturnConn(h) == /\ busy' = [busy EXCEPT ![slot[h]] = h \in within]
                 /\ within' = within \ {h}
                 /\ slot' = [slot EXCEPT ![h] = NoConn]
                 /\ pc' = [pc EXCEPT ![h] = "open"]
                 /\ UNCHANGED context

(* Mutant: the name is not stored after the PREPARE. *)
PrepareUnnamed(h) ==
  /\ pc[h] = "preparing"
  /\ entry[h] \notin onServer[slot[h]]
  /\ onServer' = [onServer EXCEPT ![slot[h]] = @ \cup {entry[h]}]
  /\ pc' = [pc EXCEPT ![h] = "executing"]
  /\ UNCHANGED <<cacheVars, busy, entry, slot, uses, contextVars, flushVars>>

(* PREPARE succeeds unless the name exists on the connection already. *)
PrepareDone(h) ==
  /\ pc[h] = "preparing"
  /\ entry[h] \notin onServer[slot[h]]
  /\ onServer' = [onServer EXCEPT ![slot[h]] = @ \cup {entry[h]}]
  /\ named' = [named EXCEPT ![entry[h]] = @ \cup {slot[h]}]
  /\ pc' = [pc EXCEPT ![h] = "executing"]
  /\ UNCHANGED <<cached, created, refs, busy, entry, slot, uses, contextVars, flushVars>>

PrepareFails(h) ==
  /\ pc[h] = "preparing"
  /\ entry[h] \in onServer[slot[h]]
  /\ ReturnConn(h)
  /\ UNCHANGED <<cacheVars, onServer, entry, uses, flushVars>>

(* Mutant: the name is stored before the PREPARE is awaited. *)
NamedEarly(h) ==
  /\ scenario.timeouts
  /\ pc[h] = "preparing"
  /\ named' = [named EXCEPT ![entry[h]] = @ \cup {slot[h]}]
  /\ ReturnConn(h)
  /\ UNCHANGED <<cached, created, refs, onServer, entry, uses, flushVars>>

(* The wait for the answer times out and raises, and the slot's entry stays  *)
(* empty.  PostgreSQL: cancelQuery, and the server may have prepared the     *)
(* name all the same; MariaDB closes the statement.                          *)
PrepareTimesOut(h) ==
  /\ scenario.timeouts
  /\ pc[h] = "preparing"
  /\ \/ UNCHANGED onServer
     \/ /\ scenario.driver = "postgres"
        /\ onServer' = [onServer EXCEPT ![slot[h]] = @ \cup {entry[h]}]
  /\ ReturnConn(h)
  /\ UNCHANGED <<cacheVars, entry, uses, flushVars>>

(* The statement is answered, with rows or with the server's error. *)
ExecuteDone(h) ==
  /\ pc[h] = "executing"
  /\ slot[h] \notin dealloc
  /\ ReturnConn(h)
  /\ UNCHANGED <<cacheVars, onServer, entry, uses, flushVars>>

(* Mutants of Close: a closed handle is closed again; the count of the entry *)
(* now in the cache is decremented instead of the handle's own.              *)
CloseAgain(h) == /\ pc[h] \in {"open", "closed"}
                 /\ pc' = [pc EXCEPT ![h] = "closed"]
                 /\ entry[h] # NoEntry
                 /\ refs' = [refs EXCEPT ![entry[h]] = @ - 1]
                 /\ UNCHANGED <<cached, created, named, onServer, busy, entry, slot,
                                uses, contextVars, flushVars>>

CloseCached(h) == /\ pc[h] = "open"
                  /\ pc' = [pc EXCEPT ![h] = "closed"]
                  /\ refs' = [e \in Entries |->
                                IF e = cached /\ refs[e] > 0 THEN refs[e] - 1 ELSE refs[e]]
                  /\ UNCHANGED <<cached, created, named, onServer, busy, entry, slot,
                                 uses, contextVars, flushVars>>

(* close: logical only. *)
Close(h) == /\ pc[h] = "open"
            /\ pc' = [pc EXCEPT ![h] = "closed"]
            /\ refs' = [refs EXCEPT ![entry[h]] = IF @ > 0 THEN @ - 1 ELSE @]
            /\ UNCHANGED <<cached, created, named, onServer, busy, entry, slot,
                           uses, contextVars, flushVars>>

-----------------------------------------------------------------------------
InUse(i) == \E h \in Handles : slot[h] = i

Flushable == /\ flushes > 0
             /\ cached # NoEntry
             /\ scenario.flush = "any" \/ \A h \in Handles : pc[h] \in {"new", "closed"}
             /\ flushes' = flushes - 1

(* MySQL, MariaDB and SQLite: flushStmt closes the statements of the entry   *)
(* at once, also those a handle is about to execute.                         *)
FlushStmt ==
  /\ scenario.driver # "postgres"
  /\ Flushable
  /\ onServer' = [i \in Conns |-> IF i \in named[cached] THEN onServer[i] \ {cached}
                                                       ELSE onServer[i]]
  /\ named' = [named EXCEPT ![cached] = {}]
  /\ cached' = NoEntry
  /\ UNCHANGED <<scenario, created, refs, busy, handleVars, contextVars, flushing, dealloc>>

(* PostgreSQL: flushStmt sends a DEALLOCATE per named slot; where another    *)
(* command is in flight the send fails and is swallowed.                     *)
FlushStart ==
  /\ scenario.driver = "postgres"
  /\ flushing = NoEntry
  /\ Flushable
  /\ flushing' = cached
  /\ dealloc' = {i \in named[cached] : ~InUse(i)}
  /\ UNCHANGED <<scenario, cacheVars, onServer, busy, handleVars, contextVars>>

Deallocated(i) ==
  /\ i \in dealloc
  /\ dealloc' = dealloc \ {i}
  /\ onServer' = [onServer EXCEPT ![i] = @ \ {flushing}]
  /\ UNCHANGED <<scenario, cacheVars, busy, handleVars, contextVars, flushing, flushes>>

(* After all(futs): preparedCache.del; the entry keeps its names. *)
FlushDone ==
  /\ flushing # NoEntry
  /\ dealloc = {}
  /\ cached' = NoEntry
  /\ flushing' = NoEntry
  /\ UNCHANGED <<scenario, created, named, refs, onServer, busy, handleVars, contextVars,
                 dealloc, flushes>>

AllClosed == /\ \A h \in Handles : pc[h] = "closed"
             /\ UNCHANGED vars

Next == \/ \E h \in Handles : \/ Prepare(h)
                              \/ Use(h)
                              \/ UseInContext(h)
                              \/ PrepareDone(h)
                              \/ PrepareFails(h)
                              \/ PrepareTimesOut(h)
                              \/ ExecuteDone(h)
                              \/ Close(h)
        \/ EnterContext
        \/ LeaveContext
        \/ FlushStmt
        \/ FlushStart
        \/ \E i \in Conns : Deallocated(i)
        \/ FlushDone
        \/ AllClosed

Spec == Init /\ [][Next]_vars
-----------------------------------------------------------------------------
(* Every variable has its type. *)
TypeOK == /\ scenario \in Scenarios
          /\ cached \in Entries \cup {NoEntry}
          /\ created \in Entries \cup {NoEntry}
          /\ named \in [Entries -> SUBSET Conns]
          /\ refs \in [Entries -> Nat]
          /\ onServer \in [Conns -> SUBSET Entries]
          /\ busy \in [Conns -> BOOLEAN]
          /\ pc \in [Handles -> {"new", "open", "preparing", "executing", "closed"}]
          /\ entry \in [Handles -> Entries \cup {NoEntry}]
          /\ slot \in [Handles -> Conns \cup {NoConn}]
          /\ uses \in [Handles -> 0 .. MaxUses]
          /\ context \in Conns \cup {NoConn}
          /\ within \subseteq Handles
          /\ flushing \in Entries \cup {NoEntry}
          /\ dealloc \subseteq Conns
          /\ flushes \in 0 .. MaxFlushes

(* A statement is only executed by a name the connection it runs on knows,   *)
(* although the connection may have been replaced since the name was stored  *)
(* and although PREPARE is awaited between the test of stmtNames and its     *)
(* use; flushStmt has to run while nobody holds a handle.                    *)
ExecutesKnownName ==
  scenario.flush = "quiet" =>
    \A h \in Handles : pc[h] = "executing" => entry[h] \in onServer[slot[h]]

(* One PREPARE per SQL text and physical connection, however many handles    *)
(* share the entry: none is sent for a name the connection already has.      *)
PreparedOnce ==
  scenario.flush = "quiet" /\ ~scenario.timeouts =>
    \A h \in Handles : pc[h] = "preparing" => entry[h] \notin onServer[slot[h]]

(* refCount counts the open handles of the entry, also of one that flushStmt *)
(* has taken out of the cache.                                               *)
RefCountExact ==
  \A e \in Entries :
    refs[e] = Cardinality({h \in Handles : entry[h] = e /\ pc[h] \notin {"new", "closed"}})

(* Slot i gets a new physical connection, and an open handle keeps the name  *)
(* its statement had on the old one.                                         *)
Carried(i) == /\ onServer[i] # {} /\ onServer'[i] = {} /\ i \notin dealloc
              /\ \E h \in Handles : pc[h] \notin {"new", "closed"} /\ i \in named'[entry[h]]

(* When a slot gets a new physical connection, no statement of the old one   *)
(* is carried over: no open handle keeps a name for the slot (refreshConn).  *)
(* It fails when flushStmt takes the entry out of the cache beside an open   *)
(* handle: instance FlushAnyTime of MCPreparedCache.                         *)
RefreshForgetsNames == [][\A i \in Conns : ~Carried(i)]_vars

(* It is so as long as flushStmt runs while nobody holds a handle.           *)
QuietRefreshForgetsNames ==
  [][scenario.flush = "quiet" => \A i \in Conns : ~Carried(i)]_vars
=============================================================================
