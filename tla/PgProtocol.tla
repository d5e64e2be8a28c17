----------------------------- MODULE PgProtocol -----------------------------
(***************************************************************************)
(* One PostgreSQL connection and the calls that use it                      *)
(* (query_builder/libs/postgres/postgres_impl.nim).  A plain command is     *)
(* sent at once; a prepared one first drains the connection with            *)
(* pgEnsureIdle.  Both then take results until libpq has none left, and     *)
(* suspend in waitPgIo whenever libpq is busy; a call past its deadline     *)
(* cancels and raises, leaving what the server still sends unread.          *)
(*                                                                          *)
(* libpq holds at most one command in flight and one error message.  The    *)
(* server answers a command with one result, then says it is ready.  The    *)
(* connection may be lost at any moment, also between the execution of a    *)
(* command and its answer; libpq learns it when it next reads the socket.   *)
(***************************************************************************)
EXTENDS Naturals

CONSTANTS Callers,   \* coroutines that may use the connection
          Nobody,    \* none of them
          Owners,    \* how they share it: "slot", one at a time, or "transaction"
          MaxCalls   \* bound: calls each of them makes

ASSUME PgProtocolAssumption == /\ Nobody \notin Callers
                               /\ Owners \subseteq {"slot", "transaction"}
                               /\ MaxCalls \in Nat

VARIABLES
  owner,    \* who lends the connection to the callers, never changed
  kinds,    \* kinds of calls the program makes, never changed
  link,     \* "up", "down": lost, or "bad": lost, and libpq has seen it
  flight,   \* libpq: the command in flight, and what of its answer is here
  message,  \* libpq: the call whose error is in errorMessage
  applied,  \* server: the calls whose command succeeded
  pc,       \* "out", "idling" in pgEnsureIdle or "reading" the results
  made,     \* calls each caller has begun
  got,      \* calls whose result the current call has been given
  late,     \* whether the deadline of the current call has passed
  woken,    \* suspended callers whose ioFut has been completed
  deaf,     \* suspended callers whose callback was unregistered
  outcome   \* how the last call of the caller ended

vars == <<owner, kinds, link, flight, message, applied, pc, made, got, late, woken,
          deaf, outcome>>

Id(c)   == <<c, made[c]>>
NoCall  == <<Nobody, 0>>
Refusal == <<Nobody, 1>>     \* an error of a send: command in progress, no socket

(* arrived: 0 nothing, 1 the result, 2 the end; taken: the result was read. *)
Command(id) == [by |-> id, arrived |-> 0, taken |-> 0, bad |-> FALSE]
NoFlight    == Command(NoCall)

Init == /\ owner \in Owners
        /\ kinds \in {{"plain"}, {"plain", "prepared"}}
        /\ link = "up"
        /\ flight = NoFlight
        /\ message = NoCall
        /\ applied = {}
        /\ pc      = [c \in Callers |-> "out"]
        /\ made    = [c \in Callers |-> 0]
        /\ got     = [c \in Callers |-> {}]
        /\ late    = [c \in Callers |-> FALSE]
        /\ woken   = {}
        /\ deaf    = {}
        /\ outcome = [c \in Callers |-> "none"]

-----------------------------------------------------------------------------
Free == flight.by = NoCall                          \* PQASYNC_IDLE
Busy == ~Free /\ flight.arrived = flight.taken      \* pqisBusy

NilTaken == flight.taken = 0          \* mutant of Took: nil counts as a result

(* What pqgetResult, called while libpq is not busy, gives and leaves: the    *)
(* result, if it is not taken yet, and the end, if it is here.                *)
Took    == ~Free /\ flight.taken = 0 /\ flight.arrived > 0
ReadOff == Free \/ flight.arrived = 2

AfterRead == IF ReadOff THEN NoFlight ELSE [flight EXCEPT !.taken = 1]

MessageAfterRead == IF Took /\ flight.bad THEN flight.by ELSE message

Ends(c, how) == /\ pc' = [pc EXCEPT ![c] = "out"]
                /\ outcome' = [outcome EXCEPT ![c] = how]

(* pqconsumeInput, or the assertion on the status before a call sends         *)
(* anything, on a connection that is lost: the call raises.                   *)
Notices(c) == /\ link # "up"
              /\ link' = "bad"
              /\ Ends(c, "lost")

(* pgAwaitReadyForGetResult while libpq is busy: suspend, or past the         *)
(* deadline cancelQuery and raise.  Cancelling only makes an error answer     *)
(* likelier, and the server may send one anyway.  (waitPgIo raises on a       *)
(* socket below 0, which libpq has after a failed read only: Notices.)        *)
Suspend(c, where) ==
  \/ /\ ~late'[c]
     /\ pc' = [pc EXCEPT ![c] = where]
     /\ UNCHANGED outcome
  \/ /\ late'[c]
     /\ Ends(c, "timeout")

(* Mutants of Send: a refusal goes unnoticed; the old message stays.          *)
SendUnchecked(c, id, f) == /\ flight' = IF f.by = NoCall THEN Command(id) ELSE f
                           /\ message' = NoCall
                           /\ pc' = [pc EXCEPT ![c] = "reading"]
                           /\ UNCHANGED <<link, outcome>>

SendKeeping(c, id, f) ==
  \/ /\ f.by = NoCall
     /\ flight' = Command(id)
     /\ pc' = [pc EXCEPT ![c] = "reading"]
     /\ UNCHANGED <<link, message, outcome>>
  \/ /\ f.by # NoCall
     /\ message' = Refusal
     /\ Ends(c, "refused")
     /\ UNCHANGED <<link, flight>>

(* pqsendQueryParams, pqsendPrepare, pqsendQueryPrepared: refused while a     *)
(* command is in flight, else the message is emptied and the command leaves,  *)
(* unless it or pqflush (pgFlushOutgoing) finds the socket closed.            *)
Send(c, id, f) ==
  \/ /\ f.by = NoCall
     /\ flight' = Command(id)
     /\ message' = NoCall
     /\ pc' = [pc EXCEPT ![c] = "reading"]
     /\ UNCHANGED <<link, outcome>>
  \/ /\ f.by = NoCall
     /\ link = "down"
     /\ flight' \in {f, Command(id)}
     /\ message' = Refusal
     /\ Ends(c, "lost")
     /\ UNCHANGED link
  \/ /\ f.by # NoCall
     /\ message' = Refusal
     /\ Ends(c, "refused")
     /\ UNCHANGED <<link, flight>>

(* pqconsumeInput succeeds: the connection stands, or what is still to be     *)
(* read has arrived before it was lost.                                       *)
Consumes == link = "up" \/ (link = "down" /\ ~Busy)

(* One turn of pgEnsureIdle: results of whatever is in flight are dropped; at *)
(* the end an error that libpq still holds is raised, or the command sent.    *)
EnsureIdle(c, id) ==
  \/ /\ Notices(c)
     /\ UNCHANGED <<flight, message>>
  \/ /\ Consumes
     /\ Busy
     /\ Suspend(c, "idling")
     /\ UNCHANGED <<link, flight, message>>
  \/ /\ Consumes
     /\ ~Busy
     /\ ~ReadOff
     /\ flight' = AfterRead
     /\ message' = MessageAfterRead
     /\ Suspend(c, "idling")
     /\ UNCHANGED link
  \/ /\ Consumes
     /\ ~Busy
     /\ ReadOff
     /\ MessageAfterRead # NoCall
     /\ flight' = AfterRead
     /\ message' = MessageAfterRead
     /\ Ends(c, "error")
     /\ UNCHANGED link
  \/ /\ Consumes
     /\ ~Busy
     /\ ReadOff
     /\ MessageAfterRead = NoCall
     /\ Send(c, id, AfterRead)

Given(c) == got' = [got EXCEPT ![c] =
                     @ \cup (IF Took /\ ~flight.bad THEN {flight.by} ELSE {})]

(* Mutant: one result is read, not all until nil. *)
ReadOneResult(c) ==
  /\ ~Busy
  /\ flight' = AfterRead
  /\ message' = MessageAfterRead
  /\ Given(c)
  /\ Ends(c, IF MessageAfterRead = NoCall THEN "ok" ELSE "error")
  /\ UNCHANGED link

(* One turn of the loop over pgNextResult of query, exec, execGetValue,       *)
(* rawQuery, rawExec, prepare, deallocate, preparedQuery and preparedExec.    *)
ReadResults(c) ==
  \/ /\ Notices(c)
     /\ UNCHANGED <<flight, message, got>>
  \/ /\ Consumes
     /\ Busy
     /\ Suspend(c, "reading")
     /\ UNCHANGED <<link, flight, message, got>>
  \/ /\ Consumes
     /\ ~Busy
     /\ flight' = AfterRead
     /\ message' = MessageAfterRead
     /\ UNCHANGED link
     /\ Given(c)
     /\ \/ ReadOff /\ Ends(c, IF MessageAfterRead = NoCall THEN "ok" ELSE "error")
        \/ ~ReadOff /\ Suspend(c, "reading")

(* The pool lends a slot to one call at a time; on the connection of a        *)
(* transaction other coroutines may be in the middle of a call.               *)
Lent(c) == owner = "slot" => \A d \in Callers \ {c} : pc[d] = "out"

Begin(c) == /\ pc[c] = "out"
            /\ made[c] < MaxCalls
            /\ Lent(c)
            /\ made' = [made EXCEPT ![c] = @ + 1]
            /\ got' = [got EXCEPT ![c] = {}]
            /\ late' = [late EXCEPT ![c] = FALSE]
            /\ UNCHANGED <<owner, kinds, applied, woken, deaf>>

BeginPlain(c) == /\ link # "bad"
                 /\ Begin(c)
                 /\ Send(c, <<c, made[c] + 1>>, flight)

BeginPrepared(c) == /\ "prepared" \in kinds
                    /\ link # "bad"
                    /\ Begin(c)
                    /\ EnsureIdle(c, <<c, made[c] + 1>>)

(* assert db.status == CONNECTION_OK *)
BeginOnLost(c) == /\ link = "bad"
                  /\ Begin(c)
                  /\ Notices(c)
                  /\ UNCHANGED <<flight, message>>

(* The socket of a lost connection is readable until libpq closes it. *)
Ready(c) == c \in woken \/ (link = "down" /\ c \notin deaf)

(* The continuation of waitPgIo after its ioFut was completed. *)
Resume(c) == /\ Ready(c)
             /\ woken' = woken \ {c}
             /\ UNCHANGED <<owner, kinds, applied, made, late, deaf>>
             /\ \/ pc[c] = "idling" /\ EnsureIdle(c, Id(c)) /\ UNCHANGED got
                \/ pc[c] = "reading" /\ ReadResults(c)

Suspended == {c \in Callers : pc[c] # "out"} \ woken

(* Mutant: the answer of waitPgIo is not looked at. *)
TimerIgnored(c) == /\ c \in Suspended
                   /\ late[c]
                   /\ deaf' = Suspended
                   /\ UNCHANGED <<owner, kinds, link, flight, message, applied,
                                  pc, made, got, late, woken, outcome>>

(* The timer of waitPgIo: unregister(fd) takes the callbacks of the others    *)
(* on this socket away as well; then cancelQuery and raise.  (When another    *)
(* call has unregistered the socket, unregister raises: the call ends too.)   *)
TimerFires(c) == /\ c \in Suspended
                 /\ late[c]
                 /\ deaf' = Suspended \ {c}
                 /\ Ends(c, "timeout")
                 /\ UNCHANGED <<owner, kinds, link, flight, message, applied, made,
                                got, late, woken>>

DeadlinePasses(c) == /\ pc[c] # "out"
                     /\ ~late[c]
                     /\ late' = [late EXCEPT ![c] = TRUE]
                     /\ UNCHANGED <<owner, kinds, link, flight, message, applied,
                                    pc, made, got, woken, deaf, outcome>>

-----------------------------------------------------------------------------
(* The server sends the result and the end, together or one by one; every     *)
(* suspended caller whose callback is registered is completed.                *)
ServerSends ==
  /\ link = "up"
  /\ ~Free
  /\ \E n \in flight.arrived + 1 .. 2 :
       IF flight.arrived = 0
       THEN \E bad \in BOOLEAN :
              /\ flight' = [flight EXCEPT !.arrived = n, !.bad = bad]
              /\ applied' = IF bad THEN applied ELSE applied \cup {flight.by}
       ELSE /\ flight' = [flight EXCEPT !.arrived = n]
            /\ UNCHANGED applied
  /\ woken' = woken \cup (Suspended \ deaf)
  /\ UNCHANGED <<owner, kinds, link, message, pc, made, got, late, deaf, outcome>>

(* The server or the network goes away; a command whose answer has not been   *)
(* sent may have been executed.                                               *)
ConnectionLost ==
  /\ link = "up"
  /\ link' = "down"
  /\ \E ran \in SUBSET {flight.by} :
       /\ ran # {} => ~Free /\ flight.arrived = 0
       /\ applied' = applied \cup ran
  /\ UNCHANGED <<owner, kinds, flight, message, pc, made, got, late, woken, deaf,
                 outcome>>

(* refreshConn of an expired slot opens another connection. *)
Reconnect == /\ owner = "slot"
             /\ \A c \in Callers : pc[c] = "out"
             /\ link' = "up"
             /\ flight' = NoFlight
             /\ message' = NoCall
             /\ UNCHANGED <<owner, kinds, applied, pc, made, got, late, woken, deaf,
                            outcome>>

Finished == /\ \A c \in Callers : pc[c] = "out" /\ made[c] = MaxCalls
            /\ UNCHANGED vars

Next == \/ \E c \in Callers : \/ BeginPlain(c)
                              \/ BeginPrepared(c)
                              \/ BeginOnLost(c)
                              \/ Resume(c)
                              \/ TimerFires(c)
                              \/ DeadlinePasses(c)
        \/ ServerSends
        \/ ConnectionLost
        \/ Reconnect
        \/ Finished

(* The event loop runs completed Futures and timers and the clock advances;   *)
(* nothing makes the server answer.                                           *)
Spec == /\ Init /\ [][Next]_vars
        /\ \A c \in Callers : /\ WF_vars(Resume(c))
                              /\ WF_vars(TimerFires(c))
                              /\ WF_vars(DeadlinePasses(c))
-----------------------------------------------------------------------------
Ids == Callers \X (1 .. MaxCalls)

(* Every variable has its type. *)
TypeOK == /\ link \in {"up", "down", "bad"}
          /\ flight \in [by : Ids \cup {NoCall}, arrived : 0 .. 2, taken : 0 .. 1, bad : BOOLEAN]
          /\ message \in Ids \cup {NoCall, Refusal}
          /\ applied \subseteq Ids
          /\ pc \in [Callers -> {"out", "idling", "reading"}]
          /\ made \in [Callers -> 0 .. MaxCalls]
          /\ got \in [Callers -> SUBSET Ids]
          /\ late \in [Callers -> BOOLEAN]
          /\ woken \subseteq Callers /\ deaf \subseteq Callers
          /\ outcome \in [Callers -> {"none", "ok", "error", "timeout", "refused", "lost"}]

(* Plain calls, or any call on a slot it has to itself, succeed only with the *)
(* result of their own command, though earlier calls may have timed out and   *)
(* left theirs on the connection.  (A prepared call on the connection of a    *)
(* transaction drains the results of a call beside it.)                       *)
OwnAnswer ==
  owner = "slot" \/ kinds = {"plain"} =>
    \A c \in Callers : pc[c] = "out" /\ outcome[c] = "ok" => got[c] = {Id(c)}

(* On a slot of its own, a call that raises what the server or a refused send *)
(* says has had no effect: a stale error or result makes it fail before it is *)
(* sent, never after it ran.  (A deadline or a lost connection tells nothing: *)
(* the command may have been executed.)                                       *)
ErrorMeansNoEffect ==
  owner = "slot" =>
    \A c \in Callers : pc[c] = "out" /\ outcome[c] \in {"error", "refused"}
                         => Id(c) \notin applied

(* Only a deadline leaves a command in flight on a connection that stands; on *)
(* one that is lost, only the loss does as well.                              *)
OnlyTimeoutsAbandon ==
  [][\A c \in Callers :
       pc[c] # "out" /\ pc'[c] = "out" /\ flight'.by = Id(c) =>
         outcome'[c] = "timeout" \/ (outcome'[c] = "lost" /\ link' # "up")]_vars

(* Every call ends, even when the server never answers, when the connection   *)
(* is lost, when another call unregistered the socket, or when its result was *)
(* drained by another.                                                        *)
CallEnds == \A c \in Callers : pc[c] # "out" ~> pc[c] = "out"

=============================================================================
