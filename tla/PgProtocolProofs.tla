-------------------------- MODULE PgProtocolProofs --------------------------
(***************************************************************************)
(* Theorems about the calls on one PostgreSQL connection (PgProtocol), for  *)
(* any callers and any number of calls.                                     *)
(***************************************************************************)
EXTENDS PgProtocol, TLAPS

Ways == {"none", "ok", "error", "timeout", "refused", "lost"}

Links == {"up", "down", "bad"}

Flights == [by : Ids \cup {NoCall}, arrived : 0 .. 2, taken : 0 .. 1, bad : BOOLEAN]

(* A result is read after it arrived and good until then, and a call under   *)
(* way has been begun.                                                       *)
Sane == /\ flight.taken <= flight.arrived
        /\ flight.arrived = 0 => ~flight.bad
        /\ \A c \in Callers : pc[c] # "out" => made[c] # 0

(* The step moves caller c and no other. *)
Moves(c) == /\ pc' \in [Callers -> {"out", "idling", "reading"}]
            /\ outcome' \in [Callers -> Ways]
            /\ \A d \in Callers \ {c} : pc'[d] = pc[d] /\ outcome'[d] = outcome[d]

(* The flight of the next state is one libpq can have. *)
SaneFlight == /\ flight' \in Flights /\ flight'.taken <= flight'.arrived
              /\ flight'.arrived = 0 => ~flight'.bad

(* The connection starts without a command. *)
LEMMA InitTypes == Init => TypeOK /\ Sane
BY PgProtocolAssumption DEF Init, TypeOK, Sane, NoFlight, Command, Ids, NoCall

(* What reading off a libpq that is not busy leaves: the end, or the rest of *)
(* an answer whose result is taken.                                          *)
LEMMA AfterReadFlight ==
  ASSUME TypeOK, Sane, ~Busy
  PROVE  /\ AfterRead \in Flights /\ AfterRead.taken <= AfterRead.arrived
         /\ MessageAfterRead \in Ids \cup {NoCall, Refusal}
         /\ ReadOff => AfterRead = NoFlight /\ AfterRead.by = NoCall
         /\ ~ReadOff => /\ flight.by # NoCall /\ flight.arrived = 1 /\ flight.taken = 0
                        /\ AfterRead = [flight EXCEPT !.taken = 1]
<1>1. NoFlight \in Flights /\ NoFlight.by = NoCall /\ NoFlight.taken <= NoFlight.arrived
  BY DEF NoFlight, Command, Flights
<1>2. flight \in Flights
  BY DEF TypeOK, Flights
<1>3. MessageAfterRead \in Ids \cup {NoCall, Refusal}
  BY <1>2 DEF MessageAfterRead, TypeOK, Flights, Took, Free
<1>4. CASE ReadOff
  BY <1>1, <1>3, <1>4 DEF AfterRead
<1>5. CASE ~ReadOff
  <2>1. AfterRead = [flight EXCEPT !.taken = 1] /\ flight.by # NoCall /\ flight.arrived # 2
    BY <1>5 DEF AfterRead, ReadOff, Free
  <2>2. flight.arrived = 1 /\ flight.taken = 0
    BY <1>2, <2>1 DEF Busy, Free, Flights, Sane
  <2>3. AfterRead \in Flights /\ AfterRead.taken <= AfterRead.arrived
    BY <1>2, <2>1, <2>2 DEF Flights
  <2> QED  BY <1>3, <1>5, <2>1, <2>2, <2>3
<1> QED  BY <1>4, <1>5

(* Reading off leaves a flight libpq can have. *)
LEMMA ReadTypes ==
  ASSUME TypeOK, Sane, ~Busy, flight' = AfterRead
  PROVE  SaneFlight /\ MessageAfterRead \in Ids \cup {NoCall, Refusal}
<1>1. CASE ReadOff
  BY <1>1, AfterReadFlight DEF SaneFlight, NoFlight, Command
<1>2. CASE ~ReadOff
  BY <1>2, AfterReadFlight DEF SaneFlight, Flights
<1> QED  BY <1>1, <1>2

(* A call that ends, suspends, sends or is refused keeps the types.          *)
LEMMA SuspendTypes ==
  ASSUME TypeOK, NEW c \in Callers, NEW where \in {"idling", "reading"}, Suspend(c, where)
  PROVE  Moves(c)
BY DEF Suspend, Ends, TypeOK, Ways, Moves

LEMMA EndsTypes ==
  ASSUME TypeOK, NEW c \in Callers, NEW how \in Ways, Ends(c, how)
  PROVE  Moves(c)
BY DEF Ends, TypeOK, Ways, Moves

LEMMA NoticesTypes ==
  ASSUME TypeOK, NEW c \in Callers, Notices(c)
  PROVE  Moves(c) /\ link' = "bad" /\ outcome'[c] = "lost" /\ pc'[c] = "out"
BY EndsTypes DEF Notices, Ends, TypeOK, Ways

LEMMA SendTypes ==
  ASSUME TypeOK, Sane, NEW c \in Callers, NEW id \in Ids,
         NEW f \in Flights, f = NoFlight \/ f = flight, Send(c, id, f)
  PROVE  /\ SaneFlight /\ link' = link
         /\ message' \in Ids \cup {NoCall, Refusal}
         /\ Moves(c)
<1>1. flight' = Command(id) => SaneFlight
  <2>1. /\ Command(id) \in Flights /\ Command(id).taken <= Command(id).arrived
        /\ ~Command(id).bad
    BY DEF Command, Flights
  <2> QED  BY <2>1 DEF SaneFlight
<1>2. flight' = f => SaneFlight
  <2>1. NoFlight.taken <= NoFlight.arrived /\ ~NoFlight.bad
    BY DEF NoFlight, Command
  <2> QED  BY <2>1 DEF Sane, SaneFlight
<1>3. CASE /\ flight' = Command(id) /\ message' = NoCall /\ link' = link
           /\ pc' = [pc EXCEPT ![c] = "reading"] /\ outcome' = outcome
  BY <1>1, <1>3 DEF TypeOK, Ways, Moves
<1>4. CASE /\ Ends(c, "lost") \/ Ends(c, "refused")
           /\ flight' \in {f, Command(id)} /\ message' = Refusal /\ link' = link
  BY <1>1, <1>2, <1>4, EndsTypes DEF Ways
<1>5. f.by # NoCall => f = flight
  BY DEF NoFlight, Command
<1> QED  BY <1>3, <1>4, <1>5 DEF Send

LEMMA EnsureIdleTypes ==
  ASSUME TypeOK, Sane, NEW c \in Callers, NEW id \in Ids, EnsureIdle(c, id)
  PROVE  /\ SaneFlight /\ link' \in Links
         /\ message' \in Ids \cup {NoCall, Refusal}
         /\ Moves(c)
<1>0. UNCHANGED flight => SaneFlight
  BY DEF TypeOK, Sane, Flights, SaneFlight
<1>1. CASE Busy /\ Suspend(c, "idling") /\ UNCHANGED <<link, flight, message>>
  BY <1>0, <1>1, SuspendTypes DEF TypeOK, Links
<1>2. CASE /\ ~Busy /\ flight' = AfterRead /\ message' = MessageAfterRead
           /\ UNCHANGED link
           /\ Suspend(c, "idling") \/ Ends(c, "error")
  BY <1>2, ReadTypes, SuspendTypes, EndsTypes DEF Ways, TypeOK, Links
<1>3. CASE ~Busy /\ ReadOff /\ Send(c, id, AfterRead)
  BY <1>3, AfterReadFlight, SendTypes DEF TypeOK, Links
<1>4. CASE Notices(c) /\ UNCHANGED <<flight, message>>
  BY <1>0, <1>4, NoticesTypes DEF TypeOK, Links
<1> QED  BY <1>1, <1>2, <1>3, <1>4 DEF EnsureIdle

LEMMA ReadResultsTypes ==
  ASSUME TypeOK, Sane, NEW c \in Callers, ReadResults(c)
  PROVE  /\ SaneFlight /\ link' \in Links
         /\ message' \in Ids \cup {NoCall, Refusal}
         /\ Moves(c)
         /\ got' \in [Callers -> SUBSET Ids]
<1>0. UNCHANGED flight => SaneFlight
  BY DEF TypeOK, Sane, Flights, SaneFlight
<1>1. CASE Busy /\ Suspend(c, "reading") /\ UNCHANGED <<link, flight, message, got>>
  BY <1>0, <1>1, SuspendTypes DEF TypeOK, Links
<1>2. CASE /\ ~Busy /\ flight' = AfterRead /\ message' = MessageAfterRead /\ Given(c)
           /\ UNCHANGED link
           /\ \/ Suspend(c, "reading")
              \/ Ends(c, "ok")
              \/ Ends(c, "error")
  <2>1. got' \in [Callers -> SUBSET Ids]
    BY <1>2 DEF Given, TypeOK, Took, Free
  <2> QED  BY <1>2, <2>1, ReadTypes, SuspendTypes, EndsTypes DEF Ways, TypeOK, Links
<1>3. CASE Notices(c) /\ UNCHANGED <<flight, message, got>>
  BY <1>0, <1>3, NoticesTypes DEF TypeOK, Links
<1> QED  BY <1>1, <1>2, <1>3 DEF ReadResults

(* What the server sends changes nothing but what has arrived.               *)
LEMMA ArrivedFields ==
  ASSUME TypeOK, Sane, ServerSends
  PROVE  /\ flight.by \in Ids /\ flight' \in Flights
         /\ flight'.by = flight.by /\ flight'.taken = flight.taken
         /\ flight'.arrived > flight.arrived
         /\ flight.arrived # 0 => flight'.bad = flight.bad /\ applied' = applied
         /\ flight'.bad => applied' = applied
         /\ applied' \in {applied, applied \cup {flight.by}}
<1>1. /\ flight \in Flights /\ flight.arrived \in 0 .. 2 /\ flight.by \in Ids \cup {NoCall}
  BY DEF TypeOK, Flights
<1>2. flight.by \in Ids
  BY <1>1, Zenon DEF ServerSends, Free
<1>3. PICK n \in flight.arrived + 1 .. 2 :
        IF flight.arrived = 0
        THEN \E bad \in BOOLEAN :
               /\ flight' = [flight EXCEPT !.arrived = n, !.bad = bad]
               /\ applied' = IF bad THEN applied ELSE applied \cup {flight.by}
        ELSE /\ flight' = [flight EXCEPT !.arrived = n]
             /\ UNCHANGED applied
  BY Zenon DEF ServerSends
<1>4. n \in 0 .. 2 /\ n > flight.arrived
  BY <1>1
<1>5. CASE flight.arrived = 0
  <2>1. PICK bad \in BOOLEAN :
          /\ flight' = [flight EXCEPT !.arrived = n, !.bad = bad]
          /\ applied' = IF bad THEN applied ELSE applied \cup {flight.by}
    BY <1>3, <1>5, Zenon
  <2> DEFINE f == [flight EXCEPT !.arrived = n, !.bad = bad]
  <2>2. /\ f \in Flights /\ f.by = flight.by /\ f.taken = flight.taken
        /\ f.arrived = n /\ f.bad = bad
    BY <1>1, <1>4 DEF Flights
  <2>3. flight' = f
    BY <2>1, Zenon
  <2> HIDE DEF f
  <2>4. applied' \in {applied, applied \cup {flight.by}} /\ (bad => applied' = applied)
    BY <2>1, Zenon
  <2> QED  BY <1>2, <1>4, <1>5, <2>2, <2>3, <2>4
<1>6. CASE flight.arrived # 0
  <2>1. flight' = [flight EXCEPT !.arrived = n] /\ applied' = applied
    BY <1>3, <1>6, Zenon
  <2> QED  BY <1>1, <1>2, <1>4, <1>6, <2>1 DEF Flights
<1> QED  BY <1>5, <1>6

(* A call that begins keeps the types.                                       *)
LEMMA StartTypes ==
  ASSUME TypeOK, Sane, NEW c \in Callers, <<c, made[c] + 1>> \in Ids,
         BeginPlain(c) \/ BeginPrepared(c) \/ BeginOnLost(c)
  PROVE  /\ SaneFlight /\ link' \in Links
         /\ message' \in Ids \cup {NoCall, Refusal}
         /\ Moves(c)
<1>1. flight \in Flights /\ message \in Ids \cup {NoCall, Refusal} /\ link \in Links
  BY DEF TypeOK, Flights, Links
<1>2. CASE BeginPlain(c)
  BY <1>1, <1>2, SendTypes DEF BeginPlain
<1>3. CASE BeginPrepared(c)
  BY <1>3, EnsureIdleTypes DEF BeginPrepared
<1>4. CASE BeginOnLost(c)
  BY <1>1, <1>4, NoticesTypes DEF BeginOnLost, SaneFlight, Sane, Links
<1> QED  BY <1>2, <1>3, <1>4

(* Every step keeps the types.                                               *)
LEMMA NextTypes == TypeOK /\ Sane /\ [Next]_vars => TypeOK' /\ Sane'
<1> SUFFICES ASSUME TypeOK, Sane, [Next]_vars PROVE TypeOK' /\ Sane'
  OBVIOUS
<1>1. ASSUME NEW c \in Callers, BeginPlain(c) \/ BeginPrepared(c) \/ BeginOnLost(c)
      PROVE  TypeOK' /\ Sane'
  <2>1. <<c, made[c] + 1>> \in Ids /\ made' \in [Callers -> 0 .. MaxCalls]
    BY <1>1, PgProtocolAssumption
       DEF BeginPlain, BeginPrepared, BeginOnLost, Begin, Ids, TypeOK
  <2>2. /\ SaneFlight /\ link' \in Links
        /\ message' \in Ids \cup {NoCall, Refusal}
        /\ Moves(c)
    BY <1>1, <2>1, StartTypes DEF TypeOK, Links
  <2>3. TypeOK'
    BY <1>1, <2>1, <2>2
       DEF BeginPlain, BeginPrepared, BeginOnLost, Begin, TypeOK, Flights, Ways, Moves,
           SaneFlight, Links
  <2>4. made' = [made EXCEPT ![c] = @ + 1]
    BY <1>1 DEF BeginPlain, BeginPrepared, BeginOnLost, Begin
  <2> QED  BY <2>2, <2>3, <2>4 DEF TypeOK, Sane, Moves, SaneFlight
<1>2. ASSUME NEW c \in Callers, Resume(c) PROVE TypeOK' /\ Sane'
  <2>1. \/ EnsureIdle(c, Id(c)) /\ UNCHANGED got /\ pc[c] = "idling"
        \/ ReadResults(c) /\ pc[c] = "reading"
    BY <1>2 DEF Resume
  <2>2. Id(c) \in Ids
    BY <2>1, PgProtocolAssumption DEF Id, Ids, TypeOK, Sane
  <2>3. /\ SaneFlight /\ link' \in Links
        /\ message' \in Ids \cup {NoCall, Refusal}
        /\ Moves(c)
        /\ got' \in [Callers -> SUBSET Ids]
    BY <2>1, <2>2, ReadResultsTypes, EnsureIdleTypes DEF TypeOK
  <2>4. pc[c] # "out" /\ UNCHANGED <<owner, kinds, applied, made, late, deaf>>
    BY <1>2, <2>1 DEF Resume
  <2>5. TypeOK'
    BY <1>2, <2>3, <2>4 DEF Resume, TypeOK, Flights, Ways, Moves, SaneFlight, Links
  <2> QED  BY <2>3, <2>4, <2>5 DEF Sane, Moves, SaneFlight
<1>3. ASSUME NEW c \in Callers, TimerFires(c) PROVE TypeOK' /\ Sane'
  <2>1. Moves(c)
    BY <1>3, EndsTypes DEF TimerFires, Ways
  <2> QED
    BY <1>3, <2>1 DEF TimerFires, Suspended, TypeOK, Sane, Moves, Ways
<1>4. ASSUME NEW c \in Callers, DeadlinePasses(c) PROVE TypeOK' /\ Sane'
  BY <1>4 DEF DeadlinePasses, TypeOK, Sane
<1>5. CASE ServerSends
  <2>1. /\ flight' \in Flights /\ flight'.taken <= flight'.arrived
        /\ flight'.arrived # 0
        /\ applied' \subseteq Ids
    <3>1. /\ flight.by \in Ids /\ flight' \in Flights
          /\ flight'.taken = flight.taken /\ flight'.arrived > flight.arrived
          /\ applied' \in {applied, applied \cup {flight.by}}
      BY <1>5, ArrivedFields
    <3>2. flight \in Flights /\ flight.taken <= flight.arrived /\ applied \subseteq Ids
      BY DEF TypeOK, Flights, Sane
    <3> QED  BY <3>1, <3>2 DEF Flights
  <2>2. woken' \subseteq Callers
    BY <1>5, Zenon DEF ServerSends, Suspended, TypeOK
  <2>3. UNCHANGED <<owner, kinds, link, message, pc, made, got, late, deaf, outcome>>
    BY <1>5, Zenon DEF ServerSends
  <2> QED
    BY <2>1, <2>2, <2>3 DEF TypeOK, Flights, Sane
<1>6. CASE Reconnect
  BY <1>6 DEF Reconnect, TypeOK, Sane, NoFlight, Command
<1>7. CASE ConnectionLost
  <2>1. applied' \subseteq Ids
    <3>1. PICK ran \in SUBSET {flight.by} :
            (ran # {} => ~Free) /\ applied' = applied \cup ran
      BY <1>7 DEF ConnectionLost
    <3> QED  BY <3>1 DEF TypeOK, Free
  <2> QED  BY <1>7, <2>1 DEF ConnectionLost, TypeOK, Sane
<1>8. CASE UNCHANGED vars
  BY <1>8 DEF vars, TypeOK, Sane
<1> QED
  BY <1>1, <1>2, <1>3, <1>4, <1>5, <1>6, <1>7, <1>8 DEF Next, Finished

(* Every variable of the connection and its calls keeps its type.            *)
THEOREM TypeCorrect == Spec => []TypeOK
<1>1. Init /\ [][Next]_vars => [](TypeOK /\ Sane)
  BY InitTypes, NextTypes, PTL
<1> QED  BY <1>1, PTL DEF Spec

-----------------------------------------------------------------------------
(* Nothing but a deadline, or the loss of the connection, leaves a command   *)
(* in flight behind the call that sent it: every other end of a call leaves  *)
(* the connection idle or with the command of somebody else.                 *)
THEOREM TimeoutsAbandon == Spec => OnlyTimeoutsAbandon
<1> DEFINE Abandons(c) == pc[c] # "out" /\ pc'[c] = "out" /\ flight'.by = Id(c)
           Excuse(c) == outcome'[c] = "timeout" \/ (outcome'[c] = "lost" /\ link' # "up")
           Excused == \A c \in Callers : Abandons(c) => Excuse(c)
<1>1. TypeOK /\ Sane /\ [Next]_vars => [Excused]_vars
  <2> SUFFICES ASSUME TypeOK, Sane, Next, NEW c \in Callers, Abandons(c)
               PROVE  Excuse(c)
    OBVIOUS
  <2>1. Id(c) # NoCall /\ NoFlight.by = NoCall
    BY PgProtocolAssumption DEF Id, NoCall, NoFlight, Command
  <2>2. ASSUME NEW d \in Callers, BeginPlain(d) \/ BeginPrepared(d) \/ BeginOnLost(d)
        PROVE  FALSE
    <3>1. pc[d] = "out" /\ <<d, made[d] + 1>> \in Ids
      BY <2>2, PgProtocolAssumption
         DEF BeginPlain, BeginPrepared, BeginOnLost, Begin, Ids, TypeOK
    <3>2. Moves(d)
      BY <2>2, <3>1, StartTypes
    <3> QED  BY <3>1, <3>2 DEF Moves
  <2>3. ASSUME NEW d \in Callers, Resume(d)
        PROVE  Excuse(c)
    <3>1. pc[d] # "out" /\ Id(d) \in Ids
      BY <2>3, PgProtocolAssumption DEF Resume, Id, Ids, TypeOK, Sane
    <3>2. Moves(d)
      BY <2>3, <3>1, ReadResultsTypes, EnsureIdleTypes DEF Resume
    <3>3. c = d
      BY <3>2 DEF Moves
    <3>4. ~Busy /\ ReadOff => AfterRead = NoFlight
      BY AfterReadFlight
    <3>5. \A where : Suspend(c, where) => outcome'[c] = "timeout" \/ pc'[c] = where
      BY DEF Suspend, Ends, TypeOK
    <3>6. Notices(c) => Excuse(c)
      BY NoticesTypes
    <3>7. ASSUME EnsureIdle(c, Id(c)) PROVE Excuse(c)
      <4>1. Send(c, Id(c), NoFlight) => Excuse(c)
        BY <2>1 DEF Send, Ends, TypeOK
      <4> QED  BY <2>1, <3>4, <3>5, <3>6, <3>7, <4>1 DEF EnsureIdle
    <3>8. ASSUME ReadResults(c) PROVE Excuse(c)
      BY <2>1, <3>4, <3>5, <3>6, <3>8 DEF ReadResults
    <3> QED  BY <2>3, <3>3, <3>7, <3>8 DEF Resume
  <2>4. ASSUME NEW d \in Callers, TimerFires(d)
        PROVE  Excuse(c)
    BY <2>4 DEF TimerFires, Ends, TypeOK
  <2> QED
    BY <2>2, <2>3, <2>4
       DEF Next, DeadlinePasses, ServerSends, ConnectionLost, Reconnect, Finished, vars
<1>2. Init /\ [][Next]_vars => [](TypeOK /\ Sane)
  BY InitTypes, NextTypes, PTL
<1> QED
  BY <1>1, <1>2, PTL DEF Spec, OnlyTimeoutsAbandon

-----------------------------------------------------------------------------
(* Whose result a call is given                                              *)

(* Nobody drains the result of a call beside its own. *)
Undisturbed == owner = "slot" \/ kinds = {"plain"}

(* A call that reads has its own command in flight, and what it was given is *)
(* the part of the answer that was taken.                                    *)
ReadsOwn(c) == /\ flight.by = Id(c)
               /\ flight.taken = 0 => got[c] = {}
               /\ flight.taken = 1 /\ ~flight.bad => got[c] = {Id(c)}
               /\ flight.taken = 1 /\ flight.bad => message # NoCall

AnswerInv ==
  /\ owner = "slot" => \A c, d \in Callers : pc[c] # "out" /\ pc[d] # "out" => c = d
  /\ kinds = {"plain"} => \A c \in Callers : pc[c] # "idling"
  /\ \A c \in Callers : pc[c] = "idling" => got[c] = {}
  /\ Undisturbed => \A c \in Callers : pc[c] = "reading" => ReadsOwn(c)
  /\ Undisturbed =>
       \A c \in Callers : pc[c] = "out" /\ outcome[c] = "ok" => got[c] = {Id(c)}

(* At the start nobody reads and nothing has ended. *)
LEMMA InitAnswer == Init => AnswerInv
BY DEF Init, AnswerInv

(* Not sent, or not yet: the connection keeps whatever else is in flight.    *)
Unsent(c) == /\ \/ pc'[c] = "idling"
                \/ pc'[c] = "out" /\ outcome'[c] \in {"error", "timeout", "refused", "lost"}
             /\ flight'.by \in {flight.by, NoCall}

(* The call met the loss of the connection as it sent its command.           *)
Lost(c) == /\ pc'[c] = "out" /\ outcome'[c] = "lost"
           /\ flight'.by \in {flight.by, NoCall, Id(c)'}

Sent(c) == /\ pc'[c] = "reading"
           /\ flight' = Command(Id(c)')
           /\ message' = NoCall

(* A call that begins or drains the connection sends its command, goes on    *)
(* draining, or ends without having sent it or at the loss of the connection.*)
LEMMA SendOutcome ==
  ASSUME TypeOK, Sane, NEW c \in Callers, NEW id \in Ids, NEW f,
         f.by \in {flight.by, NoCall}, f = flight \/ f.by = NoCall,
         id = Id(c)', Send(c, id, f)
  PROVE  \/ (Sent(c) \/ Lost(c)) /\ f.by = NoCall
         \/ pc'[c] = "out" /\ Unsent(c) /\ flight' = flight /\ message' = Refusal
<1>1. CASE /\ f.by = NoCall /\ flight' = Command(id) /\ message' = NoCall
           /\ pc' = [pc EXCEPT ![c] = "reading"]
  BY <1>1 DEF Sent, TypeOK
<1>2. CASE f.by = NoCall /\ flight' \in {f, Command(id)} /\ Ends(c, "lost")
  <2>1. Command(id).by = id
    BY DEF Command
  <2> QED  BY <1>2, <2>1 DEF Lost, Ends, TypeOK
<1>3. CASE f.by # NoCall /\ flight' = flight /\ message' = Refusal /\ Ends(c, "refused")
  BY <1>3 DEF Unsent, Ends, TypeOK
<1> QED  BY <1>1, <1>2, <1>3 DEF Send

LEMMA EnsureIdleOutcome ==
  ASSUME TypeOK, Sane, NEW c \in Callers, NEW id \in Ids, id = Id(c)', EnsureIdle(c, id)
  PROVE  Sent(c) \/ Unsent(c) \/ Lost(c)
<1>1. ASSUME Suspend(c, "idling") \/ Ends(c, "error")
      PROVE  \/ pc'[c] = "idling"
             \/ pc'[c] = "out" /\ outcome'[c] \in {"error", "timeout", "refused"}
  BY <1>1 DEF Suspend, Ends, TypeOK
<1>2. CASE Busy /\ Suspend(c, "idling") /\ UNCHANGED <<link, flight, message>>
  BY <1>1, <1>2 DEF Unsent
<1>3. CASE /\ ~Busy /\ flight' = AfterRead
           /\ Suspend(c, "idling") \/ Ends(c, "error")
  <2>1. AfterRead.by \in {flight.by, NoCall}
    BY <1>3, AfterReadFlight DEF TypeOK
  <2> QED  BY <1>1, <1>3, <2>1 DEF Unsent
<1>4. CASE ~Busy /\ ReadOff /\ Send(c, id, AfterRead)
  BY <1>4, AfterReadFlight, SendOutcome
<1>5. CASE Notices(c) /\ UNCHANGED <<flight, message>>
  BY <1>5, NoticesTypes DEF Unsent
<1> QED  BY <1>2, <1>3, <1>4, <1>5 DEF EnsureIdle

(* The steps of a caller that has not sent its command. *)
Starts(c) == \/ BeginPlain(c) \/ BeginPrepared(c) \/ BeginOnLost(c)
             \/ Resume(c) /\ pc[c] = "idling"

LEMMA StartOutcome ==
  ASSUME TypeOK, Sane, NEW c \in Callers, Starts(c)
  PROVE  /\ Moves(c) /\ pc[c] # "reading" /\ Id(c)' \in Ids
         /\ UNCHANGED <<owner, kinds, applied>>
         /\ \A d \in Callers \ {c} : Id(d)' = Id(d) /\ got'[d] = got[d]
         /\ \/ pc[c] = "out" /\ Lent(c) /\ got'[c] = {} /\ made'[c] = made[c] + 1
            \/ pc[c] = "idling" /\ got'[c] = got[c] /\ made'[c] = made[c]
         /\ Sent(c) \/ Unsent(c) \/ Lost(c)
         /\ \/ kinds # {"plain"}
            \/ pc[c] = "idling"
            \/ (Sent(c) \/ Lost(c)) /\ flight.by = NoCall
            \/ /\ pc'[c] = "out" /\ Unsent(c) /\ flight' = flight
               /\ message' \in {message, Refusal}
<1>1. CASE BeginPlain(c) \/ BeginPrepared(c) \/ BeginOnLost(c)
  <2>1. /\ pc[c] = "out" /\ Lent(c) /\ made' = [made EXCEPT ![c] = @ + 1]
        /\ got' = [got EXCEPT ![c] = {}] /\ UNCHANGED <<owner, kinds, applied>>
        /\ made[c] < MaxCalls
    BY <1>1 DEF BeginPlain, BeginPrepared, BeginOnLost, Begin
  <2>2. /\ made'[c] = made[c] + 1 /\ got'[c] = {}
        /\ \A d \in Callers \ {c} : Id(d)' = Id(d) /\ got'[d] = got[d]
        /\ Id(c)' = <<c, made[c] + 1>> /\ <<c, made[c] + 1>> \in Ids
    BY <2>1, PgProtocolAssumption DEF TypeOK, Id, Ids
  <2>3. Moves(c)
    BY <1>1, <2>2, StartTypes
  <2>4. CASE BeginPlain(c)
    <3>1. Send(c, Id(c)', flight)
      BY <2>2, <2>4 DEF BeginPlain
    <3>2. \/ (Sent(c) \/ Lost(c)) /\ flight.by = NoCall
          \/ pc'[c] = "out" /\ Unsent(c) /\ flight' = flight /\ message' = Refusal
      BY <2>2, <3>1, SendOutcome
    <3> QED  BY <2>1, <2>2, <2>3, <3>2
  <2>5. CASE BeginPrepared(c)
    <3>1. EnsureIdle(c, Id(c)') /\ kinds # {"plain"}
      BY <2>2, <2>5 DEF BeginPrepared
    <3> QED  BY <2>1, <2>2, <2>3, <3>1, EnsureIdleOutcome
  <2>6. CASE BeginOnLost(c)
    <3>1. pc'[c] = "out" /\ Unsent(c) /\ flight' = flight /\ message' = message
      BY <2>6, NoticesTypes DEF BeginOnLost, Unsent
    <3> QED  BY <2>1, <2>2, <2>3, <3>1
  <2> QED  BY <1>1, <2>4, <2>5, <2>6
<1>2. CASE Resume(c) /\ pc[c] = "idling"
  <2>1. EnsureIdle(c, Id(c)) /\ UNCHANGED <<owner, kinds, applied, made, got>>
    BY <1>2 DEF Resume
  <2>2. Id(c) \in Ids /\ \A d \in Callers : Id(d)' = Id(d)
    BY <1>2, <2>1, PgProtocolAssumption DEF Id, Ids, TypeOK, Sane
  <2> QED  BY <1>2, <2>1, <2>2, EnsureIdleTypes, EnsureIdleOutcome
<1> QED  BY <1>1, <1>2 DEF Starts

(* A call that reads suspends, times out or meets a lost connection, takes   *)
(* the result before the end, or takes all there is and ends.                *)
LEMMA ReadOutcome ==
  ASSUME TypeOK, Sane, NEW c \in Callers, Resume(c), pc[c] = "reading"
  PROVE  /\ Moves(c) /\ UNCHANGED <<owner, kinds, applied, made>>
         /\ \A d \in Callers \ {c} : got'[d] = got[d]
         /\ \/ /\ pc'[c] = "reading" \/ (pc'[c] = "out" /\ outcome'[c] \in {"timeout", "lost"})
               /\ UNCHANGED <<flight, message, got>>
            \/ /\ pc'[c] = "reading" \/ (pc'[c] = "out" /\ outcome'[c] \in {"timeout", "lost"})
               /\ flight.by # NoCall /\ flight.taken = 0
               /\ flight' = [flight EXCEPT !.taken = 1]
               /\ message' = IF flight.bad THEN flight.by ELSE message
               /\ got'[c] = IF flight.bad THEN got[c] ELSE got[c] \cup {flight.by}
            \/ /\ pc'[c] = "out" /\ flight' = NoFlight
               /\ outcome'[c] = IF message' = NoCall THEN "ok" ELSE "error"
               /\ \/ /\ flight.by # NoCall /\ flight.taken = 0
                     /\ message' = IF flight.bad THEN flight.by ELSE message
                     /\ got'[c] = IF flight.bad THEN got[c] ELSE got[c] \cup {flight.by}
                  \/ /\ flight.by = NoCall \/ flight.taken = 1
                     /\ UNCHANGED <<message, got>>
         /\ link' = "up" => link = "up"
<1>1. ReadResults(c) /\ UNCHANGED <<owner, kinds, applied, made>>
  BY DEF Resume
<1>2. Moves(c)
  BY <1>1, ReadResultsTypes
<1>3. Suspend(c, "reading") => \/ pc'[c] = "reading"
                               \/ pc'[c] = "out" /\ outcome'[c] = "timeout"
  BY DEF Suspend, Ends, TypeOK
<1>4. \A how : Ends(c, how) => pc'[c] = "out" /\ outcome'[c] = how
  BY DEF Ends, TypeOK
<1>5. flight.taken \in {0, 1} /\ flight.arrived \in 0 .. 2 /\ flight.bad \in BOOLEAN
  BY DEF TypeOK
<1>6. Given(c) => /\ \A d \in Callers \ {c} : got'[d] = got[d]
                  /\ got'[c] = got[c] \cup (IF Took /\ ~flight.bad THEN {flight.by} ELSE {})
                  /\ ~Took => got' = got
  BY DEF Given, TypeOK
<1>7. CASE /\ Notices(c) \/ (Suspend(c, "reading") /\ UNCHANGED link)
           /\ UNCHANGED <<flight, message, got>>
  BY <1>1, <1>2, <1>3, <1>7, NoticesTypes
<1>8. CASE /\ ~Busy /\ ~ReadOff /\ UNCHANGED link /\ flight' = AfterRead /\ message' = MessageAfterRead
           /\ Given(c) /\ Suspend(c, "reading")
  <2>1. /\ flight.by # NoCall /\ flight.arrived = 1 /\ flight.taken = 0
        /\ flight' = [flight EXCEPT !.taken = 1]
    BY <1>8, AfterReadFlight
  <2>2. Took
    BY <2>1 DEF Took, Free
  <2>3. message' = IF flight.bad THEN flight.by ELSE message
    BY <1>8, <2>2 DEF MessageAfterRead
  <2>4. got'[c] = IF flight.bad THEN got[c] ELSE got[c] \cup {flight.by}
    BY <1>6, <1>8, <2>2
  <2> QED  BY <1>1, <1>2, <1>3, <1>6, <1>8, <2>1, <2>3, <2>4
<1>9. CASE /\ ~Busy /\ ReadOff /\ UNCHANGED link /\ flight' = AfterRead /\ message' = MessageAfterRead
           /\ Given(c) /\ Ends(c, IF MessageAfterRead = NoCall THEN "ok" ELSE "error")
  <2>1. /\ pc'[c] = "out" /\ flight' = NoFlight
        /\ outcome'[c] = IF message' = NoCall THEN "ok" ELSE "error"
    BY <1>4, <1>9, AfterReadFlight
  <2>2. CASE Took
    <3>1. flight.by # NoCall /\ flight.taken = 0
      BY <2>2 DEF Took, Free
    <3>2. message' = IF flight.bad THEN flight.by ELSE message
      BY <1>9, <2>2 DEF MessageAfterRead
    <3>3. got'[c] = IF flight.bad THEN got[c] ELSE got[c] \cup {flight.by}
      BY <1>6, <1>9, <2>2
    <3> QED  BY <1>1, <1>2, <1>6, <1>9, <2>1, <3>1, <3>2, <3>3
  <2>3. CASE ~Took
    <3>1. flight.by = NoCall \/ flight.taken = 1
      BY <1>5, <1>9, <2>3 DEF Took, Free, ReadOff
    <3>2. UNCHANGED <<message, got>>
      BY <1>6, <1>9, <2>3 DEF MessageAfterRead
    <3> QED  BY <1>1, <1>2, <1>6, <1>9, <2>1, <3>1, <3>2
  <2> QED  BY <2>2, <2>3
<1> QED  BY <1>1, <1>7, <1>8, <1>9 DEF ReadResults

(* A caller that has not sent its command disturbs nobody who reads.         *)
LEMMA StartAnswer ==
  ASSUME TypeOK, Sane, AnswerInv, NEW c \in Callers,
         Starts(c)
  PROVE  AnswerInv'
<1>1. /\ Moves(c) /\ pc[c] # "reading" /\ Id(c)' \in Ids
      /\ UNCHANGED <<owner, kinds, applied>>
      /\ \A d \in Callers \ {c} : Id(d)' = Id(d) /\ got'[d] = got[d]
      /\ \/ pc[c] = "out" /\ Lent(c) /\ got'[c] = {} /\ made'[c] = made[c] + 1
         \/ pc[c] = "idling" /\ got'[c] = got[c] /\ made'[c] = made[c]
      /\ Sent(c) \/ Unsent(c) \/ Lost(c)
      /\ \/ kinds # {"plain"}
         \/ pc[c] = "idling"
         \/ (Sent(c) \/ Lost(c)) /\ flight.by = NoCall
         \/ /\ pc'[c] = "out" /\ Unsent(c) /\ flight' = flight
            /\ message' \in {message, Refusal}
  BY StartOutcome
<1>2. got'[c] = {}
  BY <1>1 DEF AnswerInv
<1>3. owner = "slot" => \A d \in Callers \ {c} : pc[d] = "out"
  BY <1>1 DEF AnswerInv, Lent
<1>4. owner' = "slot" => \A d, e \in Callers : pc'[d] # "out" /\ pc'[e] # "out" => d = e
  BY <1>1, <1>3 DEF Moves
<1>5. kinds' = {"plain"} => \A d \in Callers : pc'[d] # "idling"
  BY <1>1 DEF AnswerInv, Moves, Sent, Lost
<1>6. \A d \in Callers : pc'[d] = "idling" => got'[d] = {}
  BY <1>1, <1>2 DEF AnswerInv, Moves
<1>7. ASSUME Undisturbed, NEW d \in Callers, pc'[d] = "reading" PROVE ReadsOwn(d)'
  <2>1. CASE d = c
    <3>1. flight' = Command(Id(c)')
      BY <1>1, <1>7, <2>1 DEF Sent, Unsent, Lost
    <3>2. flight'.by = Id(c)' /\ flight'.taken = 0
      BY <3>1 DEF Command
    <3> QED  BY <1>2, <2>1, <3>2 DEF ReadsOwn
  <2>2. CASE d # c
    <3>1. pc[d] = "reading" /\ ReadsOwn(d)
      BY <1>1, <1>7, <2>2 DEF AnswerInv, Moves
    <3>2. owner # "slot" /\ kinds = {"plain"}
      BY <1>3, <1>7, <2>2, <3>1 DEF Undisturbed
    <3>3. flight.by # NoCall
      BY <3>1, PgProtocolAssumption DEF ReadsOwn, Id, NoCall
    <3>4. flight' = flight /\ message' \in {message, Refusal}
      BY <1>1, <3>2, <3>3 DEF AnswerInv
    <3>5. Refusal # NoCall
      BY DEF Refusal, NoCall
    <3>6. Id(d)' = Id(d) /\ got'[d] = got[d]
      BY <1>1, <2>2
    <3> QED  BY <3>1, <3>4, <3>5, <3>6 DEF ReadsOwn
  <2> QED  BY <2>1, <2>2
<1>8. ASSUME Undisturbed, NEW d \in Callers, pc'[d] = "out", outcome'[d] = "ok"
      PROVE  got'[d] = {Id(d)'}
  <2>1. d # c
    BY <1>1, <1>8 DEF Sent, Unsent, Lost
  <2> QED  BY <1>1, <1>8, <2>1 DEF AnswerInv, Moves
<1>9. Undisturbed' <=> Undisturbed
  BY <1>1 DEF Undisturbed
<1> QED  BY <1>4, <1>5, <1>6, <1>7, <1>8, <1>9 DEF AnswerInv

(* A caller that reads takes its own result, and succeeds with it.           *)
LEMMA ReadAnswer ==
  ASSUME TypeOK, Sane, AnswerInv, NEW c \in Callers, Resume(c), pc[c] = "reading"
  PROVE  AnswerInv'
<1>1. /\ Moves(c) /\ UNCHANGED <<owner, kinds, applied, made>>
      /\ \A d \in Callers \ {c} : got'[d] = got[d]
      /\ pc'[c] # "idling"
  BY ReadOutcome
<1>2. \A d \in Callers : Id(d)' = Id(d)
  BY <1>1 DEF Id
<1>3. owner' = "slot" => \A d, e \in Callers : pc'[d] # "out" /\ pc'[e] # "out" => d = e
  BY <1>1 DEF AnswerInv, Moves
<1>4. kinds' = {"plain"} => \A d \in Callers : pc'[d] # "idling"
  BY <1>1 DEF AnswerInv, Moves
<1>5. \A d \in Callers : pc'[d] = "idling" => got'[d] = {}
  BY <1>1 DEF AnswerInv, Moves
<1>6. Undisturbed' <=> Undisturbed
  BY <1>1 DEF Undisturbed
<1>7. ASSUME Undisturbed
      PROVE  \A d \in Callers :
               /\ pc'[d] = "reading" => ReadsOwn(d)'
               /\ pc'[d] = "out" /\ outcome'[d] = "ok" => got'[d] = {Id(d)'}
  <2>1. ReadsOwn(c) /\ Id(c) # NoCall
    BY <1>7, PgProtocolAssumption DEF AnswerInv, Id, NoCall
  <2>2. \A d \in Callers \ {c} : pc'[d] # "reading"
    <3> SUFFICES ASSUME NEW d \in Callers \ {c}, pc[d] = "reading" PROVE FALSE
      BY <1>1 DEF Moves
    <3>1. ReadsOwn(d)
      BY <1>7 DEF AnswerInv
    <3> QED  BY <2>1, <3>1 DEF ReadsOwn, Id
  <2>3. \A d \in Callers \ {c} :
          pc'[d] = "out" /\ outcome'[d] = "ok" => got'[d] = {Id(d)'}
    BY <1>1, <1>2, <1>7 DEF AnswerInv, Moves
  <2>4. flight.taken \in {0, 1} /\ flight.bad \in BOOLEAN
    BY DEF TypeOK
  <2>5. CASE /\ pc'[c] = "reading" \/ (pc'[c] = "out" /\ outcome'[c] \in {"timeout", "lost"})
             /\ UNCHANGED <<flight, message, got>>
    <3>1. ReadsOwn(c)'
      BY <1>2, <2>1, <2>5 DEF ReadsOwn
    <3> QED  BY <2>2, <2>3, <2>5, <3>1
  <2>6. CASE /\ pc'[c] = "reading" \/ (pc'[c] = "out" /\ outcome'[c] \in {"timeout", "lost"})
             /\ flight.by # NoCall /\ flight.taken = 0
             /\ flight' = [flight EXCEPT !.taken = 1]
             /\ message' = IF flight.bad THEN flight.by ELSE message
             /\ got'[c] = IF flight.bad THEN got[c] ELSE got[c] \cup {flight.by}
    <3>1. flight'.by = flight.by /\ flight'.taken = 1 /\ flight'.bad = flight.bad
      BY <2>6 DEF TypeOK
    <3>2. ReadsOwn(c)'
      BY <1>2, <2>1, <2>6, <3>1 DEF ReadsOwn
    <3> QED  BY <2>2, <2>3, <2>6, <3>2
  <2>7. CASE /\ pc'[c] = "out" /\ flight' = NoFlight
             /\ outcome'[c] = IF message' = NoCall THEN "ok" ELSE "error"
             /\ \/ /\ flight.by # NoCall /\ flight.taken = 0
                   /\ message' = IF flight.bad THEN flight.by ELSE message
                   /\ got'[c] = IF flight.bad THEN got[c] ELSE got[c] \cup {flight.by}
                \/ /\ flight.by = NoCall \/ flight.taken = 1
                   /\ UNCHANGED <<message, got>>
    <3>1. outcome'[c] = "ok" => got'[c] = {Id(c)}
      BY <2>1, <2>4, <2>7 DEF ReadsOwn
    <3> QED  BY <1>2, <2>2, <2>3, <2>7, <3>1
  <2> QED  BY <2>5, <2>6, <2>7, ReadOutcome
<1> QED  BY <1>3, <1>4, <1>5, <1>6, <1>7 DEF AnswerInv

(* Every step keeps readers at their own results.                            *)
LEMMA NextAnswer == TypeOK /\ Sane /\ AnswerInv /\ [Next]_vars => AnswerInv'
<1> SUFFICES ASSUME TypeOK, Sane, AnswerInv, [Next]_vars PROVE AnswerInv'
  OBVIOUS
<1>1. ASSUME NEW c \in Callers, Resume(c) PROVE AnswerInv'
  <2>1. pc[c] = "idling" \/ pc[c] = "reading"
    BY <1>1 DEF Resume
  <2> QED  BY <1>1, <2>1, StartAnswer, ReadAnswer DEF Starts
<1>2. ASSUME NEW c \in Callers, TimerFires(c) PROVE AnswerInv'
  <2>1. Moves(c) /\ pc'[c] = "out" /\ outcome'[c] = "timeout"
    BY <1>2, EndsTypes DEF TimerFires, Ends, TypeOK, Ways
  <2>2. UNCHANGED <<owner, kinds, flight, message, made, got>>
    BY <1>2 DEF TimerFires
  <2>3. \A d \in Callers : ReadsOwn(d)' <=> ReadsOwn(d)
    BY <2>2 DEF ReadsOwn, Id
  <2>4. \A d \in Callers : /\ pc'[d] # "out" => pc'[d] = pc[d]
                           /\ pc'[d] = "out" /\ outcome'[d] = "ok" =>
                                pc[d] = "out" /\ outcome[d] = "ok"
    BY <2>1 DEF Moves
  <2> QED  BY <2>2, <2>3, <2>4 DEF AnswerInv, Undisturbed, Id
<1>3. CASE ServerSends
  <2>1. /\ flight'.by = flight.by /\ flight'.taken = flight.taken
        /\ flight.arrived # 0 => flight'.bad = flight.bad
        /\ flight.taken = 1 => flight.arrived # 0
    BY <1>3, ArrivedFields DEF Sane, TypeOK
  <2>2. UNCHANGED <<owner, kinds, message, pc, made, got, outcome>>
    BY <1>3, Zenon DEF ServerSends
  <2>3. \A d \in Callers : ReadsOwn(d) => ReadsOwn(d)'
    BY <2>1, <2>2 DEF ReadsOwn, Id
  <2> QED  BY <2>2, <2>3 DEF AnswerInv, Undisturbed, Id
<1>4. CASE Reconnect
  <2>1. /\ \A d \in Callers : pc[d] = "out"
        /\ UNCHANGED <<owner, kinds, pc, made, got, outcome>>
    BY <1>4 DEF Reconnect
  <2> QED  BY <2>1 DEF AnswerInv, Undisturbed, Id
<1>5. CASE UNCHANGED <<owner, kinds, flight, message, pc, made, got, outcome>>
  BY <1>5 DEF AnswerInv, Undisturbed, ReadsOwn, Id
<1> QED
  BY <1>1, <1>2, <1>3, <1>4, <1>5, StartAnswer
     DEF Starts, Next, DeadlinePasses, ConnectionLost, Finished, vars

(* A call that succeeds was given the result of its own command, whatever    *)
(* earlier calls left on the connection.                                     *)
THEOREM AnswersOwn == Spec => []OwnAnswer
<1>1. AnswerInv => OwnAnswer
  BY DEF AnswerInv, OwnAnswer, Undisturbed
<1>2. Init /\ [][Next]_vars => [](TypeOK /\ Sane /\ AnswerInv)
  BY InitTypes, NextTypes, InitAnswer, NextAnswer, PTL
<1> QED  BY <1>1, <1>2, PTL DEF Spec

-----------------------------------------------------------------------------
(* What a failed call has done                                               *)

(* Commands were sent by calls that have begun; on a slot, a call that has   *)
(* not sent its command has no effect, and one that reads knows an error     *)
(* only as its own.                                                          *)
Begun(id) == id[2] <= made[id[1]]

Effectless(c) == flight.by # Id(c) /\ Id(c) \notin applied

Fails(c) == \/ pc[c] = "idling"
            \/ pc[c] = "out" /\ outcome[c] \in {"error", "refused"}

HearsOwn(c) == /\ (link = "up" /\ flight.arrived = 0) \/ flight.bad => Id(c) \notin applied
               /\ flight.taken = 0 \/ ~flight.bad => message = NoCall

FlightBegun == flight.by # NoCall => Begun(flight.by)

AppliedBegun == \A id \in applied : Begun(id)

EffectInv ==
  /\ FlightBegun
  /\ AppliedBegun
  /\ owner = "slot" => \A c \in Callers : pc[c] = "reading" => HearsOwn(c)
  /\ owner = "slot" => \A c \in Callers : Fails(c) => Effectless(c)

(* At the start nothing was sent. *)
LEMMA InitEffect == Init => EffectInv
BY DEF Init, EffectInv, FlightBegun, AppliedBegun, Fails, NoFlight, Command

(* A call that has not sent its command yet sends one nobody has applied.    *)
LEMMA StartEffect ==
  ASSUME TypeOK, Sane, AnswerInv, EffectInv, NEW c \in Callers,
         Starts(c)
  PROVE  EffectInv'
<1>1. /\ Moves(c) /\ pc[c] # "reading" /\ Id(c)' \in Ids
      /\ UNCHANGED <<owner, kinds, applied>>
      /\ \A d \in Callers \ {c} : Id(d)' = Id(d) /\ got'[d] = got[d]
      /\ \/ pc[c] = "out" /\ Lent(c) /\ got'[c] = {} /\ made'[c] = made[c] + 1
         \/ pc[c] = "idling" /\ got'[c] = got[c] /\ made'[c] = made[c]
      /\ Sent(c) \/ Unsent(c) \/ Lost(c)
  BY StartOutcome
<1>2. owner = "slot" => \A d \in Callers \ {c} : pc[d] = "out"
  BY <1>1 DEF AnswerInv, Lent
<1>3. /\ Command(Id(c)').by = Id(c)' /\ Command(Id(c)').arrived = 0
      /\ Command(Id(c)').taken = 0 /\ ~Command(Id(c)').bad
  BY DEF Command
<1>4. made[c] \in Nat /\ applied \subseteq Ids /\ flight.by \in Ids \cup {NoCall}
  BY PgProtocolAssumption DEF TypeOK
<1>5. \A id \in Ids : Begun(id) => Begun(id)'
  <2> SUFFICES ASSUME NEW d \in Callers, NEW n \in 1 .. MaxCalls, n <= made[d]
               PROVE  n <= made'[d]
    BY DEF Begun, Ids
  <2>1. d # c => made'[d] = made[d]
    BY <1>1 DEF Id
  <2> QED  BY <1>1, <1>4, <2>1, PgProtocolAssumption
<1>6. FlightBegun'
  <2>1. Begun(Id(c))'
    BY <1>1, <1>4 DEF Begun, Id, Ids
  <2>2. CASE Sent(c)
    BY <1>3, <2>1, <2>2 DEF Sent, FlightBegun
  <2>3. CASE Unsent(c)
    <3>1. CASE flight'.by = NoCall
      BY <3>1 DEF FlightBegun
    <3>2. CASE flight'.by # NoCall
      <4>1. flight'.by = flight.by /\ flight.by \in Ids /\ Begun(flight.by)
        BY <1>4, <2>3, <3>2 DEF Unsent, EffectInv, FlightBegun
      <4> QED  BY <1>5, <4>1 DEF FlightBegun, Begun
    <3> QED  BY <3>1, <3>2
  <2>4. CASE Lost(c)
    <3>1. CASE flight'.by = NoCall
      BY <3>1 DEF FlightBegun
    <3>2. CASE flight'.by = flight.by /\ flight.by # NoCall
      <4>1. flight.by \in Ids /\ Begun(flight.by)
        BY <1>4, <3>2 DEF EffectInv, FlightBegun
      <4> QED  BY <1>5, <3>2, <4>1 DEF FlightBegun, Begun
    <3>3. CASE flight'.by = Id(c)'
      BY <2>1, <3>3 DEF FlightBegun, Begun
    <3> QED  BY <2>4, <3>1, <3>2, <3>3 DEF Lost
  <2> QED  BY <1>1, <2>2, <2>3, <2>4
<1>7. AppliedBegun'
  BY <1>1, <1>4, <1>5 DEF EffectInv, AppliedBegun
<1>8. owner = "slot" => flight.by # Id(c)' /\ Id(c)' \notin applied
  <2>1. CASE pc[c] = "idling"
    <3>1. Id(c)' = Id(c)
      BY <1>1, <2>1 DEF Id
    <3> QED  BY <2>1, <3>1 DEF EffectInv, Fails, Effectless
  <2>2. CASE pc[c] = "out"
    <3>1. Id(c)' = <<c, made[c] + 1>>
      BY <1>1, <2>2 DEF Id
    <3>2. ~Begun(Id(c)')
      BY <1>4, <3>1 DEF Begun
    <3>3. Id(c)' # NoCall
      BY <3>1, PgProtocolAssumption DEF NoCall
    <3> QED  BY <3>2, <3>3 DEF EffectInv, FlightBegun, AppliedBegun
  <2> QED  BY <1>1, <2>1, <2>2
<1>9. ASSUME owner = "slot", NEW d \in Callers, pc'[d] = "reading" PROVE HearsOwn(d)'
  <2>1. d = c /\ Sent(c)
    BY <1>1, <1>2, <1>9 DEF Moves, Sent, Unsent, Lost
  <2> QED  BY <1>1, <1>3, <1>8, <1>9, <2>1 DEF HearsOwn, Sent
<1>10. ASSUME owner = "slot", NEW d \in Callers, Fails(d)' PROVE Effectless(d)'
  <2>1. CASE d = c
    <3>1. Unsent(c)
      BY <1>1, <1>10, <2>1 DEF Fails, Sent, Lost
    <3>2. Id(c)' # NoCall
      BY PgProtocolAssumption DEF Id, NoCall
    <3> QED  BY <1>1, <1>8, <1>10, <2>1, <3>1, <3>2 DEF Effectless, Unsent
  <2>2. CASE d # c
    <3>1. Id(d)' = Id(d) /\ Effectless(d)
      BY <1>1, <1>10, <2>2 DEF EffectInv, Fails, Moves
    <3>2. Id(c)' # Id(d) /\ Id(d) # NoCall
      BY <2>2, PgProtocolAssumption DEF Id, NoCall
    <3> QED  BY <1>1, <1>3, <3>1, <3>2 DEF Effectless, Sent, Unsent, Lost
  <2> QED  BY <2>1, <2>2
<1> QED  BY <1>1, <1>6, <1>7, <1>9, <1>10 DEF EffectInv

(* A call that reads fails only by the error of its own command.             *)
LEMMA ReadEffect ==
  ASSUME TypeOK, Sane, AnswerInv, EffectInv, NEW c \in Callers, Resume(c), pc[c] = "reading"
  PROVE  EffectInv'
<1>1. /\ Moves(c) /\ UNCHANGED <<owner, kinds, applied, made>>
      /\ pc'[c] # "idling" /\ (link' = "up" => link = "up")
  BY ReadOutcome
<1>2. \A d \in Callers : Id(d)' = Id(d)
  BY <1>1 DEF Id
<1>3. /\ flight'.by \in {flight.by, NoCall}
      /\ pc'[c] = "reading" => /\ flight'.by = flight.by /\ flight'.bad = flight.bad
                               /\ flight'.arrived = flight.arrived
  <2>1. CASE flight' = flight
    BY <2>1
  <2>2. CASE flight' = [flight EXCEPT !.taken = 1]
    BY <2>2 DEF TypeOK
  <2>3. CASE flight' = NoFlight /\ pc'[c] = "out"
    BY <2>3 DEF NoFlight, Command
  <2> QED  BY <2>1, <2>2, <2>3, ReadOutcome
<1>4. FlightBegun' /\ AppliedBegun'
  BY <1>1, <1>3 DEF EffectInv, FlightBegun, AppliedBegun, Begun
<1>5. ASSUME owner = "slot"
      PROVE  \A d \in Callers : /\ pc'[d] = "reading" => HearsOwn(d)'
                                /\ Fails(d)' => Effectless(d)'
  <2>1. ReadsOwn(c) /\ HearsOwn(c) /\ Id(c) # NoCall
    BY <1>5, PgProtocolAssumption DEF AnswerInv, EffectInv, Undisturbed, Id, NoCall
  <2>2. \A d \in Callers \ {c} : pc'[d] = "out"
    BY <1>1, <1>5 DEF AnswerInv, Moves
  <2>3. \A d \in Callers \ {c} : Fails(d)' => Effectless(d)'
    <3> SUFFICES ASSUME NEW d \in Callers \ {c}, Fails(d)' PROVE Effectless(d)'
      OBVIOUS
    <3>1. Effectless(d) /\ Id(d) # NoCall
      BY <1>1, <1>5, PgProtocolAssumption DEF EffectInv, Fails, Moves, Id, NoCall
    <3> QED  BY <1>1, <1>2, <1>3, <3>1 DEF Effectless
  <2>4. flight.taken \in {0, 1} /\ flight.bad \in BOOLEAN
    BY DEF TypeOK
  <2>5. CASE /\ pc'[c] = "reading" \/ (pc'[c] = "out" /\ outcome'[c] \in {"timeout", "lost"})
             /\ UNCHANGED <<flight, message, got>>
    <3>1. HearsOwn(c)' /\ ~Fails(c)'
      BY <1>1, <1>2, <2>1, <2>5 DEF HearsOwn, Fails
    <3> QED  BY <2>2, <2>3, <3>1
  <2>6. CASE /\ pc'[c] = "reading" \/ (pc'[c] = "out" /\ outcome'[c] \in {"timeout", "lost"})
             /\ flight.taken = 0
             /\ flight' = [flight EXCEPT !.taken = 1]
             /\ message' = IF flight.bad THEN flight.by ELSE message
    <3>1. /\ flight'.arrived = flight.arrived /\ flight'.taken = 1
          /\ flight'.bad = flight.bad
      BY <2>6 DEF TypeOK
    <3>2. HearsOwn(c)' /\ ~Fails(c)'
      BY <1>1, <1>2, <2>1, <2>4, <2>6, <3>1 DEF HearsOwn, Fails
    <3> QED  BY <2>2, <2>3, <3>2
  <2>7. CASE /\ pc'[c] = "out" /\ flight' = NoFlight
             /\ outcome'[c] = IF message' = NoCall THEN "ok" ELSE "error"
             /\ \/ message' = IF flight.bad THEN flight.by ELSE message
                \/ flight.taken = 1 /\ message' = message
    <3>1. NoFlight.by = NoCall
      BY DEF NoFlight, Command
    <3>2. message' # NoCall => flight.bad
      <4> SUFFICES ASSUME ~flight.bad PROVE message' = NoCall
        BY <2>4
      <4>1. message = NoCall
        BY <2>1 DEF HearsOwn
      <4> QED  BY <2>7, <4>1
    <3>3. Fails(c)' => Effectless(c)'
      BY <1>1, <1>2, <2>1, <2>7, <3>1, <3>2 DEF Fails, Effectless, HearsOwn
    <3> QED  BY <2>2, <2>3, <2>7, <3>3
  <2>8. flight.by # NoCall
    BY <2>1 DEF ReadsOwn
  <2> QED  BY <2>5, <2>6, <2>7, <2>8, ReadOutcome
<1> QED  BY <1>1, <1>4, <1>5 DEF EffectInv

(* Every step keeps the effects of a slot's calls known.                     *)
LEMMA NextEffect == TypeOK /\ Sane /\ AnswerInv /\ EffectInv /\ [Next]_vars => EffectInv'
<1> SUFFICES ASSUME TypeOK, Sane, AnswerInv, EffectInv, [Next]_vars PROVE EffectInv'
  OBVIOUS
<1>1. ASSUME NEW c \in Callers, Resume(c) PROVE EffectInv'
  <2>1. pc[c] = "idling" \/ pc[c] = "reading"
    BY <1>1 DEF Resume
  <2> QED  BY <1>1, <2>1, StartEffect, ReadEffect DEF Starts
<1>2. ASSUME NEW c \in Callers, TimerFires(c) PROVE EffectInv'
  <2>1. Moves(c) /\ pc'[c] = "out" /\ outcome'[c] = "timeout"
    BY <1>2, EndsTypes DEF TimerFires, Ends, TypeOK, Ways
  <2>2. UNCHANGED <<owner, link, flight, message, applied, made>>
    BY <1>2 DEF TimerFires
  <2>3. \A d \in Callers : /\ Fails(d)' => Fails(d)
                           /\ pc'[d] = "reading" => pc[d] = "reading"
                           /\ HearsOwn(d)' <=> HearsOwn(d)
                           /\ Effectless(d)' <=> Effectless(d)
    BY <2>1, <2>2 DEF Moves, Fails, HearsOwn, Effectless, Id
  <2> QED  BY <2>2, <2>3 DEF EffectInv, FlightBegun, AppliedBegun, Begun
<1>3. CASE ServerSends
  <2>1. /\ flight.by \in Ids /\ flight'.by = flight.by /\ flight'.taken = flight.taken
        /\ flight'.arrived > flight.arrived /\ flight'.bad \in BOOLEAN
        /\ flight.arrived # 0 => flight'.bad = flight.bad /\ applied' = applied
        /\ flight'.bad => applied' = applied
        /\ applied' \in {applied, applied \cup {flight.by}}
        /\ flight.arrived \in Nat /\ flight.taken \in Nat /\ flight.taken <= flight.arrived
        /\ flight.by # NoCall
    BY <1>3, ArrivedFields, PgProtocolAssumption DEF Flights, TypeOK, Sane, Ids, NoCall
  <2>2. UNCHANGED <<owner, link, message, pc, made, outcome>> /\ link = "up"
    BY <1>3, Zenon DEF ServerSends
  <2>3. \A d \in Callers : Id(d)' = Id(d) /\ (Fails(d)' <=> Fails(d))
    BY <2>2 DEF Id, Fails
  <2>4. \A d \in Callers : Effectless(d) => Effectless(d)'
    BY <2>1, <2>3 DEF Effectless
  <2>5. \A d \in Callers : HearsOwn(d) => HearsOwn(d)'
    BY <2>1, <2>2, <2>3 DEF HearsOwn
  <2> QED  BY <2>1, <2>2, <2>3, <2>4, <2>5 DEF EffectInv, FlightBegun, AppliedBegun, Begun
<1>4. CASE Reconnect
  <2>1. /\ \A d \in Callers : pc[d] = "out"
        /\ flight' = NoFlight /\ UNCHANGED <<owner, applied, pc, made, outcome>>
    BY <1>4 DEF Reconnect
  <2>2. NoFlight.by = NoCall /\ \A d \in Callers : Id(d) # NoCall
    BY PgProtocolAssumption DEF NoFlight, Command, Id, NoCall
  <2>3. \A d \in Callers : Id(d)' = Id(d) /\ (Fails(d)' <=> Fails(d))
    BY <2>1 DEF Id, Fails
  <2> QED  BY <2>1, <2>2, <2>3 DEF EffectInv, FlightBegun, AppliedBegun, Begun, Effectless
<1>5. CASE ConnectionLost
  <2>1. PICK ran \in SUBSET {flight.by} :
          /\ ran # {} => ~Free /\ flight.arrived = 0
          /\ applied' = applied \cup ran
    BY <1>5 DEF ConnectionLost
  <2>2. /\ link' = "down" /\ UNCHANGED <<owner, flight, message, pc, made, outcome>>
        /\ flight.arrived = 0 => ~flight.bad
    BY <1>5 DEF ConnectionLost, Sane
  <2>3. \A d \in Callers : Id(d)' = Id(d) /\ (Fails(d)' <=> Fails(d))
    BY <2>2 DEF Id, Fails
  <2>4. \A d \in Callers : Effectless(d) => Effectless(d)'
    BY <2>1, <2>2, <2>3 DEF Effectless
  <2>5. \A d \in Callers : HearsOwn(d) => HearsOwn(d)'
    BY <2>1, <2>2, <2>3 DEF HearsOwn
  <2>6. FlightBegun' /\ AppliedBegun'
    BY <2>1, <2>2 DEF EffectInv, FlightBegun, AppliedBegun, Begun, Free
  <2> QED  BY <2>2, <2>3, <2>4, <2>5, <2>6 DEF EffectInv
<1>6. CASE UNCHANGED <<owner, link, flight, message, applied, pc, made, outcome>>
  BY <1>6 DEF EffectInv, FlightBegun, AppliedBegun, Begun, HearsOwn, Effectless, Fails, Id
<1> QED
  BY <1>1, <1>2, <1>3, <1>4, <1>5, <1>6, StartEffect
     DEF Starts, Next, DeadlinePasses, Finished, vars

(* On a slot, a call that raised the server's error or was refused has had   *)
(* no effect on the server.                                                  *)
THEOREM FailuresHarmless == Spec => []ErrorMeansNoEffect
<1>1. EffectInv => ErrorMeansNoEffect
  BY DEF EffectInv, ErrorMeansNoEffect, Fails, Effectless
<1>2. Init /\ [][Next]_vars => [](TypeOK /\ Sane /\ AnswerInv /\ EffectInv)
  BY InitTypes, NextTypes, InitAnswer, NextAnswer, InitEffect, NextEffect, PTL
<1> QED  BY <1>1, <1>2, PTL DEF Spec
=============================================================================
