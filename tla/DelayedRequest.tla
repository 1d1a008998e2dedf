--------------------------- MODULE DelayedRequest ---------------------------
(***************************************************************************)
(* Requests that are put off.  A setpoint, a pump speed or a dimmer level  *)
(* that comes in is not sent to the panel at once: the network thread      *)
(* writes it into the one record aqdata->unactioned (programDeviceValue,   *)
(* programDeviceLightBrightness), and the main loop acts on it when the    *)
(* record is more than two seconds old (action_delayed_request).  So only  *)
(* the last of a burst of MQTT messages is acted on.  The record is        *)
(* written and read field by field, without a lock.                        *)
(*                                                                         *)
(* A request is known by its number, which also stands for its value and   *)
(* its id.  Definitions marked (Fault) are not part of the specification.  *)
(***************************************************************************)
EXTENDS Integers, Sequences

CONSTANTS
    Types,     \* the types of request that come in
    Delay,     \* seconds until a request from MQTT is old enough (3)
    Extra,     \* seconds that a follow-up waits beyond that (5)
    Requests   \* bound: how many requests come in

(* "SETPOINT" is that of the pool, the spa, the chiller or the freeze       *)
(* protection; "LIGHT" is the brightness of a dimmer.                       *)
Type == {"SETPOINT", "SWG", "BOOST", "PUMP", "VSPROGRAM", "INCREMENT", "LIGHT"}

ASSUME RequestAssumption ==
    /\ Types \subseteq Type
    /\ {Delay, Extra, Requests} \subseteq Nat

VARIABLES
    unactioned,  \* the record; due is the time left until it is old enough
    net,         \* the writes that the network thread has still to make
    main,        \* where the main thread is
    seen,        \* the type that the main thread has read
    clears,      \* the writes that the main thread has still to make
    lightOn,     \* the dimmer is on
    unitsKnown,  \* temp_units is no longer UNKNOWN
    made,        \* made[n]: the n-th request
    acted,       \* what was acted on last: its type, value and id
    quiet,       \* seconds since the last request that was put off came in
    followUp,    \* the request whose follow-up has still to be acted on, or 0
    raced        \* both threads have been in the record at a time

vars == <<unactioned, net, main, seen, clears, lightOn, unitsKnown, made, acted,
          quiet, followUp, raced>>

(* One request: its type, whether it came by MQTT, and, for a dimmer,       *)
(* whether its level is none of 25, 50, 75 and 100.                         *)
Request == [type : Types, mqtt : BOOLEAN, fine : BOOLEAN]

NoAction == [type |-> "NO_ACTION", value |-> -1, id |-> -1, due |-> 0]

Field == {"type", "value", "id", "due"}
Write == [field : Field, val : Type \cup {"NO_ACTION"} \cup Int]
Set(f, v) == [field |-> f, val |-> v]

TypeOK ==
    /\ unactioned.type \in Type \cup {"NO_ACTION"}
    /\ {unactioned.value, unactioned.id} \subseteq {-1} \cup 1..Requests
    /\ unactioned.due \in 0..(Delay + Extra)
    /\ Len(net) <= 5 /\ Len(clears) <= 8
    /\ main \in {"watching", "acting", "applying", "clearing"}
    /\ seen \in Type \cup {"NO_ACTION"}
    /\ {lightOn, unitsKnown, raced} \subseteq BOOLEAN
    /\ made \in Seq(Request) /\ Len(made) <= Requests
    /\ acted.type \in Type \cup {"NO_ACTION"}
    /\ quiet \in 0..Delay
    /\ followUp \in 0..Requests

Init ==
    /\ unactioned = NoAction
    /\ net = <<>>
    /\ main = "watching"
    /\ seen = "NO_ACTION"
    /\ clears = <<>>
    /\ lightOn \in BOOLEAN
    /\ unitsKnown = FALSE
    /\ made = <<>>
    /\ acted = [type |-> "NO_ACTION", value |-> -1, id |-> -1]
    /\ quiet = 0
    /\ followUp = 0
    /\ raced = FALSE

Notice == raced' = (raced \/ (net' # <<>> /\ main' # "watching"))

Assign(w) == unactioned' = [unactioned EXCEPT ![w.field] = w.val]

-----------------------------------------------------------------------------
(* programDeviceValue: the fields in the order in which it writes them.  A  *)
(* pump program leaves the value as it is.                                  *)
ValueWrites(n, r) ==
    (IF r.type = "VSPROGRAM" THEN <<>> ELSE <<Set("value", n)>>)
        \o <<Set("type", r.type), Set("id", n), Set("due", IF r.mqtt THEN Delay ELSE 0)>>

(* action_URI writes the value of a SWG percent before it makes the request,*)
(* that of a SWG setpoint it does not.                                      *)
EarlyWrites(n, r) == {<<>>} \cup (IF r.type = "SWG" THEN {<<Set("value", n)>>} ELSE {})

(* (Fault) The extra seconds are added to every request for a dimmer.       *)
LightWritesLater(n, due) ==
    <<Set("due", due + Extra), Set("value", n), Set("type", "LIGHT"), Set("id", n)>>

(* programDeviceLightBrightness for MQTT: it has its own order.             *)
LightWrites(n, due) ==
    <<Set("due", due), Set("value", n), Set("type", "LIGHT"), Set("id", n)>>

(* programDeviceLightBrightness otherwise: a light that is off is switched  *)
(* on by a menu program that knows four levels only; for any other level a  *)
(* follow-up is queued that will set the right one.                         *)
NeedsFollowUp(r) == ~lightOn /\ r.fine
FollowUp(n, r) == IF NeedsFollowUp(r) THEN LightWrites(n, Delay + Extra) ELSE <<>>

(* panel_device_request, called by the network thread.                      *)
Receive(r) ==
    LET n == Len(made) + 1
        direct == r.type = "LIGHT" /\ ~r.mqtt
    IN /\ net = <<>>
       /\ n <= Requests
       /\ r.fine => r.type = "LIGHT"
       /\ made' = Append(made, r)
       /\ \E early \in EarlyWrites(n, r) :
             net' = CASE direct -> FollowUp(n, r)
                      [] r.type = "LIGHT" /\ r.mqtt -> LightWrites(n, Delay)
                      [] OTHER -> early \o ValueWrites(n, r)
       /\ quiet' = IF net' = <<>> THEN quiet ELSE 0
       /\ followUp' = IF direct /\ NeedsFollowUp(r) THEN n
                      ELSE IF direct THEN followUp ELSE 0
       /\ acted' = IF direct THEN [type |-> "LIGHT", value |-> n, id |-> n] ELSE acted
       /\ UNCHANGED <<unactioned, main, seen, clears, lightOn, unitsKnown>>
       /\ Notice

NetWrite ==
    /\ net # <<>>
    /\ Assign(Head(net))
    /\ net' = Tail(net)
    /\ UNCHANGED <<main, seen, clears, lightOn, unitsKnown, made, acted, quiet, followUp>>
    /\ Notice

-----------------------------------------------------------------------------
(* (Fault) The age of the request is not looked at.                         *)
NoticeYoung ==
    /\ main = "watching"
    /\ unactioned.type # "NO_ACTION"
    /\ main' = "acting"
    /\ UNCHANGED <<unactioned, net, seen, clears, lightOn, unitsKnown, made, acted,
                   quiet, followUp>>
    /\ Notice

(* The main loop: there is a request and it is old enough.                  *)
NoticeDue ==
    /\ main = "watching"
    /\ unactioned.type # "NO_ACTION"
    /\ unactioned.due = 0
    /\ main' = "acting"
    /\ UNCHANGED <<unactioned, net, seen, clears, lightOn, unitsKnown, made, acted,
                   quiet, followUp>>
    /\ Notice

(* (Fault) A setpoint is dropped, not kept, while the units are unknown.    *)
ChooseOrDrop ==
    /\ main = "acting"
    /\ seen' = unactioned.type
    /\ main' = IF ~unitsKnown /\ seen' = "SETPOINT" THEN "clearing" ELSE "applying"
    /\ clears' = <<Set("type", "NO_ACTION"), Set("value", -1), Set("id", -1), Set("due", 0)>>
    /\ UNCHANGED <<unactioned, net, lightOn, unitsKnown, made, acted, quiet, followUp>>
    /\ Notice

(* action_delayed_request: a setpoint is kept until the units are known.    *)
Choose ==
    /\ main = "acting"
    /\ seen' = unactioned.type
    /\ main' = IF ~unitsKnown /\ seen' = "SETPOINT" THEN "watching" ELSE "applying"
    /\ UNCHANGED <<unactioned, net, clears, lightOn, unitsKnown, made, acted, quiet, followUp>>
    /\ Notice

(* The branch of that type reads the value and hands it to the programmer,  *)
(* or sets the light here and now.  At the end every field is reset.        *)
Apply ==
    LET n == unactioned.value
        follows == seen = "LIGHT" /\ n \in DOMAIN made /\ NeedsFollowUp(made[n])
    IN /\ main = "applying"
       /\ main' = "clearing"
       /\ acted' = [type |-> seen, value |-> n, id |-> unactioned.id]
       /\ clears' = (IF follows THEN FollowUp(n, made[n]) ELSE <<>>)
                    \o <<Set("type", "NO_ACTION"), Set("value", -1), Set("id", -1),
                         Set("due", 0)>>
       /\ followUp' = IF follows THEN n ELSE IF seen = "LIGHT" THEN 0 ELSE followUp
       /\ UNCHANGED <<unactioned, net, seen, lightOn, unitsKnown, made, quiet>>
       /\ Notice

(* (Fault) The type is not reset.                                           *)
ClearSome ==
    /\ main = "clearing"
    /\ clears # <<>>
    /\ IF Head(clears).field = "type" THEN UNCHANGED unactioned ELSE Assign(Head(clears))
    /\ clears' = Tail(clears)
    /\ main' = IF clears' = <<>> THEN "watching" ELSE "clearing"
    /\ UNCHANGED <<net, seen, lightOn, unitsKnown, made, acted, quiet, followUp>>
    /\ Notice

Clear ==
    /\ main = "clearing"
    /\ Assign(Head(clears))
    /\ clears' = Tail(clears)
    /\ main' = IF clears' = <<>> THEN "watching" ELSE "clearing"
    /\ UNCHANGED <<net, seen, lightOn, unitsKnown, made, acted, quiet, followUp>>
    /\ Notice

-----------------------------------------------------------------------------
(* A second passes.                                                         *)
Tick ==
    /\ unactioned.due > 0 \/ quiet < Delay
    /\ unactioned' = [unactioned EXCEPT !.due = IF @ > 0 THEN @ - 1 ELSE 0]
    /\ quiet' = IF quiet < Delay THEN quiet + 1 ELSE quiet
    /\ UNCHANGED <<net, main, seen, clears, lightOn, unitsKnown, made, acted, followUp, raced>>

(* Messages of the panel: its units (setUnits), and the light goes on or off.*)
SetUnits ==
    /\ ~unitsKnown
    /\ unitsKnown' = TRUE
    /\ UNCHANGED <<unactioned, net, main, seen, clears, lightOn, made, acted, quiet,
                   followUp, raced>>

LightChanges ==
    /\ lightOn' = ~lightOn
    /\ UNCHANGED <<unactioned, net, main, seen, clears, unitsKnown, made, acted, quiet,
                   followUp, raced>>

MainStep == NoticeDue \/ Choose \/ Apply \/ Clear

Next ==
    \/ \E r \in Request : Receive(r)
    \/ NetWrite
    \/ MainStep
    \/ Tick \/ SetUnits \/ LightChanges

Spec == Init /\ [][Next]_vars

(* Both threads run, time passes, and the panel tells its units.            *)
Fairness == WF_vars(NetWrite) /\ WF_vars(MainStep) /\ WF_vars(Tick) /\ WF_vars(SetUnits)

FairSpec == Spec /\ Fairness

-----------------------------------------------------------------------------
(* What is acted on is one request, and not the type or the id of one with  *)
(* the value of another.  A pump program has no value of its own.           *)
WholeRequest ==
    \/ raced
    \/ acted.type = "NO_ACTION"
    \/ /\ acted.id \in DOMAIN made
       /\ made[acted.id].type = acted.type
       /\ acted.type # "VSPROGRAM" => acted.value = acted.id

(* A request from MQTT is acted on when none has come for the whole delay:  *)
(* of a burst only the last is acted on.                                    *)
ByMQTT(n) == n \in DOMAIN made' /\ made'[n].mqtt
QuietBeforeAction ==
    [][acted' # acted /\ ~raced' /\ ByMQTT(acted'.id) => quiet >= Delay]_vars

(* A request that is put off is acted on in the end, unless a later one     *)
(* takes its place.                                                         *)
PutOff(n) ==
    /\ Len(made) = n
    /\ net # <<>> \/ (unactioned.type # "NO_ACTION" /\ unactioned.id = n)
LastRequestWins ==
    \A n \in 1..Requests : PutOff(n) ~> (acted.id = n \/ Len(made) > n \/ raced)

(* Once queued, the follow-up that corrects the level of a dimmer stays     *)
(* queued until it is acted on or another request replaces it.              *)
FollowUpStays ==
    followUp # 0 /\ net = <<>> /\ main = "watching" /\ ~raced =>
        unactioned.type = "LIGHT" /\ unactioned.value = followUp
=============================================================================
