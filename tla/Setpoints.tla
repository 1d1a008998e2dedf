------------------------------- MODULE Setpoints -------------------------------
(* The way of a set point: a request (net_services.c action_URI) is limited *)
(* and put off (aq_panel.c programDeviceValue), limited again and compared  *)
(* with the set point that is known (aqualinkd.c action_delayed_request),   *)
(* sent to one of the protocols (aq_programmer.c) and, by most of them,     *)
(* limited once more when the panel is set.  The units and set points that  *)
(* are known come with messages of the panel, and may be those of before.   *)
(* On a panel with one body of water the pool's set point is TEMP1 and the  *)
(* spa's TEMP2, and TEMP1 must stay above TEMP2.  When a request is old     *)
(* enough to be acted on is left open here.                                 *)
EXTENDS Integers, Sequences

CONSTANTS
    Points,      \* the set points
    Setups,      \* panels: celsius, single (TEMP1 and TEMP2), via, what sets it,
                 \* and points, those of Points that are asked for
    AskedC,      \* the temperatures that are asked for, in degrees Celsius
    PanelC,      \* the set points of the panel at first
    SetRequests, \* bound: requests
    Disturbances \* bound: changes at the panel, programs that fail, commands dropped

Via == {"menu", "touch", "pda", "adapter", "iaqualink"}
NotKnown == -999  \* TEMP_UNKNOWN

ASSUME SetpointAssumption ==
    /\ {"pool", "spa"} \subseteq Points /\ Points \subseteq {"pool", "spa", "freeze", "chiller"}
    /\ Setups \subseteq [celsius : BOOLEAN, single : BOOLEAN, via : Via, points : SUBSET Points]
    /\ AskedC \subseteq Int /\ PanelC \in [Points -> Int]
    /\ PanelC["pool"] > PanelC["spa"] /\ PanelC["pool"] <= 40 /\ PanelC["spa"] >= 3
    /\ {SetRequests, Disturbances} \subseteq Nat

VARIABLES
    setup,      \* which of Setups it is
    units,      \* temp_units
    knownPoint, \* pool_htr_set_point, spa_htr_set_point and the others
    panelPoint, \* the panel's
    pending,    \* unactioned: type, value; what is "none" if there is nothing
    due,        \* the threads and commands that have still to set the panel
    intended,   \* intended[p]: what the panel should be set to, if anything (history)
    excused,    \* excused[p]: that is not certain any more (history)
    unordered,  \* a set point was limited by another one, or in units, that were
                \* not so (history)
    requests, disturbances

setpointVars == <<setup, units, knownPoint, panelPoint, pending, due, intended, excused,
                  unordered, requests, disturbances>>
setpointHistory == <<intended, excused, unordered>>
setpointCounts == <<requests, disturbances>>

Pending(w, p, v) == [what |-> w, point |-> p, value |-> v]
NoRequest == Pending("none", "pool", 0)

ToF(c) == (18 * c + 325) \div 10    \* round(degCtoF(c))
PanelUnits == IF setup.celsius THEN "C" ELSE "F"
OnPanel(c) == IF setup.celsius THEN c ELSE ToF(c)

SetpointInit ==
    /\ setup \in Setups
    /\ units = "unknown" /\ knownPoint = [p \in Points |-> NotKnown]
    /\ panelPoint = [p \in Points |-> OnPanel(PanelC[p])]
    /\ pending = NoRequest /\ due = <<>>
    /\ intended = [p \in Points |-> NotKnown] /\ excused = [p \in Points |-> FALSE]
    /\ unordered = FALSE /\ requests = 0 /\ disturbances = 0

-----------------------------------------------------------------------------
Heaters == {"pool", "spa"}
Temps == setup.single
TheOther(p) == IF p = "pool" THEN "spa" ELSE "pool"

(* The ranges; units that are not known count as Fahrenheit.                *)
Least(p, u) ==
    (IF u = "C" THEN (IF p = "freeze" THEN 1 ELSE 0) ELSE IF p \in Heaters THEN 36 ELSE 34)
        + (IF setup.single /\ p = "pool" THEN 1 ELSE 0)
Most(p, u) ==
    (IF u = "C" THEN (IF p = "freeze" THEN 5 ELSE 40) ELSE IF p = "freeze" THEN 42 ELSE 104)
        - (IF setup.single /\ p = "spa" THEN 1 ELSE 0)
Within(v, least, most) == IF v > most THEN most ELSE IF v < least THEN least ELSE v
InRange(p, v, u) == Within(v, Least(p, u), Most(p, u))

setpoint_check(p, v) ==
    LET least == Least(p, units)
        most == Most(p, units)
        bound == Temps /\ p \in Heaters /\ knownPoint[TheOther(p)] # NotKnown
        other == knownPoint[TheOther(p)]
    IN CASE bound /\ p = "pool" /\ least <= other -> Within(v, other + 1, most)
         [] bound /\ p = "spa" /\ most >= other -> Within(v, least, other - 1)
         [] OTHER -> Within(v, least, most)

(* TEMP1 or TEMP2 is moved because of the other one.                        *)
Moved(p, v) == setpoint_check(p, v) # InRange(p, v, units)

-----------------------------------------------------------------------------
Askable(p) == p \in setup.points /\ (p = "chiller" => setup.via \in {"touch", "iaqualink"})
Excuse(p, when) == excused' = [excused EXCEPT ![p] = @ \/ when]

(* A request that is put off takes the place of one for another set point.  *)
Replaced(p, now) ==
    excused' = [q \in Points |-> IF q = p THEN now
                                 ELSE excused[q] \/ (pending # NoRequest /\ pending.point = q)]

(* programDeviceValue, for a value that comes by MQTT in degrees Celsius or *)
(* from a web page in the units of the panel.                               *)
AskSetpoint(p) == \E c \in AskedC, mqtt \in BOOLEAN :
    LET v == IF mqtt THEN (IF units = "C" THEN c ELSE ToF(c)) ELSE OnPanel(c)
    IN /\ Askable(p) /\ requests < SetRequests /\ requests' = requests + 1
       /\ pending' = Pending("set", p, setpoint_check(p, v))
       /\ intended' = [intended EXCEPT ![p] = InRange(p, OnPanel(c), PanelUnits)]
       /\ Replaced(p, Moved(p, v) \/ (setup.celsius /\ units = "unknown"))
       /\ UNCHANGED <<setup, units, knownPoint, panelPoint, due, unordered, disturbances>>

(* An increment: the adapter only.                                          *)
AskIncrement(p) ==
    /\ setup.via = "adapter" /\ p \in setup.points \cap Heaters
    /\ requests < SetRequests /\ requests' = requests + 1
    /\ pending' = Pending("increment", p, 1)
    /\ intended' = [intended EXCEPT ![p] = NotKnown]
    /\ Replaced(p, FALSE)
    /\ UNCHANGED <<setup, units, knownPoint, panelPoint, due, unordered, disturbances>>

-----------------------------------------------------------------------------
(* _aq_programmer_: what sets the point.                                    *)
Route(p) ==
    IF setup.via = "pda" THEN "pda"
    ELSE IF p = "freeze" THEN "menu"
    ELSE IF p = "chiller" THEN "touch"
    ELSE setup.via
Queued == {"adapter", "iaqualink"}
Program(p, v) == [point |-> p, value |-> v, route |-> Route(p),
                  other |-> IF Temps /\ p \in Heaters THEN knownPoint[TheOther(p)] ELSE NotKnown]
IsDue(p) == \E k \in DOMAIN due : due[k].point = p

(* action_delayed_request: a set point that is known to be so is not set.   *)
(* Threads that wait for the slot get it in any order.                      *)
ActOnSet ==
    LET p == pending.point
        v == setpoint_check(p, pending.value)
    IN /\ pending.what = "set" /\ units # "unknown"
       /\ due' = IF knownPoint[p] = v THEN due ELSE Append(due, Program(p, v))
       /\ UNCHANGED <<intended, unordered>>
       /\ Excuse(p, \/ Moved(p, pending.value)
                    \/ knownPoint[p] = v /\ panelPoint[p] # v
                    \/ (knownPoint[p] = v \/ Route(p) \notin Queued) /\ IsDue(p))

(* An increment does not wait for the units, nor for the set point that it  *)
(* is added to.                                                             *)
ActOnIncrement ==
    LET p == pending.point
        v == knownPoint[p] + pending.value
    IN /\ pending.what = "increment"
       /\ due' = Append(due, Program(p, setpoint_check(p, v)))
       /\ intended' = [intended EXCEPT ![p] =
                          InRange(p, panelPoint[p] + pending.value, PanelUnits)]
       /\ Excuse(p, \/ Moved(p, v) \/ knownPoint[p] # panelPoint[p] \/ IsDue(p)
                    \/ (setup.celsius /\ units = "unknown"))
       /\ unordered' = (unordered \/ (Temps /\ setup.celsius /\ units = "unknown"))

ActOnSetpoint ==
    /\ ActOnSet \/ ActOnIncrement
    /\ pending' = NoRequest
    /\ UNCHANGED <<setup, units, knownPoint, panelPoint, setpointCounts>>

-----------------------------------------------------------------------------
Removed(k) == SubSeq(due, 1, k - 1) \o SubSeq(due, k + 1, Len(due))
May(k) == due[k].route \in Queued => \A j \in 1..k-1 : due[j].route \notin Queued

(* The programs limit the value again, but for the chiller's; commands in   *)
(* the queues of the adapter and of the iAqualink protocol stay as they are.*)
ChecksAgain(g) == g.route \notin Queued /\ g.point # "chiller"

(* (Fault) A program takes the value as it was when it was started.         *)
FinalAsStarted(g) == g.value

Final(g) == IF ChecksAgain(g) THEN setpoint_check(g.point, g.value) ELSE g.value

(* The PDA counts its keys from the set point that is known, the others see *)
(* or send the value.                                                       *)
SetTo(g) ==
    LET p == g.point
    IN IF g.route # "pda" THEN Final(g)
       ELSE IF Final(g) = knownPoint[p] THEN panelPoint[p]
       ELSE InRange(p, panelPoint[p] + Final(g) - knownPoint[p], PanelUnits)
Miscounted(g) == g.route = "pda" /\ knownPoint[g.point] # panelPoint[g.point]

(* TEMP1 or TEMP2 was limited by another value than the other one now has.  *)
LimitedByOld(g) ==
    /\ Temps /\ g.point \in Heaters
    /\ panelPoint[TheOther(g.point)] # (IF ChecksAgain(g) THEN knownPoint[TheOther(g.point)] ELSE g.other)

(* The panel is set.  The iAqualink Touch program reads the page afterwards.*)
SetPanel(k) ==
    LET g == due[k]
    IN /\ May(k) /\ due' = Removed(k)
       /\ panelPoint' = [panelPoint EXCEPT ![g.point] = SetTo(g)]
       /\ knownPoint' = IF g.route = "touch" THEN [knownPoint EXCEPT ![g.point] = SetTo(g)]
                        ELSE knownPoint
       /\ Excuse(g.point, Miscounted(g) \/ (ChecksAgain(g) /\ Moved(g.point, g.value)))
       /\ unordered' = (unordered \/ (Temps /\ g.point \in Heaters /\ Miscounted(g))
                                  \/ LimitedByOld(g))
       /\ UNCHANGED <<setup, units, pending, intended, setpointCounts>>

Disturb == disturbances < Disturbances /\ disturbances' = disturbances + 1

(* A program does not get the slot in time or does not find its way, or a   *)
(* queue is full.                                                           *)
NotSet(k) ==
    /\ Disturb
    /\ due' = Removed(k) /\ Excuse(due[k].point, TRUE)
    /\ UNCHANGED <<setup, units, knownPoint, panelPoint, pending, intended, unordered, requests>>

-----------------------------------------------------------------------------
(* Messages of the panel tell its units and its set points.                 *)
LearnUnits ==
    /\ units = "unknown" /\ units' = PanelUnits
    /\ UNCHANGED <<setup, knownPoint, panelPoint, pending, due, setpointHistory, setpointCounts>>
LearnSetpoint(p) ==
    /\ p \in setup.points /\ knownPoint[p] # panelPoint[p]
    /\ knownPoint' = [knownPoint EXCEPT ![p] = panelPoint[p]]
    /\ UNCHANGED <<setup, units, panelPoint, pending, due, setpointHistory, setpointCounts>>

(* Somebody changes a set point at the panel.                               *)
PanelIsSet(p) == \E c \in AskedC :
    /\ p \in setup.points /\ Disturb
    /\ panelPoint' = [panelPoint EXCEPT ![p] = InRange(p, OnPanel(c), PanelUnits)]
    /\ panelPoint' # panelPoint
    /\ Temps => panelPoint'["pool"] > panelPoint'["spa"]
    /\ intended' = [intended EXCEPT ![p] = NotKnown]
    /\ UNCHANGED <<setup, units, knownPoint, pending, due, excused, unordered, requests>>

SetpointNext ==
    \/ \E p \in Points : AskSetpoint(p) \/ AskIncrement(p) \/ LearnSetpoint(p) \/ PanelIsSet(p)
    \/ ActOnSetpoint
    \/ \E k \in DOMAIN due : SetPanel(k) \/ NotSet(k)
    \/ LearnUnits

-----------------------------------------------------------------------------
(* When nothing is to be done the panel has the last value that was asked   *)
(* for, converted once and limited to the panel's range, unless             *)
(*   - it was asked for before the units of a Celsius panel were known,     *)
(*   - it was moved because of the other temperature of a single panel,     *)
(*   - it was replaced, while it was put off, by one for another set point, *)
(*   - it was dropped as known already when it was so no more or would not  *)
(*     be so for long, or came with an older program that might run last,   *)
(*   - it was counted or incremented from a set point that was not so,      *)
(*   - or its program failed.                                               *)
AsAsked ==
    pending = NoRequest /\ due = <<>> =>
        \A p \in Points : intended[p] # NotKnown /\ ~excused[p] => panelPoint[p] = intended[p]

(* TEMP1 stays above TEMP2, whatever is asked for in whatever order, unless *)
(* one of them was limited by an old value of the other one, or incremented *)
(* before the units of a Celsius panel were known.                          *)
InOrder == Temps /\ ~unordered => panelPoint["pool"] > panelPoint["spa"]

(* The panel's set points are those that were asked for, within its limits. *)
SetpointsFollow == AsAsked /\ InOrder
=============================================================================
