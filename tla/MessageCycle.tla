---------------------------- MODULE MessageCycle ----------------------------
(* The messages of the AllButton remote (allbutton.c).  The panel shows one *)
(* after the other everything that is the case, then starts over with a     *)
(* "loop start".  There is no message that something has ended: what was    *)
(* not shown between two loop starts is over.  Ends of freeze protection    *)
(* and of boost are events for the scheduler.                               *)
EXTENDS Scheduler, FiniteSets

CONSTANTS
    Slips,      \* bound: packets that get lost
    Changes     \* bound: changes of the panel, the hour and the crontab

ASSUME CycleAssumption == {Slips, Changes} \subseteq Nat

(* Long messages come in several packets, the others in one.                *)
Long == {"freeze", "setpoint", "service", "timeout", "boost"}
Messages == Long \cup {"battery", "other"}

VARIABLES
    panel,      \* what is the case at the panel
    shown,      \* the messages it has shown in this cycle
    programming,\* a program has the slot
    state,      \* the static variables of _processMessage and what it sets
    buffer,     \* message of process_allbutton_packet, "other" if long
    held,       \* a long message that is processed again, or "none"
    crontab, hour,
    calm,       \* nothing was lost or changed and no program ran in this
                \* cycle (history)
    noted,      \* freeze protection was shown in a calm cycle, the last such
                \* one (history), and since then:
    reported,       \* - its end was told to the scheduler
    setpointRead, \* - its setpoint was read
    edited,     \* the crontab was changed (history)
    slips, changes

cycleVars == <<panel, shown, programming, state, buffer, held, crontab, hour, calm,
               noted, reported, setpointRead, edited, slips, changes>>
cycleEnv == <<panel, programming, crontab, hour, edited, changes>>

(* AqualinkD is started on a day of frost.                                  *)
CycleInit ==
    /\ panel = [freeze |-> TRUE, boost |-> FALSE, battery |-> FALSE, mode |-> "auto"]
    /\ shown = {} /\ programming = FALSE
    /\ state = [frz |-> "off", default |-> "off", service |-> "off", battery |-> FALSE,
                boost |-> FALSE, boostInLastLoop |-> FALSE, msg_loop |-> {},
                pump |-> FALSE, hours |-> [on |-> 0, off |-> 0], asked |-> FALSE, events |-> {}]
    /\ buffer = "other" /\ held = "none"
    /\ crontab \in Crontabs /\ hour \in Hours
    /\ calm = FALSE /\ noted = FALSE /\ reported = FALSE /\ setpointRead = FALSE /\ edited = FALSE
    /\ slips = 0 /\ changes = 0

(* What the panel shows: in service mode and in timeout nothing else.       *)
Active ==
    IF panel.mode # "auto" THEN {panel.mode}
    ELSE {"other"} \cup (IF panel.freeze THEN {"freeze"} ELSE {})
                   \cup (IF panel.boost THEN {"boost"} ELSE {})
                   \cup (IF panel.battery THEN {"battery"} ELSE {})

-----------------------------------------------------------------------------
(* _processMessage for a message.  Each one first ends the service mode.    *)
BoostShown(s) ==
    [s EXCEPT !.boost = TRUE, !.boostInLastLoop = TRUE, !.msg_loop = @ \cup {"boost"}]
processMessage(s0, m) ==
    LET s == [s0 EXCEPT !.service = "off"]
    IN CASE m = "battery" -> [s EXCEPT !.battery = TRUE, !.msg_loop = @ \cup {m}]
         [] m = "setpoint" -> [s EXCEPT !.frz = "enabled", !.default = "enabled"]
         [] m = "service" -> [s EXCEPT !.service = "on", !.msg_loop = @ \cup {m}]
         [] m = "timeout" -> [s EXCEPT !.service = "flash", !.msg_loop = @ \cup {m}]
         [] m = "freeze" -> [s EXCEPT !.frz = "on", !.msg_loop = @ \cup {m}]
         [] m = "boost" /\ ~programming -> BoostShown(s)
         [] OTHER -> s

FreezeOff(s) ==
    LET told == IF s.frz # s.default
                THEN event_happened_set_device_state(s, "freeze_off", crontab, hour) ELSE s
    IN IF "freeze" \in s.msg_loop THEN s ELSE [told EXCEPT !.frz = s.default]
ServiceOff(s) ==
    IF {"service", "timeout"} \cap s.msg_loop = {} THEN [s EXCEPT !.service = "off"] ELSE s
BoostOff(s) ==
    LET told == IF s.boost \/ s.boostInLastLoop
                THEN event_happened_set_device_state(s, "boost_off", crontab, hour) ELSE s
    IN IF "boost" \in s.msg_loop THEN s
       ELSE [told EXCEPT !.boost = FALSE, !.boostInLastLoop = FALSE]
BatteryOk(s) == IF "battery" \in s.msg_loop THEN s ELSE [s EXCEPT !.battery = FALSE]

(* (Fault) The bits of the last cycle are kept.                             *)
ResetKeepsBits(s) == BatteryOk(BoostOff(ServiceOff(FreezeOff(s))))

(* (Fault) The state is reset before it is asked what it was.               *)
ResetTooEarly(s) ==
    LET early == IF "freeze" \in s.msg_loop THEN s ELSE [s EXCEPT !.frz = s.default]
    IN [BatteryOk(BoostOff(ServiceOff(FreezeOff(early)))) EXCEPT !.msg_loop = {}]

(* processMessageReset at a loop start.                                     *)
processMessageReset(s) ==
    [BatteryOk(BoostOff(ServiceOff(FreezeOff(s)))) EXCEPT !.msg_loop = {}]

-----------------------------------------------------------------------------
(* process_allbutton_packet.  A long message is processed when its last     *)
(* packet comes, and, as its count is not reset, again at the next packet   *)
(* of another kind, which is meant for a message that was not completed.    *)
Again == IF held = "none" THEN state ELSE processMessage(state, held)
Cycled == processMessageReset(Again)

Hear(m) ==
    /\ m \in Active \ shown \/ (m = "setpoint" /\ programming)
    /\ shown' = shown \cup {m}
    /\ buffer' = IF m \in Long THEN "other" ELSE m
    /\ IF m \in Long THEN state' = processMessage(state, m) /\ held' = m
       ELSE state' = processMessage(Again, m) /\ held' = "none"
    /\ setpointRead' = (setpointRead \/ m = "setpoint")
    /\ UNCHANGED <<cycleEnv, calm, noted, reported, slips>>

(* A message is not heard, or not all the packets of a long one are: what   *)
(* there is of it is not understood, or, when its first packet is missing,  *)
(* is taken for the short message that is still in the buffer.              *)
Slip(m) ==
    /\ m \in Active \ shown /\ slips < Slips
    /\ slips' = slips + 1 /\ calm' = FALSE
    /\ shown' = shown \cup {m}
    /\ \/ UNCHANGED <<state, buffer, held>>
       \/ /\ m \in Long
          /\ buffer' = "other" /\ held' = "other"
          /\ UNCHANGED state
       \/ /\ m \in Long
          /\ held' = buffer
          /\ state' = processMessage(state, buffer)
          /\ UNCHANGED buffer
    /\ UNCHANGED <<cycleEnv, noted, reported, setpointRead>>

(* A status packet with the LED of the pump.                                *)
StatusPacket ==
    /\ \E on \in BOOLEAN : state' = [Again EXCEPT !.pump = on]
    /\ held' = "none"
    /\ UNCHANGED <<cycleEnv, shown, buffer, calm, noted, reported, setpointRead, slips>>

LoopStart ==
    /\ Active \subseteq shown
    /\ state' = [Cycled EXCEPT !.asked = FALSE, !.events = {}]
    /\ held' = "none" /\ shown' = {}
    /\ calm' = ~programming
    /\ noted' = IF calm THEN "freeze" \in Active ELSE noted
    /\ LET shows == calm /\ "freeze" \in Active
       IN /\ reported' = (~shows /\ (reported \/ "freeze_off" \in Cycled.events))
          /\ setpointRead' = (~shows /\ setpointRead)
    /\ UNCHANGED <<cycleEnv, buffer, slips>>

-----------------------------------------------------------------------------
(* Somebody at the panel, the weather, or the end of a boost changes what   *)
(* is the case; the pump is told by a status packet.                        *)
PanelChanges ==
    /\ changes < Changes /\ changes' = changes + 1
    /\ \/ panel' = [panel EXCEPT !.freeze = ~@]
       \/ panel' = [panel EXCEPT !.boost = ~@]
       \/ panel' = [panel EXCEPT !.battery = ~@]
       \/ \E m \in {"auto", "service", "timeout"} \ {panel.mode} : panel' = [panel EXCEPT !.mode = m]
    /\ calm' = FALSE
    /\ UNCHANGED <<shown, programming, state, buffer, held, crontab, hour, noted, reported,
                   setpointRead, edited, slips>>

(* A client's request for boost sets the state at once, whatever comes of   *)
(* it (action_delayed_request).                                             *)
BoostRequest ==
    /\ changes < Changes /\ changes' = changes + 1
    /\ \E on \in BOOLEAN : state' = [state EXCEPT !.boost = on]
    /\ calm' = FALSE
    /\ UNCHANGED <<panel, shown, programming, buffer, held, crontab, hour, noted, reported,
                   setpointRead, edited, slips>>

(* The crontab is written.                                                  *)
Edits ==
    /\ changes < Changes /\ changes' = changes + 1
    /\ crontab' \in Crontabs \ {crontab} /\ edited' = TRUE
    /\ UNCHANGED <<panel, shown, programming, state, buffer, held, hour, calm, noted, reported,
                   setpointRead, slips>>

(* A program starts, or ends.                                               *)
Programs ==
    /\ changes < Changes /\ changes' = changes + 1
    /\ programming' = ~programming /\ calm' = FALSE
    /\ UNCHANGED <<panel, shown, state, buffer, held, crontab, hour, noted, reported, setpointRead,
                   edited, slips>>

CycleNext ==
    \/ \E m \in Messages : Hear(m) \/ Slip(m)
    \/ StatusPacket \/ LoopStart
    \/ PanelChanges \/ BoostRequest \/ Edits \/ Programs

-----------------------------------------------------------------------------
(* After a cycle in which nothing was lost or changed and no program ran,   *)
(* what AqualinkD says of freeze protection, boost, battery and service     *)
(* mode is what is the case at the panel, whatever happened before.         *)
ShownAfterWholeCycle ==
    [][LoopStart /\ calm =>
          /\ state'.frz = "on" <=> "freeze" \in Active
          /\ state'.boost <=> "boost" \in Active
          /\ state'.battery <=> "battery" \in Active
          /\ state'.service = CASE panel.mode = "service" -> "on"
                                [] panel.mode = "timeout" -> "flash"
                                [] OTHER -> "off"]_cycleVars

(* The end of a freeze protection that was shown in a whole cycle is told   *)
(* to the scheduler by the end of the next whole cycle, unless its setpoint *)
(* was read in between, whatever was lost before.                           *)
EndIsNoticed ==
    [][LoopStart /\ calm /\ noted /\ "freeze" \notin Active /\ ~setpointRead => reported']_cycleVars

(* The pump is started only between an hour at which the crontab starts it  *)
(* and one at which it stops it, unless the crontab has changed.  If no line*)
(* starts it, it is taken to be started at midnight.                        *)
StartHours == {crontab[k].hour : k \in {j \in DOMAIN crontab : crontab[j].start}}
StopHours == {crontab[k].hour : k \in {j \in DOMAIN crontab : ~crontab[j].start}}
PumpOnWithinHours ==
    [][LoopStart /\ Cycled.asked /\ ~edited =>
          /\ StartHours # {} => \E h \in StartHours : h <= hour
          /\ \E h \in StopHours : hour < h]_cycleVars
=============================================================================
