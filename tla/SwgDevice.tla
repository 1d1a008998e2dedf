------------------------------ MODULE SwgDevice ------------------------------
(***************************************************************************)
(* The salt water generator (SWG) as AqualinkD sees it: it overhears what  *)
(* the panel sends to the device and what the device answers               *)
(* (devices_jandy.c), reads the messages the panel shows (allbutton.c),    *)
(* and sets the percent, at once or when the device is on again            *)
(* (aqualinkd.c).  All of it works on a few fields of aqualinkdata, the    *)
(* record swg of this module.                                              *)
(*                                                                         *)
(* The panel polls any device at any time.  A frame may be damaged, in     *)
(* which case get_packet drops it, and a device may stay silent.  An       *)
(* answer names the panel and not its sender, so the program has to        *)
(* remember whom the panel polled.  Panel type: an RS panel read by the    *)
(* ALLBUTTON protocol without an extended id, with read_RS485_swg on.      *)
(* Each handler is one step.                                               *)
(*                                                                         *)
(* Definitions marked (Fault) are not part of the specification.           *)
(***************************************************************************)
EXTENDS Integers

CONSTANTS
    Swg,         \* the SWGs on the bus
    Other,       \* other devices whose packets are read
    NoDevice,    \* NUL
    Reports,     \* the statuses the devices report
    Shown,       \* the statuses the panel shows in a "Check AQUAPURE" message
    Percents,    \* the percents the panel shows and the users ask for
    Requests     \* bound: how many times users set a percent or stop a boost

Device == Swg \cup Other

(* The statuses: isSWGDeviceErrorState; those that the test for a better    *)
(* one than GENFAULT finds; those that light the LED; and all of them.      *)
(* OFF, UNKNOWN and GENFAULT are AqualinkD's own and no device reports      *)
(* them.  UNLISTED stands for a byte that is no status.                     *)
ErrorState == {"NO_FLOW", "CHECK_PCB", "LOW_TEMP", "HIGH_CURRENT"}
BetterThanFault == {"NO_FLOW", "LOW_SALT", "HI_SALT", "CLEAN_CELL"}
LitState == ErrorState \cup BetterThanFault \cup {"ON", "LOW_VOLTS", "GENFAULT"}
DarkState == {"OFF", "TURNING_OFF"}
Status == LitState \cup DarkState \cup {"UNKNOWN"}

Unknown == -999    \* TEMP_UNKNOWN
Boosted == 101     \* the percent of a boost

ASSUME SwgAssumption ==
    /\ Swg \cap Other = {}
    /\ NoDevice \notin Device
    /\ Reports \subseteq (Status \ {"OFF", "UNKNOWN", "GENFAULT"}) \cup {"UNLISTED"}
    /\ Shown \subseteq {"NO_FLOW", "LOW_SALT", "HI_SALT", "GENFAULT"}
    /\ Percents \subseteq 0..Boosted
    /\ Requests \in Nat

VARIABLES
    polled,    \* the device whose answer is due
    heard,     \* the frame that polled it was read
    interest,  \* interestedInNextAck
    prev,      \* previous_packet_to
    swgId,     \* _SWG_ID
    noreply,   \* _swg_noreply_cnt
    swg,       \* the fields of aqualinkdata, and last_status
    delayed,   \* swg_delayed_percent
    msg_loop,  \* the messages seen since the panel's cycle began
    active,    \* the program in the slot: its kind and percent
    waiting,   \* waiting[p]: AQ_SET_SWG_PERCENT threads that wait with percent p
    requests   \* what the users asked for so far

bus == <<polled, heard, interest, prev, swgId, noreply>>
vars == <<bus, swg, delayed, msg_loop, active, waiting, requests>>

Idle == [kind |-> "none", percent |-> Unknown]

SwgRecord ==
    [status : Status, last : Status \cup {"UNLISTED"},
     led : {"UNKNOWN", "OFF", "ON", "ENABLE"},
     percent : Percents \cup {Unknown, 0, Boosted}, boost : BOOLEAN]

TypeOK ==
    /\ {polled, prev} \subseteq Device \cup {NoDevice}
    /\ swgId \in Swg \cup {NoDevice}
    /\ heard \in BOOLEAN
    /\ interest \in {"NONE", "SWG", "OTHER"}
    /\ noreply \in 0..3
    /\ swg \in SwgRecord
    /\ delayed \in Percents \cup {Unknown}
    /\ msg_loop \subseteq {"SWG", "SWG_DEVICE", "BOOST"}
    /\ active \in [kind : {"none", "other", "boost"}, percent : {Unknown}]
                 \cup [kind : {"swg"}, percent : Percents]
    /\ waiting \in [Percents -> 0..Requests]
    /\ requests \in 0..Requests

(* With enable_swg in the configuration the LED starts OFF and the percent  *)
(* at 0.                                                                    *)
Init ==
    /\ polled = NoDevice /\ heard = FALSE
    /\ interest = "NONE" /\ prev = NoDevice
    /\ swgId = NoDevice /\ noreply = 0
    /\ \E s \in {<<"UNKNOWN", Unknown>>, <<"OFF", 0>>} :
          swg = [status |-> "UNKNOWN", last |-> "UNKNOWN", led |-> s[1],
                 percent |-> s[2], boost |-> FALSE]
    /\ delayed = Unknown
    /\ msg_loop = {}
    /\ active = Idle
    /\ waiting = [p \in Percents |-> 0]
    /\ requests = 0

-----------------------------------------------------------------------------
(* The setters of devices_jandy.c, on the record s.                         *)

(* setSWGdeviceStatus                                                       *)
Reported(s, st) ==
    CASE st \in LitState  -> [s EXCEPT !.last = st, !.status = st,
                                !.led = IF st \in ErrorState THEN "ENABLE" ELSE "ON"]
      [] st \in DarkState -> [s EXCEPT !.last = st, !.status = st, !.led = "OFF"]
      [] OTHER            -> [s EXCEPT !.last = st]

(* (Fault) The status is not remembered as the last.                        *)
SetDeviceStatusForgets(s, from, st) ==
    IF st \in {s.status, s.last} THEN s
    ELSE [Reported(s, st) EXCEPT !.last = s.last]

(* (Fault) The LED is forgotten.                                            *)
SetDeviceStatusDark(s, from, st) ==
    IF st \in {s.status, s.last} THEN s
    ELSE [Reported(s, st) EXCEPT !.led = s.led]

SetDeviceStatus(s, from, st) ==
    IF st \in {s.status, s.last} THEN s
    ELSE IF from = "ALLBUTTON" /\ st = "GENFAULT" /\ s.status \in BetterThanFault
         THEN [s EXCEPT !.last = st]
         ELSE Reported(s, st)

SetOff(s) == [s EXCEPT !.status = "OFF", !.led = "OFF"]

(* setSWGpercent: the LED follows the percent, except that an error keeps   *)
(* ENABLE and 0 does not light what is OFF.                                 *)
SetPercent(s, p) ==
    [s EXCEPT
        !.percent = p,
        !.status = IF @ = "UNKNOWN" THEN "ON" ELSE @,
        !.led = IF p > 0
                THEN IF @ = "ENABLE" /\ s.status \in ErrorState THEN @ ELSE "ON"
                ELSE IF @ \in {"ON", "UNKNOWN"} THEN "ENABLE" ELSE @]

SetBoost(s, on) == [s EXCEPT !.boost = on]

(* changeSWGpercent: not while the SWG is being programmed.                 *)
ChangePercent(s, p) ==
    IF active.kind \in {"swg", "boost"} THEN s ELSE SetPercent(s, p)

-----------------------------------------------------------------------------
(* The bus: processJandyPacket.  A frame that was not heard changes nothing *)
(* in the program.                                                          *)

(* (Fault) The interest is kept, so that the next answer is taken for it.   *)
MissingAckKept ==
    /\ interest # "NONE"
    /\ swg' = IF interest = "SWG" /\ swg.status # "OFF" /\ swgId = prev /\ noreply < 3
              THEN SetOff(swg) ELSE swg
    /\ UNCHANGED <<interest, prev, swgId, noreply>>

(* (Fault) The count goes past its limit.                                   *)
MissingAckUncapped ==
    /\ interest # "NONE"
    /\ IF interest = "SWG" /\ swg.status \notin {"OFF", "UNKNOWN"} /\ swgId = prev
       THEN swg' = SetOff(swg) /\ noreply' = noreply + 1
       ELSE UNCHANGED <<swg, noreply>>
    /\ interest' = "NONE"
    /\ prev' = NoDevice
    /\ UNCHANGED swgId

(* processMissingAckPacketFromSWG: another device is polled though an       *)
(* answer is due.  This frame is used up: who is polled goes unnoticed.     *)
MissingAck ==
    LET off == interest = "SWG" /\ swg.status \notin {"OFF", "UNKNOWN"}
                 /\ swgId = prev /\ noreply < 3
    IN  /\ interest # "NONE"
        /\ swg' = IF off THEN SetOff(swg) ELSE swg
        /\ noreply' = IF off THEN noreply + 1 ELSE noreply
        /\ interest' = "NONE"
        /\ prev' = NoDevice
        /\ UNCHANGED swgId

(* processPacketToSWG: a percent counts unless a program holds the slot.    *)
ToDevice(d, p) ==
    /\ interest = "NONE"
    /\ interest' = IF d \in Swg THEN "SWG" ELSE "OTHER"
    /\ prev' = d
    /\ swg' = IF d \in Swg /\ p # Unknown /\ active.kind = "none"
              THEN SetBoost(IF swg.percent # p THEN SetPercent(swg, p) ELSE swg, p > 100)
              ELSE swg
    /\ UNCHANGED <<swgId, noreply>>

(* The panel polls d, which may carry a percent (Unknown: it does not).     *)
Poll(d, p) ==
    /\ polled' = d
    /\ \/ /\ heard' = TRUE
          /\ MissingAck \/ ToDevice(d, p)
       \/ /\ heard' = FALSE
          /\ UNCHANGED <<interest, prev, swgId, noreply, swg>>
    /\ UNCHANGED <<delayed, msg_loop, active, waiting, requests>>

(* aq_programmer(AQ_SET_SWG_PERCENT): a thread starts and waits.            *)
StartProgram(p) == waiting' = [waiting EXCEPT ![p] = @ + 1]

(* (Fault) The delayed percent is sent and not cleared.                     *)
StatusFromSwgKeeps(st) ==
    /\ swg' = SetDeviceStatus(swg, "JANDY_DEVICE", st)
    /\ UNCHANGED <<delayed, waiting>>

(* processPacketFromSWG, a CMD_PPM: the status, and the percent that has    *)
(* waited for the device to be on.                                          *)
StatusFromSwg(st) ==
    /\ swg' = SetDeviceStatus(swg, "JANDY_DEVICE", st)
    /\ IF delayed # Unknown /\ swg'.status = "ON"
       THEN StartProgram(delayed) /\ delayed' = Unknown
       ELSE UNCHANGED <<delayed, waiting>>

(* processPacketFromSWG: the first SWG that answers is the one.             *)
FromSwg(st) ==
    /\ interest = "SWG"
    /\ noreply' = 0
    /\ swgId' = IF swgId = NoDevice THEN prev ELSE swgId
    /\ IF swgId' = prev /\ st # "NONE"
       THEN StatusFromSwg(st)
       ELSE UNCHANGED <<swg, delayed, waiting>>

FromOther ==
    /\ interest # "SWG"
    /\ UNCHANGED <<swgId, noreply, swg, delayed, waiting>>

(* The polled device answers with its status ("NONE": a bare ack).          *)
Answer(st) ==
    /\ polled # NoDevice
    /\ polled' = NoDevice
    /\ heard' = FALSE
    /\ FromSwg(st) \/ FromOther
    /\ interest' = "NONE"
    /\ prev' = NoDevice
    /\ UNCHANGED <<msg_loop, active, requests>>

(* The answer is damaged.                                                   *)
AnswerLost ==
    /\ polled # NoDevice
    /\ polled' = NoDevice
    /\ heard' = FALSE
    /\ UNCHANGED <<interest, prev, swgId, noreply, swg, delayed, msg_loop, active,
                   waiting, requests>>

-----------------------------------------------------------------------------
(* The messages of the panel: _processMessage.                              *)

Message(s, bits) ==
    /\ swg' = s
    /\ msg_loop' = msg_loop \cup bits
    /\ UNCHANGED <<bus, delayed, active, waiting, requests>>

AquapurePercent(p) == Message(ChangePercent(swg, p), {"SWG"})

CheckAquapure(st) ==
    Message(SetDeviceStatus(swg, "ALLBUTTON", st), {"SWG", "SWG_DEVICE"})

SaltPpm ==
    Message(IF swg.led = "UNKNOWN" THEN SetDeviceStatus(swg, "ALLBUTTON", "ON")
            ELSE swg, {"SWG"})

BoostRemaining ==
    /\ active.kind = "none"
    /\ Message(SetBoost(IF swg.percent # Boosted THEN SetPercent(swg, Boosted) ELSE swg,
                        TRUE), {"BOOST", "SWG"})

(* What was not shown in the cycle is off.  pump is the LED of the filter   *)
(* pump.  Three parts of the code follow each other: no message of the      *)
(* device, no percent, no boost.                                            *)
NoDeviceMessage(s, pump) ==
    IF "SWG_DEVICE" \in msg_loop \/ s.led = "UNKNOWN" THEN s
    ELSE SetDeviceStatus(s, "ALLBUTTON",
                         IF "SWG" \notin msg_loop /\ pump = "OFF" THEN "OFF" ELSE "ON")

NoPercentMessage(s, pump) ==
    IF "SWG" \in msg_loop \/ s.led = "UNKNOWN" \/ (s.percent = 0 /\ s.led # "ON") THEN s
    ELSE IF pump = "OFF" THEN SetOff(s) ELSE ChangePercent(s, 0)

CycleEnds(pump) ==
    LET s == NoPercentMessage(NoDeviceMessage(swg, pump), pump)
    IN  /\ swg' = IF "BOOST" \in msg_loop THEN s ELSE SetBoost(s, FALSE)
        /\ msg_loop' = {}
        /\ UNCHANGED <<bus, delayed, active, waiting, requests>>

-----------------------------------------------------------------------------
(* The users and the programs.                                              *)

(* action_delayed_request, SWG_SETPOINT: off means later.  With             *)
(* PRESTATE_SWG_SETPOINT the percent is shown before it is set.             *)
RequestPercent(p) ==
    /\ requests < Requests
    /\ requests' = requests + 1
    /\ IF swg.led = "OFF" THEN delayed' = p /\ UNCHANGED waiting
       ELSE /\ UNCHANGED delayed
            /\ IF swg.percent # p THEN StartProgram(p) ELSE UNCHANGED waiting
    /\ swg' = SetPercent(swg, p)
    /\ UNCHANGED <<bus, msg_loop, active>>

(* A program that stops a boost, or one of another device, takes the slot.  *)
OtherProgram(k) ==
    /\ active = Idle
    /\ requests < Requests
    /\ requests' = requests + 1
    /\ active' = [kind |-> k, percent |-> Unknown]
    /\ UNCHANGED <<bus, swg, delayed, msg_loop, waiting>>

SwgProgram(p) ==
    /\ active = Idle
    /\ waiting[p] > 0
    /\ waiting' = [waiting EXCEPT ![p] = @ - 1]
    /\ active' = [kind |-> "swg", percent |-> p]
    /\ UNCHANGED <<bus, swg, delayed, msg_loop, requests>>

(* set_allbutton_SWG and setSWGboost(false).                                *)
ProgramDone ==
    CASE active.kind = "swg" -> SetPercent(swg, active.percent)
      [] active.kind = "boost" -> [SetBoost(swg, FALSE) EXCEPT !.percent = 0]
      [] OTHER -> swg

(* The program ends, or gives up in some menu and sets nothing.             *)
ProgramEnds ==
    /\ active # Idle
    /\ active' = Idle
    /\ swg' \in {swg, ProgramDone}
    /\ UNCHANGED <<bus, delayed, msg_loop, waiting, requests>>

Next ==
    \/ \E d \in Device, p \in Percents \cup {Boosted, Unknown} : Poll(d, p)
    \/ \E st \in Reports \cup {"NONE"} : Answer(st)
    \/ AnswerLost
    \/ \E p \in Percents : AquapurePercent(p) \/ RequestPercent(p) \/ SwgProgram(p)
    \/ \E st \in Shown : CheckAquapure(st)
    \/ SaltPpm
    \/ BoostRemaining
    \/ \E pump \in {"ON", "OFF"} : CycleEnds(pump)
    \/ \E k \in {"other", "boost"} : OtherProgram(k)
    \/ ProgramEnds

Spec == Init /\ [][Next]_vars

(* The answer of the SWG that is kept is attributed to it and says ON.      *)
SwgSaysOn ==
    /\ polled \in Swg
    /\ polled = prev
    /\ swgId \in {NoDevice, polled}
    /\ Answer("ON")

(* A poll of d that is heard and expected to be answered.                   *)
Noticed(d) == interest = "NONE" /\ Poll(d, Unknown) /\ heard'

(* Fairness: the panel goes on polling and some polls are heard; the SWG    *)
(* that is kept is noticed, on and heard again and again.  For the last two *)
(* it is strong fairness, because a poll right after one that was not       *)
(* answered goes unnoticed, and the panel does not poll the SWG only then.  *)
FairSpec ==
    /\ Spec
    /\ WF_vars(\E d \in Device : Poll(d, Unknown) /\ heard')
    /\ \A d \in Swg : SF_vars(swgId \in {NoDevice, d} /\ Noticed(d))
    /\ SF_vars(SwgSaysOn)

-----------------------------------------------------------------------------
(* An answer is attributed to the device that the panel polled, unless the  *)
(* frame that polled it was lost: no answer that comes late or never makes  *)
(* a later device speak for an earlier one.                                 *)
AnswerIsAttributed ==
    interest # "NONE" /\ polled # NoDevice /\ heard => prev = polled

(* The status shown is the last one reported, whichever of the two sources  *)
(* reported it.  It is another only if the device was put off for want of   *)
(* an answer or a percent, if the panel's general fault gave way to a       *)
(* better status, if the byte is in no list, or before the first report.    *)
StatusIsLastReport ==
    \/ swg.status \in {swg.last, "OFF"}
    \/ swg.last \in {"GENFAULT", "UNLISTED"}
    \/ swg.last = "UNKNOWN" /\ swg.status = "ON"

(* An LED that is OFF stands for a device that is off, never for one that   *)
(* works: it is what delays a percent.  (Until a status of the list is      *)
(* reported, enable_swg has the LED OFF.)                                   *)
DarkMeansOff ==
    swg.led = "OFF" =>
        \/ swg.status \in DarkState
        \/ swg.status \in {"UNKNOWN", "ON"} /\ swg.last \in {"UNKNOWN", "UNLISTED"}

(* The state the status cannot leave while the device reports ON.           *)
Stuck == swg.status = "OFF" /\ swg.last = "ON"

(* A percent that was delayed is given to a program in the end, if the SWG  *)
(* comes on, unless the device was put off behind the back of last_status.  *)
DelayedIsSentUnlessStuck == delayed # Unknown ~> delayed = Unknown \/ Stuck

(* When the SWG answers that it is on, a percent that was delayed is given  *)
(* to a program: aqualinkd.c:353, "SWG is off, can't set %, so delay the    *)
(* set until it's on."                                                      *)
DelayedUntilOn == [][SwgSaysOn => delayed' = Unknown]_vars
=============================================================================
