------------------------- MODULE IaqTouchPrograms --------------------------
(* The programs that work the iAqualink Touch remote                        *)
(* (iaqtouch_aq_programmer.c): they press the buttons of a page, which they *)
(* find by their labels or know by their places, and send a value as one    *)
(* control command when the panel asks for it.  While a page is loaded the  *)
(* daemon keeps its keys back (iaqtouch.c).                                 *)
EXTENDS ProgramThread

CONSTANT
    Patience      \* messages that the waits take (30 in the code)

VARIABLE
    ctrl          \* the value in _iaqt_control_cmd, or Nothing

-----------------------------------------------------------------------------
(* The panel, as the programs use it.  An item leads to a page, to a field  *)
(* whose value can be set, or switches a device.                            *)

Keys == <<"key1", "key2", "key3", "key4">>
Colors == <<"color1", "color2">>
Place(keys, k) == CHOOSE i \in 1..Len(keys) : keys[i] = k
In(keys, k) == \E i \in 1..Len(keys) : keys[i] = k

Pages ==
    [HOME |-> <<Item("Pool", "PUMP"), Item("Other Devices", "DEVICES")>>,
     DEVICES |-> <<Item("Aux1", "AUX1"), Item("Aux2", "AUX2"), Item("Light", "COLOR_LIGHT"),
                   Item("VSP1 Spd ADJ", "SET_VSP")>>,
     DEVICES2 |-> <<Item("Aux9", "AUX9")>>,
     MENU |-> <<Item("Set Temp", "SET_TEMP"), Item("Date/Time", "SET_TIME"), Item("AQUAPURE", "SET_SWG"),
                Item("System Setup", "SYSTEM_SETUP")>>,
     SYSTEM_SETUP |-> <<Item("Freeze Protection", "FREEZE_PROTECT"), Item("Label Aux", "LABEL_AUX"),
                        Item("VSP Setup", "VSP_SETUP")>>,
     SET_TEMP |-> <<Item("Pool Heat", "POOL"), Item("Spa Heat", "SPA"), Item("Chiller", "CHILLER")>>,
     SET_TIME |-> <<Item("Date", "DATE"), Item("Time", "TIME")>>,
     SET_SWG |-> <<Item("Pool", "POOL SP"), Item("Spa", "SPA SP"), Item("Quick Boost", "SET_QBOOST")>>,
     START |-> <<Item("Start", "BOOST")>>,
     STOP |-> <<Item("Pause", "STOP"), Item("Stop", "BOOST")>>]

Toggles == {"PUMP", "AUX1", "AUX2", "AUX9", "BOOST"}
Fields == {"POOL", "SPA", "CHILLER", "DATE", "TIME", "POOL SP", "SPA SP"}
Settings == Toggles \union Fields \union {"RPM", "SPEED", "LIGHT", "MODE", "HALF"}

(* Both pages of the boost are of one type.                                 *)
TypeOf(page) == IF page \in {"START", "STOP"} THEN "SET_QBOOST" ELSE page

Open(p, page) ==
    [OnPage(p, IF page # "SET_QBOOST" THEN page ELSE IF p.stored["BOOST"] = 0 THEN "START" ELSE "STOP")
        EXCEPT !.popup = FALSE, !.edit = IF page = "SET_VSP" THEN "RPM" ELSE "", !.half = 0]

PressItem(p, to) ==
    CASE to = "BOOST" -> Open(Store(p, "BOOST", 1 - p.stored["BOOST"]), "SET_QBOOST")
      [] to \in Toggles \ {"BOOST"} -> Store(p, to, 1 - p.stored[to])
      [] to \in Fields -> [p EXCEPT !.edit = to]
      [] to = "COLOR_LIGHT" /\ p.stored["LIGHT"] = 1 -> [p EXCEPT !.popup = TRUE, !.line = 1]
      [] OTHER -> Open(p, to)

(* A message over the page leaves OK and the keys that open another page.   *)
Global == [home |-> "HOME", menu |-> "MENU", status |-> "STATUS", help |-> "HELP"]
Press(p, k) ==
    CASE k \in DOMAIN Global -> Open(p, Global[k])
      [] k = "ok" /\ p.popup -> Open(p, "COLOR_LIGHT")
      [] ~p.popup /\ k = "next page" /\ p.page = "DEVICES" -> Open(p, "DEVICES2")
      [] ~p.popup /\ k = "next page" /\ p.page = "SYSTEM_SETUP" -> Open(p, "SYSTEM_SETUP2")
      [] ~p.popup /\ k = "back" /\ p.page = "FREEZE_PROTECT" -> Open(p, "SYSTEM_SETUP")
      [] ~p.popup /\ k = "half" /\ p.edit = "TIME" -> [p EXCEPT !.half = IF @ = 1 THEN 2 ELSE 1]
      [] ~p.popup /\ In(Colors, k) /\ p.page = "COLOR_LIGHT" ->
           Open(Store(Store(p, "MODE", Place(Colors, k)), "LIGHT", 1), "DEVICES")
      [] ~p.popup /\ In(Keys, k) /\ p.page = "SET_VSP" -> Open(Store(p, "SPEED", Place(Keys, k) - 1), "DEVICES")
      [] ~p.popup /\ In(Keys, k) /\ p.page \in DOMAIN Pages ->
           IF Place(Keys, k) <= Len(Pages[p.page]) THEN PressItem(p, Pages[p.page][Place(Keys, k)].to) ELSE p
      [] OTHER -> p

(* A light that waits for a choice does not wait for long.                  *)
Choosing(p) == p.popup \/ p.page = "COLOR_LIGHT"
NoKeyTaken(p) ==
    IF ~Choosing(p) THEN p
    ELSE IF p.line = 1 THEN [p EXCEPT !.line = 2]
    ELSE Open(Store(p, "LIGHT", IF p.popup THEN 0 ELSE 1), "DEVICES")

(* The packets that tell of a change.                                       *)
PageOf(page) == IF page = "COLOR_LIGHT" THEN <<"start", "light">> ELSE <<"start", "button", "end">>
Packets(p, q, k) ==
    IF k = "ready" THEN <<"ctrl ready">>
    ELSE IF p.page = "COLOR_LIGHT" /\ In(Colors, k) THEN <<"popup", "popup clear">> \o PageOf("DEVICES")
    ELSE IF k \in DOMAIN Global \/ p.page # q.page \/ (p.popup /\ ~q.popup) THEN PageOf(q.page)
    ELSE IF ~p.popup /\ q.popup THEN <<"popup">>
    ELSE IF p.half # q.half THEN <<"message">>
    ELSE IF p.stored # q.stored THEN <<"button">>
    ELSE <<>>

(* The answer to CTRL_READY is the value of the field that is set.          *)
Take(p, v) ==
    CASE p.edit = "RPM" -> Open(Store(p, "RPM", v), "DEVICES")
      [] p.edit = "TIME" ->
           [Store(Store(p, "TIME", v), "HALF", IF p.half = 0 THEN p.stored["HALF"] ELSE p.half - 1) EXCEPT !.edit = ""]
      [] p.edit \in Fields \ {"TIME"} -> [Store(p, p.edit, v) EXCEPT !.edit = ""]
      [] OTHER -> p

-----------------------------------------------------------------------------
(* What the daemon keeps of the display: the page and the one that is being *)
(* loaded, whether keys may be sent, the page whose buttons were filled in  *)
(* last, their values, whether the light was lit on the devices' page, the  *)
(* half of the day, whether the last message was cleared, and the type of   *)
(* the last packet.                                                         *)
NUL == ""
Cached == {"DEVICES", "DEVICES2", "SYSTEM_SETUP", "HOME"}

processPageButton(sh) ==
    LET filled == IF sh.loading \in Cached THEN sh ELSE [sh EXCEPT !.filled = panel.page, !.stored = panel.stored]
    IN  IF sh.loading = "DEVICES" THEN [filled EXCEPT !.lit = panel.stored["LIGHT"]] ELSE filled

process_iaqtouch_packet(packet) ==
    LET sh ==
          CASE packet = "start" ->
                 [shown EXCEPT !.page = NUL, !.loading = panel.page, !.cansend = FALSE, !.filled = NUL, !.half = 0]
            [] packet = "end" -> [shown EXCEPT !.page = shown.loading, !.cansend = TRUE]
            [] packet = "light" -> [processPageButton(shown) EXCEPT !.page = shown.loading, !.cansend = TRUE]
            [] packet = "button" -> processPageButton(shown)
            [] packet = "message" -> [shown EXCEPT !.half = panel.half]
            [] packet = "popup" -> [shown EXCEPT !.cleared = FALSE]
            [] packet = "popup clear" -> [shown EXCEPT !.cleared = TRUE]
            [] OTHER -> shown
    IN  [sh EXCEPT !.last = CASE packet = "light" -> "end" [] packet = "popup clear" -> "popup" [] OTHER -> packet]

(* The buttons of the page that is shown; of a page that is being loaded    *)
(* when none is.                                                            *)
Buttons ==
    IF shown.page \in Cached THEN Pages[shown.page]
    ELSE IF shown.filled \in DOMAIN Pages THEN Pages[shown.filled] ELSE <<>>
iaqtFindButtonByLabel(label) == {i \in 1..Len(Buttons) : Buttons[i].text = label}
KeyOf(label) == Keys[CHOOSE i \in iaqtFindButtonByLabel(label) : TRUE]

-----------------------------------------------------------------------------
(* Waiting.                                                                 *)

Any == "any"
NextPage(page) == <<Empty, Step("parked", page, 0, Patience)>>
NextMessage(type) == <<Empty, Step("parked", type, 1, Patience)>>

Decide(steps, result) ==
    /\ Do(steps)
    /\ found' = result
    /\ Deciding /\ UNCHANGED <<failed, told, ctrl>>

KickThread(sh) ==
    IF ~At("parked") THEN UNCHANGED <<todo, found>>
    ELSE LET over == sh.last = (IF Now.val = 0 THEN "end" ELSE Now.arg)
         IN  /\ found' = (Now.val = 0 /\ sh.last = "end" /\ Now.arg \in {Any, TypeOf(sh.page)})
             /\ Do(IF over \/ Now.n = 1 THEN <<>> ELSE <<Count(Now)>>)

-----------------------------------------------------------------------------
(* goto_iaqt_page, hop by hop; on the setup page by the button's label.     *)

Hop(page) == Step("hop", page, Nothing, 0)
Hops(page) ==
    CASE page \in {"HOME", "STATUS"} -> <<Hop(page)>>
      [] page = "DEVICES" -> <<Hop("HOME"), Hop("DEVICES")>>
      [] page \in {"SET_TEMP", "SET_TIME", "SET_SWG"} -> <<Hop("MENU"), Hop(page)>>
      [] OTHER -> <<Hop("MENU"), Hop("SYSTEM_SETUP"), Hop(page)>>

Label == [FREEZE_PROTECT |-> "Freeze Protection", LABEL_AUX |-> "Label Aux", VSP_SETUP |-> "VSP Setup"]
KeyTo ==
    [HOME |-> "home", STATUS |-> "status", MENU |-> "menu", DEVICES |-> "key2", SET_TEMP |-> "key1",
     SET_TIME |-> "key2", SET_SWG |-> "key3", SYSTEM_SETUP |-> "key4"]

Goto(page) == <<Step("goto", page, Nothing, 0)>>
goto_iaqt_page ==
    /\ At("goto")
    /\ Decide(IF shown.page = Now.arg THEN <<>> ELSE Hops(Now.arg), TRUE)

HopOn ==
    /\ At("hop")
    /\ LET missing == Now.arg \in DOMAIN Label /\ iaqtFindButtonByLabel(Label[Now.arg]) = {}
           k == IF Now.arg \in DOMAIN Label THEN KeyOf(Label[Now.arg]) ELSE KeyTo[Now.arg]
       IN  IF ~found \/ missing THEN Decide(<<>>, FALSE)
           ELSE IF Now.arg = "HOME" /\ shown.page = "HOME" THEN Decide(<<>>, TRUE)
           ELSE Decide(<<Key(k)>> \o NextPage(Now.arg), found)

-----------------------------------------------------------------------------
(* Steps of the programs.                                                   *)

Finish == Goto("HOME") \o <<End>>

(* A program that did not find its page or its button goes home.            *)
GiveUp ==
    /\ Leave(Finish)
    /\ failed' = TRUE
    /\ Deciding /\ UNCHANGED <<found, told, ctrl>>

OrHome == Step("orHome", "", Nothing, 0)
GoHome == At("orHome") /\ (IF found THEN Decide(<<>>, found) ELSE GiveUp)

Press_it(label) == Step("press", label, Nothing, 0)
PressLabel ==
    /\ At("press")
    /\ IF iaqtFindButtonByLabel(Now.arg) = {} THEN GiveUp ELSE Decide(<<Key(KeyOf(Now.arg))>>, found)

(* A device is looked for on the page that is shown, then on the pages of   *)
(* the devices, of which the first has more.                                *)
Device(label) == Step("look", label, Nothing, 0)
LookHere ==
    /\ At("look")
    /\ Decide(IF iaqtFindButtonByLabel(Now.arg) # {} THEN <<Press_it(Now.arg)>>
              ELSE Goto("DEVICES") \o <<OrHome, Step("device", Now.arg, Nothing, 2)>>, found)

LookFurther ==
    /\ At("device")
    /\ IF iaqtFindButtonByLabel(Now.arg) = {} /\ Now.n > 0 /\ shown.page = "DEVICES"
       THEN Decide(<<Step("queue", "next page", Nothing, 0)>> \o NextPage(Any) \o <<Count(Now)>>, found)
       ELSE Decide(<<Press_it(Now.arg)>>, found)

(* iaqt_queue_cmd drops a key when one is waiting.                          *)
iaqt_queue_cmd(k) == key' = IF key = NoKey THEN k ELSE key
QueueKey ==
    /\ At("queue")
    /\ iaqt_queue_cmd(Now.arg)
    /\ Do(<<>>)
    /\ UNCHANGED <<emulation, prog, want, found, failed, told, out, shown, panel, mishaps, ctrl>>

(* queue_iaqt_control_command: a command that was never asked for keeps the *)
(* next one from being queued.  The wait ends after five seconds.           *)
CtrlWait == Step("ctrlWait", "", Nothing, 0)
Ctrl == <<CtrlWait, Step("ctrl", "", Nothing, 0), CtrlWait>>
WaitForCtrl ==
    /\ At("ctrlWait")
    /\ IF ctrl # Nothing /\ (key = "ready" \/ In(out, "ctrl ready")) THEN Goes("silent") ELSE Fine
    /\ Do(<<>>)
    /\ UNCHANGED <<emulation, prog, want, found, failed, told, key, out, shown, panel, ctrl>>

(* (Fault) The value is put into the buffer, and the panel is not told.     *)
QueueUntold ==
    /\ At("ctrl")
    /\ ctrl' = IF ctrl = Nothing THEN want ELSE ctrl
    /\ Do(<<>>)
    /\ Deciding /\ UNCHANGED <<found, failed, told>>

queue_iaqt_control_command ==
    /\ At("ctrl")
    /\ ctrl' = IF ctrl = Nothing THEN want ELSE ctrl
    /\ Do(IF ctrl = Nothing THEN <<Key("ready")>> ELSE <<>>)
    /\ Deciding /\ UNCHANGED <<found, failed, told>>

(* The clients are told what the page shows after the setting.              *)
Read(setting) == Step("read", setting, Nothing, 0)
TellShown ==
    /\ At("read")
    /\ told' = shown.stored[Now.arg]
    /\ Do(<<>>)
    /\ Deciding /\ UNCHANGED <<found, failed, ctrl>>

(* A light that is turned on or off shows its page, or a message, until it  *)
(* chooses for itself; the wait for another page has no limit.              *)
UntilOther == Step("untilOther", "COLOR_LIGHT", Nothing, 0)
WaitForOther ==
    /\ At("untilOther")
    /\ Decide(NextPage(Now.arg) \o <<[Now EXCEPT !.op = "other"]>>, found)
OtherPage ==
    /\ At("other")
    /\ Decide(IF found THEN <<[Now EXCEPT !.op = "untilOther"]>> ELSE <<>>, found)

(* A light that is on asks first.                                           *)
OkIfLit ==
    /\ At("okIfLit")
    /\ Decide(IF shown.lit = 1 THEN <<Empty, Key("ok")>> ELSE <<>>, found)

PressColor ==
    /\ At("color")
    /\ IF shown.filled # "COLOR_LIGHT" THEN GiveUp ELSE Decide(<<Key(Colors[want]), Empty>>, found)

Popups ==
    /\ At("popups")
    /\ Decide(NextMessage("popup") \o <<[Now EXCEPT !.op = "popupShown"]>>, found)
PopupShown ==
    /\ At("popupShown")
    /\ Decide(IF shown.cleared \/ Now.n = 5 THEN <<>> ELSE <<[Now EXCEPT !.op = "popups", !.n = @ + 1]>>, found)

(* The page of the boost has a button to start it or one to stop it; the    *)
(* key of a button that is not there is read through a null pointer, which  *)
(* ends the daemon, and with it the program.                                *)
BoostLabel == IF want = 1 THEN "Start" ELSE "Stop"
PressBoost ==
    /\ At("boost") /\ iaqtFindButtonByLabel(BoostLabel) # {}
    /\ Decide(<<Key(KeyOf(BoostLabel))>> \o NextPage(Any), found)
Crash ==
    /\ At("boost") /\ iaqtFindButtonByLabel(BoostLabel) = {}
    /\ Leave(<<>>)
    /\ failed' = TRUE
    /\ mishaps' = mishaps \union {"crash"}
    /\ UNCHANGED <<emulation, prog, want, found, told, key, out, shown, panel, ctrl>>

(* The date is set when it is not the one that is shown; the half of the    *)
(* day is not shown before its button is pressed.                           *)
TimePage ==
    /\ At("timePage")
    /\ Decide((IF shown.stored["DATE"] = want THEN <<>> ELSE <<Key("key1"), Empty>> \o Ctrl)
              \o <<Key("key2"), Empty, Step("half", "", Nothing, 3)>> \o Ctrl, found)

Half ==
    /\ At("half")
    /\ Decide(IF shown.half = (want % 2) + 1 \/ Now.n = 0 THEN <<>>
              ELSE <<Key("half")>> \o NextMessage("message") \o <<Count(Now)>>, found)

Deciders ==
    \/ goto_iaqt_page \/ HopOn \/ GoHome \/ PressLabel \/ LookHere \/ LookFurther \/ QueueKey
    \/ WaitForCtrl \/ queue_iaqt_control_command \/ TellShown \/ WaitForOther \/ OtherPage
    \/ OkIfLit \/ PressColor \/ Popups \/ PopupShown \/ PressBoost \/ Crash \/ TimePage \/ Half

-----------------------------------------------------------------------------
(* The programs.                                                            *)

set_aqualink_iaqtouch_device_on_off(label) == <<Device(label), Empty, Key("home")>> \o Finish

light_by_itself == <<Device("Light")>> \o NextPage(Any) \o <<UntilOther>>
turn_light_off == light_by_itself \o <<Tell>> \o Finish
set_aqualink_iaqtouch_light_colormode ==
    <<Device("Light"), Step("okIfLit", "", Nothing, 0)>> \o NextPage("COLOR_LIGHT") \o <<OrHome>>
    \o <<Step("color", "", Nothing, 0), Tell, Step("popups", "", Nothing, 0)>> \o Finish

SpeedPage == Goto("DEVICES") \o <<OrHome, Press_it("VSP1 Spd ADJ")>> \o NextPage("SET_VSP") \o <<OrHome>>
set_aqualink_iaqtouch_pump_rpm == SpeedPage \o Ctrl \o NextPage(Any) \o Finish
set_aqualink_iaqtouch_pump_vs_program(v) == SpeedPage \o <<Key(Keys[v + 1]), Empty>> \o Finish

set_aqualink_iaqtouch_vsp_assignments == Goto("VSP_SETUP") \o <<OrHome>> \o Finish
get_aqualink_iaqtouch_aux_labels == Goto("LABEL_AUX") \o <<OrHome>> \o Finish
get_aqualink_iaqtouch_freezeprotect == Goto("FREEZE_PROTECT") \o <<OrHome>> \o Goto("STATUS") \o Finish

setpoints_then(steps) ==
    <<Key("help")>> \o NextPage(Any) \o Goto("SET_TEMP") \o <<OrHome>> \o Goto("FREEZE_PROTECT") \o <<OrHome>>
    \o steps \o Goto("STATUS") \o Finish
get_aqualink_iaqtouch_setpoints == setpoints_then(<<>>)
(* In PDA mode the unit of temperature is looked for as well.               *)
get_iaqtouch_units ==
    setpoints_then(<<Key("back")>> \o NextPage("SYSTEM_SETUP") \o <<OrHome, Key("next page")>>
                   \o NextPage("SYSTEM_SETUP2") \o <<OrHome>>)

set_aqualink_iaqtouch_swg_percent(label) ==
    Goto("SET_SWG") \o <<OrHome, Press_it(label), Empty>> \o Ctrl \o NextMessage("button")
    \o Goto("STATUS") \o <<Tell>> \o Finish
set_aqualink_iaqtouch_swg_boost ==
    Goto("SET_SWG") \o <<OrHome, Press_it("Quick Boost"), Empty>> \o NextPage("SET_QBOOST")
    \o <<Step("boost", "", Nothing, 0), Tell>> \o Goto("STATUS") \o Finish
set_aqualink_iaqtouch_heater_setpoint(label, setting) ==
    Goto("SET_TEMP") \o <<OrHome, Press_it(label), Empty>> \o Ctrl \o NextMessage("button")
    \o <<Read(setting)>> \o Finish
set_aqualink_iaqtouch_time == Goto("SET_TIME") \o <<OrHome, Step("timePage", "", Nothing, 0)>> \o Finish

Scripts(v) ==
    [AQ_SET_IAQTOUCH_DEVICE_ON_OFF |-> set_aqualink_iaqtouch_device_on_off("Aux1"),
     FAR_DEVICE_ON_OFF |-> set_aqualink_iaqtouch_device_on_off("Aux9"),
     AQ_SET_IAQTOUCH_LIGHTCOLOR_MODE |-> set_aqualink_iaqtouch_light_colormode,
     LIGHT_ON |-> light_by_itself \o Finish,
     LIGHT_OFF |-> turn_light_off,
     AQ_SET_IAQTOUCH_PUMP_RPM |-> set_aqualink_iaqtouch_pump_rpm,
     AQ_SET_IAQTOUCH_PUMP_VS_PROGRAM |-> set_aqualink_iaqtouch_pump_vs_program(v),
     AQ_GET_IAQTOUCH_VSP_ASSIGNMENT |-> set_aqualink_iaqtouch_vsp_assignments,
     AQ_GET_IAQTOUCH_AUX_LABELS |-> get_aqualink_iaqtouch_aux_labels,
     AQ_GET_IAQTOUCH_FREEZEPROTECT |-> get_aqualink_iaqtouch_freezeprotect,
     AQ_GET_IAQTOUCH_SETPOINTS |-> get_aqualink_iaqtouch_setpoints,
     PDA_SETPOINTS |-> get_iaqtouch_units,
     AQ_SET_IAQTOUCH_SWG_PERCENT |-> set_aqualink_iaqtouch_swg_percent("Pool"),
     IAQTOUCH_SPA_PERCENT |-> set_aqualink_iaqtouch_swg_percent("Spa"),
     AQ_SET_IAQTOUCH_SWG_BOOST |-> set_aqualink_iaqtouch_swg_boost,
     AQ_SET_IAQTOUCH_POOL_HEATER_TEMP |-> set_aqualink_iaqtouch_heater_setpoint("Pool Heat", "POOL"),
     AQ_SET_IAQTOUCH_SPA_HEATER_TEMP |-> set_aqualink_iaqtouch_heater_setpoint("Spa Heat", "SPA"),
     AQ_SET_IAQTOUCH_CHILLER_TEMP |-> set_aqualink_iaqtouch_heater_setpoint("Chiller", "CHILLER"),
     AQ_SET_IAQTOUCH_SET_TIME |-> set_aqualink_iaqtouch_time]

Target(p) ==
    CASE p = "AQ_SET_IAQTOUCH_DEVICE_ON_OFF" -> {"AUX1"}
      [] p = "FAR_DEVICE_ON_OFF" -> {"AUX9"}
      [] p \in {"LIGHT_ON", "LIGHT_OFF"} -> {"LIGHT"}
      [] p = "AQ_SET_IAQTOUCH_LIGHTCOLOR_MODE" -> {"MODE", "LIGHT"}
      [] p = "AQ_SET_IAQTOUCH_PUMP_RPM" -> {"RPM"}
      [] p = "AQ_SET_IAQTOUCH_PUMP_VS_PROGRAM" -> {"SPEED"}
      [] p = "AQ_SET_IAQTOUCH_SWG_PERCENT" -> {"POOL SP"}
      [] p = "IAQTOUCH_SPA_PERCENT" -> {"SPA SP"}
      [] p = "AQ_SET_IAQTOUCH_SWG_BOOST" -> {"BOOST"}
      [] p = "AQ_SET_IAQTOUCH_POOL_HEATER_TEMP" -> {"POOL"}
      [] p = "AQ_SET_IAQTOUCH_SPA_HEATER_TEMP" -> {"SPA"}
      [] p = "AQ_SET_IAQTOUCH_CHILLER_TEMP" -> {"CHILLER"}
      [] p = "AQ_SET_IAQTOUCH_SET_TIME" -> {"DATE", "TIME", "HALF"}
      [] OTHER -> {}

(* What a setting becomes when the program does as it was asked.            *)
Wanted(s) ==
    CASE s = "HALF" -> want % 2
      [] s = "LIGHT" /\ prog # "LIGHT_OFF" -> 1
      [] OTHER -> want
Asked(p) == \A s \in Target(prog) : p.stored[s] = Wanted(s)

-----------------------------------------------------------------------------
(* The bus.  A poll is first shown to the thread, then answered.            *)

Held == At("key") \/ At("empty")
Resting == Asleep \/ (At("ctrlWait") /\ ctrl # Nothing) \/ (Held /\ ~shown.cansend)
ItsTurn == IF Resting THEN Fine ELSE Goes("late")

(* While nothing is programmed the daemon goes round the pages by itself.   *)
IdleKeys ==
    CASE shown.page = "HOME" -> {"key2"}
      [] shown.page = "DEVICES" -> {NoKey, "next page", "status"}
      [] shown.page = "DEVICES2" -> {NoKey, "status"}
      [] OTHER -> {NoKey, "home"}

Poll ==
    /\ emulation = "iaqtouch"
    /\ \/ out = <<>> /\ ItsTurn
       \/ out # <<>> /\ Head(out) # "ack" /\ Resting /\ Goes("slow")
    /\ IF Working THEN UNCHANGED key ELSE \E k \in IdleKeys : iaqt_queue_cmd(k)
    /\ shown' = process_iaqtouch_packet("poll")
    /\ KickThread(shown')
    /\ out' = <<"ack">> \o out
    /\ UNCHANGED <<emulation, prog, want, failed, told, panel, ctrl>>

pop_iaqt_cmd ==
    /\ emulation = "iaqtouch"
    /\ out # <<>> /\ Head(out) = "ack"
    /\ LET cmd == IF shown.cansend THEN key ELSE NoKey IN
       /\ key' = IF shown.cansend THEN NoKey ELSE key
       /\ \/ /\ panel' = IF cmd = NoKey THEN NoKeyTaken(panel) ELSE Press(panel, cmd)
             /\ out' = Tail(out) \o Packets(panel, panel', cmd)
             /\ Fine
          \/ cmd # NoKey /\ Resting /\ Goes("lost") /\ UNCHANGED panel /\ out' = Tail(out)
    /\ UNCHANGED <<emulation, prog, want, todo, found, failed, told, shown, ctrl>>

(* The answer to CTRL_READY empties the control buffer.                     *)
Packet ==
    /\ emulation = "iaqtouch"
    /\ out # <<>> /\ Head(out) # "ack" /\ ItsTurn
    /\ shown' = process_iaqtouch_packet(Head(out))
    /\ KickThread(shown')
    /\ IF Head(out) = "ctrl ready"
       THEN /\ panel' = IF ctrl = Nothing THEN panel ELSE Take(panel, ctrl)
            /\ ctrl' = Nothing
            /\ out' = Tail(out) \o (IF panel'.page # panel.page THEN PageOf(panel'.page) ELSE <<"button">>)
       ELSE UNCHANGED <<panel, ctrl>> /\ out' = Tail(out)
    /\ UNCHANGED <<emulation, prog, want, failed, told, key>>

ThreadStep ==
    \/ (Held => shown.cansend) /\ (CommonStep \/ SendKeyLate(key)) /\ UNCHANGED ctrl
    \/ Deciders

Next == emulation = "iaqtouch" /\ (ThreadStep \/ Poll \/ pop_iaqt_cmd \/ Packet)

(* A program starts on the devices' page, while it is loaded, or just when  *)
(* the daemon's own key has been taken on another page.                     *)
Switches == {"AQ_SET_IAQTOUCH_DEVICE_ON_OFF", "FAR_DEVICE_ON_OFF", "AQ_SET_IAQTOUCH_SWG_BOOST"}
Asked_for(p, v) ==
    /\ p \in Switches \/ p = "AQ_SET_IAQTOUCH_SET_TIME" => v <= 1
    /\ p = "AQ_SET_IAQTOUCH_LIGHTCOLOR_MODE" => v > 0
    /\ p = "LIGHT_ON" => v = 1
    /\ p = "LIGHT_OFF" => v = 0

Starts ==
    {[page |-> "DEVICES", shown |-> "DEVICES", key |-> "none"], [page |-> "DEVICES", shown |-> NUL, key |-> "none"],
     [page |-> "DEVICES", shown |-> "HOME", key |-> "idle key"], [page |-> "STATUS", shown |-> "DEVICES", key |-> "idle key"]}

Init ==
    \E v \in Values, p \in DOMAIN Scripts(0), at \in Starts :
    \E old \in OldsOf(p, {"AQ_SET_IAQTOUCH_LIGHTCOLOR_MODE"}) :
        /\ emulation = "iaqtouch" /\ Asked_for(p, v)
        /\ at.key = "idle key" => Faults > 0
        /\ prog = p /\ want = v
        /\ todo = Scripts(v)[p]
        /\ key = NoKey /\ ctrl = Nothing /\ told = Nothing
        /\ panel = [page |-> at.page, line |-> 1, edit |-> "", half |-> 0, popup |-> FALSE,
                    stored |-> [s \in Settings |->
                        CASE s \in Target(p) /\ (p \in Switches \/ p \in {"LIGHT_ON", "LIGHT_OFF"}) -> 1 - v
                          [] s \in Toggles \union {"LIGHT", "HALF"} /\ ~(s \in Target(p) /\ p \in Switches \union {"LIGHT_ON", "LIGHT_OFF"})
                               /\ old > 1 -> 1
                          [] OTHER -> old]]
        /\ shown = [page |-> at.shown, loading |-> IF at.shown = NUL THEN "DEVICES" ELSE at.shown, cansend |-> at.shown # NUL,
                    filled |-> NUL, stored |-> panel.stored, lit |-> panel.stored["LIGHT"], half |-> 0, cleared |-> FALSE,
                    last |-> "poll"]
        /\ out = IF at.key = "idle key" THEN PageOf(at.page) ELSE IF at.shown = NUL THEN <<"end">> ELSE <<>>
        /\ mishaps = IF at.key = "idle key" THEN {"idle key"} ELSE {}
=============================================================================
