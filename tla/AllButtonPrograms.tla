------------------------- MODULE AllButtonPrograms -------------------------
(* The programs that work the AllButton remote (allbutton_aq_programmer.c): *)
(* they press MENU, RIGHT, LEFT, ENTER and CANCEL and read the one line of  *)
(* text that the panel shows.  A key that brings no message is pressed      *)
(* again.                                                                   *)
EXTENDS ProgramThread

CONSTANTS
    SeekMax,      \* RIGHT presses while looking for an item (28 in the code)
    FieldMax,     \* presses in a numeric field before giving up (100)
    ModeMax       \* RIGHT presses while looking for the mode of a light

VARIABLES
    expect,       \* _expectNextMessage: polls since a key that must bring a message
    lastSent,     \* _allb_last_sent_command
    stack,        \* _allb_commands: the keys of users
    current       \* the value that the program read from the field

allbuttonVars == <<expect, lastSent, stack, current>>

-----------------------------------------------------------------------------
(* The panel, as the programs use it.                                       *)

Pages ==
    [menu |-> <<Item("PROMPT", "menu"), Item("REVIEW", "review"), Item("SET_TEMP", "temp"),
                Item("SET_TIME", "YEAR"), Item("SET_AQUAPURE", "aquapure"),
                Item("BOOST_POOL", "boost"), Item("SYSTEM_SETUP", "setup")>>,
     review |-> <<Item("AUX_LABELS", "LABELS"), Item("TEMP_SET", "MAINTAIN_TEMP_IS"),
                  Item("FRZ_PROTECT", "FREEZE_PROTECTION_IS_SET_TO"),
                  Item("PROGRAMS", "SELECT_DEVICE")>>,
     temp |-> <<Item("SET_POOL_TEMP", "POOL"), Item("SET_SPA_TEMP", "SPA"),
                Item("SET_TEMP1", "MUST_BE_SET")>>,
     aquapure |-> <<Item("SET_POOL_SP", "POOL_SP"), Item("SET_SPA_SP", "SPA_SP")>>,
     setup |-> <<Item("FRZ_PROTECT", "freeze"), Item("DIAGNOSTICS", "DIAGNOSTICS")>>,
     freeze |-> <<Item("TEMP_SETTING", "FRZ")>>,
     boosting |-> <<Item("REMAINING", "home"), Item("STOP", "home")>>]

(* Parts of the time come one after the other.                              *)
Rings == {"HOUR", "MODE"}
Fields == {"POOL", "SPA", "TEMP1", "POOL_SP", "SPA_SP", "FRZ", "YEAR", "MONTH", "DAY", "MINUTE"} \union Rings
Following == [YEAR |-> "MONTH", MONTH |-> "DAY", DAY |-> "HOUR", HOUR |-> "MINUTE"]
Settings == Fields \union {"BOOST"}

Display(sh, p) ==
    [sh EXCEPT !.text = IF p.page \in DOMAIN Pages THEN Pages[p.page][p.line].text ELSE p.page,
               !.val = IF p.page \in Fields THEN p.value ELSE Nothing]

(* A message that is shown once makes room for what follows it.             *)
AfterDisplay(p) ==
    CASE p.page \in {"OFF", "IS_SET_TO"} -> OnPage(p, "home")
      [] p.page = "TURNS_ON" -> OnPage(p, "SELECT_DEVICE")
      [] OTHER -> p

(* RIGHT goes to the next item, or raises the value; hours and modes go     *)
(* round.                                                                   *)
Right(p) ==
    CASE p.page \in DOMAIN Pages -> [p EXCEPT !.line = (@ % Len(Pages[p.page])) + 1]
      [] p.page \in Fields /\ p.value < Top -> [p EXCEPT !.value = @ + 1]
      [] p.page \in Rings /\ p.value = Top -> [p EXCEPT !.value = 0]
      [] OTHER -> p

(* A page is opened; a field shows what is stored.                          *)
Open(p, page) ==
    CASE page = "boost" -> OnPage(p, IF p.stored["BOOST"] = 0 THEN "START" ELSE "boosting")
      [] page \in Fields -> [OnPage(p, page) EXCEPT !.value = p.stored[page]]
      [] OTHER -> OnPage(p, page)

Left(p) ==
    CASE p.page = "MUST_BE_SET" -> Open(p, "TEMP1")
      [] p.page \in Fields /\ p.value > 0 -> [p EXCEPT !.value = @ - 1]
      [] OTHER -> p

Enter(p) ==
    CASE p.page \in DOMAIN Following -> Open(Store(p, p.page, p.value), Following[p.page])
      [] p.page \in Fields \ DOMAIN Following -> OnPage(Store(p, p.page, p.value), "IS_SET_TO")
      [] p.page = "START" -> OnPage(Store(p, "BOOST", 1), "home")
      [] p.page = "boosting" /\ p.line = 2 -> OnPage(Store(p, "BOOST", 0), "home")
      [] p.page \in DOMAIN Pages \ {"boosting"} -> Open(p, Pages[p.page][p.line].to)
      [] OTHER -> OnPage(p, "home")

(* The button of a light.  Lit, it shows its mode, and it is one program    *)
(* further than when it was lit last.                                       *)
Light(p) ==
    IF p.on THEN [OnPage(p, "OFF") EXCEPT !.on = FALSE]
    ELSE [Open(p, "MODE") EXCEPT !.on = TRUE, !.program = (@ % Top) + 1]

Press(p, k) ==
    CASE k = "menu" -> OnPage(p, "menu")
      [] k = "cancel" -> OnPage(p, "home")
      [] k = "right" -> Right(p)
      [] k = "left" -> Left(p)
      [] k = "enter" -> Enter(p)
      [] k = "light" -> Light(p)
      [] k = "device" /\ p.page = "SELECT_DEVICE" -> OnPage(p, "TURNS_ON")
      [] OTHER -> p

-----------------------------------------------------------------------------
(* Waiting for messages.                                                    *)

(* Texts that contain another one.                                          *)
Includes ==
    {<<"SET_POOL_TEMP", "POOL">>, <<"SET_SPA_TEMP", "SPA">>, <<"BOOST_POOL", "POOL">>,
     <<"SET_POOL_SP", "POOL">>, <<"SET_POOL_SP", "POOL_SP">>, <<"POOL_SP", "POOL">>,
     <<"SET_SPA_SP", "SPA">>, <<"SET_SPA_SP", "SPA_SP">>, <<"SPA_SP", "SPA">>,
     <<"SET_TEMP1", "TEMP1">>, <<"SET_TEMP1", "SET_TEMP">>,
     <<"FRZ_PROTECT", "FRZ">>, <<"FREEZE_PROTECTION_IS_SET_TO", "IS_SET_TO">>}

(* A pattern is a text, a text with a value, or NULL for any message.       *)
AtStart == -2
Wait(text, n) == Step("wait", text, Nothing, n)
WaitAny(n) == Wait("NULL", n)

Occurs(sh, s) ==
    \/ s.arg = "NULL"
    \/ /\ sh.text = s.arg \/ <<sh.text, s.arg>> \in Includes
       /\ s.val \in Values => s.val = sh.val

Matches(sh, s) == s.arg # "NULL" /\ Occurs(sh, s) /\ (s.val = AtStart => sh.text = s.arg)

(* waitForMessage looks at the last message before each of its waits, and   *)
(* not after the last one.  It returns whether the text occurred when it    *)
(* looked last, even where it had to be at the start.                       *)
waitForMessage ==
    /\ At("wait")
    /\ found' = Occurs(shown, Now)
    /\ Do(IF Matches(shown, Now) THEN <<>> ELSE <<[Now EXCEPT !.op = "parked"]>>)
    /\ Deciding /\ UNCHANGED <<failed, told>>
    /\ UNCHANGED allbuttonVars

KickThread(sh) ==
    IF ~At("parked") THEN UNCHANGED <<todo, found>>
    ELSE IF Now.n = 1 THEN Do(<<>>) /\ UNCHANGED found
    ELSE /\ found' = Occurs(sh, Now)
         /\ Do(IF Matches(sh, Now) THEN <<>> ELSE <<Count(Now)>>)

-----------------------------------------------------------------------------
(* Steps of the programs.                                                   *)

Menu(item) == Step("menu", item, Nothing, 4)
Sub(item, v) == Step("sub", item, v, SeekMax)
OrCancel == Step("orCancel", "", Nothing, 0)
Field(name) == Step("field", name, AtStart, 0)
Shows(s) == Occurs(shown, s)

(* The steps that only decide, and those that read no field.               *)
Unmoved == Deciding /\ UNCHANGED <<told, expect, lastSent, stack>>
Only(x) == Unmoved /\ UNCHANGED x

(* _select_menu_item: MENU is pressed up to four times.                     *)
SelectMenu ==
    /\ At("menu")
    /\ Do(<<Key("menu"), Wait("PROMPT", 5), [Now EXCEPT !.op = "menuFound"]>>)
    /\ Only(<<found, failed, current>>)

MenuFound ==
    /\ At("menuFound")
    /\ Do(IF found THEN <<Sub(Now.arg, Nothing)>>
          ELSE IF Now.n > 1 THEN <<[Count(Now) EXCEPT !.op = "menu"]>> ELSE <<>>)
    /\ Only(<<found, failed, current>>)

(* _select_sub_menu_item: RIGHT until the item is shown, then ENTER.        *)
SelectSub ==
    /\ At("sub")
    /\ Do(<<Empty, [Now EXCEPT !.op = "seek"]>>)
    /\ Only(<<found, failed, current>>)

Seek ==
    /\ At("seek")
    /\ found' = Shows(Now)
    /\ Do(IF Shows(Now) THEN <<Key("enter"), WaitAny(1)>>
          ELSE IF Now.n > 0
               THEN <<Key("right"), Empty, [Now EXCEPT !.op = "wait", !.n = 1], Count(Now)>>
               ELSE <<>>)
    /\ Only(<<failed, current>>)

(* A program that did not find its menu leaves.                             *)
GiveUpOrGoOn ==
    /\ At("orCancel")
    /\ failed' = (failed \/ ~found)
    /\ IF found THEN Do(<<>>) ELSE Leave(<<Key("cancel"), End>>)
    /\ Only(<<found, current>>)

(* setAqualinkNumericField_new: it reads the value, presses one key and     *)
(* waits until the value that it expects is shown.                          *)
FieldWait ==
    /\ At("field")
    /\ current' = IF Now.n = 0 THEN Nothing ELSE current
    /\ Do(<<[Now EXCEPT !.op = "wait", !.n = 4], [Now EXCEPT !.op = "adjust"]>>)
    /\ Only(<<found, failed>>)

Adjust ==
    /\ At("adjust")
    /\ LET v == IF shown.val # Nothing THEN shown.val ELSE current
           next == IF want > v THEN v + 1 ELSE IF want < v THEN v - 1 ELSE v
           k == IF want > v THEN "right" ELSE IF want < v THEN "left" ELSE "enter"
       IN  /\ current' = IF found THEN v ELSE current
           /\ failed' = (failed \/ ~found \/ (Now.n >= FieldMax /\ v # want))
           /\ Do(IF ~found THEN <<Key("cancel")>>
                 ELSE IF Now.n >= FieldMax THEN <<Key(k), Key("enter")>>
                 ELSE IF v = want THEN <<Key(k)>>
                 ELSE <<Key(k), [Now EXCEPT !.op = "field", !.val = next, !.n = @ + 1]>>)
    /\ Only(<<found>>)

(* A light is turned off before it is turned on.                            *)
LightOff ==
    /\ At("lightOff")
    /\ Do(IF shown.led THEN <<Key("light"), Empty, Wait("OFF", 5)>> ELSE <<>>)
    /\ Only(<<found, failed, current>>)

(* The modes of a light are shown one after the other.  A mode found at the *)
(* last count is taken for one that was not found, and the other way round. *)
LightMode ==
    /\ At("mode")
    /\ Do(<<Wait("MODE", IF Now.n = 0 THEN 12 ELSE 3), [Now EXCEPT !.op = "modeShown"]>>)
    /\ Only(<<found, failed, current>>)

ModeShown ==
    /\ At("modeShown")
    /\ LET use == want = 0 \/ (shown.text = "MODE" /\ shown.val = want)
           tell == IF Now.arg = "dimmer" THEN <<Tell>> ELSE <<>>
       IN  Do(IF use THEN <<Key("enter"), Empty>> \o (IF Now.n = ModeMax THEN <<>> ELSE tell)
              ELSE <<Key("right"), Empty, WaitAny(1)>>
                   \o (IF Now.n < ModeMax THEN <<[Now EXCEPT !.op = "mode", !.n = @ + 1]>> ELSE tell))
    /\ Only(<<found, failed, current>>)

(* set_allbutton_boost, off: STOP is looked for in five messages.           *)
BoostStop ==
    /\ At("stop")
    /\ Do(IF Now.n = 0 THEN <<>>
          ELSE <<Wait("STOP", 1), [Now EXCEPT !.op = "stopShown"]>>)
    /\ Only(<<found, failed, current>>)

StopShown ==
    /\ At("stopShown")
    /\ LET after == IF Now.n = 1 THEN <<>> ELSE <<Tell>> IN
       Do(IF shown.text = "STOP" THEN <<Key("enter")>> \o after
          ELSE IF Now.val = Nothing THEN <<Delay, [Now EXCEPT !.val = 0]>>
          ELSE <<Key("right"), Empty, Step("stop", "", Nothing, Now.n - 1)>>)
    /\ Only(<<found, failed, current>>)

(* set_allbutton_light_programmode: a lit light whose program is known is   *)
(* advanced; another one is lit, turned off long enough to forget its       *)
(* program, and lit as often as the number of the program says.             *)
Pulse == <<Key("light"), Empty, Delay>>
Pulses(n) == [i \in 1..3 * (2 * n - 1) |-> Pulse[((i - 1) % 3) + 1]]

PulseLight ==
    /\ At("pulse")
    /\ LET steps == (want - told + Top) % Top
           advance == IF steps = 0 THEN <<>> ELSE Pulse \o Pulses(steps)
           again == (IF shown.led THEN <<>> ELSE <<Key("light"), Delay>>)
                    \o <<Key("light"), Step("reset", "", Nothing, 0)>> \o Pulses(want)
       IN  Do(IF want = 0 THEN (IF shown.led THEN <<Key("light")>> ELSE <<>>)
              ELSE (IF shown.led /\ Now.arg = "advance" /\ told > 0 THEN advance ELSE again) \o <<Tell>>)
    /\ Only(<<found, failed, current>>)

(* The light forgets its program while it is off.                           *)
LightForgets ==
    /\ At("reset")
    /\ IF key = NoKey THEN Fine ELSE Goes("silent")
    /\ panel' = IF panel.on THEN panel ELSE [panel EXCEPT !.program = 0]
    /\ Do(<<>>)
    /\ UNCHANGED <<emulation, prog, want, found, failed, told, key, out, shown>>
    /\ UNCHANGED allbuttonVars

(* A second name of the menu is tried when the first was not found.         *)
TryOther ==
    /\ At("orTry")
    /\ Do(IF found THEN <<>> ELSE <<Menu(Now.arg)>>)
    /\ Only(<<found, failed, current>>)

(* A panel for one body of water says first which of its two temperatures   *)
(* must be higher, and the program waits without limit until that is gone.  *)
Until(text) == Step("until", text, Nothing, 0)
TextGone ==
    /\ At("until") /\ shown.text # Now.arg
    /\ Do(<<>>)
    /\ Only(<<found, failed, current>>)

(* get_aqualink_program_for_button gives up, and the program ends where it  *)
(* is.                                                                      *)
OrEnd == Step("orEnd", "", Nothing, 0)
EndOrGoOn ==
    /\ At("orEnd")
    /\ failed' = (failed \/ ~found)
    /\ IF found THEN Do(<<>>) ELSE Leave(<<End>>)
    /\ Only(<<found, current>>)

EnterOrCancel ==
    /\ At("enterOrCancel")
    /\ Do(<<Key(IF found THEN "enter" ELSE "cancel")>>)
    /\ Only(<<found, failed, current>>)

Deciders ==
    \/ waitForMessage \/ SelectMenu \/ MenuFound \/ SelectSub \/ Seek \/ GiveUpOrGoOn
    \/ FieldWait \/ Adjust \/ LightOff \/ LightMode \/ ModeShown \/ BoostStop \/ StopShown
    \/ PulseLight \/ LightForgets \/ TryOther \/ TextGone \/ EndOrGoOn \/ EnterOrCancel

-----------------------------------------------------------------------------
(* The programs.                                                            *)

Select(menu) == <<Menu(menu), OrCancel>>
Go(item) == <<Sub(item, Nothing), OrCancel>>

set_allbutton_boost(v) ==
    <<Menu("BOOST_POOL"), Step("orTry", "SUPERCHLORINATE", Nothing, 0), OrCancel>>
    \o (IF v = 0 THEN <<Step("stop", "", Nothing, 5)>> ELSE <<Wait("START", 5), Key("enter"), Empty>>)
    \o <<WaitAny(1), End>>

set_allbutton_SWG(item, field) ==
    <<Menu("SET_AQUAPURE"), Step("orTry", "SET_AQUARITE", Nothing, 0), OrCancel>> \o Go(item)
    \o <<Field(field), Tell, Wait("IS_SET_TO", 1), WaitAny(1), End>>

get_allbutton_aux_labels == Select("REVIEW") \o Go("AUX_LABELS") \o <<WaitAny(5), End>>

set_allbutton_light_colormode ==
    <<Step("lightOff", "", Nothing, 0), Key("light"), Empty, Step("mode", "color", Nothing, 0), End>>

set_allbutton_light_programmode(how) == <<Step("pulse", how, Nothing, 0), End>>

set_allbutton_light_dimmer ==
    <<Step("lightOff", "", Nothing, 0), Key("light"), Empty, Step("mode", "dimmer", Nothing, 0), End>>

set_allbutton_pool_heater_temps ==
    Select("SET_TEMP") \o Go("SET_POOL_TEMP") \o <<Field("POOL"), Wait("IS_SET_TO", 1), End>>

(* The same on a panel for one body of water.                               *)
set_allbutton_temp1 ==
    Select("SET_TEMP") \o Go("SET_TEMP1")
    \o <<Wait("MUST_BE_SET", 5), Key("left"), Until("MUST_BE_SET"),
         Field("TEMP1"), Wait("IS_SET_TO", 1), End>>

set_allbutton_spa_heater_temps ==
    Select("SET_TEMP") \o Go("SET_SPA_TEMP") \o <<Field("SPA"), Wait("IS_SET_TO", 1), End>>

set_allbutton_freeze_heater_temps ==
    Select("SYSTEM_SETUP") \o Go("FRZ_PROTECT") \o Go("TEMP_SETTING")
    \o <<Field("FRZ"), Wait("IS_SET_TO", 3), End>>

(* A part of the time that cannot be set does not keep the program from     *)
(* going on with the next one.                                              *)
set_allbutton_time(v) ==
    Select("SET_TIME")
    \o <<Field("YEAR"), Field("MONTH"), Field("DAY"), Sub("HOUR", v), Field("MINUTE"),
         Key("enter"), End>>

get_allbutton_diag_model == Select("SYSTEM_SETUP") \o Go("DIAGNOSTICS") \o <<WaitAny(8), End>>

get_allbutton_pool_spa_heater_temps ==
    Select("REVIEW") \o Go("TEMP_SET") \o <<Wait("MAINTAIN_TEMP_IS", 5), End>>

get_allbutton_freeze_protect_temp ==
    Select("REVIEW") \o Go("FRZ_PROTECT") \o <<Wait("FREEZE_PROTECTION_IS_SET_TO", 6), End>>

(* Two of the seven buttons stand for all of them.                          *)
get_aqualink_program_for_button ==
    <<Wait("SELECT_DEVICE", 7), OrEnd, Key("device"), Wait("TURNS_ON", 7), OrEnd>>
get_allbutton_programs ==
    Select("REVIEW") \o Go("PROGRAMS")
    \o get_aqualink_program_for_button \o get_aqualink_program_for_button
    \o <<Wait("SELECT_DEVICE", 6), Step("enterOrCancel", "", Nothing, 0), End>>

Scripts(v) ==
    [AQ_SET_BOOST |-> set_allbutton_boost(v),
     AQ_SET_SWG_PERCENT |-> set_allbutton_SWG("SET_POOL_SP", "POOL_SP"),
     SPA_SWG_PERCENT |-> set_allbutton_SWG("SET_SPA_SP", "SPA_SP"),
     AQ_GET_AUX_LABELS |-> get_allbutton_aux_labels,
     AQ_SET_LIGHTCOLOR_MODE |-> set_allbutton_light_colormode,
     AQ_SET_LIGHTPROGRAM_MODE |-> set_allbutton_light_programmode("again"),
     ADVANCE_LIGHTPROGRAM |-> set_allbutton_light_programmode("advance"),
     AQ_SET_LIGHTDIMMER |-> set_allbutton_light_dimmer,
     AQ_SET_POOL_HEATER_TEMP |-> set_allbutton_pool_heater_temps,
     TEMP1_HEATER_TEMP |-> set_allbutton_temp1,
     AQ_SET_SPA_HEATER_TEMP |-> set_allbutton_spa_heater_temps,
     AQ_SET_FRZ_PROTECTION_TEMP |-> set_allbutton_freeze_heater_temps,
     AQ_SET_TIME |-> set_allbutton_time(v),
     AQ_GET_DIAGNOSTICS_MODEL |-> get_allbutton_diag_model,
     AQ_GET_POOL_SPA_HEATER_TEMPS |-> get_allbutton_pool_spa_heater_temps,
     AQ_GET_FREEZE_PROTECT_TEMP |-> get_allbutton_freeze_protect_temp,
     AQ_GET_PROGRAMS |-> get_allbutton_programs]

Lights == {"AQ_SET_LIGHTCOLOR_MODE", "AQ_SET_LIGHTDIMMER",
           "AQ_SET_LIGHTPROGRAM_MODE", "ADVANCE_LIGHTPROGRAM"}

(* The settings that each program is asked to change.                       *)
Target(p) ==
    CASE p = "AQ_SET_BOOST" -> {"BOOST"}
      [] p = "AQ_SET_SWG_PERCENT" -> {"POOL_SP"}
      [] p = "SPA_SWG_PERCENT" -> {"SPA_SP"}
      [] p \in {"AQ_SET_LIGHTCOLOR_MODE", "AQ_SET_LIGHTDIMMER"} -> {"MODE"}
      [] p = "AQ_SET_POOL_HEATER_TEMP" -> {"POOL"}
      [] p = "TEMP1_HEATER_TEMP" -> {"TEMP1"}
      [] p = "AQ_SET_SPA_HEATER_TEMP" -> {"SPA"}
      [] p = "AQ_SET_FRZ_PROTECTION_TEMP" -> {"FRZ"}
      [] p = "AQ_SET_TIME" -> {"YEAR", "MONTH", "DAY", "HOUR", "MINUTE"}
      [] OTHER -> {}

(* The panel p is as the program was asked to make it.  A light keeps its   *)
(* mode when none is asked for.                                             *)
Asked(p) ==
    /\ \A s \in Target(prog) \ {"HOUR"} : p.stored[s] = want \/ (prog \in Lights /\ want = 0)
    /\ prog \in Lights => (p.on <=> want > 0 \/ prog \in {"AQ_SET_LIGHTCOLOR_MODE", "AQ_SET_LIGHTDIMMER"})
    /\ prog \in {"AQ_SET_LIGHTPROGRAM_MODE", "ADVANCE_LIGHTPROGRAM"} /\ want > 0 => p.program = want

-----------------------------------------------------------------------------
(* The bus.                                                                 *)

(* A status packet: pop_allb_cmd answers it.  The panel owes a message for  *)
(* each key; it is a mishap when it polls four times before it sends it.    *)
pop_allb_cmd ==
    IF expect > 3 THEN lastSent
    ELSE IF Working THEN key
    ELSE IF stack # <<>> THEN Head(stack) ELSE NoKey

StatusPoll ==
    /\ emulation = "allbutton"
    /\ LET cmd == pop_allb_cmd
           again == expect > 3
           lit == [shown EXCEPT !.led = panel.on]
       IN  /\ \/ out = <<>> /\ Turn /\ panel' = Press(panel, cmd)
              \/ out = <<>> /\ Asleep /\ cmd # NoKey /\ Goes("lost") /\ panel' = panel
              \/ out # <<>> /\ Asleep /\ "slow" \in mishaps /\ Fine /\ panel' = Press(panel, cmd)
              \/ out # <<>> /\ Asleep /\ Goes("slow") /\ panel' = Press(panel, cmd)
           /\ expect' = IF again THEN 0
                        ELSE IF cmd \in {"enter", "right", "left", "menu"} THEN 1
                        ELSE IF expect > 0 THEN expect + 1 ELSE 0
           /\ lastSent' = IF cmd \in {"enter", "right", "left", "menu"} THEN cmd ELSE lastSent
           /\ key' = IF ~again /\ Working THEN NoKey ELSE key
           /\ stack' = IF ~again /\ ~Working /\ stack # <<>> THEN Tail(stack) ELSE stack
           /\ shown' = lit
           /\ out' = <<"message">>
           /\ IF prog \in {"AQ_SET_LIGHTPROGRAM_MODE", "ADVANCE_LIGHTPROGRAM"}
              THEN KickThread(shown) ELSE UNCHANGED <<todo, found>>
    /\ UNCHANGED <<emulation, prog, want, failed, told, current>>

(* A message.                                                               *)
MessagePoll ==
    /\ emulation = "allbutton"
    /\ out # <<>>
    /\ \/ Turn /\ shown' = Display(shown, panel) /\ panel' = AfterDisplay(panel)
       \/ Asleep /\ Goes("repeat") /\ UNCHANGED <<shown, panel>>
    /\ out' = <<>>
    /\ expect' = 0
    /\ KickThread(shown')
    /\ UNCHANGED <<emulation, prog, want, failed, told, key, lastSent, stack, current>>

(* push_allb_cmd: a user presses a button of the panel.                     *)
UserKey ==
    /\ emulation = "allbutton" /\ stack = <<>> /\ "user" \notin mishaps
    /\ stack' = <<"device">>
    /\ Goes("user")
    /\ UNCHANGED <<emulation, prog, want, todo, found, failed, told, key, out, shown, panel>>
    /\ UNCHANGED <<expect, lastSent, current>>

(* A key whose message is late takes the place of the one before it.        *)
ThreadStep ==
    \/ CommonStep /\ UNCHANGED allbuttonVars
    \/ SendKeyLate(Now.arg) /\ UNCHANGED allbuttonVars
    \/ Deciders

Next == emulation = "allbutton" /\ (ThreadStep \/ StatusPoll \/ MessagePoll \/ UserKey)

(* A program starts on the home page, or on one where a program before it   *)
(* ended without pressing CANCEL.                                           *)
LeftBehind == {"home", "LABELS"}
Init ==
    \E v \in Values, p \in DOMAIN Scripts(0), page \in LeftBehind :
        /\ emulation = "allbutton"
        /\ p = "AQ_SET_BOOST" => v <= 1
        /\ prog = p /\ want = v
        /\ todo = Scripts(v)[p]
        /\ \E old \in OldsOf(p, {"AQ_SET_BOOST"}), lit \in IF p \in Lights THEN BOOLEAN ELSE {FALSE} :
              /\ panel = [page |-> page, line |-> 1, value |-> 0, on |-> lit, program |-> IF lit THEN 1 ELSE 0,
                          stored |-> [s \in Settings |-> IF s = "BOOST" /\ old > 1 THEN 1 ELSE old]]
              /\ shown = [text |-> page, val |-> Nothing, led |-> lit]
        /\ told = IF panel.on THEN panel.program ELSE Nothing
        /\ key = NoKey /\ expect = 0 /\ lastSent = NoKey /\ stack = <<>> /\ current = Nothing
=============================================================================
