------------------------- MODULE OneTouchPrograms --------------------------
(* The programs that work the OneTouch remote (onetouch_aq_programmer.c):   *)
(* they move a highlight over pages of items, and set a number by as many   *)
(* presses as it differs from the one that is shown, without looking again. *)
(* The panel's packets clear the page, fill its lines, and highlight a line *)
(* or some characters of it (onetouch.c).                                   *)
EXTENDS ProgramThread

CONSTANT
    Patience      \* messages that the long waits take (15 and 20 in the code)

-----------------------------------------------------------------------------
(* The panel, as the programs use it.                                       *)

Pages ==
    [ONETOUCH |-> <<Item("More OneTouch", "ONETOUCH"), Item("System", "SYSTEM")>>,
     SYSTEM |-> <<Item("Equipment ON/OFF", "EQUIPMENT"), Item("ONETOUCH ON/OFF", "ONETOUCH"),
                  Item("Menu / Help", "MENUHELP")>>,
     EQUIPMENT |-> <<Item("Filter Pump", "EQUIPMENT"), Item("Aux1", "EQUIPMENT")>>,
     EQUIPMENT2 |-> <<Item("Aux2", "EQUIPMENT2"), Item("VSP1 Spd Adj", "SPEED")>>,
     SPEED |-> <<Item("Low", "SPEED"), Item("High X", "PUMP")>>,
     MENUHELP |-> <<Item("Set Temp", "SET_TEMP"), Item("Set Time", "SET_TIME"),
                    Item("Set AQUA", "SET_AQUAPURE"), Item("Boost", "BOOST"),
                    Item("System Setup", "SETUP")>>,
     SETUP |-> <<Item("Freeze Protect", "FREEZE_PROTECT")>>,
     SET_TEMP |-> <<Item("Pool Heat", "POOL"), Item("Spa Heat", "SPA")>>,
     SET_AQUAPURE |-> <<Item("Set Pool", "POOL SP"), Item("Set Spa", "SPA SP")>>,
     START |-> <<Item("Start", "BOOSTING")>>,
     BOOSTING |-> <<Item("Pause", "BOOSTING"), Item("Stop", "START")>>]

(* Pages whose fields are edited one after the other, as they are opened.   *)
Forms ==
    [SET_TIME |-> <<"MONTH", "DAY", "YEAR", "HOUR", "MINUTE">>,
     RPM |-> <<"RPM">>,
     GPM |-> <<"GPM">>,
     ONE_AQUAPURE |-> <<"POOL SP">>]
FieldsOf(page) == {Forms[page][i] : i \in 1..Len(Forms[page])}
Settings == {"POOL", "SPA", "POOL SP", "SPA SP", "BOOST", "MACRO"}
            \union UNION {FieldsOf(page) : page \in DOMAIN Forms}

(* What get_onetouch_menu_type tells apart.                                 *)
TypeOf(page) ==
    CASE page \in {"START", "BOOSTING"} -> "BOOST"
      [] page = "ONE_AQUAPURE" -> "SET_AQUAPURE"
      [] OTHER -> page

Parent(page) ==
    CASE page \in {"SET_TEMP", "SET_TIME", "SET_AQUAPURE", "ONE_AQUAPURE", "START", "BOOSTING", "SETUP"} -> "MENUHELP"
      [] page = "FREEZE_PROTECT" -> "SETUP"
      [] page \in {"RPM", "GPM"} -> "SPEED"
      [] page = "SPEED" -> "EQUIPMENT"
      [] page = "SYSTEM" -> "ONETOUCH"
      [] page = "ONETOUCH" -> "ONETOUCH"
      [] OTHER -> "SYSTEM"

Setting(p) == IF p.page \in DOMAIN Forms THEN Forms[p.page][p.line] ELSE Pages[p.page][p.line].to
Edit(p) == [p EXCEPT !.edit = TRUE, !.value = p.stored[Setting(p)]]

(* A panel for one body of water first tells that one of its temperatures   *)
(* must be higher, and has one percentage.                                  *)
Open(p, page) ==
    LET to == CASE page = "PUMP" -> p.unit
                [] page = "BOOST" -> IF p.stored["BOOST"] = 0 THEN "START" ELSE "BOOSTING"
                [] page = "SET_TEMP" /\ p.single -> "NAG"
                [] page = "SET_AQUAPURE" /\ p.single -> "ONE_AQUAPURE"
                [] OTHER -> page
        q == [OnPage(p, to) EXCEPT !.edit = FALSE]
    IN  IF to \in DOMAIN Forms THEN Edit(q) ELSE q

Select(p) ==
    CASE p.edit ->
           LET q == Store(p, Setting(p), p.value) IN
           IF p.page \in DOMAIN Forms /\ p.line < Len(Forms[p.page])
           THEN Edit([q EXCEPT !.line = @ + 1]) ELSE [q EXCEPT !.edit = FALSE]
      [] ~p.edit /\ p.page \in {"SET_TEMP", "SET_AQUAPURE"} -> Edit(p)
      [] p.page = "START" -> Open(Store(p, "BOOST", 1), "BOOSTING")
      [] p.page = "BOOSTING" /\ p.line = 2 -> Open(Store(p, "BOOST", 0), "START")
      [] p.page \in DOMAIN Pages \ {"SET_TEMP", "SET_AQUAPURE", "START", "BOOSTING"} ->
           Open(p, Pages[p.page][p.line].to)
      [] p.page = "STATUS" -> Open(p, "SYSTEM")
      [] OTHER -> p

Move(p, by) ==
    LET n == Len(Pages[p.page]) IN [p EXCEPT !.line = ((@ - 1 + by + n) % n) + 1]

Press(p, k) ==
    IF p.page = "NAG" THEN OnPage(p, "SET_TEMP") ELSE
    CASE k = "up" /\ p.edit /\ p.value < Top -> [p EXCEPT !.value = @ + 1]
      [] k = "down" /\ p.edit /\ p.value > 0 -> [p EXCEPT !.value = @ - 1]
      [] k = "up" /\ ~p.edit /\ p.page \in DOMAIN Pages -> Move(p, -1)
      [] k = "down" /\ ~p.edit /\ p.page \in DOMAIN Pages -> Move(p, 1)
      [] k = "select" -> Select(p)
      [] k = "back" -> Open(p, Parent(p.page))
      [] k = "page down" /\ p.page = "EQUIPMENT" -> Open(p, "EQUIPMENT2")
      [] k = "page down" /\ p.page = "EQUIPMENT2" -> Open(p, "EQUIPMENT")
      [] k = "select_1" /\ p.page = "ONETOUCH" -> Store(p, "MACRO", 1 - p.stored["MACRO"])
      [] OTHER -> p

(* The packets that tell of a change.                                       *)
Packets(p, q) ==
    CASE p.page # q.page /\ {p.page, q.page} = {"EQUIPMENT", "EQUIPMENT2"} -> <<"line", "highlight">>
      [] p.page # q.page /\ {p.page, q.page} # {"EQUIPMENT", "EQUIPMENT2"} ->
           <<"clear", "line", IF q.edit THEN "chars" ELSE "highlight">>
      [] p.page = q.page /\ p.edit /\ ~q.edit -> <<"line", "highlight">>
      [] p.page = q.page /\ ~p.edit /\ q.edit -> <<"off", "chars">>
      [] p.page = q.page /\ p.edit /\ q.edit /\ <<p.line, p.value>> # <<q.line, q.value>> -> <<"line", "chars">>
      [] p.page = q.page /\ ~p.edit /\ ~q.edit /\ p.line # q.line -> <<"highlight">>
      [] p.page = q.page /\ p.stored # q.stored /\ ~p.edit /\ ~q.edit -> <<"line">>
      [] OTHER -> <<>>

-----------------------------------------------------------------------------
(* What the daemon keeps of the display (process_onetouch_menu_packet): the *)
(* page, the line that is highlighted, the number in it, whether characters *)
(* of it are (chars), whether some once were (stop: their end is never      *)
(* reset), the type of the last packet, whether a page is being filled, and *)
(* the light of the macro.                                                  *)
Hidden == 0
Nowhere == ""
NumberShown(p) ==
    IF p.edit THEN p.value
    ELSE IF TypeOf(p.page) = "SET_AQUAPURE" THEN p.stored[IF p.spa THEN "SPA SP" ELSE "POOL SP"]
    ELSE Nothing

Seen(sh, packet) ==
    LET next ==
          CASE packet = "clear" -> [sh EXCEPT !.page = Nowhere, !.line = Hidden, !.val = Nothing, !.chars = FALSE]
            [] packet = "line" -> [sh EXCEPT !.page = panel.page, !.val = NumberShown(panel)]
            [] packet = "off" -> [sh EXCEPT !.line = Hidden, !.chars = FALSE]
            [] packet = "highlight" -> [sh EXCEPT !.line = panel.line, !.chars = FALSE]
            [] packet = "chars" -> [sh EXCEPT !.line = panel.line, !.chars = TRUE, !.stop = TRUE, !.val = panel.value]
            [] OTHER -> sh
    IN  [next EXCEPT !.last = IF packet = "off" THEN "highlight" ELSE packet]

(* new_menu, when a page is complete (process_onetouch_packet).             *)
NewMenu(sh, packet) ==
    \/ sh.filling /\ packet \in {"highlight", "off", "status"}
    \/ sh.last = "line" /\ packet \in {"highlight", "off"}

set_macro_status(sh) ==
    IF sh.page = "ONETOUCH" THEN [sh EXCEPT !.led = panel.stored["MACRO"]] ELSE sh

process_onetouch_packet(packet) ==
    LET sh == Seen(shown, packet) IN
    IF NewMenu(shown, packet) THEN [set_macro_status(sh) EXCEPT !.filling = FALSE]
    ELSE [sh EXCEPT !.filling = @ \/ packet = "clear"]

(* A page of the salt water generator is told of when it is cleared.        *)
log_programming_information(packet) ==
    told' = IF packet = "clear" /\ TypeOf(shown.page) = "SET_AQUAPURE" /\ shown.val # Nothing
            THEN shown.val ELSE told

-----------------------------------------------------------------------------
(* Waiting.  What the waits return is used nowhere.                         *)

Types(what, n) == Step("types", what, Nothing, n)
NextMenu == Step("parked", "menu", Nothing, Patience)

Awaited(sh, what) ==
    \/ what = "highlight" /\ sh.last \in {"highlight", "chars"}
    \/ what = "line" /\ sh.last \in {"line", "chars"}
    \/ what = "chars" /\ sh.last = "chars"

Decide(steps, result) ==
    /\ Do(steps)
    /\ found' = result
    /\ Deciding /\ UNCHANGED <<failed, told>>

(* waitForOT_MessageTypes looks at the last packet before it waits.         *)
waitForOT_MessageTypes ==
    /\ At("types")
    /\ Decide(IF Awaited(shown, Now.arg) THEN <<>> ELSE <<[Now EXCEPT !.op = "parked"]>>, found)

KickThread(sh, menu) ==
    IF ~At("parked") THEN UNCHANGED todo
    ELSE Do(IF Now.n = 1 \/ Awaited(sh, Now.arg) \/ (Now.arg = "menu" /\ menu) THEN <<>> ELSE <<Count(Now)>>)

-----------------------------------------------------------------------------
(* Finding a page.                                                          *)

KeyTaken(k) == <<Key(k), Empty>>
Highlight(item) == Step("highlight", item, Nothing, 0)
SelectItem(item) == <<Highlight(item), Step("select", "", Nothing, 0)>>
IsPage(page) == Step("isPage", page, Nothing, 0)
System == Step("system", "", Nothing, 5)
Goto(page) ==
    IF page = "ONETOUCH" THEN <<Step("macros", "", Nothing, 4)>>
    ELSE <<System, Step("route", page, Nothing, 0)>>

IndexOf(page, item) ==
    IF page \notin DOMAIN Pages THEN {} ELSE {i \in 1..Len(Pages[page]) : Pages[page][i].text = item}
Highlighted(item) == shown.line \in IndexOf(shown.page, item)
More == shown.page \in {"EQUIPMENT", "EQUIPMENT2"}

(* highlight_onetouch_menu_item: DOWN as often as the item is further down. *)
(* On a page with more the next one is shown until the item is there.       *)
HighlightItem ==
    /\ At("highlight")
    /\ IF IndexOf(shown.page, Now.arg) # {}
       THEN LET index == CHOOSE i \in IndexOf(shown.page, Now.arg) : TRUE IN
            IF index > shown.line THEN Decide(<<[Now EXCEPT !.op = "down", !.n = index - shown.line]>>, found)
            ELSE Decide(<<>>, Highlighted(Now.arg))
       ELSE IF More \/ Now.val = 1 THEN Decide(<<Key("page down"), NextMenu, [Now EXCEPT !.val = 1]>>, found)
       ELSE Decide(<<>>, FALSE)

MoveDown ==
    /\ At("down")
    /\ Decide(KeyTaken("down") \o <<Types("highlight", 3), [Count(Now) EXCEPT !.op = "moved"]>>, found)

Moved ==
    /\ At("moved")
    /\ Decide(IF Highlighted(Now.arg) \/ Now.n = 0 THEN <<>> ELSE <<[Now EXCEPT !.op = "down"]>>,
              Highlighted(Now.arg))

(* select_onetouch_menu_item.                                               *)
SelectHighlighted ==
    /\ At("select")
    /\ Decide(IF found THEN <<Key("select"), NextMenu>> ELSE <<>>, found)

(* goto_onetouch_system_menu: BACK up to five times.                        *)
GotoSystem ==
    /\ At("system")
    /\ IF shown.page = "SYSTEM" THEN Decide(<<>>, TRUE)
       ELSE IF shown.page = "ONETOUCH"
            THEN Decide((IF Highlighted("System") THEN <<>> ELSE <<Key("down"), Types("highlight", Patience)>>)
                        \o KeyTaken("select") \o <<NextMenu, IsPage("SYSTEM")>>, found)
       ELSE IF Now.n > 0 THEN Decide(KeyTaken("back") \o <<NextMenu, Count(Now)>>, found)
       ELSE Decide(<<>>, FALSE)

(* goto_onetouch_macros_menu: four steps at most.                           *)
GotoMacros ==
    /\ At("macros")
    /\ IF shown.page = "ONETOUCH" \/ Now.n = 0 THEN Decide(<<>>, Now.n > 0)
       ELSE Decide((IF shown.page = "SYSTEM" THEN SelectItem("ONETOUCH ON/OFF") \o <<Empty>>
                    ELSE KeyTaken("back"))
                   \o <<NextMenu, Count(Now)>>, found)

(* goto_onetouch_menu, from the system menu on.                             *)
SecondMenu ==
    [SET_TEMP |-> SelectItem("Set Temp"), SET_TIME |-> SelectItem("Set Time"),
     SET_AQUAPURE |-> SelectItem("Set AQUA"), BOOST |-> SelectItem("Boost"),
     FREEZE_PROTECT |-> SelectItem("System Setup") \o SelectItem("Freeze Protect")]

Route ==
    /\ At("route")
    /\ Decide(IF ~found \/ Now.arg = "SYSTEM" THEN <<>>
              ELSE IF Now.arg = "EQUIPMENT" THEN SelectItem("Equipment ON/OFF")
              ELSE SelectItem("Menu / Help") \o <<[Now EXCEPT !.op = "second"]>>, found)

Second ==
    /\ At("second")
    /\ Decide((IF found THEN SecondMenu[Now.arg] ELSE <<>>) \o <<[Now EXCEPT !.op = "arrived"]>>, found)

Arrived ==
    /\ At("arrived")
    /\ Decide((IF Now.arg = "SET_TEMP" /\ shown.page # "SET_TEMP" THEN <<NextMenu>> ELSE <<>>)
              \o <<IsPage(Now.arg)>>, found)

PageChecked == At("isPage") /\ Decide(<<>>, TypeOf(shown.page) = Now.arg)

Finders ==
    \/ waitForOT_MessageTypes \/ HighlightItem \/ MoveDown \/ Moved \/ SelectHighlighted
    \/ GotoSystem \/ GotoMacros \/ Route \/ Second \/ Arrived \/ PageChecked

-----------------------------------------------------------------------------
(* Setting a number.                                                        *)

(* atoi of the highlighted characters: without any it reads the end of the  *)
(* line before, or memory before the page when no line is highlighted.      *)
NumberRead ==
    IF shown.chars THEN {shown.val} ELSE IF shown.line # Hidden THEN {0} ELSE Values

Times(n, steps) ==
    [i \in 1..n * Len(steps) |-> steps[((i - 1) % Len(steps)) + 1]]
Presses(from) ==
    IF want > from THEN Times(want - from, KeyTaken("up")) ELSE Times(from - want, KeyTaken("down"))

(* The heater's and the generator's loops, and set_numeric_value, which     *)
(* looks at what it did but only to tell of it.                             *)
Number == Step("number", "", Nothing, 0)
CheckedNumber == Step("number", "checked", Nothing, 0)
PressNumber ==
    /\ At("number")
    /\ \E v \in NumberRead :
          Decide(Presses(v) \o (IF Now.arg = "checked" /\ v # want THEN <<Types("chars", 5)>> ELSE <<>>), found)

(* set_aqualink_onetouch_swg_percent goes on when the characters are not    *)
(* too many; when none are highlighted that depends on where some once      *)
(* ended.                                                                   *)
Chars == Step("charsWait", "", Nothing, 0)
WaitForChars ==
    /\ At("charsWait")
    /\ Decide(IF shown.chars \/ ~shown.stop THEN <<>> ELSE <<Delay, Types("chars", 5), Now>>, found)

(* set_aqualink_onetouch_time waits without limit for each part of the date.*)
Place(i) == Step("place", "", Nothing, i)
(* (Fault) The lines are counted from zero.                                 *)
WaitForLineAbove ==
    /\ At("place")
    /\ Decide(IF shown.chars /\ shown.line = Now.n - 1 THEN <<>> ELSE <<Types("chars", Patience), Now>>, found)

WaitForPlace ==
    /\ At("place")
    /\ Decide(IF shown.chars /\ shown.line = Now.n THEN <<>> ELSE <<Types("chars", Patience), Now>>, found)

(* set_aqualink_onetouch_pump_rpm: the speed in use is marked by an X; the  *)
(* program sets its digits, one of which stands for the four here, or its   *)
(* flow, press by press.                                                    *)
Fails(steps) ==
    /\ Do(steps)
    /\ failed' = TRUE
    /\ Deciding /\ UNCHANGED <<found, told>>

SelectSpeed ==
    /\ At("speed")
    /\ IF found /\ shown.page = "SPEED"
       THEN Decide(<<Step("seekX", "", Nothing, 12), Step("setTo", "", Nothing, 0)>>, found)
       ELSE Fails(<<>>)

SeekX ==
    /\ At("seekX")
    /\ Decide(IF Now.n = 0 THEN <<>>
              ELSE IF Highlighted("High X") THEN KeyTaken("select") \o <<NextMenu>>
              ELSE KeyTaken("down") \o <<Types("highlight", Patience), Count(Now)>>, found)

SetTo ==
    /\ At("setTo")
    /\ CASE shown.line # Hidden /\ shown.page = "RPM" ->
              Decide(<<Step("digit", "", Nothing, 0), Step("tellShown", "", Nothing, 0)>>
                     \o KeyTaken("select") \o <<Types("line", 5)>>, found)
         [] shown.line # Hidden /\ shown.page = "GPM" -> Decide(<<Step("gpm", "", Nothing, 24)>>, found)
         [] OTHER -> Fails(<<>>)

PressDigit == At("digit") /\ Decide(Presses(shown.val), found)

TellShown ==
    /\ At("tellShown")
    /\ told' = shown.val
    /\ Do(<<>>)
    /\ Deciding /\ UNCHANGED <<found, failed>>

SetFlow ==
    /\ At("gpm")
    /\ told' = IF Now.n > 0 /\ shown.val = want THEN want ELSE told
    /\ Do(IF Now.n = 0 THEN <<>>
          ELSE IF shown.val = want THEN KeyTaken("select")
          ELSE KeyTaken(IF shown.val > want THEN "down" ELSE "up") \o <<Types("line", 5), Count(Now)>>)
    /\ Deciding /\ UNCHANGED <<found, failed>>

(* set_aqualink_onetouch_macro: the light of the button is changed with the *)
(* key.                                                                     *)
PressMacro ==
    /\ At("macro")
    /\ IF shown.led = want THEN Leave(<<End>>) /\ UNCHANGED told
       ELSE Leave(<<Key("select_1"), End>>) /\ told' = 1 - shown.led
    /\ Deciding /\ UNCHANGED <<found, failed>>

(* set_aqualink_onetouch_boost.                                             *)
PressBoost ==
    /\ At("boost")
    /\ CASE found /\ Highlighted("Start") -> Decide(IF want = 1 THEN KeyTaken("select") ELSE <<>>, found)
         [] found /\ Highlighted("Pause") ->
              Decide(IF want = 0 THEN <<Highlight("Stop")>> \o KeyTaken("select") \o <<Tell>> ELSE <<>>, found)
         [] OTHER -> Fails(<<>>)

(* A page that was not found is told of, or is the end of the program.      *)
Noted == Step("noted", "", Nothing, 0)
OrBack(to) == Step("orBack", to, Nothing, 0)
NoteFailure == At("noted") /\ (IF found THEN Decide(<<>>, found) ELSE Fails(<<>>))

GoBack ==
    /\ At("orBack")
    /\ IF found THEN Decide(<<>>, found)
       ELSE /\ Leave((IF Now.arg = "system" THEN Goto("SYSTEM") ELSE <<>>) \o <<End>>)
            /\ failed' = TRUE
            /\ Deciding /\ UNCHANGED <<found, told>>

Setters ==
    \/ PressNumber \/ WaitForChars \/ WaitForPlace \/ SelectSpeed \/ SeekX \/ SetTo \/ PressDigit
    \/ TellShown \/ SetFlow \/ PressMacro \/ PressBoost \/ NoteFailure \/ GoBack

-----------------------------------------------------------------------------
(* The programs.                                                            *)

Finish == Goto("SYSTEM") \o <<End>>
Store_it == KeyTaken("select") \o KeyTaken("back")

set_aqualink_onetouch_pump_rpm ==
    Goto("EQUIPMENT") \o <<Noted>> \o SelectItem("VSP1 Spd Adj") \o <<Step("speed", "", Nothing, 0)>> \o Finish

set_aqualink_onetouch_macro == Goto("ONETOUCH") \o <<Noted, Step("macro", "", Nothing, 0)>>

get_aqualink_onetouch_setpoints ==
    Goto("SET_TEMP") \o <<Noted>> \o Goto("FREEZE_PROTECT") \o <<Noted>> \o Finish

set_aqualink_onetouch_heater_setpoint(item) ==
    Goto("SET_TEMP") \o <<Noted, Highlight(item), OrBack("here")>>
    \o KeyTaken("select") \o <<Types("chars", Patience), Number>> \o Store_it \o <<End>>

set_aqualink_onetouch_boost == Goto("BOOST") \o <<Step("boost", "", Nothing, 0)>> \o Finish

set_aqualink_onetouch_swg_percent(item) ==
    Goto("SET_AQUAPURE") \o <<OrBack("system"), Highlight(item), OrBack("system")>>
    \o KeyTaken("select") \o <<Types("chars", Patience), Chars, Number>> \o Store_it \o Finish

(* The same on a panel that has one percentage.                             *)
set_onetouch_single_percent ==
    Goto("SET_AQUAPURE") \o <<OrBack("system"), Types("chars", 5), Chars, Number>> \o Store_it \o Finish

set_aqualink_onetouch_time ==
    Goto("SET_TIME") \o <<Step("timePage", "", Nothing, 0)>> \o Finish

TimePage ==
    /\ At("timePage")
    /\ IF found
       THEN Decide(<<Place(1), CheckedNumber>> \o KeyTaken("select")
                   \o <<Place(2), CheckedNumber>> \o KeyTaken("select")
                   \o <<Place(3), CheckedNumber>> \o KeyTaken("select")
                   \o <<Types("chars", Patience), CheckedNumber>> \o KeyTaken("select")
                   \o <<Types("chars", Patience), CheckedNumber>> \o KeyTaken("select")
                   \o Store_it, found)
       ELSE Fails(<<>>)

Scripts ==
    [AQ_SET_ONETOUCH_PUMP_RPM |-> set_aqualink_onetouch_pump_rpm,
     AQ_SET_ONETOUCH_PUMP_GPM |-> set_aqualink_onetouch_pump_rpm,
     AQ_SET_ONETOUCH_MACRO |-> set_aqualink_onetouch_macro,
     AQ_GET_ONETOUCH_SETPOINTS |-> get_aqualink_onetouch_setpoints,
     AQ_SET_ONETOUCH_POOL_HEATER_TEMP |-> set_aqualink_onetouch_heater_setpoint("Pool Heat"),
     AQ_SET_ONETOUCH_SPA_HEATER_TEMP |-> set_aqualink_onetouch_heater_setpoint("Spa Heat"),
     AQ_SET_ONETOUCH_TEMP1 |-> set_aqualink_onetouch_heater_setpoint("Pool Heat"),
     AQ_SET_ONETOUCH_BOOST |-> set_aqualink_onetouch_boost,
     AQ_SET_ONETOUCH_SWG_PERCENT |-> set_aqualink_onetouch_swg_percent("Set Pool"),
     AQ_SET_ONETOUCH_SPA_PERCENT |-> set_aqualink_onetouch_swg_percent("Set Spa"),
     AQ_SET_ONETOUCH_ONE_PERCENT |-> set_onetouch_single_percent,
     AQ_SET_ONETOUCH_TIME |-> set_aqualink_onetouch_time]

Target(p) ==
    CASE p = "AQ_SET_ONETOUCH_PUMP_RPM" -> FieldsOf("RPM")
      [] p = "AQ_SET_ONETOUCH_PUMP_GPM" -> FieldsOf("GPM")
      [] p = "AQ_SET_ONETOUCH_MACRO" -> {"MACRO"}
      [] p \in {"AQ_SET_ONETOUCH_POOL_HEATER_TEMP", "AQ_SET_ONETOUCH_TEMP1"} -> {"POOL"}
      [] p = "AQ_SET_ONETOUCH_SPA_HEATER_TEMP" -> {"SPA"}
      [] p = "AQ_SET_ONETOUCH_BOOST" -> {"BOOST"}
      [] p \in {"AQ_SET_ONETOUCH_SWG_PERCENT", "AQ_SET_ONETOUCH_ONE_PERCENT"} -> {"POOL SP"}
      [] p = "AQ_SET_ONETOUCH_SPA_PERCENT" -> {"SPA SP"}
      [] p = "AQ_SET_ONETOUCH_TIME" -> FieldsOf("SET_TIME")
      [] OTHER -> {}
Asked(p) == \A s \in Target(prog) : p.stored[s] = want

Percents == {"AQ_SET_ONETOUCH_SWG_PERCENT", "AQ_SET_ONETOUCH_SPA_PERCENT", "AQ_SET_ONETOUCH_ONE_PERCENT"}
Switches == {"AQ_SET_ONETOUCH_MACRO", "AQ_SET_ONETOUCH_BOOST"}

-----------------------------------------------------------------------------
(* The bus.  A status packet is first shown to the thread, then answered    *)
(* with the key.                                                            *)

Receive(packet) ==
    /\ shown' = process_onetouch_packet(packet)
    /\ KickThread(shown', NewMenu(shown, packet))

StatusPoll ==
    /\ emulation = "onetouch"
    /\ \/ out = <<>> /\ Turn
       \/ out # <<>> /\ Head(out) # "ack" /\ Asleep /\ Goes("slow")
    /\ Receive("status")
    /\ out' = <<"ack">> \o out
    /\ UNCHANGED <<emulation, prog, want, found, failed, told, key, panel>>

pop_ot_cmd ==
    /\ emulation = "onetouch"
    /\ out # <<>> /\ Head(out) = "ack"
    /\ key' = NoKey
    /\ \/ /\ panel' = Press(panel, key)
          /\ out' = Tail(out) \o Packets(panel, panel')
          /\ Fine
       \/ key # NoKey /\ Asleep /\ Goes("lost") /\ UNCHANGED panel /\ out' = Tail(out)
    /\ UNCHANGED <<emulation, prog, want, todo, found, failed, told, shown>>

Packet ==
    /\ emulation = "onetouch"
    /\ out # <<>> /\ Head(out) # "ack" /\ Turn
    /\ Receive(Head(out))
    /\ log_programming_information(Head(out))
    /\ out' = Tail(out)
    /\ UNCHANGED <<emulation, prog, want, found, failed, key, panel>>

ThreadStep == CommonStep \/ SendKeyLate(key) \/ Finders \/ Setters \/ TimePage

Next == emulation = "onetouch" /\ (ThreadStep \/ StatusPoll \/ pop_ot_cmd \/ Packet)

(* A program starts on the system page, on a page where one before it       *)
(* ended, or on the status page, where new_menu pressed SELECT for lack of  *)
(* a program.                                                               *)
Init ==
    \E v \in Values, p \in DOMAIN Scripts, page \in {"SYSTEM", "STATUS", "MENUHELP", "ONETOUCH"} :
        /\ emulation = "onetouch"
        /\ p \in Switches => v <= 1
        /\ prog = p /\ want = v
        /\ todo = Scripts[p]
        /\ key = IF page = "STATUS" THEN "select" ELSE NoKey
        /\ \E old \in OldsOf(p, Switches) :
              panel = [page |-> page, line |-> 1, value |-> 0, edit |-> FALSE,
                       single |-> p \in {"AQ_SET_ONETOUCH_TEMP1", "AQ_SET_ONETOUCH_ONE_PERCENT"},
                       spa |-> p = "AQ_SET_ONETOUCH_SPA_PERCENT",
                       unit |-> IF p = "AQ_SET_ONETOUCH_PUMP_GPM" THEN "GPM" ELSE "RPM",
                       stored |-> [s \in Settings |-> IF s \in {"BOOST", "MACRO"} /\ old > 1 THEN 1 ELSE old]]
        /\ \E before \in IF p \in Percents THEN BOOLEAN ELSE {FALSE} :
              shown = [page |-> page, line |-> 1, val |-> Nothing, chars |-> FALSE, stop |-> before,
                       last |-> "status", filling |-> FALSE, led |-> panel.stored["MACRO"]]
        /\ told = Nothing
=============================================================================
