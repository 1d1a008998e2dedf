---------------------------- MODULE PdaPrograms -----------------------------
(* The programs that work the PDA remote (pda_aq_programmer.c): they move a *)
(* highlight over the lines of a page, the shorter way round where they     *)
(* know it, page a long list down, and set a number by as many presses as   *)
(* it differs from the one that they know, which may be an old one.  The    *)
(* panel's packets clear the page, fill its lines, and highlight a line or  *)
(* some characters of it (pda_menu.c, pda.c).                               *)
EXTENDS ProgramThread

CONSTANTS
    SeekMax,      \* DOWN presses while paging a list (18 and 20 in the code)
    Patience      \* messages that the waits take (8 to 60 in the code)

-----------------------------------------------------------------------------
(* The panel, as the programs use it.                                       *)

Pages ==
    [HOME |-> <<Item("POOL MODE", "PUMP"), Item("POOL HEATER", "HEATER"), Item("SPA MODE", "HOME"),
                Item("SPA HEATER", "HOME"), Item("MENU", "MENU"), Item("EQUIPMENT ON/OFF", "EQUIPMENT")>>,
     MAIN |-> <<Item("HELP", "MAIN"), Item("PROGRAM", "MAIN"), Item("SET TEMP", "TEMP"), Item("SET TIME", "SET_TIME"),
                Item("SET AquaPure", "SWG"), Item("PDA OPTIONS", "MAIN"), Item("SYSTEM SETUP", "SYSTEM_SETUP"),
                Item("BOOST", "BOOST")>>,
     SHORT_MAIN |-> <<Item("HELP", "MAIN"), Item("PROGRAM", "MAIN"), Item("SET TEMP", "TEMP"),
                Item("SET TIME", "SET_TIME"), Item("PDA OPTIONS", "MAIN"), Item("SYSTEM SETUP", "SYSTEM_SETUP")>>,
     EQUIPMENT |-> <<Item("FILTER PUMP", "PUMP"), Item("POOL HEAT", "HEATER"), Item("AUX1", "AUX1"),
                     Item("LIGHT", "LIGHT"), Item("ALL OFF", "ALL OFF")>>,
     SYSTEM_SETUP |-> <<Item("LABEL AUX", "SYSTEM_SETUP"), Item("FREEZE PROTECT", "FREEZE_PROTECT")>>,
     SET_TEMP |-> <<Item("POOL HEAT", "POOL"), Item("SPA HEAT", "SPA")>>,
     SET_TEMP1 |-> <<Item("TEMP1", "POOL"), Item("TEMP2", "SPA")>>,
     AQUAPURE |-> <<Item("SET POOL", "POOL SP"), Item("SET SPA", "SPA SP")>>,
     AQUAPURE_TO |-> <<Item("SET TO", "POOL SP")>>,
     START |-> <<Item("START", "BOOST"), Item("GO BACK", "MENU")>>,
     STOP |-> <<Item("PAUSE", "STOP"), Item("RESTART", "STOP"), Item("STOP", "BOOST")>>,
     COLORS |-> <<Item("1", "MODE"), Item("2", "MODE")>>]

(* The line of a page's first item; the boost is on a line of its own.  The *)
(* list of equipment shows three items, and more.                           *)
FirstLine ==
    [HOME |-> 4, MAIN |-> 1, SHORT_MAIN |-> 2, EQUIPMENT |-> 1, SYSTEM_SETUP |-> 2, SET_TEMP |-> 2, SET_TEMP1 |-> 2,
     AQUAPURE |-> 3, AQUAPURE_TO |-> 3, START |-> 8, STOP |-> 7, COLORS |-> 2]
LineOf(page, i, top) == IF page = "MAIN" /\ i = 8 THEN 9 ELSE FirstLine[page] + i - 1 - top
Window == 3
ItemsOn(page, top) == IF page = "EQUIPMENT" THEN top + 1 .. top + Window ELSE 1..Len(Pages[page])

(* Pages whose fields are edited one after the other, as they are opened.   *)
Forms ==
    [SET_TIME |-> <<"MONTH", "DAY", "YEAR", "HOUR", "MINUTE">>,
     FREEZE_PROTECT |-> <<"FRZ">>,
     AQUAPURE_ONE |-> <<"POOL SP">>,
     POOL_HEAT |-> <<"POOL">>]
Time == {"MONTH", "DAY", "YEAR", "HOUR", "MINUTE"}
Devices == {"PUMP", "HEATER", "AUX1", "LIGHT"}
Settings == Devices \union Time \union {"FRZ", "POOL", "SPA", "POOL SP", "SPA SP", "BOOST", "MODE"}

(* Pages that go away by themselves.                                        *)
Passing == {"NAG", "WILL_TURN_OFF", "PLEASE"}
Lasts == 2 * Patience + 2

(* What pda_m_type tells apart.                                             *)
TypeOf(page) ==
    CASE page = "SHORT_MAIN" -> "MAIN"
      [] page = "SET_TEMP1" -> "SET_TEMP"
      [] page \in {"AQUAPURE_TO", "AQUAPURE_ONE"} -> "AQUAPURE"
      [] page \in {"START", "STOP"} -> "BOOST"
      [] OTHER -> page

Parent(page) ==
    CASE page \in {"FREEZE_PROTECT", "FREEZE_DEVICES"} -> "SYSTEM_SETUP"
      [] page \in {"COLORS", "DIMMER", "POOL_HEAT"} -> "EQUIPMENT"
      [] page \in {"HOME", "MAIN", "SHORT_MAIN", "EQUIPMENT", "STATUS", "FW_VERSION"} -> "HOME"
      [] OTHER -> "MENU"

Setting(p) == IF p.page \in DOMAIN Forms THEN Forms[p.page][p.line] ELSE Pages[p.page][p.line].to
Edit(p) == [p EXCEPT !.edit = TRUE, !.value = p.stored[Setting(p)]]

(* Some items are there only while the pump runs; a panel for one body of   *)
(* water may first tell that one of its temperatures must be higher.        *)
Open(p, page) ==
    LET to == CASE page = "MENU" -> IF p.stored["PUMP"] = 1 THEN "MAIN" ELSE "SHORT_MAIN"
                [] page = "TEMP" -> IF p.nag THEN "NAG" ELSE IF p.single THEN "SET_TEMP1" ELSE "SET_TEMP"
                [] page = "SWG" -> p.swg
                [] page = "BOOST" -> IF p.stored["BOOST"] = 0 THEN "START" ELSE "STOP"
                [] OTHER -> page
        q == [OnPage(p, to) EXCEPT !.edit = FALSE, !.top = 0, !.value = 0]
    IN  CASE to \in DOMAIN Forms -> Edit(q)
          [] to = "COLORS" -> [q EXCEPT !.line = p.stored["MODE"]]
          [] to = "DIMMER" -> [q EXCEPT !.value = p.stored["MODE"]]
          [] OTHER -> q

Toggle(p, s) == Store(p, s, 1 - p.stored[s])
SelectItem_(p, to) ==
    CASE to = "ALL OFF" -> [p EXCEPT !.stored = [s \in Settings |-> IF s \in Devices THEN 0 ELSE p.stored[s]]]
      [] to = "HEATER" /\ p.stored["HEATER"] = 0 -> Open(p, "POOL_HEAT")
      [] to = "LIGHT" /\ p.stored["LIGHT"] = 0 -> Open(p, IF p.dimmer THEN "DIMMER" ELSE "COLORS")
      [] to = "LIGHT" /\ p.stored["LIGHT"] = 1 /\ ~p.dimmer -> Open(p, "WILL_TURN_OFF")
      [] to \in Devices /\ ~(to = "HEATER" /\ p.stored[to] = 0)
            /\ ~(to = "LIGHT" /\ (p.stored[to] = 0 \/ ~p.dimmer)) -> Toggle(p, to)
      [] to = "MODE" -> Open(Store(Store(p, "MODE", p.line), "LIGHT", 1), "PLEASE")
      [] to = "BOOST" /\ p.page \in {"START", "STOP"} -> Open(Toggle(p, "BOOST"), "BOOST")
      [] to \in {"POOL", "SPA", "POOL SP", "SPA SP"} -> Edit(p)
      [] OTHER -> Open(p, to)

Accept(p) ==
    LET q == Store(p, Setting(p), p.value) IN
    CASE p.page \notin DOMAIN Forms \/ p.page = "AQUAPURE_ONE" -> [q EXCEPT !.edit = FALSE]
      [] p.page = "SET_TIME" /\ p.line < 5 -> Edit([q EXCEPT !.line = @ + 1])
      [] p.page = "SET_TIME" /\ p.line = 5 -> Open(q, "MENU")
      [] p.page = "FREEZE_PROTECT" -> Open(q, "FREEZE_DEVICES")
      [] p.page = "POOL_HEAT" -> Open(Store(q, "HEATER", 1), "EQUIPMENT")

(* A light that is about to turn off is asked for its colour instead.       *)
Select(p) ==
    CASE p.edit -> Accept(p)
      [] ~p.edit /\ p.page \in DOMAIN Pages -> SelectItem_(p, Pages[p.page][p.line].to)
      [] p.page = "WILL_TURN_OFF" -> Open(p, "COLORS")
      [] p.page = "DIMMER" -> Open(Store(Store(p, "MODE", p.value), "LIGHT", 1), "EQUIPMENT")
      [] OTHER -> p

(* The highlight goes round a page, and moves a longer list.                *)
Down(p) ==
    IF p.page # "EQUIPMENT" THEN [p EXCEPT !.line = (@ % Len(Pages[p.page])) + 1]
    ELSE LET i == IF p.line < Len(Pages[p.page]) THEN p.line + 1 ELSE p.line IN
         [p EXCEPT !.line = i, !.top = IF i > p.top + Window THEN i - Window ELSE p.top]
Up(p) ==
    IF p.page # "EQUIPMENT" THEN [p EXCEPT !.line = ((@ + Len(Pages[p.page]) - 2) % Len(Pages[p.page])) + 1]
    ELSE LET i == IF p.line > 1 THEN p.line - 1 ELSE 1 IN [p EXCEPT !.line = i, !.top = IF i <= p.top THEN i - 1 ELSE p.top]

Gone(p) ==
    IF p.page = "NAG" THEN OnPage(p, "SET_TEMP1")
    ELSE Open(IF p.page = "PLEASE" THEN p ELSE Store(p, "LIGHT", 0), "EQUIPMENT")

Press(p, k) ==
    CASE k = NoKey /\ p.page \in Passing -> IF p.value < Lasts THEN [p EXCEPT !.value = @ + 1] ELSE Gone(p)
      [] k # NoKey /\ p.page = "NAG" -> Gone(p)
      [] k = "up" /\ p.edit /\ p.value < Top -> [p EXCEPT !.value = @ + 1]
      [] k = "down" /\ p.edit /\ p.value > 0 -> [p EXCEPT !.value = @ - 1]
      [] k = "down" /\ p.page = "DIMMER" -> [p EXCEPT !.value = IF @ <= 1 THEN Top ELSE @ - 1]
      [] k = "up" /\ ~p.edit /\ p.page \in DOMAIN Pages -> Up(p)
      [] k = "down" /\ ~p.edit /\ p.page \in DOMAIN Pages -> Down(p)
      [] k = "select" /\ p.page # "NAG" -> Select(p)
      [] k = "back" /\ p.page \notin Passing -> Open(p, Parent(p.page))
      [] OTHER -> p

(* The packets that tell of a change.                                       *)
Packets(p, q) ==
    CASE p.page # q.page ->
           <<"clear", "line">> \o (IF q.edit THEN <<"off", "chars">>
                                   ELSE IF q.page \in DOMAIN Pages \union {"DIMMER"} THEN <<"highlight">> ELSE <<>>)
      [] p.page = q.page /\ p.edit /\ ~q.edit -> <<"line", "highlight">>
      [] p.page = q.page /\ ~p.edit /\ q.edit -> <<"off", "chars">>
      [] p.page = q.page /\ p.edit /\ q.edit /\ <<p.line, p.value>> # <<q.line, q.value>> -> <<"line", "chars">>
      [] p.page = q.page /\ ~p.edit /\ ~q.edit /\ p.line # q.line /\ p.top = q.top -> <<"highlight">>
      [] p.page = q.page /\ ~p.edit /\ ~q.edit
            /\ (p.top # q.top \/ p.stored # q.stored \/ (p.page = "DIMMER" /\ p.value # q.value)) -> <<"line">>
      [] OTHER -> <<>>

-----------------------------------------------------------------------------
(* What the daemon keeps of the display (process_pda_menu_packet): the page *)
(* and how far it is moved, the line that is highlighted, the number shown, *)
(* whether characters are highlighted, the type of the last packet, and     *)
(* what it last read of each setting (process_pda_packet).                  *)
Hidden == -1
Nowhere == ""

Reads ==
    [HOME |-> {"PUMP", "HEATER"}, EQUIPMENT |-> Devices, SET_TEMP |-> {"POOL", "SPA"}, SET_TEMP1 |-> {"POOL", "SPA"},
     POOL_HEAT |-> {"POOL"}, FREEZE_PROTECT |-> {"FRZ"}, SET_TIME |-> Time]
ReadFrom(p, sh) ==
    [s \in Settings |->
        IF p.page \notin DOMAIN Reads THEN sh.stored[s]
        ELSE IF s \notin Reads[p.page] THEN sh.stored[s]
        ELSE IF p.edit /\ s = Setting(p) THEN p.value ELSE p.stored[s]]

HighlightOf(p) == IF p.page \in DOMAIN Pages THEN LineOf(p.page, p.line, p.top) ELSE p.line
NumberShown(p) == IF p.edit \/ p.page = "DIMMER" THEN p.value ELSE Nothing

process_pda_packet(packet) ==
    LET sh == shown
        next ==
          CASE packet = "clear" -> [sh EXCEPT !.page = Nowhere, !.line = Hidden, !.val = Nothing, !.chars = FALSE]
            [] packet = "line" -> [sh EXCEPT !.page = panel.page, !.top = panel.top, !.val = NumberShown(panel),
                                             !.stored = ReadFrom(panel, sh)]
            [] packet = "off" -> [sh EXCEPT !.line = Hidden, !.chars = FALSE]
            [] packet = "highlight" -> [sh EXCEPT !.line = HighlightOf(panel), !.chars = FALSE]
            [] packet = "chars" -> [sh EXCEPT !.line = HighlightOf(panel), !.val = panel.value, !.chars = TRUE]
            [] OTHER -> sh
    IN  [next EXCEPT !.last = IF packet = "off" THEN "highlight" ELSE packet]

-----------------------------------------------------------------------------
(* Waiting.  A wait looks at the last packet first; a wait for a line to be *)
(* highlighted looks at the line first.                                     *)

Wait(what) == Step("types", what, Nothing, Patience)
Messages(n) == Step("parked", "any", Nothing, n)
NextMenu == <<Wait("clear"), Step("drawn", "", Nothing, 0)>>

Awaited(sh, what) == sh.last = what \/ (what = "lit" /\ sh.last \in {"highlight", "chars"})
                     \/ (what = "moved" /\ sh.last \in {"highlight", "line"})

Decide(steps, result) ==
    /\ Do(steps)
    /\ found' = result
    /\ Deciding /\ UNCHANGED <<failed, told>>

Fails(steps) ==
    /\ Do(steps)
    /\ failed' = TRUE
    /\ Deciding /\ UNCHANGED <<found, told>>

waitForPDAMessageTypes ==
    /\ At("types")
    /\ LET over == Awaited(shown, Now.arg) IN Decide(IF over THEN <<>> ELSE <<[Now EXCEPT !.op = "parked"]>>, over)

waitForPDAMessageHighlight ==
    /\ At("row")
    /\ LET over == shown.line = Now.val IN Decide(IF over THEN <<>> ELSE <<[Now EXCEPT !.op = "parked"]>>, over)

waitForPDAnextMenu ==
    /\ At("drawn")
    /\ Decide(IF found THEN <<Wait("lit")>> ELSE <<>>, found)

KickThread(sh) ==
    IF ~At("parked") THEN UNCHANGED <<todo, found>>
    ELSE LET onLine == Now.arg = "row" /\ sh.line = Now.val
             match == Awaited(sh, Now.arg) \/ (onLine /\ sh.last = "highlight")
         IN  /\ found' = (onLine \/ match)
             /\ Do(IF match \/ Now.n = 1 THEN <<>> ELSE <<Count(Now)>>)

-----------------------------------------------------------------------------
(* Finding an item: find_pda_menu_item.                                     *)

Contains(text, item) == text = item \/ (text = "RESTART" /\ item = "START")
LinesOf(item) ==
    IF shown.page \notin DOMAIN Pages THEN {}
    ELSE {LineOf(shown.page, i, shown.top) :
             i \in {j \in ItemsOn(shown.page, shown.top) : Contains(Pages[shown.page][j].text, item)}}
More == shown.page = "EQUIPMENT" /\ shown.top + Window < Len(Pages["EQUIPMENT"])

(* The first and last line of a page that the highlight goes round.  On the *)
(* main menu the boost counts as the line after the others.                 *)
Ring ==
    IF More THEN <<>>
    ELSE CASE shown.page = "HOME" -> <<4, 9>>
           [] shown.page = "EQUIPMENT" -> <<1, 9>>
           [] shown.page = "MAIN" -> <<1, 8>>
           [] shown.page = "SHORT_MAIN" -> <<2, 7>>
           [] shown.page = "STOP" -> <<7, 9>>
           [] shown.page = "START" -> <<8, 9>>
           [] OTHER -> <<>>

(* (Fault) The presses are counted from zero to the difference.             *)
PressOnceMore(n, k) == [i \in 1 .. 2 * (n + 1) |-> IF i % 2 = 1 THEN Empty ELSE Key(k)]
PressTimes(n, k) == [i \in 1 .. 2 * n |-> IF i % 2 = 1 THEN Empty ELSE Key(k)]
MoveTo(index) ==
    LET i == shown.line
        round == Ring # <<>>
        over == IF round THEN i - Ring[1] + Ring[2] - index + 1 ELSE 0
        back == IF round THEN index - Ring[1] + Ring[2] - i + 1 ELSE 0
    IN  IF i < index
        THEN (IF round /\ index - i > over THEN PressTimes(over, "up") ELSE PressTimes(index - i, "down"))
        ELSE PressTimes(IF round /\ i - index > back THEN over ELSE i - index, "up")

Find(item) == Step("find", item, Nothing, SeekMax)
FindItem ==
    /\ At("find")
    /\ IF LinesOf(Now.arg) # {}
       THEN LET line == CHOOSE l \in LinesOf(Now.arg) : TRUE
                index == IF shown.page = "MAIN" /\ line = 9 THEN 8 ELSE line
            IN  Decide(MoveTo(index) \o <<Step("row", "row", line, Patience)>>, found)
       ELSE IF (More \/ Now.n < SeekMax) /\ Now.n > 0
            THEN Decide(<<Key("down"), Wait("moved"), Count(Now)>>, found)
       ELSE Decide(<<>>, FALSE)

(* select_pda_menu_item.                                                    *)
Choose == Step("choose", "", Nothing, 0)
SelectItem(item) == <<Find(item), Choose>>
ChooseFound == At("choose") /\ Decide(IF found THEN <<Key("select")>> ELSE <<>>, found)

NextPage(item) == <<Find(item), Step("choose next", "", Nothing, 0)>>
ChooseNext == At("choose next") /\ Decide(IF found THEN <<Key("select")>> \o NextMenu ELSE <<>>, found)

(* goto_pda_menu: six steps at most, as long as each of them succeeds.      *)
Hops == 6
Goto(menu) == <<Step("leaveVersion", "", Nothing, 0), Step("goto", menu, Nothing, Hops)>>
Back == <<Key("back")>> \o NextMenu
InMain == [SET_TEMP |-> "SET TEMP", SET_TIME |-> "SET TIME", AQUAPURE |-> "SET AquaPure", BOOST |-> "BOOST",
           FREEZE_PROTECT |-> "SYSTEM SETUP"]

LeaveVersion ==
    At("leaveVersion") /\ Decide(IF shown.page = "FW_VERSION" THEN Back ELSE <<>>, found)

Hop(menu) ==
    LET here == TypeOf(shown.page) IN
    CASE menu = "EQUIPMENT" /\ here = "HOME" -> NextPage("EQUIPMENT ON/OFF")
      [] menu \in DOMAIN InMain /\ here = "HOME" -> NextPage("MENU")
      [] menu = "SET_TEMP" /\ here = "MAIN" /\ panel.single -> SelectItem("SET TEMP") \o <<Step("types", "lit", Nothing, 2 * Patience)>>
      [] menu \in DOMAIN InMain /\ here = "MAIN" /\ ~(menu = "SET_TEMP" /\ panel.single) -> NextPage(InMain[menu])
      [] menu = "FREEZE_PROTECT" /\ here = "SYSTEM_SETUP" -> NextPage("FREEZE PROTECT")
      [] OTHER -> Back

goto_pda_menu ==
    /\ At("goto")
    /\ IF TypeOf(shown.page) = Now.arg THEN Decide(<<>>, TRUE)
       ELSE IF Now.n = 0 \/ (Now.n < Hops /\ ~found) THEN Decide(<<>>, FALSE)
       ELSE Decide(Hop(Now.arg) \o <<Count(Now)>>, found)

Finders ==
    \/ waitForPDAMessageTypes \/ waitForPDAMessageHighlight \/ waitForPDAnextMenu \/ FindItem
    \/ ChooseFound \/ ChooseNext \/ LeaveVersion \/ goto_pda_menu

-----------------------------------------------------------------------------
(* Setting a number: set_PDA_numeric_field_value.                           *)

(* The number is read from the highlighted characters, or it is the one     *)
(* that the daemon last read of the setting.                                *)
Number(setting) == Step("number", setting, Nothing, Patience)
Selected(item, setting) == SelectItem(item) \o <<Step("ifFound", setting, Nothing, 0)>>
SetSelected == At("ifFound") /\ Decide(IF found THEN <<Number(Now.arg)>> ELSE <<>>, found)

PressNumber ==
    /\ At("number")
    /\ LET from == IF Now.arg = "" THEN shown.val ELSE Now.val
           presses == [i \in 1 .. IF want > from THEN want - from ELSE from - want |->
                          Key(IF want > from THEN "up" ELSE "down")]
       IN  IF Now.arg # "" /\ Now.val = Nothing THEN Decide(<<[Now EXCEPT !.val = shown.stored[Now.arg]]>>, found)
           ELSE IF Now.arg # "" \/ shown.chars THEN Decide(presses \o <<Key("select")>>, TRUE)
           ELSE IF Now.n > 0 THEN Decide(<<Delay, Step("parked", "chars", Nothing, Patience), Count(Now)>>, found)
           ELSE Decide(<<>>, FALSE)

(* The percentage is selected already, or the page has one line for it, or  *)
(* one for each body of water.                                              *)
SwgPage ==
    /\ At("swgPage")
    /\ LET line == IF LinesOf("SET TO") # {} THEN "SET TO" ELSE IF panel.spa THEN "SET SPA" ELSE "SET POOL"
       IN  Decide(IF found THEN <<Number("")>> ELSE Selected(line, ""), found)

(* A temperature is set from the one that was read last, before the page    *)
(* with the present one is looked for.                                      *)
Heater(setting) == Step("heater", setting, Nothing, 0)
ChangeTemp ==
    /\ At("heater")
    /\ Decide(IF shown.stored[Now.arg] = want THEN <<Key("back")>>
              ELSE Goto("SET_TEMP") \o <<Step("tempPage", Now.arg, shown.stored[Now.arg], 0)>>, found)
TempPage ==
    /\ At("tempPage")
    /\ LET label == IF panel.single THEN (IF Now.arg = "POOL" THEN "TEMP1" ELSE "TEMP2")
                    ELSE IF Now.arg = "POOL" THEN "POOL HEAT" ELSE "SPA HEAT"
       IN  IF found THEN Decide(SelectItem(label) \o <<[Now EXCEPT !.op = "ifFoundFrom"]>>, found) ELSE Fails(<<>>)
SetFrom ==
    /\ At("ifFoundFrom")
    /\ IF found THEN Decide(<<[Now EXCEPT !.op = "number"]>>, found) ELSE Fails(<<>>)

FreezePage ==
    /\ At("freezePage")
    /\ IF found THEN Decide(<<Number("FRZ")>> \o NextMenu, found) ELSE Fails(<<>>)

TimePage ==
    /\ At("timePage")
    /\ IF found THEN Decide(<<Number("MONTH"), Number("DAY"), Number("YEAR"), Number("HOUR"), Number("MINUTE")>>
                            \o NextMenu \o <<Empty>> \o Goto("HOME"), found)
       ELSE Fails(<<>>)

-----------------------------------------------------------------------------
(* Devices and lights.                                                      *)

(* (Fault) The key that ran ahead stays in its slot.                        *)
KeepKey == At("forget") /\ Decide(<<>>, found)

(* force_queue_delete: a DOWN that paged the list too far is taken back.    *)
ForgetKey ==
    /\ At("forget")
    /\ key' = NoKey
    /\ Do(<<>>)
    /\ UNCHANGED <<emulation, prog, want, found, failed, told, out, shown, panel, mishaps>>
Forget == Step("forget", "", Nothing, 0)

(* A page that was not found ends the program, where it is.                 *)
OrEnd == Step("orEnd", "", Nothing, 0)
EndOrGoOn ==
    /\ At("orEnd")
    /\ IF found THEN Decide(<<>>, found)
       ELSE /\ Leave(<<End>>) /\ failed' = TRUE
            /\ Deciding /\ UNCHANGED <<found, told>>

(* set_aqualink_PDA_device_on_off.  A heater that is turned on shows its    *)
(* temperature, a light its colours.                                        *)
SwitchDevice ==
    /\ At("switch")
    /\ LET after == CASE Now.arg = "HEATER" /\ want = 1 -> NextMenu \o <<Step("confirm", "", Nothing, 0)>>
                      [] Now.arg = "LIGHT" -> IF want = 1 THEN <<Wait("lit"), Step("setLight", "", Nothing, 0)>> ELSE <<>>
                      [] OTHER -> <<Step("types", "line", Nothing, 2)>>
       IN  IF ~found THEN Fails(<<>>)
           ELSE Decide(IF shown.stored[Now.arg] = want THEN <<>> ELSE <<Forget, Key("select")>> \o after, found)
Confirm == At("confirm") /\ Decide(IF found THEN <<Key("select"), Wait("highlight")>> ELSE <<>>, found)
SetLight == At("setLight") /\ Decide(IF shown.page \in {"COLORS", "DIMMER"} THEN <<Key("select")>> ELSE <<>>, found)

(* set_aqualink_PDA_light_mode.  The button is pressed whatever the light   *)
(* does; what follows depends on what it did before, and on what is shown.  *)
PressLight ==
    /\ At("light")
    /\ LET lit == shown.stored["LIGHT"] = 1
           again == IF lit THEN <<Key("select"), Empty, Messages(Patience)>> ELSE <<>>
       IN  IF ~found THEN Fails(<<>>)
           ELSE Decide(<<Forget, Key("select"), Empty, Messages(Patience)>>
                       \o (IF Now.arg # "dimmer" THEN <<Step(IF want = 0 THEN "off" ELSE "color", Now.arg, Nothing, 0)>>
                           ELSE IF want = 0 THEN <<>>
                           ELSE again \o <<Step("dim", "", Nothing, 0), Tell>>), found)

(* The dimmer's list goes on until the mode is shown, without limit.        *)
DimLight ==
    /\ At("dim")
    /\ Decide(IF shown.page = "DIMMER" /\ shown.val = want THEN <<Key("select"), Empty, Messages(Patience)>>
              ELSE <<Key("down"), Empty, Messages(2), Now>>, found)

TurnOff ==
    /\ At("off")
    /\ Decide(IF shown.page = "WILL_TURN_OFF" THEN NextMenu \o <<Step("ledOff", "", Nothing, 0)>> ELSE <<>>, found)
LedOff ==
    /\ At("ledOff")
    /\ shown' = [shown EXCEPT !.stored["LIGHT"] = 0]
    /\ Do(<<>>)
    /\ UNCHANGED <<emulation, prog, want, found, failed, told, key, out, panel, mishaps>>

ModeName == IF want = 1 THEN "1" ELSE "2"
Cycle == <<Empty, Messages(Patience), Step("cycle", "", Nothing, 0)>>
SetColor ==
    /\ At("color")
    /\ Decide((IF shown.page = "WILL_TURN_OFF" THEN <<Messages(Patience), Key("select"), Wait("lit")>> ELSE <<>>)
              \o <<Find(ModeName), Step("pick", "", Nothing, 0), Tell>>, found)
PickColor ==
    At("pick") /\ (IF found THEN Decide(<<Key("select")>> \o Cycle, found) ELSE Fails(<<>>))
WaitForCycle ==
    At("cycle") /\ Decide(IF shown.page = "PLEASE" THEN <<Step("types", "lit", Nothing, 2 * Lasts)>> ELSE <<>>, found)

(* The page of the boost is not there: the thread returns and keeps the     *)
(* slot.                                                                    *)
OrKeep == Step("orKeep", "", Nothing, 0)
KeepSlot ==
    /\ At("orKeep")
    /\ IF found THEN Decide(SelectItem(IF want = 1 THEN "START" ELSE "STOP"), found)
       ELSE /\ Leave(<<Step("kept", "", Nothing, 0)>>) /\ failed' = TRUE
            /\ Deciding /\ UNCHANGED <<found, told>>

(* loopover_devices.                                                        *)
LoopOver ==
    /\ At("loop")
    /\ IF ~found \/ Now.n = 0 \/ LinesOf("ALL OFF") # {} THEN Decide(<<>>, found)
       ELSE Decide(<<Key("down"), Wait("moved"), Step("loopOn", "", Nothing, Now.n - 1)>>, found)
LoopOn == At("loopOn") /\ Decide(<<[Now EXCEPT !.op = "loop"]>>, TRUE)

FreezeShown == At("freezeShown") /\ Decide(IF found THEN <<Key("select")>> \o NextMenu ELSE <<>>, found)
TryAgain == At("again") /\ Decide(IF found THEN <<>> ELSE Goto("SET_TEMP"), found)

Setters ==
    \/ SetSelected \/ PressNumber \/ SwgPage \/ ChangeTemp \/ TempPage \/ SetFrom \/ FreezePage \/ TimePage
    \/ ForgetKey \/ EndOrGoOn \/ SwitchDevice \/ Confirm \/ SetLight \/ PressLight \/ DimLight \/ TurnOff
    \/ LedOff \/ SetColor \/ PickColor \/ WaitForCycle \/ KeepSlot \/ LoopOver \/ LoopOn \/ FreezeShown \/ TryAgain

-----------------------------------------------------------------------------
(* The programs.                                                            *)

Finish == <<Empty>> \o Goto("HOME") \o <<End>>
goto_pda_home_first == Back \o NextMenu

set_aqualink_PDA_device_on_off(label, device) ==
    Goto("EQUIPMENT") \o <<OrEnd, Find(label), Step("switch", device, Nothing, 0), End>>
set_aqualink_PDA_light_mode(how) ==
    Goto("EQUIPMENT") \o <<OrEnd, Find("LIGHT"), Step("light", how, Nothing, 0), End>>

loopover_devices == Goto("EQUIPMENT") \o <<Step("loop", "", Nothing, SeekMax)>>
get_aqualink_PDA_device_status == Goto("HOME") \o loopover_devices \o <<End>>
set_aqualink_PDA_wakeinit == loopover_devices \o <<End>>

pool_spa_heater_temps == Goto("SET_TEMP") \o <<Step("again", "", Nothing, 0)>>
get_PDA_aqualink_pool_spa_heater_temps == pool_spa_heater_temps \o <<End>>
set_aqualink_PDA_init ==
    <<Key("back"), Wait("clear")>> \o pool_spa_heater_temps
    \o Goto("FREEZE_PROTECT") \o <<Step("freezeShown", "", Nothing, 0)>> \o Goto("HOME") \o <<End>>

set_PDA_aqualink_SWG_setpoint ==
    Goto("AQUAPURE") \o <<OrEnd, Step("types", "chars", Nothing, 4), Step("swgPage", "", Nothing, 0)>> \o Finish
set_PDA_aqualink_boost == Goto("BOOST") \o <<OrKeep>> \o Finish
set_PDA_aqualink_heater_setpoint(setting) == <<Heater(setting)>> \o Finish
set_aqualink_PDA_freeze_protectsetpoint == Goto("FREEZE_PROTECT") \o <<Step("freezePage", "", Nothing, 0)>> \o Finish
set_PDA_aqualink_time == Goto("SET_TIME") \o <<OrEnd, Step("timePage", "", Nothing, 0), End>>

Scripts ==
    [AQ_PDA_DEVICE_ON_OFF |-> set_aqualink_PDA_device_on_off("AUX1", "AUX1"),
     HEATER_ON_OFF |-> set_aqualink_PDA_device_on_off("POOL HEAT", "HEATER"),
     LIGHT_ON_OFF |-> set_aqualink_PDA_device_on_off("LIGHT", "LIGHT"),
     AQ_PDA_SET_LIGHT_MODE |-> set_aqualink_PDA_light_mode("color"),
     PDA_DIMMER |-> set_aqualink_PDA_light_mode("dimmer"),
     AQ_PDA_DEVICE_STATUS |-> get_aqualink_PDA_device_status,
     AQ_PDA_WAKE_INIT |-> set_aqualink_PDA_wakeinit,
     AQ_PDA_INIT |-> set_aqualink_PDA_init,
     AQ_PDA_GET_FREEZE_PROTECT_TEMP |-> get_PDA_aqualink_pool_spa_heater_temps,
     AQ_PDA_SET_SWG_PERCENT |-> set_PDA_aqualink_SWG_setpoint,
     PDA_SPA_PERCENT |-> set_PDA_aqualink_SWG_setpoint,
     PDA_PERCENT_TO |-> set_PDA_aqualink_SWG_setpoint,
     PDA_ONE_PERCENT |-> set_PDA_aqualink_SWG_setpoint,
     AQ_PDA_SET_BOOST |-> set_PDA_aqualink_boost,
     AQ_PDA_SET_POOL_HEATER_TEMPS |-> set_PDA_aqualink_heater_setpoint("POOL"),
     AQ_PDA_SET_SPA_HEATER_TEMPS |-> set_PDA_aqualink_heater_setpoint("SPA"),
     PDA_TEMP1 |-> set_PDA_aqualink_heater_setpoint("POOL"),
     AQ_PDA_SET_FREEZE_PROTECT_TEMP |-> set_aqualink_PDA_freeze_protectsetpoint,
     AQ_PDA_SET_TIME |-> set_PDA_aqualink_time]

Target(p) ==
    CASE p = "AQ_PDA_DEVICE_ON_OFF" -> {"AUX1"}
      [] p = "HEATER_ON_OFF" -> {"HEATER"}
      [] p = "LIGHT_ON_OFF" -> {"LIGHT"}
      [] p \in {"AQ_PDA_SET_LIGHT_MODE", "PDA_DIMMER"} -> {"LIGHT", "MODE"}
      [] p \in {"AQ_PDA_SET_SWG_PERCENT", "PDA_PERCENT_TO", "PDA_ONE_PERCENT"} -> {"POOL SP"}
      [] p = "PDA_SPA_PERCENT" -> {"SPA SP"}
      [] p = "AQ_PDA_SET_BOOST" -> {"BOOST"}
      [] p \in {"AQ_PDA_SET_POOL_HEATER_TEMPS", "PDA_TEMP1"} -> {"POOL"}
      [] p = "AQ_PDA_SET_SPA_HEATER_TEMPS" -> {"SPA"}
      [] p = "AQ_PDA_SET_FREEZE_PROTECT_TEMP" -> {"FRZ"}
      [] p = "AQ_PDA_SET_TIME" -> Time
      [] OTHER -> {}

Lights == {"AQ_PDA_SET_LIGHT_MODE", "PDA_DIMMER"}
Switches == {"AQ_PDA_DEVICE_ON_OFF", "HEATER_ON_OFF", "LIGHT_ON_OFF", "AQ_PDA_SET_BOOST"}

(* What a setting becomes when the program does as it was asked.  A light   *)
(* that is turned off keeps its mode; one that is about to turn off is off. *)
Wanted(s) == IF s = "LIGHT" /\ want > 0 THEN 1 ELSE want
Asked(p) ==
    \A s \in Target(prog) : \/ p.stored[s] = Wanted(s)
                            \/ s = "MODE" /\ want = 0
                            \/ s = "LIGHT" /\ want = 0 /\ p.page = "WILL_TURN_OFF"

-----------------------------------------------------------------------------
(* The bus.  A status packet is first shown to the thread, then answered    *)
(* with the key.                                                            *)

Receive(packet) ==
    /\ shown' = process_pda_packet(packet)
    /\ KickThread(shown')

StatusPoll ==
    /\ emulation = "pda"
    /\ \/ out = <<>> /\ Turn
       \/ out # <<>> /\ Head(out) # "ack" /\ Asleep /\ Goes("slow")
    /\ Receive("status")
    /\ out' = <<"ack">> \o out
    /\ UNCHANGED <<emulation, prog, want, failed, told, key, panel>>

pop_pda_cmd ==
    /\ emulation = "pda"
    /\ out # <<>> /\ Head(out) = "ack"
    /\ LET cmd == IF Working THEN key ELSE NoKey IN
       /\ key' = IF Working THEN NoKey ELSE key
       /\ \/ /\ panel' = Press(panel, cmd)
             /\ out' = Tail(out) \o Packets(panel, panel')
             /\ Fine
          \/ cmd # NoKey /\ Asleep /\ Goes("lost") /\ UNCHANGED panel /\ out' = Tail(out)
    /\ UNCHANGED <<emulation, prog, want, todo, found, failed, told, shown>>

Packet ==
    /\ emulation = "pda"
    /\ out # <<>> /\ Head(out) # "ack" /\ Turn
    /\ Receive(Head(out))
    /\ out' = Tail(out)
    /\ UNCHANGED <<emulation, prog, want, failed, told, key, panel>>

(* Left alone, the panel shows its home page and the status of the          *)
(* equipment in turns.                                                      *)
PanelIdles ==
    /\ emulation = "pda"
    /\ out = <<>> /\ panel.page \in {"HOME", "STATUS"} /\ Goes("page")
    /\ panel' = Open(panel, IF panel.page = "HOME" THEN "STATUS" ELSE "HOME")
    /\ out' = Packets(panel, panel')
    /\ UNCHANGED <<emulation, prog, want, todo, found, failed, told, key, shown>>

ThreadStep == CommonStep \/ SendKeyLate(Now.arg) \/ Finders \/ Setters

Next == emulation = "pda" /\ (ThreadStep \/ StatusPoll \/ pop_pda_cmd \/ Packet \/ PanelIdles)

(* A program starts on the home page, on the status of the equipment, or on *)
(* a page where one before it ended; only the first one starts on the page  *)
(* of the firmware.                                                         *)
Sensible(p, v) ==
    /\ p \in Switches => v <= 1
    /\ Target(p) = {} => v = 0
Starts(p) ==
    CASE p = "AQ_PDA_INIT" -> {"FW_VERSION"}
      [] p = "PDA_DIMMER" -> {"HOME", "EQUIPMENT", "STATUS", "DIMMER"}
      [] p = "PDA_TEMP1" -> {"HOME", "EQUIPMENT", "STATUS"}
      [] OTHER -> {"HOME", "EQUIPMENT", "STATUS", "SET_TEMP", "COLORS"}

(* What a program may find that it does not expect: the daemon last read    *)
(* another value, the pump does not run so that there is no boost, and the  *)
(* page that a panel for one body of water shows first does not come.       *)
Surprises(p) ==
    {{}} \union
    (CASE Faults = 0 -> {}
       [] Faults > 0 /\ p \in {"AQ_PDA_SET_POOL_HEATER_TEMPS", "AQ_PDA_SET_FREEZE_PROTECT_TEMP"} -> {{"stale"}}
       [] Faults > 0 /\ p = "AQ_PDA_SET_BOOST" -> {{"no pump"}}
       [] Faults > 0 /\ p = "PDA_TEMP1" -> {{"no nag"}}
       [] OTHER -> {})

StoredAtFirst(s, old) ==
    CASE s = "PUMP" -> IF "no pump" \in mishaps THEN 0 ELSE 1
      [] s = "MODE" -> IF old = 0 THEN 1 ELSE 2
      [] s \in (Devices \ {"PUMP"}) \union {"BOOST"} /\ old > 1 -> 1
      [] OTHER -> old

Init ==
    \E v \in Values, p \in DOMAIN Scripts, force \in BOOLEAN :
    \E page \in Starts(p), old \in OldsOf(p, Switches \union Lights) :
        /\ emulation = "pda" /\ Sensible(p, v)
        /\ force => p \in {"AQ_PDA_DEVICE_ON_OFF", "LIGHT_ON_OFF"}
        /\ prog = p /\ want = v
        /\ todo = (IF force THEN goto_pda_home_first ELSE <<>>) \o Scripts[p]
        /\ key = NoKey /\ out = <<>> /\ told = Nothing
        /\ mishaps \in Surprises(p)
        /\ panel = [page |-> page, line |-> 1, top |-> 0, value |-> 0, edit |-> FALSE,
                    nag |-> p = "PDA_TEMP1" /\ mishaps = {},
                    single |-> p = "PDA_TEMP1", spa |-> p = "PDA_SPA_PERCENT", dimmer |-> p = "PDA_DIMMER",
                    swg |-> CASE p = "PDA_PERCENT_TO" -> "AQUAPURE_TO" [] p = "PDA_ONE_PERCENT" -> "AQUAPURE_ONE"
                              [] OTHER -> "AQUAPURE",
                    stored |-> [s \in Settings |-> StoredAtFirst(s, old)]]
        /\ shown = [page |-> page, top |-> 0, line |-> IF page \in DOMAIN Pages THEN FirstLine[page] ELSE Hidden,
                    val |-> Nothing, chars |-> FALSE, last |-> "status",
                    stored |-> [s \in Settings |-> IF "stale" \in mishaps /\ s \in {"POOL", "FRZ"}
                                                   THEN Top - panel.stored[s] ELSE panel.stored[s]]]
=============================================================================
