------------------------------ MODULE StatusPages ------------------------------
(* The pages of equipment status of three remotes (onetouch.c, iaqtouch.c   *)
(* and pda.c).  The panel lists what is on over several pages, one after    *)
(* the other.  There is no message that something is off: what was not seen *)
(* on any page is off at the end of them, unless a program runs, as it may  *)
(* have left the pages early.  A pump that primes is listed without speed.  *)
EXTENDS Integers, Sequences

PageSeq == INSTANCE SequencesExt

CONSTANTS
    Pumps, Buttons, \* the pumps, and the other devices that are listed
    Displays,       \* remote: which one, devices: what it lists, in that order;
                    \* an iAqualink Touch reads nothing but pumps
    PerPage,        \* devices on a page
    DeviceChanges,  \* bound: devices that change, programs that start or end
    PageSlips       \* bound: lines and pages that are not heard

ASSUME PagesAssumption ==
    /\ Pumps \cap Buttons = {}
    /\ Displays \subseteq [remote : {"onetouch", "touch", "pda"}, devices : Seq(Pumps \cup Buttons)]
    /\ \A d \in Displays : d.remote = "touch" => d.devices \in Seq(Pumps)
    /\ PerPage \in Nat \ {0} /\ {DeviceChanges, PageSlips} \subseteq Nat

VARIABLES
    display,    \* which of Displays it is
    actual,     \* the devices: "off", "on", or "priming"
    told,       \* what aqualinkdata says of them
    seen,       \* the bits of pump_update and the like: what was on the pages
    paging,     \* the panel shows these pages
    rest,       \* the devices that are still to be listed
    lines,      \* what is kept of the page, each line a device and its status
    listing,    \* the daemon has seen that: last_menu_type, equiptment_update_loop
    pageRead,   \* read_equiptment_menu
    timeCount,  \* time_msg_cnt
    inProgram,  \* a program has the slot
    complete,   \* no page is missing so far, no change, no program (history)
    completeBefore, \* so it was the last time (history)
    deviceChanges, pageSlips

pagesVars == <<display, actual, told, seen, paging, rest, lines, listing, pageRead, timeCount,
               inProgram, complete, completeBefore, deviceChanges, pageSlips>>
pagesEnv == <<display, actual, inProgram, deviceChanges>>

(* The members of the sequence s that are in S, in their order.             *)
Only(s, S) ==
    LET upTo[k \in 0..Len(s)] ==
            IF k = 0 THEN <<>>
            ELSE IF s[k] \in S THEN Append(upTo[k - 1], s[k]) ELSE upTo[k - 1]
    IN upTo[Len(s)]

remote == display.remote
Shown == PageSeq!ToSet(display.devices)
ListedNow == Only(display.devices, {d \in Shown : actual[d] # "off"})
PageLine == [device : Shown, status : {"on", "priming"}]

PagesInit ==
    /\ display \in Displays
    /\ actual \in [Shown -> {"off", "on", "priming"}]
    /\ \A d \in Shown \cap Buttons : actual[d] # "priming"
    /\ told = [d \in Shown |-> "off"]
    /\ seen = {} /\ paging = FALSE /\ rest = <<>> /\ lines = <<>>
    /\ listing = FALSE /\ pageRead = FALSE /\ timeCount = 0
    /\ inProgram = FALSE /\ complete = FALSE /\ completeBefore = FALSE
    /\ deviceChanges = 0 /\ pageSlips = 0

-----------------------------------------------------------------------------
(* What is read of the lines: nothing of a pump without a speed, except by  *)
(* the iAqualink Touch.                                                     *)
Legible(line) == line.status = "on" \/ remote = "touch"
Readings(ls, D) == {line \in PageSeq!ToSet(ls) : line.device \in D /\ Legible(line)}
Noted(t, readings) ==
    [d \in Shown |-> IF \E r \in readings : r.device = d
                     THEN (CHOOSE r \in readings : r.device = d).status ELSE t[d]]
Bits(readings) == {r.device : r \in readings}

(* pump_update(-1) and iaqt_pump_update(-1), equiptment_update_cycle(-1).   *)
TurnedOff(t, bits, D) == [d \in Shown |-> IF d \in D \ bits THEN "off" ELSE t[d]]

(* rs16led_update(-1) stops after the first button, and compares its bit    *)
(* with what lies before the table: it is turned off or not, seen or not.   *)
FirstButton == Only(display.devices, Buttons)[1]
AfterRs16(t) ==
    IF Shown \cap Buttons = {} THEN {t} ELSE {t, [t EXCEPT ![FirstButton] = "off"]}

(* What may be known at the end of the pages on a OneTouch or a PDA.        *)
EndTold ==
    IF remote = "onetouch" THEN AfterRs16(TurnedOff(told, seen, Pumps))
                           ELSE {TurnedOff(told, seen, Shown)}

(* (Fault) The bits are not reset at the end.                               *)
EndKeepsBits == told' \in EndTold /\ UNCHANGED seen

End == told' \in EndTold /\ seen' = {}
EndUnlessInProgram == IF listing /\ ~inProgram THEN End ELSE UNCHANGED <<told, seen>>

-----------------------------------------------------------------------------
(* A OneTouch shows one pump to a page.                                     *)
Todo == IF paging THEN rest ELSE ListedNow
Fit(todo) ==
    IF remote = "onetouch" /\ todo # <<>> /\ Head(todo) \in Pumps THEN 1
    ELSE IF Len(todo) < PerPage THEN Len(todo) ELSE PerPage
Page == Only([k \in 1..Fit(Todo) |-> [device |-> Todo[k], status |-> actual[Todo[k]]]], PageLine)
After == SubSeq(Todo, Fit(Todo) + 1, Len(Todo))

(* The next page of the iAqualink Touch does not empty the lines.           *)
Over(page) ==
    IF remote = "touch" /\ paging
    THEN page \o SubSeq(lines, Len(page) + 1, Len(lines)) ELSE page

(* A PDA that was not polled twice on its first page, or once on another,   *)
(* has not read the pumps on it.                                            *)
Hurried ==
    /\ remote = "pda" /\ ~pageRead
    /\ \E k \in DOMAIN lines : lines[k].device \in Pumps
CompleteSoFar == IF paging THEN complete /\ ~Hurried ELSE ~inProgram

(* The first page, or the next one.  A PDA lists nothing if nothing is on.  *)
Turns(left) ==
    /\ paging => rest # <<>>
    /\ remote = "pda" => Todo # <<>>
    /\ paging' = TRUE /\ rest' = left
    /\ pageRead' = FALSE /\ timeCount' = 0

(* A page comes.  A PDA reads the buttons line by line and the pumps later. *)
(* After its last page the iAqualink Touch resets the pumps.                *)
Arrives(page) ==
    LET readings == Readings(Over(page), IF remote = "pda" THEN Buttons ELSE Shown)
        bits == seen \cup Bits(readings)
        last == remote = "touch" /\ After = <<>>
    IN /\ lines' = Over(page)
       /\ told' = IF last THEN TurnedOff(Noted(told, readings), bits, Pumps)
                  ELSE Noted(told, readings)
       /\ seen' = IF last THEN {} ELSE bits
       /\ listing' = (remote = "onetouch" \/ (remote = "pda" /\ listing))
       /\ completeBefore' = IF last THEN complete' ELSE completeBefore

ShowPage ==
    /\ Turns(After) /\ complete' = CompleteSoFar /\ Arrives(Page)
    /\ UNCHANGED <<pagesEnv, pageSlips>>

(* A line is not heard.                                                     *)
LineSlips ==
    /\ pageSlips < PageSlips /\ pageSlips' = pageSlips + 1
    /\ Turns(After) /\ complete' = FALSE
    /\ \E k \in DOMAIN Page : Arrives(PageSeq!RemoveAt(Page, k))
    /\ UNCHANGED pagesEnv

(* The title is not heard: a page of another kind for all that is known.    *)
(* An iAqualink Touch, which has to ask for it, gets no next page then.     *)
TitleSlips ==
    /\ pageSlips < PageSlips /\ pageSlips' = pageSlips + 1
    /\ Turns(IF remote = "touch" THEN <<>> ELSE After) /\ complete' = FALSE
    /\ lines' = <<>> /\ listing' = FALSE
    /\ EndUnlessInProgram
    /\ completeBefore' = (completeBefore /\ remote # "touch")
    /\ UNCHANGED pagesEnv

(* A PDA is polled on one of these pages.                                   *)
PdaPoll ==
    /\ remote = "pda" /\ paging /\ lines # <<>> /\ ~(listing /\ pageRead)
    /\ IF listing
       THEN LET readings == Readings(lines, Pumps)
            IN /\ pageRead' = TRUE /\ UNCHANGED listing
               /\ told' = Noted(told, readings) /\ seen' = seen \cup Bits(readings)
       ELSE listing' = TRUE /\ UNCHANGED <<pageRead, told, seen>>
    /\ UNCHANGED <<pagesEnv, paging, rest, lines, timeCount, complete, completeBefore, pageSlips>>

(* Another page comes, after the last one or, when a program or a slip is   *)
(* about, at any time.                                                      *)
Completed == paging /\ rest = <<>> /\ complete /\ listing /\ ~Hurried
Leaves ==
    /\ paging /\ (rest = <<>> \/ inProgram \/ ~complete)
    /\ paging' = FALSE /\ rest' = <<>> /\ lines' = <<>> /\ pageRead' = FALSE
    /\ listing' = FALSE
    /\ EndUnlessInProgram
    /\ complete' = FALSE
    /\ completeBefore' = IF remote = "touch" THEN completeBefore /\ rest = <<>> ELSE Completed
    /\ UNCHANGED <<pagesEnv, timeCount, pageSlips>>

(* A PDA shows the time again and again.  If it does so twice, with no      *)
(* other line in between, nothing is on.                                    *)
TimeComes ==
    /\ remote = "pda" /\ ~paging /\ (timeCount = 0 \/ ListedNow = <<>>)
    /\ timeCount' = IF timeCount < 3 THEN timeCount + 1 ELSE 3
    /\ IF timeCount' >= 2
       THEN told' = TurnedOff(told, seen, Buttons) /\ seen' = seen \cap Pumps
       ELSE UNCHANGED <<told, seen>>
    /\ UNCHANGED <<pagesEnv, paging, rest, lines, listing, pageRead, complete, completeBefore,
                   pageSlips>>

-----------------------------------------------------------------------------
DeviceMay == deviceChanges < DeviceChanges /\ deviceChanges' = deviceChanges + 1
DeviceChangesTo(d, s) ==
    /\ DeviceMay /\ s # actual[d] /\ (s = "priming" => d \in Pumps)
    /\ actual' = [actual EXCEPT ![d] = s] /\ complete' = FALSE
    /\ UNCHANGED <<display, told, seen, paging, rest, lines, listing, pageRead, timeCount,
                   inProgram, completeBefore, pageSlips>>
ProgramRuns ==
    /\ DeviceMay
    /\ inProgram' = ~inProgram /\ complete' = FALSE
    /\ UNCHANGED <<display, actual, told, seen, paging, rest, lines, listing, pageRead, timeCount,
                   completeBefore, pageSlips>>

PagesNext ==
    \/ ShowPage \/ LineSlips \/ TitleSlips \/ PdaPoll \/ Leaves \/ TimeComes
    \/ \E d \in Shown, s \in {"off", "on", "priming"} : DeviceChangesTo(d, s)
    \/ ProgramRuns

-----------------------------------------------------------------------------
(* The pages have come to their end, complete and undisturbed.              *)
PagesEnd ==
    \/ remote # "touch" /\ Leaves /\ Completed
    \/ remote = "touch" /\ ShowPage /\ After = <<>> /\ complete'

(* Off, or listed in a way that is not read: a pump that primes, for a      *)
(* OneTouch and a PDA.                                                      *)
Unread(d) == actual[d] = "off" \/ ~Legible([device |-> d, status |-> actual[d]])
Rs16(d) == remote = "onetouch" /\ d \in Buttons

(* At the end of a complete and undisturbed series of pages the devices     *)
(* that can be read there are known as they are, whatever happened before,  *)
(* and the others are known to be off if the series before was so, too: a   *)
(* program that left the pages early leaves bits behind.  The buttons of an *)
(* RS16 panel on a OneTouch are never turned off, but the first one, which  *)
(* may be so while it is on.  When nothing is on a PDA's buttons are known  *)
(* to be off after the third time.                                          *)
PagesAreTold ==
    [][ /\ PagesEnd => \A d \in Shown :
              /\ ~Unread(d) /\ ~(Rs16(d) /\ d = FirstButton) => told'[d] = actual[d]
              /\ Unread(d) /\ completeBefore /\ ~Rs16(d) => told'[d] = "off"
        /\ TimeComes /\ timeCount >= 2 => \A d \in Buttons \cap Shown : told'[d] = "off"
      ]_pagesVars

PagesSpec == PagesInit /\ [][PagesNext]_pagesVars
=============================================================================
