------------------------------ MODULE Programs ------------------------------
(* Any one program of any of the four remotes, from the time it has the     *)
(* slot until it gives it back, and the panel that it works on.             *)
EXTENDS ProgramThread

CONSTANTS SeekMax, FieldMax, ModeMax, Patience
VARIABLES expect, lastSent, stack, current, ctrl

AllButton == INSTANCE AllButtonPrograms
OneTouch == INSTANCE OneTouchPrograms
IaqTouch == INSTANCE IaqTouchPrograms
Pda == INSTANCE PdaPrograms

allbuttonVars == <<expect, lastSent, stack, current>>
vars == <<threadVars, busVars, allbuttonVars, ctrl>>
ExceptAllButton == UNCHANGED allbuttonVars
OnlyShared == UNCHANGED <<allbuttonVars, ctrl>>

AllButtonUnused == expect = 0 /\ lastSent = NoKey /\ stack = <<>> /\ current = Nothing
CtrlUnused == ctrl = Nothing
Init ==
    /\ found = FALSE /\ failed = FALSE
    /\ \/ AllButton!Init /\ CtrlUnused /\ out = <<>> /\ mishaps = {}
       \/ OneTouch!Init /\ AllButtonUnused /\ CtrlUnused /\ out = <<>> /\ mishaps = {}
       \/ IaqTouch!Init /\ AllButtonUnused
       \/ Pda!Init /\ AllButtonUnused /\ CtrlUnused

Next ==
    \/ AllButton!Next /\ UNCHANGED ctrl
    \/ OneTouch!Next /\ OnlyShared
    \/ IaqTouch!Next /\ ExceptAllButton
    \/ Pda!Next /\ OnlyShared

(* The thread runs on, the panel polls its remotes in turn, and the packets *)
(* that it sends are read.                                                  *)
Fairness ==
    /\ WF_vars(emulation = "allbutton" /\ AllButton!ThreadStep /\ UNCHANGED ctrl)
    /\ WF_vars(AllButton!StatusPoll /\ UNCHANGED ctrl)
    /\ WF_vars(AllButton!MessagePoll /\ UNCHANGED ctrl)
    /\ WF_vars(emulation = "onetouch" /\ OneTouch!ThreadStep /\ OnlyShared)
    /\ WF_vars(OneTouch!StatusPoll /\ OnlyShared)
    /\ WF_vars(OneTouch!pop_ot_cmd /\ OnlyShared)
    /\ WF_vars(OneTouch!Packet /\ OnlyShared)
    /\ WF_vars(emulation = "iaqtouch" /\ IaqTouch!ThreadStep /\ ExceptAllButton)
    /\ WF_vars(IaqTouch!Poll /\ ExceptAllButton)
    /\ WF_vars(IaqTouch!pop_iaqt_cmd /\ ExceptAllButton)
    /\ WF_vars(IaqTouch!Packet /\ ExceptAllButton)
    /\ WF_vars(emulation = "pda" /\ Pda!ThreadStep /\ OnlyShared)
    /\ WF_vars(Pda!StatusPoll /\ OnlyShared)
    /\ WF_vars(Pda!pop_pda_cmd /\ OnlyShared)
    /\ WF_vars(Pda!Packet /\ OnlyShared)

Spec == Init /\ [][Next]_vars /\ Fairness

-----------------------------------------------------------------------------
(* What each remote's programs are asked for.                               *)

Settings == DOMAIN panel.stored
Target ==
    CASE emulation = "allbutton" -> AllButton!Target(prog)
      [] emulation = "onetouch" -> OneTouch!Target(prog)
      [] emulation = "iaqtouch" -> IaqTouch!Target(prog)
      [] emulation = "pda" -> Pda!Target(prog)
Asked(p) ==
    CASE emulation = "allbutton" -> AllButton!Asked(p)
      [] emulation = "onetouch" -> OneTouch!Asked(p)
      [] emulation = "iaqtouch" -> IaqTouch!Asked(p)
      [] emulation = "pda" -> Pda!Asked(p)
Wanted(s) ==
    CASE emulation = "iaqtouch" -> IaqTouch!Wanted(s)
      [] emulation = "pda" -> Pda!Wanted(s)
      [] OTHER -> want

Undisturbed == mishaps \subseteq {"crash"}

(* A program that the bus does not disturb ends with no error and with the  *)
(* panel as it was asked to make it: every page was found, every key was    *)
(* pressed on the page and the line that it was meant for, and no key was   *)
(* pressed once too often, whichever of its pages the panel starts on and   *)
(* whatever it has stored.                                                  *)
SetIsStored == ~Working /\ Undisturbed => ~failed /\ Asked(panel)

(* The programs that count their presses from a value they read once store  *)
(* another value when one of the keys is lost or pressed twice.             *)
CountsPresses ==
    \/ emulation = "onetouch" /\ prog \notin OneTouch!Switches
    \/ emulation = "pda" /\ prog \notin Pda!Switches

(* The programs of the PDA that look for a light run one key ahead of the   *)
(* list, so that one key too many selects another device.                   *)
PagesAhead == emulation = "pda" /\ prog \in Pda!Lights \union {"LIGHT_ON_OFF"}

(* What a mishap makes a program change: a boost that was accepted once too *)
(* often; the light turned off for want of an OK; a device switched by the  *)
(* key that an idle iAqualink Touch sends to open the page of its devices.  *)
Disturbed(s) ==
    \/ PagesAhead
    \/ emulation = "allbutton" /\ s = "BOOST" /\ "slow" \in mishaps
    \/ emulation = "iaqtouch" /\ s = "LIGHT" /\ prog = "AQ_SET_IAQTOUCH_LIGHTCOLOR_MODE"
    \/ emulation = "iaqtouch" /\ s = "AUX2" /\ mishaps \intersect {"idle key", "slow"} # {}

(* What the code may store on the way: the hour of an all button is set one *)
(* too far and back, a dimmer is turned off before it is turned on.         *)
OnTheWay(s) ==
    \/ emulation = "allbutton" /\ s = "HOUR"
    \/ prog = "PDA_DIMMER" /\ s = "LIGHT"

(* Whatever one thing goes wrong on the bus, a key that is pressed twice,   *)
(* late, on another page or not at all never makes the panel store anything *)
(* but what the program was asked for, in the setting it was asked to set,  *)
(* but for the cases that are named above.                                  *)
OnlyAskedIsStored ==
    [][\A s \in Settings : panel'.stored[s] # panel.stored[s] =>
           \/ s \in Target /\ (panel'.stored[s] = Wanted(s) \/ OnTheWay(s) \/ (~Undisturbed /\ CountsPresses))
           \/ ~Undisturbed /\ Disturbed(s)]_vars

(* When a program of an undisturbed bus writes the value into aqualinkdata, *)
(* which is published at once, the panel has it when the program ends.      *)
ToldIsTrue == ~Working /\ told = want /\ Undisturbed => Asked(panel)

(* What these properties ask of the limits: a numeric field takes more      *)
(* presses than there are values (100 for at most 69 temperatures), and a   *)
(* search has more than a page has items (28 for 7).                        *)
RangesFit ==
    /\ FieldMax \in Nat /\ \E n \in 0..FieldMax - 1 : Values = 0..n
    /\ SeekMax \in Nat /\ SeekMax >= 7

(* Steps that wait, or try again, without limit.  The slot is kept when the *)
(* PDA has no page for the boost.                                           *)
WithoutLimit(s) == s.op \in {"until", "charsWait", "place", "dim", "kept"} \/ (s.op = "highlight" /\ s.val = 1)
Endless == \E i \in 1..4 : i <= Len(todo) /\ WithoutLimit(todo[i])

(* Every program gives its slot back, also when something goes wrong on the *)
(* bus; but for those that wait without limit for what was lost.            *)
EveryProgramEnds == <>[](~Working \/ (Endless /\ ~Undisturbed))
=============================================================================
