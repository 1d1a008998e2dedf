------------------------------- MODULE PdaSleep -------------------------------
(* The sleep of the PDA (pda.c pda_shouldSleep): when nothing is to be done *)
(* AqualinkD leaves packets of the panel unanswered for a while, so that a  *)
(* real PDA may be used, and then looks at the pages again.                 *)
EXTENDS Integers

CONSTANTS
    WakeFor,    \* PDA_WAKE_FOR (10)
    SleepFor,   \* PDA_SLEEP_FOR (40)
    IgnoreNoStatus  \* PDA_IGNORE_NO_STATUS_PAGE (40)

ASSUME SleepAssumption ==
    /\ {WakeFor, SleepFor, IgnoreNoStatus} \subseteq Nat
    /\ 0 < WakeFor /\ WakeFor < IgnoreNoStatus

VARIABLES
    menuPage,   \* pda_m_type()
    programs,   \* a program has the slot
    browsers,   \* open_websockets > 0
    loopCnt,    \* _pda_loop_cnt
    sawHome, sawStatus, inSleep,
    silent,     \* packets left unanswered one after the other (history)
    idle,       \* packets on the home page with nothing to do, up to the
                \* limit for a status page (history)
    statusShown,\* since AqualinkD was last asleep (history)
    disturbed   \* the last sleep did not end by itself (history)

sleepVars == <<menuPage, programs, browsers, loopCnt, sawHome, sawStatus, inSleep, silent, idle,
               statusShown, disturbed>>
seenVars == <<sawHome, sawStatus, inSleep>>

SleepInit ==
    /\ menuPage = "other" /\ programs = FALSE /\ browsers = FALSE
    /\ loopCnt = 0 /\ sawHome = FALSE /\ sawStatus = FALSE /\ inSleep = FALSE
    /\ silent = 0 /\ idle = 0 /\ statusShown = FALSE /\ disturbed = FALSE

NothingToDo == ~programs /\ ~browsers /\ menuPage = "home"
SawHome == sawHome \/ menuPage = "home"
SawStatus == sawStatus \/ menuPage = "status"

(* (Fault) A status page that was seen before a sleep counts after it.      *)
SleepsWithMemory(c) ==
    /\ loopCnt' = c /\ inSleep' = TRUE
    /\ sawHome' = FALSE /\ sawStatus' = SawStatus

Sleeps(c) ==
    /\ loopCnt' = c /\ inSleep' = TRUE
    /\ sawHome' = FALSE /\ sawStatus' = FALSE
Wakes ==
    /\ loopCnt' = 0 /\ inSleep' = FALSE
    /\ sawHome' = SawHome /\ sawStatus' = SawStatus
StaysAwake(c) ==
    /\ loopCnt' = c /\ UNCHANGED inSleep
    /\ sawHome' = SawHome /\ sawStatus' = SawStatus

(* (Fault) The count is moved in a sleep, too.                              *)
CountedInSleep == IF ~SawStatus THEN WakeFor ELSE loopCnt + 1

(* What is counted at a packet.  Without a status page the count is moved   *)
(* on to where sleep begins, after long enough.                             *)
Waits(c) == ~inSleep /\ ~SawStatus /\ c <= IgnoreNoStatus
Counted == IF ~inSleep /\ ~SawStatus THEN WakeFor ELSE loopCnt + 1
pda_shouldSleep ==
    /\ NothingToDo /\ ~Waits(loopCnt + 1)
    /\ WakeFor <= Counted /\ Counted <= WakeFor + SleepFor
WakesUp == NothingToDo /\ ~Waits(loopCnt + 1) /\ Counted > WakeFor + SleepFor

(* A packet for the PDA comes, and is answered or is not.                   *)
PdaPacket ==
    /\ CASE pda_shouldSleep -> Sleeps(Counted)
         [] WakesUp -> Wakes
         [] OTHER -> StaysAwake(IF NothingToDo THEN
                                   IF Waits(loopCnt + 1) THEN loopCnt + 1 ELSE Counted
                                ELSE 0)
    /\ silent' = IF pda_shouldSleep THEN silent + 1 ELSE 0
    /\ idle' = IF pda_shouldSleep \/ ~NothingToDo \/ WakesUp THEN 0
               ELSE IF idle > IgnoreNoStatus THEN idle ELSE idle + 1
    /\ statusShown' = (~pda_shouldSleep /\ (statusShown \/ menuPage = "status"))
    /\ disturbed' = IF pda_shouldSleep THEN FALSE ELSE disturbed \/ (silent > 0 /\ ~WakesUp)
    /\ UNCHANGED <<menuPage, programs, browsers>>

(* The panel shows another page, a program starts or ends, a browser comes  *)
(* or goes.                                                                 *)
PageChanges ==
    /\ menuPage' \in {"home", "status", "other"} \ {menuPage}
    /\ UNCHANGED <<programs, browsers, loopCnt, seenVars, silent, idle, statusShown, disturbed>>
ProgramsChange ==
    /\ programs' = ~programs
    /\ UNCHANGED <<menuPage, browsers, loopCnt, seenVars, silent, idle, statusShown, disturbed>>
BrowsersChange ==
    /\ browsers' = ~browsers
    /\ UNCHANGED <<menuPage, programs, loopCnt, seenVars, silent, idle, statusShown, disturbed>>

SleepNext == PdaPacket \/ PageChanges \/ ProgramsChange \/ BrowsersChange

(* AqualinkD is not silent for more packets than it should sleep for.       *)
NotSilentForLong == silent <= SleepFor + 1

(* It falls asleep only if it was awake for long enough, and if the status  *)
(* page was shown since the last sleep or did not come for long, unless the *)
(* last sleep was disturbed, after which it does not look for the page.     *)
LooksBeforeItSleeps ==
    [][silent = 0 /\ silent' = 1 =>
          /\ idle >= WakeFor - 1
          /\ statusShown \/ idle >= IgnoreNoStatus \/ disturbed]_sleepVars
=============================================================================
