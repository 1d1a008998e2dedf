----------------------------- MODULE DaemonProofs -----------------------------
(* What the parts of Daemon promise for all values of their constants,      *)
(* proved.                                                                  *)
EXTENDS Daemon, FiniteSetTheorems, SequenceTheorems, WellFoundedInduction, TLAPS

(* Every part takes a step of its own or rests.                             *)
LEMMA PartSteps ==
    [DaemonNext]_daemonVars =>
        /\ [IaqNext]_iaqVars /\ [StartupNext]_startupVars /\ [SleepNext]_sleepVars
        /\ [PublisherNext]_publisherVars /\ [SetpointNext]_setpointVars /\ [CycleNext]_cycleVars
        /\ [PagesNext]_pagesVars /\ [ReaderNext]_readerVars
<1>1. ASSUME UNCHANGED daemonVars
      PROVE  UNCHANGED <<iaqVars, startupVars, sleepVars, publisherVars, setpointVars, cycleVars,
                  pagesVars, readerVars>>
    BY <1>1 DEF daemonVars
<1> QED BY <1>1, Zenon DEF DaemonNext, RunReader, RunIaqualink, RunCycle, RunPublisher, RunStartup,
                RunSleep, RunSetpoints, RunPages

(* The parts that are proved about start in initial states of their own.    *)
LEMMA PartInits ==
    DaemonInit => /\ IaqInit /\ StartupInit /\ SleepInit /\ PublisherInit /\ SetpointInit
                  /\ CycleInit /\ PagesInit /\ ReaderInit
BY DEF DaemonInit

-----------------------------------------------------------------------------
(* The sleep of the PDA.  While AqualinkD is silent its count is that of    *)
(* the packets left unanswered, from WakeFor on.  While it answers, the     *)
(* count is not ahead of the packets that it had nothing to do at; it is    *)
(* still in its sleep only if that was disturbed.                           *)
SleepTypes ==
    /\ loopCnt \in Nat /\ silent \in Nat /\ idle \in Nat
    /\ inSleep \in BOOLEAN /\ sawStatus \in BOOLEAN
    /\ statusShown \in BOOLEAN /\ disturbed \in BOOLEAN
Silence ==
    silent > 0 => /\ inSleep
                  /\ silent <= loopCnt - WakeFor + 1
                  /\ loopCnt <= WakeFor + SleepFor
Patience == silent = 0 => loopCnt <= idle \/ idle > IgnoreNoStatus
Looks == (silent = 0 /\ inSleep => disturbed) /\ (sawStatus => statusShown)
SleepInv == SleepTypes /\ Silence /\ Patience /\ Looks

(* What pda_shouldSleep compares with its limits is a number.               *)
LEMMA CountedType == SleepTypes => Counted \in Nat
BY SleepAssumption DEF SleepTypes, Counted

(* A packet of any kind keeps the invariant of the sleep.                   *)
LEMMA SleepStep == SleepInv /\ [SleepNext]_sleepVars => SleepInv'
<1> SUFFICES ASSUME SleepInv, [SleepNext]_sleepVars PROVE SleepInv'
    OBVIOUS
<1>0. /\ SleepTypes /\ Silence /\ Patience /\ Looks /\ Counted \in Nat
      /\ WakeFor \in Nat /\ SleepFor \in Nat /\ IgnoreNoStatus \in Nat
    BY SleepAssumption, CountedType DEF SleepInv
<1>1. CASE PdaPacket /\ pda_shouldSleep
    <2>1. silent > 0 => Counted = loopCnt + 1
        BY <1>0 DEF Counted, Silence
    <2>2. WakeFor <= Counted /\ Counted <= WakeFor + SleepFor /\ ~WakesUp
        BY <1>0, <1>1 DEF pda_shouldSleep, WakesUp
    <2>3. Sleeps(Counted)
        BY <1>1, <2>2, Zenon DEF PdaPacket
    <2>4. /\ loopCnt' = Counted /\ inSleep' = TRUE /\ sawStatus' = FALSE
          /\ silent' = silent + 1 /\ idle' = 0
          /\ statusShown' = FALSE /\ disturbed' = FALSE
        BY <1>1, <2>3, Zenon DEF PdaPacket, Sleeps
    <2>5. silent \in Nat /\ loopCnt \in Nat
        BY <1>0 DEF SleepTypes
    <2>6. silent + 1 <= Counted - WakeFor + 1
        <3>1. CASE silent > 0
            BY <1>0, <2>1, <2>5, <3>1 DEF Silence
        <3>2. CASE ~(silent > 0)
            BY <1>0, <2>2, <2>5, <3>2
        <3> QED BY <3>1, <3>2
    <2>7. SleepTypes'
        <3>1. loopCnt' \in Nat /\ silent' \in Nat /\ idle' \in Nat
            BY <1>0, <2>4, <2>5
        <3>2. /\ inSleep' \in BOOLEAN /\ sawStatus' \in BOOLEAN
              /\ statusShown' \in BOOLEAN /\ disturbed' \in BOOLEAN
            BY <2>4
        <3> QED BY <3>1, <3>2 DEF SleepTypes
    <2>8. Silence'
        BY <1>0, <2>2, <2>4, <2>6 DEF Silence
    <2>9. silent' # 0
        BY <2>4, <2>5
    <2> QED BY <2>4, <2>7, <2>8, <2>9 DEF SleepInv, Patience, Looks
<1>2. CASE PdaPacket /\ ~pda_shouldSleep
    <2>1. /\ silent' = 0 /\ statusShown' = (statusShown \/ menuPage = "status")
          /\ disturbed' = (disturbed \/ (silent > 0 /\ ~WakesUp))
        BY <1>2 DEF PdaPacket
    <2>2. sawStatus' = SawStatus
        BY <1>2 DEF PdaPacket, Wakes, StaysAwake
    <2>3. /\ statusShown' \in BOOLEAN /\ sawStatus' \in BOOLEAN
          /\ disturbed' \in BOOLEAN /\ (sawStatus' => statusShown')
        BY <1>0, <2>1, <2>2 DEF SawStatus, SleepTypes, Looks
    <2>4. Silence'
        BY <2>1 DEF Silence
    <2>5. CASE WakesUp
        <3>1. loopCnt' = 0 /\ inSleep' = FALSE /\ idle' = 0
            BY <1>2, <2>5 DEF PdaPacket, Wakes
        <3>2. SleepTypes'
            BY <2>1, <2>3, <3>1 DEF SleepTypes
        <3>3. Patience' /\ Looks'
            BY <2>3, <3>1 DEF Patience, Looks
        <3> QED BY <2>4, <3>2, <3>3 DEF SleepInv
    <2>6. CASE ~WakesUp
        <3>1. /\ loopCnt' = IF NothingToDo THEN IF Waits(loopCnt + 1) THEN loopCnt + 1 ELSE Counted
                            ELSE 0
              /\ inSleep' = inSleep
              /\ idle' = IF ~NothingToDo THEN 0
                         ELSE IF idle > IgnoreNoStatus THEN idle ELSE idle + 1
            BY <1>2, <2>6 DEF PdaPacket, StaysAwake
        <3>2. NothingToDo => Waits(loopCnt + 1) \/ Counted < WakeFor
            BY <1>0, <1>2, <2>6 DEF pda_shouldSleep, WakesUp
        <3>3. loopCnt \in Nat /\ idle \in Nat /\ silent \in Nat
            BY <1>0 DEF SleepTypes
        <3>4. NothingToDo => Waits(loopCnt + 1) \/ Counted = loopCnt + 1
            BY <1>0, <3>2 DEF Counted
        <3>5. NothingToDo => silent = 0
            <4> SUFFICES ASSUME NothingToDo, silent > 0 PROVE FALSE
                BY <3>3
            <4>1. inSleep /\ loopCnt >= WakeFor
                BY <1>0, <3>3 DEF Silence
            <4>2. Counted < WakeFor /\ Counted = loopCnt + 1
                BY <3>2, <3>4, <4>1 DEF Waits
            <4> QED BY <1>0, <3>3, <4>1, <4>2
        <3>6. NothingToDo => loopCnt' = loopCnt + 1 /\ (loopCnt <= idle \/ idle > IgnoreNoStatus)
            BY <1>0, <3>1, <3>4, <3>5 DEF Patience
        <3>7. loopCnt' \in Nat /\ idle' \in Nat /\ (loopCnt' <= idle' \/ idle' > IgnoreNoStatus)
            BY <1>0, <3>1, <3>3, <3>6
        <3>8. SleepTypes'
            BY <1>0, <2>1, <2>3, <3>1, <3>7 DEF SleepTypes
        <3>9. inSleep' => disturbed'
            <4>1. CASE silent > 0
                BY <2>1, <2>6, <4>1
            <4>2. CASE ~(silent > 0)
                <5>1. silent = 0
                    BY <3>3, <4>2
                <5>2. inSleep => disturbed
                    BY <1>0, <5>1, Zenon DEF Looks
                <5>3. disturbed => disturbed'
                    BY <2>1, Zenon
                <5> QED BY <3>1, <5>2, <5>3, Zenon
            <4> QED BY <4>1, <4>2
        <3>10. Patience' /\ Looks'
            BY <2>3, <3>7, <3>9 DEF Patience, Looks
        <3> QED BY <2>4, <3>8, <3>10 DEF SleepInv
    <2> QED BY <2>5, <2>6
<1>3. CASE PageChanges \/ ProgramsChange \/ BrowsersChange \/ UNCHANGED sleepVars
    <2>1. UNCHANGED <<loopCnt, inSleep, sawStatus, silent, idle, statusShown, disturbed>>
        BY <1>3 DEF PageChanges, ProgramsChange, BrowsersChange, seenVars, sleepVars
    <2> QED BY <1>0, <2>1 DEF SleepInv, SleepTypes, Silence, Patience, Looks
<1> QED BY <1>1, <1>2, <1>3 DEF SleepNext

(* The invariant of the sleep holds throughout.                             *)
LEMMA SleepInvHolds == Spec => []SleepInv
<1>1. DaemonInit => SleepInv
    <2> SUFFICES ASSUME SleepInit PROVE SleepInv
        BY PartInits
    <2>1. loopCnt = 0 /\ silent = 0 /\ idle = 0
        BY DEF SleepInit
    <2>2. SleepTypes
        <3>1. inSleep = FALSE /\ sawStatus = FALSE /\ statusShown = FALSE /\ disturbed = FALSE
            BY DEF SleepInit
        <3> QED BY <2>1, <3>1 DEF SleepTypes
    <2>3. Silence /\ Patience
        BY <2>1 DEF Silence, Patience
    <2>4. Looks
        BY DEF SleepInit, Looks
    <2> QED BY <2>2, <2>3, <2>4 DEF SleepInv
<1>2. SleepInv /\ [DaemonNext]_daemonVars => SleepInv'
    BY SleepStep, PartSteps
<1> QED BY <1>1, <1>2, PTL DEF Spec

(* A real PDA has the panel for itself for no more than SleepFor packets and*)
(* one, for any settings, pages, programs and browsers.                     *)
THEOREM SilenceIsBounded == Spec => []NotSilentForLong
<1>1. SleepInv => NotSilentForLong
    BY SleepAssumption DEF SleepInv, SleepTypes, Silence, NotSilentForLong
<1> QED BY <1>1, SleepInvHolds, PTL

(* The first packet that is left unanswered comes after the limit of        *)
(* patience, and after the status page unless that was not to be had.       *)
LEMMA FallsAsleep ==
    SleepInv /\ [SleepNext]_sleepVars =>
        (silent = 0 /\ silent' = 1 =>
            /\ idle >= WakeFor - 1
            /\ statusShown \/ idle >= IgnoreNoStatus \/ disturbed)
<1> SUFFICES ASSUME SleepInv, [SleepNext]_sleepVars, silent = 0, silent' = 1
             PROVE  /\ idle >= WakeFor - 1
                    /\ statusShown \/ idle >= IgnoreNoStatus \/ disturbed
    OBVIOUS
<1>1. PdaPacket /\ pda_shouldSleep
    <2>1. PdaPacket
        BY DEF SleepNext, PageChanges, ProgramsChange, BrowsersChange, sleepVars
    <2>2. silent' = IF pda_shouldSleep THEN silent + 1 ELSE 0
        BY <2>1 DEF PdaPacket
    <2> QED BY <2>1, <2>2
<1>2. loopCnt <= idle \/ idle > IgnoreNoStatus
    BY DEF SleepInv, Patience
<1>3. SawStatus = sawStatus /\ sawStatus \in BOOLEAN
    BY <1>1 DEF pda_shouldSleep, NothingToDo, SawStatus, SleepInv, SleepTypes
<1>4. CASE inSleep \/ sawStatus
    <2>1. loopCnt + 1 >= WakeFor
        BY <1>1, <1>3, <1>4 DEF pda_shouldSleep, Counted
    <2> QED BY <1>2, <1>4, <2>1, SleepAssumption DEF SleepInv, SleepTypes, Looks
<1>5. CASE ~inSleep /\ ~sawStatus
    <2>1. loopCnt + 1 > IgnoreNoStatus
        BY <1>1, <1>3, <1>5, SleepAssumption DEF pda_shouldSleep, Waits, SleepInv, SleepTypes
    <2> QED BY <1>2, <2>1, SleepAssumption DEF SleepInv, SleepTypes
<1> QED BY <1>4, <1>5

(* AqualinkD does not fall asleep at once, nor without having looked for the*)
(* status page, unless its last sleep was disturbed.                        *)
THEOREM LooksFirst == Spec => LooksBeforeItSleeps
<1>1. SleepInv /\ [DaemonNext]_daemonVars =>
          [silent = 0 /\ silent' = 1 =>
              /\ idle >= WakeFor - 1
              /\ statusShown \/ idle >= IgnoreNoStatus \/ disturbed]_sleepVars
    BY FallsAsleep, PartSteps
<1> QED BY <1>1, SleepInvHolds, PTL DEF Spec, LooksBeforeItSleeps

-----------------------------------------------------------------------------
(* The search for a free AllButton address.  What counts against an address *)
(* of another device, the probes that seemed to go unanswered and a last one*)
(* that may, is no more than what was lost: a probe that is answered takes  *)
(* its count back, and is heard or lost with its answer before the next.    *)
StartupFields ==
    {"phase", "device", "rssa", "extended", "probed", "unanswered", "lastID", "firstprobe",
     "pass", "gotRev", "loops", "packets", "complete", "i", "blank"}
Tally(s, d) == s.unanswered[d] + (IF s.lastID = d THEN 1 ELSE 0)
SearchCounts(s, nb, losses) ==
    /\ s.complete = TRUE /\ s.lastID \in AllButtonIds \cup {None}
    /\ s.unanswered \in [AllButtonIds -> Nat]
    /\ \A d \in AllButtonIds : d \in nb => Tally(s, d) <= losses
Searching(s, nb, losses) ==
    /\ DOMAIN s = StartupFields
    /\ s.device \in nb => losses >= 3
    /\ Awaits(s) => SearchCounts(s, nb, losses)

(* The automatic configuration.  What it has is free or was configured; the *)
(* last probe, if it is still to be adopted, was not for another device.    *)
Configuring(s, nb, c) ==
    /\ DOMAIN s = StartupFields
    /\ s.device \notin nb
    /\ s.rssa \in nb => s.rssa = c.rssa
    /\ s.extended \in nb => s.extended = c.extended
    /\ Awaits(s) => s.complete = FALSE
Unanswered(s, nb) == Awaits(s) => s.lastID \notin nb

StartupInv ==
    /\ neighbours \in Neighbours /\ lostPackets \in Nat
    /\ configuration.device = None => Searching(aqd, neighbours, lostPackets)
    /\ configuration.device = AutoId /\ lostPackets = 0 =>
          Configuring(aqd, neighbours, configuration) /\ Unanswered(aqd, neighbours)

(* Another start keeps what is known of the addresses and waits for no      *)
(* probe.                                                                   *)
LEMMA BeginIs ==
    ASSUME NEW s
    PROVE  /\ DOMAIN Begin(s) = StartupFields /\ ~Awaits(Begin(s))
           /\ Begin(s).device = s.device /\ Begin(s).rssa = s.rssa
           /\ Begin(s).extended = s.extended
<1>1. DOMAIN Fresh = StartupFields
    BY DEF Fresh, StartupFields
<1> QED BY <1>1 DEF Begin, StartupFields, Awaits

(* What losses allow, more losses allow.                                    *)
LEMMA SearchingLoses ==
    ASSUME NEW s, NEW nb, NEW m \in Nat, NEW n \in Nat, Searching(s, nb, m), m <= n
    PROVE  Searching(s, nb, n)
<1>1. SearchCounts(s, nb, m) => SearchCounts(s, nb, n)
    BY DEF SearchCounts, Tally
<1> QED BY <1>1 DEF Searching

(* A start keeps the search.                                                *)
LEMMA SearchingStarts ==
    ASSUME NEW s, NEW nb, NEW m, Searching(s, nb, m)
    PROVE  Searching(Started(s), nb, m)
<1>1. Searching(Begin(s), nb, m)
    BY BeginIs DEF Searching
<1> QED BY <1>1 DEF Started

(* An address is found after its third probe.                               *)
LEMMA SearchingCounts ==
    ASSUME NEW s, NEW nb, NEW m \in Nat, NEW p, Searching(s, nb, m), Awaits(s), None \notin nb,
           ~(p.dest \in AllButtonIds /\ p.cmd = "probe")
    PROVE  Searching(find_unused_address(s, p), nb, m)
<1> DEFINE n == s.unanswered[s.lastID] + 1
           r == find_unused_address(s, p)
<1>1. SearchCounts(s, nb, m) /\ DOMAIN s = StartupFields
    BY DEF Searching
<1>2. CASE p.dest = Master \/ s.lastID = None
    <2>1. r = [s EXCEPT !.lastID = None]
        BY <1>2 DEF find_unused_address
    <2>2. /\ DOMAIN r = StartupFields /\ r.lastID = None /\ r.device = s.device
          /\ r.complete = s.complete /\ r.unanswered = s.unanswered
        BY <1>1, <2>1 DEF StartupFields
    <2>3. SearchCounts(r, nb, m)
        BY <1>1, <2>2 DEF SearchCounts, Tally, AllButtonIds, None
    <2> QED BY <2>2, <2>3 DEF Searching
<1>3. CASE ~(p.dest = Master \/ s.lastID = None)
    <2>1. r = [s EXCEPT !.unanswered[s.lastID] = n, !.lastID = None,
                        !.device = IF n >= 3 THEN s.lastID ELSE None]
        BY <1>3 DEF find_unused_address
    <2>2. /\ DOMAIN r = StartupFields /\ r.lastID = None
          /\ r.device = IF n >= 3 THEN s.lastID ELSE None
          /\ r.complete = s.complete
          /\ r.unanswered = [s.unanswered EXCEPT ![s.lastID] = n]
        BY <1>1, <2>1 DEF StartupFields
    <2>3. s.lastID \in AllButtonIds /\ s.unanswered \in [AllButtonIds -> Nat] /\ n \in Nat
        BY <1>1, <1>3 DEF SearchCounts
    <2>4. s.lastID \in nb => n <= m
        BY <1>1, <2>3 DEF SearchCounts, Tally
    <2>5. SearchCounts(r, nb, m)
        <3>1. \A d \in AllButtonIds : Tally(r, d) = IF d = s.lastID THEN n ELSE s.unanswered[d]
            BY <2>2, <2>3 DEF Tally, AllButtonIds, None
        <3>2. \A d \in AllButtonIds : d \in nb => Tally(r, d) <= m
            BY <1>1, <2>3, <2>4, <3>1 DEF SearchCounts, Tally
        <3>3. r.unanswered \in [AllButtonIds -> Nat]
            BY <2>2, <2>3
        <3> QED BY <1>1, <2>2, <3>2, <3>3 DEF SearchCounts
    <2>6. r.device \in nb => m >= 3
        BY <2>2, <2>3, <2>4
    <2> QED BY <2>2, <2>5, <2>6 DEF Searching
<1> QED BY <1>2, <1>3

(* Waiting for the probe of a configured address keeps the search.          *)
LEMMA SearchingWaits ==
    ASSUME NEW s, NEW nb, NEW m \in Nat, NEW p, Searching(s, nb, m), Awaits(s),
           s.device # None
    PROVE  Searching(WaitRead(s, p), nb, m)
<1> DEFINE r == WaitRead(s, p)
<1>1. SearchCounts(s, nb, m) /\ DOMAIN s = StartupFields /\ s.complete = TRUE
    BY DEF Searching, SearchCounts
<1>2. r = IF p.dest \in Missing(s)
          THEN [s EXCEPT !.probed = IF p.cmd = "probe" THEN s.probed \cup {p.dest} ELSE s.probed]
          ELSE Other(s)
    BY <1>1 DEF WaitRead
<1>3. /\ DOMAIN r = StartupFields /\ r.lastID = s.lastID /\ r.device = s.device
      /\ r.complete = s.complete /\ r.unanswered = s.unanswered
    BY <1>1, <1>2 DEF StartupFields, Other
<1> QED BY <1>1, <1>3 DEF Searching, SearchCounts, Tally

(* Any packet but the probe of another AllButton device.                    *)
LEMMA SearchingReads ==
    ASSUME NEW s, NEW nb, NEW m \in Nat, NEW p, Searching(s, nb, m), None \notin nb,
           p.dest \in AllButtonIds /\ p.cmd = "probe" => p.dest \notin nb
    PROVE  Searching(Read(s, p), nb, m)
<1>1. CASE ~Awaits(s)
    <2>1. Read(s, p) = [s EXCEPT !.blank = 0]
        BY <1>1 DEF Read
    <2>2. /\ DOMAIN Read(s, p) = StartupFields /\ Read(s, p).device = s.device
          /\ Read(s, p).phase = s.phase
        BY <2>1 DEF Searching, StartupFields
    <2> QED BY <1>1, <2>2 DEF Searching, Awaits
<1>2. CASE Awaits(s) /\ s.device # None
    BY <1>2, SearchingWaits, SearchingStarts DEF Read
<1>3. CASE Awaits(s) /\ s.device = None
    <2>1. Read(s, p) = Started(find_unused_address(s, p))
        BY <1>3 DEF Read, WaitRead, Searching, SearchCounts
    <2>2. CASE ~(p.dest \in AllButtonIds /\ p.cmd = "probe")
        BY <1>3, <2>1, <2>2, SearchingCounts, SearchingStarts
    <2>3. CASE p.dest \in AllButtonIds /\ p.cmd = "probe"
        <3> DEFINE r == find_unused_address(s, p)
        <3>1. r = [s EXCEPT !.lastID = p.dest]
            BY <2>3 DEF find_unused_address
        <3>2. /\ DOMAIN r = StartupFields /\ r.lastID = p.dest /\ r.device = s.device
              /\ r.complete = s.complete /\ r.unanswered = s.unanswered
            BY <3>1 DEF StartupFields, Searching
        <3>3. SearchCounts(s, nb, m)
            BY <1>3 DEF Searching
        <3>4. \A d \in AllButtonIds : d \in nb => Tally(r, d) <= m
            <4>1. \A d \in AllButtonIds : d \in nb => Tally(r, d) = s.unanswered[d]
                BY <2>3, <3>2, <3>3 DEF Tally, SearchCounts
            <4> QED BY <3>3, <4>1 DEF SearchCounts, Tally
        <3>5. Searching(r, nb, m)
            BY <2>3, <3>2, <3>3, <3>4 DEF Searching, SearchCounts
        <3> QED BY <2>1, <3>5, SearchingStarts
    <2> QED BY <2>2, <2>3
<1> QED BY <1>1, <1>2, <1>3

(* The probe of another AllButton device: one count more, which the answer  *)
(* takes back.                                                              *)
LEMMA SearchingProbed ==
    ASSUME NEW s, NEW nb, NEW m \in Nat, NEW p, Searching(s, nb, m), None \notin nb,
           p.dest \in AllButtonIds, p.cmd = "probe"
    PROVE  /\ Searching(Read(s, p), nb, m + 1)
           /\ Searching(Read(Read(s, p), Packet(Master, "ack")), nb, m)
<1> DEFINE ack == Packet(Master, "ack")
<1>0. ack.dest = Master /\ ack.cmd = "ack" /\ Master \notin AllButtonIds
    BY DEF Packet, Master, AllButtonIds
<1>1. CASE ~(Awaits(s) /\ s.device = None)
    <2>1. Searching(Read(s, p), nb, m)
        <3>1. CASE ~Awaits(s)
            <4>1. Read(s, p) = [s EXCEPT !.blank = 0]
                BY <3>1 DEF Read
            <4>2. /\ DOMAIN Read(s, p) = StartupFields /\ Read(s, p).device = s.device
                  /\ Read(s, p).phase = s.phase
                BY <4>1 DEF Searching, StartupFields
            <4> QED BY <3>1, <4>2 DEF Searching, Awaits
        <3>2. CASE Awaits(s) /\ s.device # None
            BY <3>2, SearchingWaits, SearchingStarts DEF Read
        <3> QED BY <1>1, <3>1, <3>2
    <2>2. Searching(Read(Read(s, p), ack), nb, m)
        BY <1>0, <2>1, SearchingReads
    <2>3. Searching(Read(s, p), nb, m + 1)
        BY <2>1, SearchingLoses
    <2> QED BY <2>2, <2>3
<1>2. CASE Awaits(s) /\ s.device = None
    <2> DEFINE r == [s EXCEPT !.lastID = p.dest]
               u == [r EXCEPT !.lastID = None]
    <2>1. SearchCounts(s, nb, m) /\ DOMAIN s = StartupFields
        BY <1>2 DEF Searching
    <2>2. /\ DOMAIN r = StartupFields /\ r.lastID = p.dest /\ r.device = None
          /\ r.complete = TRUE /\ r.unanswered = s.unanswered /\ Awaits(r)
        BY <1>2, <2>1 DEF StartupFields, SearchCounts, Awaits
    <2>3. /\ DOMAIN u = StartupFields /\ u.lastID = None /\ u.device = None
          /\ u.complete = TRUE /\ u.unanswered = s.unanswered
        BY <2>2 DEF StartupFields
    <2>4. Read(s, p) = r
        BY <1>2, <2>1, <2>2 DEF Read, WaitRead, find_unused_address, Started, SearchCounts
    <2>5. Searching(r, nb, m + 1)
        <3>1. \A d \in AllButtonIds : d \in nb => Tally(r, d) <= m + 1
            BY <2>1, <2>2 DEF SearchCounts, Tally
        <3>2. SearchCounts(r, nb, m + 1)
            BY <2>1, <2>2, <3>1 DEF SearchCounts
        <3> QED BY <2>2, <3>2 DEF Searching
    <2>6. Read(r, ack) = u
        BY <1>0, <2>2, <2>3 DEF Read, WaitRead, find_unused_address, Started
    <2>7. Searching(u, nb, m)
        <3>1. \A d \in AllButtonIds : d \in nb => Tally(u, d) <= m
            BY <2>1, <2>3 DEF SearchCounts, Tally, AllButtonIds, None
        <3>2. SearchCounts(u, nb, m)
            BY <2>1, <2>3, <3>1 DEF SearchCounts
        <3> QED BY <2>3, <3>2 DEF Searching
    <2> QED BY <2>4, <2>5, <2>6, <2>7
<1> QED BY <1>1, <1>2

(* Another start keeps the configuration, and has no probe to adopt.        *)
LEMMA ConfiguringBegins ==
    ASSUME NEW s, NEW nb, NEW c, Configuring(s, nb, c)
    PROVE  Configuring(Begin(s), nb, c) /\ Unanswered(Begin(s), nb)
BY BeginIs DEF Configuring, Unanswered

(* What is adopted at the end of a probe that was nobody else's is free.    *)
LEMMA ConfiguringAdopts ==
    ASSUME NEW s, NEW nb, NEW c, Configuring(s, nb, c), s.lastID \notin nb, None \notin nb
    PROVE  Configuring(Adopt(s), nb, c) /\ Unanswered(Adopt(s), nb)
<1>1. DOMAIN s = StartupFields
    BY DEF Configuring
<1>2. PICK t : t = Forgets(s)
    OBVIOUS
<1>3. /\ DOMAIN t = StartupFields /\ t.phase = s.phase /\ t.complete = s.complete
      /\ t.device \in {s.device, None} /\ t.rssa \in {s.rssa, None}
      /\ t.extended \in {s.extended, None}
    BY <1>1, <1>2 DEF StartupFields, Forgets
<1>4. PICK d : d = s.lastID
    OBVIOUS
<1>5. PICK u : u = Picks(t, d)
    OBVIOUS
<1>6. u \in {t, [t EXCEPT !.device = d], [t EXCEPT !.rssa = d], [t EXCEPT !.extended = d]}
    BY <1>5 DEF Picks
<1>7. /\ DOMAIN u = StartupFields /\ u.phase = t.phase /\ u.complete = t.complete
      /\ u.device \in {t.device, d} /\ u.rssa \in {t.rssa, d} /\ u.extended \in {t.extended, d}
    BY <1>3, <1>6 DEF StartupFields
<1>8. PICK v : v = [u EXCEPT !.lastID = None]
    OBVIOUS
<1>9. /\ DOMAIN v = StartupFields /\ v.phase = u.phase /\ v.complete = u.complete
      /\ v.device = u.device /\ v.rssa = u.rssa /\ v.extended = u.extended /\ v.lastID = None
    BY <1>7, <1>8 DEF StartupFields
<1>10. Configuring(v, nb, c) /\ Unanswered(v, nb)
    BY <1>3, <1>4, <1>7, <1>9 DEF Configuring, Unanswered, Awaits
<1>11. Adopt(s) = v
    BY <1>2, <1>4, <1>5, <1>8 DEF Adopt
<1> QED BY <1>10, <1>11

(* A packet leaves nothing to adopt but a probe of its own address, and an  *)
(* answer leaves nothing.                                                   *)
LEMMA ConfiguringAsks ==
    ASSUME NEW s, NEW nb, NEW c, NEW p, Configuring(s, nb, c), Awaits(s), None \notin nb,
           p.dest = Master \/ s.lastID \notin nb
    PROVE  /\ Configuring(auto_configure(s, p), nb, c)
           /\ s.lastID \notin nb /\ p.dest \notin nb => Unanswered(auto_configure(s, p), nb)
           /\ p = Packet(Master, "ack") => Unanswered(auto_configure(s, p), nb)
<1> DEFINE s1 == [s EXCEPT !.packets = s.packets + 1]
           loops == s1.loops + (IF Round(s1, p) THEN 1 ELSE 0)
           r == auto_configure(s, p)
           id == IF p.cmd = "probe" /\ p.dest \in UsableIds THEN p.dest ELSE None
<1> SUFFICES /\ Configuring(r, nb, c)
             /\ s.lastID \notin nb /\ p.dest \notin nb => Unanswered(r, nb)
             /\ p = Packet(Master, "ack") => Unanswered(r, nb)
    OBVIOUS
<1>1. /\ DOMAIN s1 = StartupFields /\ s1.phase = s.phase /\ s1.complete = s.complete
      /\ s1.device = s.device /\ s1.rssa = s.rssa /\ s1.extended = s.extended
      /\ s1.lastID = s.lastID
    BY DEF Configuring, StartupFields
<1>2. Configuring(s1, nb, c)
    BY <1>1 DEF Configuring, Awaits
<1> HIDE DEF s1
<1>3. r = CASE s1.packets >= MaxAutoPackets -> Begin(s1)
            [] s1.packets < MaxAutoPackets /\ p = Packet(s1.pass, "rev") /\ ~s1.gotRev ->
                 [s1 EXCEPT !.gotRev = TRUE]
            [] s1.packets < MaxAutoPackets /\ AsksRevision(s1, p) -> [s1 EXCEPT !.pass = p.dest]
            [] OTHER -> IF s1.lastID # None /\ p.dest # Master THEN Adopt(s1)
                        ELSE IF loops >= 2 THEN Begin(s1)
                        ELSE [s1 EXCEPT !.loops = loops, !.lastID = id]
    BY DEF auto_configure, s1
<1> HIDE DEF r, loops
<1>4. CASE r = Begin(s1)
    BY <1>2, <1>4, ConfiguringBegins
<1>5. CASE /\ r \in {[s1 EXCEPT !.gotRev = TRUE], [s1 EXCEPT !.pass = p.dest]}
           /\ p # Packet(Master, "ack")
    <2>1. /\ DOMAIN r = StartupFields /\ r.phase = s.phase /\ r.complete = s.complete
          /\ r.device = s.device /\ r.rssa = s.rssa /\ r.extended = s.extended
          /\ r.lastID = s.lastID
        BY <1>1, <1>5 DEF StartupFields
    <2> QED BY <1>5, <2>1 DEF Configuring, Unanswered, Awaits
<1>6. CASE r = Adopt(s1) /\ s1.lastID # None /\ p.dest # Master
    BY <1>1, <1>2, <1>6, ConfiguringAdopts
<1>7. CASE r = [s1 EXCEPT !.loops = loops, !.lastID = id]
    <2>1. /\ DOMAIN r = StartupFields /\ r.phase = s.phase /\ r.complete = s.complete
          /\ r.device = s.device /\ r.rssa = s.rssa /\ r.extended = s.extended
          /\ r.lastID = id
        BY <1>1, <1>7 DEF StartupFields
    <2>2. p = Packet(Master, "ack") => id = None
        BY DEF Packet
    <2> QED BY <2>1, <2>2 DEF Configuring, Unanswered, Awaits
<1>8. p = Packet(Master, "ack") => p # Packet(s1.pass, "rev") /\ ~AsksRevision(s1, p)
    BY DEF Packet, AsksRevision
<1> QED BY <1>3, <1>4, <1>5, <1>6, <1>7, <1>8

(* Reading a packet keeps the configuration; the probe that it leaves to be *)
(* adopted is not for a neighbour, or its answer is the packet.             *)
LEMMA ConfiguringReads ==
    ASSUME NEW s, NEW nb, NEW c, NEW p, Configuring(s, nb, c), None \notin nb,
           Awaits(s) => p.dest = Master \/ s.lastID \notin nb
    PROVE  /\ Configuring(Read(s, p), nb, c)
           /\ Unanswered(s, nb) /\ p.dest \notin nb => Unanswered(Read(s, p), nb)
           /\ p = Packet(Master, "ack") => Unanswered(Read(s, p), nb)
<1>1. CASE ~Awaits(s)
    <2>1. Read(s, p) = [s EXCEPT !.blank = 0]
        BY <1>1 DEF Read
    <2>2. /\ DOMAIN Read(s, p) = StartupFields /\ Read(s, p).device = s.device
          /\ Read(s, p).phase = s.phase /\ Read(s, p).rssa = s.rssa
          /\ Read(s, p).extended = s.extended
        BY <2>1 DEF Configuring, StartupFields
    <2> QED BY <1>1, <2>2 DEF Configuring, Unanswered, Awaits
<1>2. CASE Awaits(s)
    <2> DEFINE r == auto_configure(s, p)
    <2>1. Read(s, p) = Started(r)
        BY <1>2 DEF Read, WaitRead, Configuring
    <2>2. /\ Configuring(r, nb, c)
          /\ Unanswered(s, nb) /\ p.dest \notin nb => Unanswered(r, nb)
          /\ p = Packet(Master, "ack") => Unanswered(r, nb)
        BY <1>2, ConfiguringAsks DEF Unanswered
    <2>3. Started(r) = r
        BY <2>2 DEF Started, Configuring
    <2> QED BY <2>1, <2>2, <2>3
<1> QED BY <1>1, <1>2

(* One poll of the panel, heard and answered or not.                        *)
PollHeard(d, cmd, poll) ==
    IF poll = "heard" THEN Read(aqd, Packet(d, cmd)) ELSE aqd
(* A poll of the panel, heard or lost with its answer, keeps the invariant. *)
LEMMA StartupPolls == StartupInv /\ PanelPolls => StartupInv'
<1> SUFFICES ASSUME StartupInv, PanelPolls PROVE StartupInv'
    OBVIOUS
<1> DEFINE ack == Packet(Master, "ack")
<1>0. PICK d : d = order[position]
    OBVIOUS
<1>1. PICK poll \in {"heard", "lost"}, answer \in {"heard", "lost"} :
      \E cmd \in {"probe", "msg", "rev"} :
        /\ lostPackets' = lostPackets + (IF poll = "lost" THEN 1 ELSE 0)
                                      + (IF answer = "lost" THEN 1 ELSE 0)
        /\ d \notin neighbours => answer = "heard"
        /\ aqd' = IF ~Reads THEN aqd
                  ELSE IF d \in neighbours /\ answer = "heard"
                       THEN Read(PollHeard(d, cmd, poll), ack) ELSE PollHeard(d, cmd, poll)
        /\ UNCHANGED startupEnv
    BY <1>0 DEF PanelPolls, PollHeard
<1>11. PICK cmd \in {"probe", "msg", "rev"} :
        aqd' = IF ~Reads THEN aqd
               ELSE IF d \in neighbours /\ answer = "heard"
                    THEN Read(PollHeard(d, cmd, poll), ack) ELSE PollHeard(d, cmd, poll)
    BY <1>1
<1>2. PICK nb, c, n, p : /\ nb = neighbours /\ c = configuration /\ n = lostPackets
                         /\ p = Packet(d, cmd)
    OBVIOUS
<1>3. /\ ack.dest = Master /\ ack.cmd = "ack" /\ Master \notin AllButtonIds
      /\ p.dest = d /\ p.cmd = cmd /\ p # ack
    BY <1>2 DEF Packet, Master, AllButtonIds
<1>4. nb \in Neighbours /\ None \notin nb /\ n \in Nat
    <2>1. nb \in Neighbours /\ n \in Nat
        BY <1>2 DEF StartupInv
    <2>2. nb \subseteq 1..254
        BY <2>1, StartupAssumption
    <2>3. None \notin 1..254
        BY DEF None
    <2> QED BY <2>1, <2>2, <2>3
<1>5. PICK m : m = lostPackets'
    OBVIOUS
<1>6. /\ m \in Nat /\ n <= m /\ neighbours' = nb /\ configuration' = c
      /\ m = 0 => n = 0 /\ poll = "heard" /\ answer = "heard"
      /\ m >= n + 1 \/ (poll = "heard" /\ answer = "heard")
    BY <1>1, <1>2, <1>4, <1>5 DEF startupEnv
<1>7. PICK a, s, r : a = aqd /\ s = PollHeard(d, cmd, poll) /\ r = aqd'
    OBVIOUS
<1>8. /\ s = IF poll = "heard" THEN Read(a, p) ELSE a
      /\ r = a \/ r = IF d \in nb /\ answer = "heard" THEN Read(s, ack) ELSE s
      /\ r = a \/ d \in nb \/ answer = "heard"
    BY <1>1, <1>11, <1>2, <1>7 DEF PollHeard
<1>9. ASSUME c.device = None
      PROVE  Searching(r, nb, m)
    <2>1. Searching(a, nb, n)
        BY <1>2, <1>7, <1>9 DEF StartupInv
    <2>2. CASE r = a
        BY <1>4, <1>6, <2>1, <2>2, SearchingLoses
    <2>3. CASE r # a /\ ~(poll = "heard" /\ d \in AllButtonIds /\ cmd = "probe" /\ d \in nb)
        <3>1. Searching(s, nb, n)
            BY <1>3, <1>4, <1>8, <2>1, <2>3, SearchingReads
        <3>2. Searching(Read(s, ack), nb, n)
            BY <1>3, <1>4, <3>1, SearchingReads
        <3> QED BY <1>4, <1>6, <1>8, <2>3, <3>1, <3>2, SearchingLoses
    <2>4. CASE r # a /\ poll = "heard" /\ d \in AllButtonIds /\ cmd = "probe" /\ d \in nb
        <3>1. Searching(s, nb, n + 1) /\ Searching(Read(s, ack), nb, n)
            BY <1>3, <1>4, <1>8, <2>1, <2>4, SearchingProbed
        <3>2. CASE answer = "heard"
            <4>1. r = Read(s, ack)
                BY <1>8, <2>4, <3>2
            <4> QED BY <1>4, <1>6, <3>1, <4>1, SearchingLoses
        <3>3. CASE answer # "heard"
            <4>1. r = s /\ n + 1 <= m /\ n + 1 \in Nat
                BY <1>4, <1>6, <1>8, <2>4, <3>3
            <4> QED BY <1>6, <3>1, <4>1, SearchingLoses
        <3> QED BY <3>2, <3>3
    <2> QED BY <2>2, <2>3, <2>4
<1>10. ASSUME c.device = AutoId, m = 0
       PROVE  Configuring(r, nb, c) /\ Unanswered(r, nb)
    <2>1. Configuring(a, nb, c) /\ Unanswered(a, nb)
        BY <1>2, <1>6, <1>7, <1>10 DEF StartupInv
    <2>2. s = Read(a, p) /\ answer = "heard"
        BY <1>6, <1>8, <1>10
    <2>3. Configuring(s, nb, c) /\ (d \notin nb => Unanswered(s, nb))
        BY <1>3, <1>4, <2>1, <2>2, ConfiguringReads DEF Unanswered
    <2>4. Configuring(Read(s, ack), nb, c) /\ Unanswered(Read(s, ack), nb)
        BY <1>3, <1>4, <2>3, ConfiguringReads
    <2> QED BY <1>8, <2>1, <2>2, <2>3, <2>4
<1> QED BY <1>2, <1>4, <1>5, <1>6, <1>7, <1>9, <1>10 DEF StartupInv

(* Every step of a start keeps its invariant.                               *)
LEMMA StartupStep == StartupInv /\ [StartupNext]_startupVars => StartupInv'
<1> SUFFICES ASSUME StartupInv, [StartupNext]_startupVars PROVE StartupInv'
    OBVIOUS
<1>1. CASE PanelPolls
    BY <1>1, StartupPolls
<1>2. CASE ReadNothing \/ Reconnect
    <2>1. PICK a, r : a = aqd /\ r = aqd'
        OBVIOUS
    <2>2. /\ UNCHANGED <<startupEnv, lostPackets>>
          /\ r = a \/ (~Awaits(a) /\ \E b : r = [a EXCEPT !.blank = b])
        BY <1>2, <2>1 DEF ReadNothing, Reconnect, Blank
    <2>3. DOMAIN a = StartupFields =>
            /\ DOMAIN r = StartupFields /\ r.phase = a.phase /\ r.device = a.device
            /\ r.rssa = a.rssa /\ r.extended = a.extended /\ (r = a \/ ~Awaits(a))
        BY <2>2 DEF StartupFields
    <2>4. \A nb, m : Searching(a, nb, m) => Searching(r, nb, m)
        BY <2>3 DEF Searching, Awaits
    <2>5. \A nb, c : Configuring(a, nb, c) /\ Unanswered(a, nb) =>
                        Configuring(r, nb, c) /\ Unanswered(r, nb)
        BY <2>3 DEF Configuring, Unanswered, Awaits
    <2> QED BY <2>1, <2>2, <2>4, <2>5 DEF StartupInv, startupEnv
<1>3. CASE PortLost \/ PortBack \/ UNCHANGED startupVars
    <2>1. UNCHANGED <<neighbours, configuration, aqd, lostPackets>>
        BY <1>3 DEF PortLost, PortBack, startupVars, startupEnv
    <2> QED BY <2>1 DEF StartupInv
<1> QED BY <1>1, <1>2, <1>3 DEF StartupNext

(* The invariant of the start holds throughout.                             *)
LEMMA StartupInvHolds == Spec => []StartupInv
<1>1. DaemonInit => StartupInv
    <2> SUFFICES ASSUME StartupInit PROVE StartupInv
        BY PartInits
    <2>1. PICK a : a = aqd
        OBVIOUS
    <2>2. DOMAIN Fresh = StartupFields /\ Fresh.lastID = None
          /\ Fresh.unanswered = [d \in AllButtonIds |-> 0]
        BY DEF Fresh, StartupFields
    <2>3. PICK c : c = configuration
        OBVIOUS
    <2>4. PICK f, g : /\ f = (IF portUp THEN "waiting" ELSE "running")
                      /\ g = (~portUp \/ c.device # AutoId)
        OBVIOUS
    <2>11. a = [Fresh EXCEPT !.phase = f, !.device = c.device, !.rssa = c.rssa,
                             !.extended = c.extended, !.complete = g]
        BY <2>1, <2>3, <2>4, Zenon DEF StartupInit
    <2>5. /\ DOMAIN a = StartupFields /\ a.device = c.device /\ a.rssa = c.rssa
          /\ a.extended = c.extended /\ a.phase = f /\ a.complete = g
          /\ a.lastID = None /\ a.unanswered = [d \in AllButtonIds |-> 0]
        BY <2>2, <2>11 DEF StartupFields
    <2>6. /\ c.device = None => g = TRUE
          /\ c.device = AutoId => g = FALSE \/ f # "waiting"
        <3>1. CASE portUp
            <4>1. None # AutoId
                BY DEF None, AutoId
            <4> QED BY <2>4, <3>1, <4>1, Zenon
        <3>2. CASE ~portUp
            BY <2>4, <3>2 DEF None, AutoId
        <3> QED BY <3>1, <3>2
    <2>7. neighbours \in Neighbours /\ lostPackets = 0
        BY DEF StartupInit
    <2>8. None \notin neighbours /\ AutoId \notin neighbours
        <3>1. neighbours \subseteq 1..254
            BY <2>7, StartupAssumption
        <3>2. None \notin 1..254 /\ AutoId \notin 1..254
            BY DEF None, AutoId
        <3> QED BY <3>1, <3>2
    <2>9. c.device = None => Searching(a, neighbours, 0)
        <3>1. c.device = None => a.complete = TRUE
            BY <2>5, <2>6
        <3>2. \A d \in AllButtonIds : Tally(a, d) = 0
            BY <2>5 DEF Tally, AllButtonIds, None
        <3> QED BY <2>5, <2>8, <3>1, <3>2 DEF Searching, SearchCounts
    <2>10. c.device = AutoId => Configuring(a, neighbours, c) /\ Unanswered(a, neighbours)
        <3>1. c.device = AutoId => a.complete = FALSE \/ a.phase # "waiting"
            BY <2>5, <2>6
        <3> QED BY <2>5, <2>8, <3>1 DEF Configuring, Unanswered, Awaits
    <2> QED BY <2>1, <2>3, <2>7, <2>9, <2>10 DEF StartupInv
<1>2. StartupInv /\ [DaemonNext]_daemonVars => StartupInv'
    BY StartupStep, PartSteps
<1> QED BY <1>1, <1>2, PTL DEF Spec

(* The address that AqualinkD finds by itself is free, in whatever order the*)
(* panel polls, whoever else answers, and whenever the port is lost: with   *)
(* fewer than three lost packets when it searches, with none when it        *)
(* configures every address.                                                *)
THEOREM TakesFreeAddresses == Spec => []ChosenIsFree
<1>1. StartupInv => ChosenIsFree
    <2> SUFFICES ASSUME StartupInv PROVE ChosenIsFree
        OBVIOUS
    <2>1. configuration.device = None /\ lostPackets < 3 => aqd.device \notin neighbours
        BY DEF StartupInv, Searching
    <2>2. configuration.device = AutoId /\ lostPackets = 0 => Found \cap neighbours = {}
        BY DEF StartupInv, Configuring, Found
    <2> QED BY <2>1, <2>2, Zenon DEF ChosenIsFree
<1> QED BY <1>1, StartupInvHolds, PTL

-----------------------------------------------------------------------------
(* The queue of the iAqualink protocol.  While no two threads met in the    *)
(* buffer, it holds what the only one that is in it asked for, or nothing.  *)
(* While no two met in the queue, the slot that a push fills stays the one  *)
(* that it counts, and whatever waits was taken from the buffer.            *)
RequestSteps == {<<>>, <<"reset">>, <<"full", "reset">>, <<"ready", "full", "reset">>}
PollSteps == {<<>>, <<"status">>, <<"status", "status">>, <<"status", "status", "status">>}
FullFrames == {Frame("full", t, v) : t \in Clients, v \in Values}

IaqTypes ==
    /\ qlen \in 0..QueueLength /\ DOMAIN slots = 0..QueueLength-1
    /\ at \in [Threads -> {"test", "copy", "count"}]
    /\ mainAt \in {"reading", "processing", "removing", "moved"}
    /\ mainAt \in {"removing", "moved"} => qlen > 0
OpsTypes ==
    /\ DOMAIN ops = Threads /\ ops[MainThread] \in PollSteps
    /\ \A t \in Clients : ops[t] \in RequestSteps
BufferTypes ==
    /\ asked \subseteq FullFrames /\ DOMAIN wanted = Clients
    /\ fullcmd \in [device : Clients \cup {NoDevice}, value : Values]
Pushed ==
    \A t \in Threads : Pushing(t) =>
        /\ Pushes(t) /\ qlen < QueueLength
        /\ at[t] = "count" /\ slots[qlen].kind = "full" => slots[qlen] \in asked
AloneInQueue == \A t, u \in Inside(at, mainAt) : t = u
AloneInBuffer == \A t, u \in Clients : ops[t] # <<>> /\ ops[u] # <<>> => t = u
Buffered ==
    /\ \A t \in Clients : ops[t] # <<>> =>
          wanted[t] \in asked /\ wanted[t] = Frame("full", fullcmd.device, fullcmd.value)
    /\ (\A t \in Clients : ops[t] = <<>>) => fullcmd = [device |-> NoDevice, value |-> 0]
WaitingAsked == \A f \in Waiting : f.kind = "full" => f \in asked
QueueHeld == IaqTypes /\ Pushed /\ AloneInQueue /\ WaitingAsked
BufferHeld == OpsTypes /\ BufferTypes /\ AloneInBuffer /\ Buffered
IaqInv == ~mixed /\ ~queueRaced => QueueHeld /\ BufferHeld

(* A set of no more than one element has no two.                            *)
LEMMA AtMostOne ==
    ASSUME NEW S, IsFiniteSet(S), ~(Cardinality(S) > 1)
    PROVE  \A x, y \in S : x = y
<1> SUFFICES ASSUME NEW x \in S, NEW y \in S, x # y PROVE FALSE
    OBVIOUS
<1>1. /\ IsFiniteSet(S \ {x}) /\ Cardinality(S \ {x}) = Cardinality(S) - 1
      /\ Cardinality(S) \in Nat
    BY FS_RemoveElement, FS_CardinalityType
<1>2. Cardinality(S \ {x}) = 0
    BY <1>1, FS_CardinalityType
<1> QED BY <1>1, <1>2, FS_EmptySet

(* As long as no race is noticed, one thread at most is in the queue.       *)
LEMMA Watched ==
    WatchQueue /\ ~queueRaced' => \A t, u \in Inside(at', mainAt') : t = u
<1> SUFFICES ASSUME WatchQueue, ~queueRaced'
             PROVE  \A t, u \in Inside(at', mainAt') : t = u
    OBVIOUS
<1>1. PICK S : S = Inside(at', mainAt')
    OBVIOUS
<1>2. IsFiniteSet(Threads)
    <2>1. IsFiniteSet(Clients)
        BY IaqualinkAssumption, Zenon
    <2> QED BY <2>1, FS_AddElement DEF Threads
<1>3. S \subseteq Threads
    BY <1>1 DEF Inside
<1>4. ~(Cardinality(S) > 1)
    <2>1. ~(Cardinality(Inside(at', mainAt')) > 1)
        BY Zenon DEF WatchQueue
    <2> QED BY <1>1, <2>1, Zenon
<1>5. \A x, y \in S : x = y
    BY <1>2, <1>3, <1>4, AtMostOne, FS_Subset
<1> QED BY <1>1, <1>5

(* The steps of a request: the last one empties the buffer.                 *)
LEMMA RequestTail ==
    \A o \in RequestSteps : o \notin {<<>>, <<"reset">>} =>
        /\ Head(o) \in {"ready", "full"} /\ Tail(o) \in RequestSteps /\ Tail(o) # <<>>
<1>1. /\ Head(<<"full", "reset">>) = "full" /\ Tail(<<"full", "reset">>) = <<"reset">>
      /\ Head(<<"ready", "full", "reset">>) = "ready"
      /\ Tail(<<"ready", "full", "reset">>) = <<"full", "reset">>
    OBVIOUS
<1>2. <<"full", "reset">> # <<>> /\ <<"reset">> # <<>>
    OBVIOUS
<1> QED BY <1>1, <1>2 DEF RequestSteps

(* The steps of a poll push status polls only.                              *)
LEMMA PollTail ==
    \A o \in PollSteps : o # <<>> => Head(o) = "status" /\ Tail(o) \in PollSteps
<1>1. /\ Head(<<"status">>) = "status" /\ Tail(<<"status">>) = <<>>
      /\ Head(<<"status", "status">>) = "status"
      /\ Tail(<<"status", "status">>) = <<"status">>
      /\ Head(<<"status", "status", "status">>) = "status"
      /\ Tail(<<"status", "status", "status">>) = <<"status", "status">>
    OBVIOUS
<1> QED BY <1>1 DEF PollSteps

(* The steps of the threads that make requests.                             *)
LEMMA AskHeld ==
    ASSUME NEW t \in Clients, QueueHeld, BufferHeld, Ask(t), ~mixed'
    PROVE  QueueHeld' /\ BufferHeld'
<1>1. PICK v \in Values :
        /\ ops[t] = <<>> /\ asked' = asked \cup {Frame("full", t, v)}
        /\ ops' = [ops EXCEPT ![t] = <<"ready", "full", "reset">>]
        /\ fullcmd' = Filled(Frame("full", t, v))
        /\ wanted' = [wanted EXCEPT ![t] = Frame("full", t, v)]
    BY DEF Ask
<1>2. /\ UNCHANGED <<slots, qlen, at, mainAt>> /\ \A u \in Clients : ops[u] = <<>>
    BY DEF Ask
<1>3. fullcmd' = [device |-> t, value |-> v]
    <2>1. fullcmd = [device |-> NoDevice, value |-> 0]
        BY <1>2 DEF BufferHeld, Buffered
    <2> QED BY <1>1, <2>1 DEF Filled, Frame
<1>4. /\ DOMAIN ops = Threads /\ t \in Threads /\ DOMAIN wanted = Clients
      /\ MainThread # t /\ MainThread \in Threads
    BY MainIsNoClient DEF BufferHeld, OpsTypes, BufferTypes, Threads
<1>5. /\ ops'[t] = <<"ready", "full", "reset">> /\ wanted'[t] = Frame("full", t, v)
      /\ \A u \in Threads : u # t => ops'[u] = ops[u]
      /\ <<"ready", "full", "reset">> # <<>>
    BY <1>1, <1>4
<1>6. OpsTypes'
    BY <1>1, <1>4, <1>5 DEF BufferHeld, OpsTypes, RequestSteps, Threads
<1>7. BufferTypes'
    BY <1>1, <1>3, <1>4 DEF BufferHeld, BufferTypes, FullFrames
<1>8. AloneInBuffer'
    BY <1>2, <1>5 DEF AloneInBuffer, Threads
<1>9. Buffered'
    <2>1. \A u \in Clients : ops'[u] # <<>> => u = t
        BY <1>2, <1>5 DEF Threads
    <2> QED BY <1>1, <1>3, <1>5, <2>1 DEF Buffered, Frame
<1>10. \A u \in Threads : Pushing(u) => u # t
    BY <1>1 DEF QueueHeld, Pushed, Pushes
<1>11. Pushed'
    BY <1>1, <1>2, <1>5, <1>10 DEF QueueHeld, Pushed, Pushes, Pushing
<1>12. IaqTypes' /\ AloneInQueue'
    BY <1>2 DEF QueueHeld, IaqTypes, AloneInQueue
<1>13. WaitingAsked'
    BY <1>1, <1>2 DEF QueueHeld, WaitingAsked, Waiting
<1> QED BY <1>6, <1>7, <1>8, <1>9, <1>11, <1>12, <1>13 DEF QueueHeld, BufferHeld

(* The client that empties the buffer leaves it as nobody's.                *)
LEMMA ResetHeld ==
    ASSUME NEW t \in Clients, QueueHeld, BufferHeld, Reset(t)
    PROVE  QueueHeld' /\ BufferHeld'
<1>1. /\ ops[t] = <<"reset">> /\ ops' = [ops EXCEPT ![t] = <<>>]
      /\ fullcmd' = Emptied(wanted[t]) /\ wanted' = [wanted EXCEPT ![t] = Std]
      /\ UNCHANGED <<slots, qlen, at, mainAt, asked>>
    BY DEF Reset
<1>2. /\ DOMAIN ops = Threads /\ t \in Threads /\ DOMAIN wanted = Clients
      /\ MainThread # t /\ MainThread \in Threads
    BY MainIsNoClient DEF BufferHeld, OpsTypes, BufferTypes, Threads
<1>3. /\ ops'[t] = <<>> /\ \A u \in Threads : u # t => ops'[u] = ops[u]
      /\ <<"reset">> # <<>> /\ Head(<<"reset">>) = "reset"
    BY <1>1, <1>2
<1>4. \A u \in Clients : ops'[u] = <<>>
    BY <1>1, <1>3 DEF BufferHeld, AloneInBuffer, Threads
<1>5. fullcmd' = [device |-> NoDevice, value |-> 0]
    <2>1. wanted[t].value = fullcmd.value
        BY <1>1, <1>3 DEF BufferHeld, Buffered, Frame
    <2>2. fullcmd \in [device : Clients \cup {NoDevice}, value : Values]
        BY DEF BufferHeld, BufferTypes
    <2> QED BY <1>1, <2>1, <2>2 DEF Emptied
<1>6. OpsTypes'
    BY <1>2, <1>3, <1>4, <1>1 DEF BufferHeld, OpsTypes, RequestSteps, Threads
<1>7. BufferTypes'
    BY <1>1, <1>2, <1>5 DEF BufferHeld, BufferTypes, Values
<1>8. AloneInBuffer' /\ Buffered'
    BY <1>4, <1>5 DEF AloneInBuffer, Buffered
<1>9. \A u \in Threads : Pushing(u) => u # t
    BY <1>1, <1>3 DEF QueueHeld, Pushed, Pushes
<1>10. Pushed'
    BY <1>1, <1>3, <1>9 DEF QueueHeld, Pushed, Pushes, Pushing
<1>11. IaqTypes' /\ AloneInQueue' /\ WaitingAsked'
    BY <1>1 DEF QueueHeld, IaqTypes, AloneInQueue, WaitingAsked, Waiting
<1> QED BY <1>6, <1>7, <1>8, <1>10, <1>11 DEF QueueHeld, BufferHeld

(* The steps of a push.                                                     *)
LEMMA PushesType ==
    ASSUME NEW t \in Threads, QueueHeld, BufferHeld, Pushes(t)
    PROVE  /\ ops[t] # <<>> /\ Head(ops[t]) \in {"ready", "full", "status"}
           /\ t = MainThread => Tail(ops[t]) \in PollSteps
           /\ t \in Clients => Tail(ops[t]) \in RequestSteps /\ Tail(ops[t]) # <<>>
           /\ Content(Head(ops[t])).kind = "full" => Content(Head(ops[t])) \in asked
<1>1. ops[t] # <<>> /\ Head(ops[t]) \in {"ready", "full", "status"}
    BY DEF Pushes
<1>2. CASE t = MainThread
    <2>1. Head(ops[t]) = "status" /\ Tail(ops[t]) \in PollSteps
        BY <1>1, <1>2, PollTail DEF BufferHeld, OpsTypes
    <2>2. Content(Head(ops[t])).kind = "status"
        BY <2>1 DEF Content, StatusPoll, Frame
    <2> QED BY <1>1, <1>2, <2>1, <2>2, MainIsNoClient
<1>3. CASE t \in Clients
    <2>1. ops[t] # <<"reset">>
        <3>1. Head(<<"reset">>) = "reset"
            OBVIOUS
        <3> QED BY <1>1, <3>1
    <2>2. /\ Head(ops[t]) \in {"ready", "full"} /\ Tail(ops[t]) \in RequestSteps
          /\ Tail(ops[t]) # <<>>
        BY <1>1, <1>3, <2>1, RequestTail DEF BufferHeld, OpsTypes
    <2>3. Content("full") \in asked
        BY <1>1, <1>3 DEF BufferHeld, Buffered, Content
    <2>4. Content("ready").kind = "ready"
        BY DEF Content, Ready, Frame
    <2> QED BY <1>1, <1>3, <2>2, <2>3, <2>4, MainIsNoClient
<1> QED BY <1>2, <1>3 DEF Threads

(* Once a thread's push is in the queue, or the main thread in a removal,   *)
(* no other thread is in it.                                                *)
LEMMA NobodyElse ==
    ASSUME NEW t \in Threads, QueueHeld, Pushing(t)
    PROVE  /\ \A u \in Threads : Pushing(u) => u = t
           /\ mainAt # "moved" /\ (t = MainThread => mainAt = "processing")
<1>1. t = MainThread => mainAt = "processing"
    BY DEF QueueHeld, Pushed, Pushes
<1>2. t \in Inside(at, mainAt) /\ \A u \in Threads : Pushing(u) => u \in Inside(at, mainAt)
    BY DEF Inside, Pushing
<1>3. mainAt = "moved" => MainThread \in Inside(at, mainAt)
    BY DEF Inside, Threads
<1> QED BY <1>1, <1>2, <1>3 DEF QueueHeld, AloneInQueue

(* A push that is done leaves the buffer to the client that has it.         *)
LEMMA SameBuffer ==
    ASSUME NEW t \in Threads, QueueHeld, BufferHeld, Pushes(t), UNCHANGED iaqBuffer,
           ops' = [ops EXCEPT ![t] = Tail(ops[t])]
    PROVE  BufferHeld'
<1>1. UNCHANGED <<fullcmd, wanted, asked>> /\ DOMAIN ops = Threads
    BY DEF iaqBuffer, BufferHeld, OpsTypes
<1>2. ops'[t] = Tail(ops[t]) /\ \A u \in Threads : u # t => ops'[u] = ops[u]
    BY <1>1
<1>3. \A u \in Clients : (ops'[u] = <<>>) = (ops[u] = <<>>)
    BY <1>2, PushesType DEF Threads
<1>4. OpsTypes'
    BY <1>1, <1>2, PushesType DEF BufferHeld, OpsTypes, Threads
<1>5. BufferTypes' /\ AloneInBuffer' /\ Buffered'
    BY <1>1, <1>3 DEF BufferHeld, BufferTypes, AloneInBuffer, Buffered
<1> QED BY <1>4, <1>5 DEF BufferHeld

(* What leaves the buffer and the steps alone keeps what is said of both.   *)
LEMMA UnchangedBuffer ==
    ASSUME BufferHeld, UNCHANGED <<iaqBuffer, ops>>
    PROVE  BufferHeld'
BY DEF iaqBuffer, BufferHeld, OpsTypes, BufferTypes, AloneInBuffer, Buffered

(* The test for room keeps the invariant: who passes it is alone.           *)
LEMMA CheckHeld ==
    ASSUME NEW t \in Threads, QueueHeld, BufferHeld, PushCheck(t), ~queueRaced'
    PROVE  QueueHeld' /\ BufferHeld'
<1>1. /\ Pushes(t) /\ ~Pushing(t) /\ UNCHANGED <<iaqBuffer, slots, qlen, mainAt>>
      /\ AloneInQueue'
    BY Watched DEF PushCheck, AloneInQueue
<1>2. asked' = asked /\ WaitingAsked'
    BY <1>1 DEF iaqBuffer, QueueHeld, WaitingAsked, Waiting
<1>3. CASE qlen >= QueueLength
    <2>1. ops' = [ops EXCEPT ![t] = Tail(ops[t])] /\ UNCHANGED at
        BY <1>3 DEF PushCheck
    <2>2. BufferHeld'
        BY <1>1, <2>1, SameBuffer
    <2>3. \A u \in Threads : ~Pushing(u)
        BY <1>3, IaqualinkAssumption DEF QueueHeld, IaqTypes, Pushed
    <2>4. IaqTypes' /\ Pushed'
        BY <1>1, <2>1, <2>3 DEF QueueHeld, IaqTypes, Pushed, Pushing
    <2> QED BY <1>1, <1>2, <2>2, <2>4 DEF QueueHeld
<1>4. CASE ~(qlen >= QueueLength)
    <2>1. at' = [at EXCEPT ![t] = "copy"] /\ UNCHANGED ops
        BY <1>4 DEF PushCheck
    <2>2. BufferHeld'
        BY <1>1, <2>1, UnchangedBuffer
    <2>3. at'[t] = "copy" /\ \A u \in Threads : u # t => at'[u] = at[u]
        BY <2>1 DEF QueueHeld, IaqTypes
    <2>4. IaqTypes'
        BY <1>1, <2>1 DEF QueueHeld, IaqTypes
    <2>5. qlen < QueueLength
        BY <1>4, IaqualinkAssumption DEF QueueHeld, IaqTypes
    <2>6. Pushed'
        BY <1>1, <1>2, <2>1, <2>3, <2>5 DEF QueueHeld, Pushed, Pushing, Pushes
    <2> QED BY <1>1, <1>2, <2>2, <2>4, <2>6 DEF QueueHeld
<1> QED BY <1>3, <1>4

(* The copy keeps the invariant: what it puts into the slot was asked for.  *)
LEMMA CopyHeld ==
    ASSUME NEW t \in Threads, QueueHeld, BufferHeld, PushCopy(t), ~queueRaced'
    PROVE  QueueHeld' /\ BufferHeld'
<1>1. /\ at[t] = "copy" /\ at' = [at EXCEPT ![t] = "count"]
      /\ UNCHANGED <<iaqBuffer, ops, qlen, mainAt>> /\ AloneInQueue'
      /\ Pushing(t) /\ Pushes(t) /\ qlen < QueueLength
    BY Watched DEF PushCopy, AloneInQueue, QueueHeld, Pushed, Pushing
<1>2. PICK n : n = Content(Head(ops[t]))
    OBVIOUS
<1>3. /\ DOMAIN slots' = DOMAIN slots
      /\ \A k \in DOMAIN slots : slots'[k] = IF k = qlen THEN n ELSE slots[k]
    BY <1>2 DEF PushCopy
<1>4. BufferHeld' /\ asked' = asked
    BY <1>1, UnchangedBuffer DEF iaqBuffer
<1>5. IaqTypes'
    BY <1>1, <1>3 DEF QueueHeld, IaqTypes
<1>6. qlen \in DOMAIN slots /\ slots'[qlen] = n /\ (n.kind = "full" => n \in asked)
    <2>1. qlen \in DOMAIN slots
        BY <1>1, IaqualinkAssumption DEF QueueHeld, IaqTypes
    <2> QED BY <1>1, <1>2, <1>3, <2>1, PushesType
<1>7. \A u \in Threads : u # t => at'[u] = at[u]
    BY <1>1 DEF QueueHeld, IaqTypes
<1>8. Pushed'
    <2>1. \A u \in Threads : Pushing(u)' => u = t
        BY <1>1, <1>7, NobodyElse DEF Pushing
    <2> QED BY <1>1, <1>4, <1>6, <2>1 DEF Pushed, Pushes, Pushing
<1>9. WaitingAsked'
    <2>1. mainAt # "moved"
        BY <1>1, NobodyElse
    <2>2. \A k \in 0..qlen-1 : slots'[k] = slots[k]
        BY <1>3, IaqualinkAssumption DEF QueueHeld, IaqTypes
    <2> QED BY <1>1, <1>4, <2>1, <2>2 DEF QueueHeld, WaitingAsked, Waiting
<1> QED BY <1>1, <1>4, <1>5, <1>8, <1>9 DEF QueueHeld

(* The increment keeps the invariant: what it counts in was asked for.      *)
LEMMA CountHeld ==
    ASSUME NEW t \in Threads, QueueHeld, BufferHeld, PushCount(t), ~queueRaced'
    PROVE  QueueHeld' /\ BufferHeld'
<1>1. /\ at[t] = "count" /\ at' = [at EXCEPT ![t] = "test"] /\ qlen' = qlen + 1
      /\ ops' = [ops EXCEPT ![t] = Tail(ops[t])]
      /\ UNCHANGED <<iaqBuffer, slots, mainAt>> /\ AloneInQueue'
      /\ Pushing(t) /\ Pushes(t) /\ qlen < QueueLength
      /\ slots[qlen].kind = "full" => slots[qlen] \in asked
    BY Watched DEF PushCount, AloneInQueue, QueueHeld, Pushed, Pushing
<1>2. BufferHeld' /\ asked' = asked
    BY <1>1, SameBuffer DEF iaqBuffer
<1>3. IaqTypes'
    BY <1>1, IaqualinkAssumption DEF QueueHeld, IaqTypes
<1>4. at'[t] = "test" /\ \A u \in Threads : u # t => at'[u] = at[u]
    BY <1>1 DEF QueueHeld, IaqTypes
<1>5. \A u \in Threads : ~Pushing(u)'
    BY <1>1, <1>4, NobodyElse DEF Pushing
<1>6. WaitingAsked'
    <2>1. mainAt # "moved" /\ qlen \in Nat
        BY <1>1, NobodyElse DEF QueueHeld, IaqTypes
    <2>2. \A k \in 0..qlen'-1 : k \in 0..qlen-1 \/ k = qlen
        BY <1>1, <2>1
    <2> QED BY <1>1, <1>2, <2>1, <2>2 DEF QueueHeld, WaitingAsked, Waiting
<1> QED BY <1>1, <1>2, <1>3, <1>5, <1>6 DEF QueueHeld, Pushed

(* The steps of the main thread.                                            *)
LEMMA ProcessHeld ==
    ASSUME QueueHeld, BufferHeld, Process
    PROVE  QueueHeld' /\ BufferHeld'
<1>1. PICK o \in PollSteps : ops' = [ops EXCEPT ![MainThread] = o]
    <2>1. PICK o : /\ o \in {<<"status", "status", "status">>, <<>>}
                   /\ ops' = [ops EXCEPT ![MainThread] = o]
        BY DEF Process
    <2> QED BY <2>1 DEF PollSteps
<1>2. /\ mainAt = "reading" /\ mainAt' = "processing"
      /\ UNCHANGED <<iaqBuffer, slots, qlen, at>>
    BY DEF Process
<1>3. UNCHANGED <<fullcmd, wanted, asked>> /\ DOMAIN ops = Threads /\ MainThread \in Threads
    BY <1>2 DEF iaqBuffer, BufferHeld, OpsTypes, Threads
<1>4. ops'[MainThread] = o /\ \A u \in Threads : u # MainThread => ops'[u] = ops[u]
    BY <1>1, <1>3
<1>5. \A u \in Clients : ops'[u] = ops[u]
    BY <1>4, MainIsNoClient DEF Threads
<1>6. BufferHeld'
    BY <1>1, <1>3, <1>4, <1>5 DEF BufferHeld, OpsTypes, BufferTypes, AloneInBuffer, Buffered
<1>7. \A u \in Threads : Pushing(u) => u # MainThread
    BY <1>2, NobodyElse DEF QueueHeld
<1>8. Pushed'
    BY <1>2, <1>3, <1>4, <1>7 DEF QueueHeld, Pushed, Pushes, Pushing
<1>9. IaqTypes' /\ AloneInQueue' /\ WaitingAsked'
    BY <1>2, <1>3 DEF QueueHeld, IaqTypes, AloneInQueue, Inside, WaitingAsked, Waiting
<1> QED BY <1>6, <1>8, <1>9 DEF QueueHeld

(* An answer of the main thread keeps the invariant.                        *)
LEMMA ReplyHeld ==
    ASSUME QueueHeld, BufferHeld, Reply
    PROVE  QueueHeld' /\ BufferHeld'
<1>1. /\ mainAt = "processing" /\ ops[MainThread] = <<>>
      /\ mainAt' = IF Takes(message) THEN "removing" ELSE "reading"
      /\ UNCHANGED <<iaqBuffer, slots, qlen, ops, at>>
    BY DEF Reply
<1>2. BufferHeld' /\ asked' = asked
    BY <1>1, UnchangedBuffer DEF iaqBuffer
<1>3. IaqTypes' /\ AloneInQueue'
    BY <1>1 DEF QueueHeld, IaqTypes, AloneInQueue, Inside, Takes
<1>4. \A u \in Threads : Pushing(u) => u # MainThread
    BY <1>1 DEF QueueHeld, Pushed, Pushes
<1>5. Pushed'
    BY <1>1, <1>2, <1>4 DEF QueueHeld, Pushed, Pushes, Pushing
<1>6. WaitingAsked'
    BY <1>1, <1>2 DEF QueueHeld, WaitingAsked, Waiting
<1> QED BY <1>2, <1>3, <1>5, <1>6 DEF QueueHeld

(* Moving the queue forward keeps the invariant.                            *)
LEMMA RemoveHeld ==
    ASSUME QueueHeld, BufferHeld, RemoveFirst, ~queueRaced'
    PROVE  QueueHeld' /\ BufferHeld'
<1>1. /\ mainAt = "removing" /\ mainAt' = "moved"
      /\ UNCHANGED <<iaqBuffer, qlen, ops, at>> /\ AloneInQueue'
    BY Watched DEF RemoveFirst, AloneInQueue
<1>2. /\ DOMAIN slots' = DOMAIN slots
      /\ \A k \in DOMAIN slots :
            slots'[k] = IF k < qlen /\ k + 1 < QueueLength THEN slots[k + 1] ELSE Std
    BY DEF RemoveFirst
<1>3. BufferHeld' /\ asked' = asked
    BY <1>1, UnchangedBuffer DEF iaqBuffer
<1>4. IaqTypes'
    BY <1>1, <1>2 DEF QueueHeld, IaqTypes
<1>5. \A u \in Threads : ~Pushing(u)'
    <2>1. MainThread \in Inside(at', mainAt')
        BY <1>1 DEF Inside, Threads
    <2>2. \A u \in Threads : Pushing(u)' => u \in Inside(at', mainAt')
        BY DEF Inside, Pushing
    <2>3. \A u \in Threads : Pushing(u)' => u = MainThread
        BY <1>1, <2>1, <2>2 DEF AloneInQueue
    <2>4. ~Pushing(MainThread)'
        BY <1>1, NobodyElse DEF Pushing, Threads
    <2> QED BY <2>3, <2>4
<1>6. WaitingAsked'
    <2>1. \A k \in 0..qlen-2 : slots'[k] = slots[k + 1] /\ k + 1 \in 0..qlen-1
        BY <1>2, IaqualinkAssumption DEF QueueHeld, IaqTypes
    <2>2. \A k \in 0..qlen-1 : slots[k].kind = "full" => slots[k] \in asked
        BY <1>1 DEF QueueHeld, WaitingAsked, Waiting
    <2> QED BY <1>1, <1>3, <2>1, <2>2 DEF WaitingAsked, Waiting
<1> QED BY <1>1, <1>3, <1>4, <1>5, <1>6 DEF QueueHeld, Pushed

(* The decrement keeps the invariant.                                       *)
LEMMA CountDownHeld ==
    ASSUME QueueHeld, BufferHeld, CountDown, ~queueRaced'
    PROVE  QueueHeld' /\ BufferHeld'
<1>1. /\ mainAt = "moved" /\ mainAt' = "reading" /\ qlen' = qlen - 1
      /\ UNCHANGED <<iaqBuffer, slots, ops, at>> /\ AloneInQueue'
    BY Watched DEF CountDown, AloneInQueue
<1>2. BufferHeld' /\ asked' = asked
    BY <1>1, UnchangedBuffer DEF iaqBuffer
<1>3. IaqTypes'
    BY <1>1, IaqualinkAssumption DEF QueueHeld, IaqTypes
<1>4. \A u \in Threads : ~Pushing(u)'
    BY <1>1, NobodyElse DEF Pushing
<1>5. WaitingAsked'
    <2>1. qlen' - 1 = qlen - 2
        BY <1>1, IaqualinkAssumption DEF QueueHeld, IaqTypes
    <2> QED BY <1>1, <1>2, <2>1 DEF QueueHeld, WaitingAsked, Waiting
<1> QED BY <1>1, <1>2, <1>3, <1>4, <1>5 DEF QueueHeld, Pushed

(* Every step of the queue keeps its invariant.                             *)
LEMMA IaqStep == IaqInv /\ [IaqNext]_iaqVars => IaqInv'
<1> SUFFICES ASSUME IaqInv, [IaqNext]_iaqVars, ~mixed', ~queueRaced'
             PROVE  QueueHeld' /\ BufferHeld'
    BY DEF IaqInv
<1>1. CASE IaqNext
    <2>1. ~queueRaced
        BY <1>1 DEF IaqNext
    <2>2. ~mixed
        BY <1>1, Zenon DEF IaqNext, Ask, Reset, IaqPush, PushCheck, PushCopy, PushCount, IaqMain, Process,
               Reply, RemoveFirst, CountDown, MissMessage, iaqBuffer
    <2>3. QueueHeld /\ BufferHeld
        BY <2>1, <2>2 DEF IaqInv
    <2>4. ASSUME NEW t \in Clients, Ask(t) \/ Reset(t) PROVE QueueHeld' /\ BufferHeld'
        BY <2>3, <2>4, AskHeld, ResetHeld
    <2>5. ASSUME NEW t \in Threads, IaqPush(t) PROVE QueueHeld' /\ BufferHeld'
        BY <2>3, <2>5, CheckHeld, CopyHeld, CountHeld DEF IaqPush
    <2>6. CASE IaqMain
        BY <2>3, <2>6, ProcessHeld, ReplyHeld, RemoveHeld, CountDownHeld DEF IaqMain
    <2>7. CASE MissMessage
        <3>1. UNCHANGED <<iaqBuffer, slots, qlen, ops, at, mainAt>>
            BY <2>7 DEF MissMessage
        <3>2. BufferHeld' /\ asked' = asked
            BY <2>3, <3>1, UnchangedBuffer DEF iaqBuffer
        <3>3. QueueHeld'
            BY <2>3, <3>1, <3>2 DEF QueueHeld, IaqTypes, Pushed, Pushes, Pushing, AloneInQueue,
                                    WaitingAsked, Waiting
        <3> QED BY <3>2, <3>3
    <2> QED BY <1>1, <2>4, <2>5, <2>6, <2>7 DEF IaqNext
<1>2. CASE UNCHANGED iaqVars
    <2>1. UNCHANGED <<iaqBuffer, slots, qlen, ops, at, mainAt, mixed, queueRaced>>
        BY <1>2 DEF iaqVars, iaqBuffer
    <2>2. QueueHeld /\ BufferHeld
        BY <2>1 DEF IaqInv
    <2>3. BufferHeld' /\ asked' = asked
        BY <2>1, <2>2, UnchangedBuffer DEF iaqBuffer
    <2>4. QueueHeld'
        BY <2>1, <2>2, <2>3 DEF QueueHeld, IaqTypes, Pushed, Pushes, Pushing, AloneInQueue,
                                WaitingAsked, Waiting
    <2> QED BY <2>3, <2>4
<1> QED BY <1>1, <1>2

(* The invariant of the queue holds throughout.                             *)
LEMMA IaqInvHolds == Spec => []IaqInv
<1>1. DaemonInit => IaqInv
    <2> SUFFICES ASSUME IaqInit PROVE QueueHeld /\ BufferHeld
        BY PartInits DEF IaqInv
    <2>1. /\ fullcmd = [device |-> NoDevice, value |-> 0] /\ qlen = 0
          /\ slots = [k \in 0..QueueLength-1 |-> Std]
          /\ wanted = [t \in Clients |-> Std]
          /\ ops = [t \in Threads |-> <<>>] /\ at = [t \in Threads |-> "test"]
          /\ mainAt = "reading" /\ asked = {}
        BY DEF IaqInit
    <2>2. IaqTypes
        BY <2>1, IaqualinkAssumption DEF IaqTypes
    <2>3. Pushed /\ AloneInQueue
        BY <2>1 DEF Pushed, Pushing, AloneInQueue, Inside
    <2>4. WaitingAsked
        BY <2>1 DEF WaitingAsked, Waiting
    <2>5. OpsTypes
        BY <2>1 DEF OpsTypes, Threads, PollSteps, RequestSteps
    <2>6. BufferTypes
        BY <2>1 DEF BufferTypes, Values
    <2>7. AloneInBuffer /\ Buffered
        BY <2>1 DEF AloneInBuffer, Buffered, Threads
    <2> QED BY <2>2, <2>3, <2>4, <2>5, <2>6, <2>7 DEF QueueHeld, BufferHeld
<1>2. IaqInv /\ [DaemonNext]_daemonVars => IaqInv'
    BY IaqStep, PartSteps
<1> QED BY <1>1, <1>2, PTL DEF Spec

(* Nothing but whole requests waits in the queue of the iAqualink protocol, *)
(* for any number of threads and any length of the queue, until two threads *)
(* meet in the shared buffer or in the queue.                               *)
THEOREM QueuesWholeRequests == Spec => []FramesAreRequests
<1>1. IaqInv => FramesAreRequests
    BY DEF IaqInv, QueueHeld, WaitingAsked, FramesAreRequests
<1> QED BY <1>1, IaqInvHolds, PTL

-----------------------------------------------------------------------------
(* What the network services thread tells.  What was recorded as sent is    *)
(* what has arrived or will, unless the field slipped: but for the field at *)
(* which the broadcast is, of which one of the two is already new.  What    *)
(* was compared in a broadcast in which nothing changed has nothing left to *)
(* be sent.                                                                 *)
ZeroFor(f) == (f = "pool_temp" /\ ReportZeroPool) \/ (f = "spa_temp" /\ ReportZeroSpa)
AsShown(v) == IF v = Unknown THEN 0 ELSE v

DataTypes ==
    /\ DOMAIN aqualinkdata = Names /\ \A f \in Names : aqualinkdata[f] \in Domain(f)
    /\ DOMAIN lastMqtt = Names
    /\ \A f \in Names :
          /\ lastMqtt[f] \in Domain(f) \cup {Never}
          /\ lastMqtt[f] = Unknown => ZeroFor(f)
    /\ DOMAIN outgoing = Names /\ DOMAIN retained = Names
BroadcastTypes ==
    /\ cursor \in 0..6 /\ stage \in {"compare", "send", "record"}
    /\ connection = "none" => mqttExit
    /\ cursor # 0 => connection # "none"
    /\ stage # "compare" => cursor # 0
    /\ stage = "send" =>
          /\ Late(Fields[cursor]) # Fields[cursor]
          /\ \/ source = Fields[cursor]
             \/ source = "zero" /\ ZeroFor(Fields[cursor])
             \/ source = "pool_temp" /\ Fields[cursor] = "spa_temp"
    /\ stage = "record" =>
          /\ Late(Fields[cursor]) # "none"
          /\ aqualinkdata[Late(Fields[cursor])] # Unknown
Between(f) ==
    \/ stage = "send" /\ f = Fields[cursor]
    \/ stage = "record" /\ f = Late(Fields[cursor])
Recorded ==
    connection # "none" =>
        \A f \in Names \ slipped :
            ~Between(f) /\ lastMqtt[f] # Never => Arrived[f] = AsShown(lastMqtt[f])
Sending ==
    stage = "send" /\ Fields[cursor] \notin slipped =>
        /\ lastMqtt[Fields[cursor]] = Value(source, Unknown)
        /\ source # "zero" => aqualinkdata[source] # Unknown
Recording ==
    stage = "record" /\ Late(Fields[cursor]) \notin slipped =>
        Arrived[Late(Fields[cursor])] = aqualinkdata[Late(Fields[cursor])]
Compared ==
    ~missed =>
        /\ cursor # 0 => page = aqualinkdata
        /\ \A k \in 1..6 : k < cursor => Source(Fields[k]) = "none"
        /\ stage = "send" => Source(Fields[cursor]) = "none"
        /\ stage = "record" /\ Late(Fields[cursor]) # Fields[cursor] =>
              Source(Fields[cursor]) = "none"
        /\ cursor = 0 /\ ~is_dirty =>
              page = aqualinkdata /\ \A f \in Names : Source(f) = "none"
PublisherInv == DataTypes /\ BroadcastTypes /\ Recorded /\ Sending /\ Recording /\ Compared

(* The fields of the broadcast and their order.                             *)
LEMMA FieldNames ==
    /\ Len(Fields) = 6 /\ DOMAIN Fields = 1..6
    /\ Fields[1] = "pool_temp" /\ Fields[2] = "spa_temp" /\ Fields[3] = "frz_set_point"
    /\ Fields[4] = "frz_state" /\ Fields[5] = "swg_led" /\ Fields[6] = "boost"
    /\ Names = {"pool_temp", "spa_temp", "frz_set_point", "frz_state", "swg_led", "boost"}
    /\ \A k \in 1..6 : Fields[k] \in Names
    /\ \A f \in Names : \E k \in 1..6 : f = Fields[k]
<1>1. /\ Len(Fields) = 6 /\ DOMAIN Fields = 1..6
      /\ Fields[1] = "pool_temp" /\ Fields[2] = "spa_temp" /\ Fields[3] = "frz_set_point"
      /\ Fields[4] = "frz_state" /\ Fields[5] = "swg_led" /\ Fields[6] = "boost"
    BY DEF Fields
<1>2. \A k \in 1..6 : k \in {1, 2, 3, 4, 5, 6}
    OBVIOUS
<1>3. Names = {"pool_temp", "spa_temp", "frz_set_point", "frz_state", "swg_led", "boost"}
    BY <1>1, <1>2 DEF Names
<1> QED BY <1>1, <1>2, <1>3

(* No field has a value that stands for never sent; those without a value of*)
(* their own are temperatures, a setpoint and the LED of a SWG.             *)
LEMMA DomainValues ==
    \A f \in Names : \A v \in Domain(f) :
        /\ v # Never
        /\ v = Unknown => f \in {"pool_temp", "spa_temp", "frz_set_point", "swg_led"}
BY FieldNames, PublisherAssumption DEF Domain, Never, Unknown, Off, On

(* Whether a field is sent depends on the state and on what was recorded    *)
(* for the field itself.                                                    *)
LEMMA SameSource ==
    ASSUME NEW f, UNCHANGED aqualinkdata, lastMqtt'[f] = lastMqtt[f]
    PROVE  Source(f)' = Source(f)
BY DEF Source

(* What a field that is to be sent is sent from.                            *)
LEMMA SourceIs ==
    ASSUME NEW f \in Names, Source(f) # "none"
    PROVE  \/ Source(f) = f /\ aqualinkdata[f] # Unknown
           \/ Source(f) = "zero" /\ ZeroFor(f) /\ aqualinkdata[f] = Unknown
           \/ /\ Source(f) = "pool_temp" /\ f = "spa_temp" /\ ~ReportZeroSpa
              /\ aqualinkdata["pool_temp"] # Unknown /\ aqualinkdata[f] = Unknown
BY DEF Source, ZeroFor

(* A field that was recorded as it was sent is not sent again.              *)
LEMMA SourceAfter ==
    ASSUME NEW f \in Names, Source(f) # "none", UNCHANGED aqualinkdata,
           lastMqtt'[f] = Value(Source(f), Unknown)
    PROVE  Source(f)' = "none"
<1>1. CASE Source(f) = f /\ aqualinkdata[f] # Unknown
    BY <1>1, FieldNames DEF Source, Value
<1>2. CASE Source(f) = "zero" /\ aqualinkdata[f] = Unknown
    BY <1>2 DEF Source, Value
<1>3. CASE /\ Source(f) = "pool_temp" /\ f = "spa_temp" /\ ~ReportZeroSpa
           /\ aqualinkdata["pool_temp"] # Unknown /\ aqualinkdata[f] = Unknown
    BY <1>3 DEF Source, Value
<1> QED BY <1>1, <1>2, <1>3, SourceIs

(* A field that was recorded as it is needs not be sent.                    *)
LEMMA SourceRecorded ==
    ASSUME NEW f \in Names, UNCHANGED aqualinkdata, lastMqtt'[f] = aqualinkdata[f]
    PROVE  Source(f)' = "none"
BY DEF Source

(* The next field, or the end.                                              *)
LEMMA StepCompared ==
    ASSUME BroadcastTypes, cursor # 0, Step, UNCHANGED <<page, aqualinkdata, missed>>,
           ~missed => /\ page = aqualinkdata
                      /\ \A k \in 1..6 : k <= cursor => Source(Fields[k])' = "none"
    PROVE  Compared'
<1>1. /\ cursor \in 1..6 /\ stage' = "compare"
      /\ cursor' = IF cursor = 6 THEN 0 ELSE cursor + 1
    BY FieldNames DEF BroadcastTypes, Step
<1>2. ASSUME ~missed PROVE \A k \in 1..6 : k < cursor' => Source(Fields[k])' = "none"
    BY <1>1, <1>2
<1>3. ASSUME ~missed, cursor' = 0 PROVE \A f \in Names : Source(f)' = "none"
    <2>1. \A k \in 1..6 : Source(Fields[k])' = "none"
        BY <1>1, <1>3
    <2> SUFFICES ASSUME NEW f \in Names PROVE Source(f)' = "none"
        OBVIOUS
    <2>2. PICK k \in 1..6 : f = Fields[k]
        BY FieldNames
    <2> QED BY <2>1, <2>2
<1> QED BY <1>1, <1>2, <1>3 DEF Compared

(* A change of the state keeps the invariant: it sets the flag, or is       *)
(* missed.                                                                  *)
LEMMA ChangeHeld ==
    ASSUME NEW f \in Names, NEW v \in Domain(f), PublisherInv, ChangeState(f, v)
    PROVE  PublisherInv'
<1>1. /\ aqualinkdata' = [aqualinkdata EXCEPT ![f] = v]
      /\ v = Unknown => f \in {"pool_temp", "spa_temp"}
      /\ UNCHANGED <<lastMqtt, mqttExit, connection, outgoing, retained, page, cursor, stage, source>>
    BY DEF ChangeState
<1>2. /\ aqualinkdata'[f] = v
      /\ \A g \in Names : g # f => aqualinkdata'[g] = aqualinkdata[g]
      /\ DOMAIN aqualinkdata' = Names
    BY <1>1 DEF PublisherInv, DataTypes
<1>3. /\ slipped \subseteq slipped'
      /\ stage = "send" /\ f = source => Fields[cursor] \in slipped'
      /\ stage = "record" /\ f = Late(Fields[cursor]) => f \in slipped'
    BY DEF ChangeState
<1>4. DataTypes'
    <2>1. \A g \in Names : aqualinkdata'[g] \in Domain(g)
        BY <1>2 DEF PublisherInv, DataTypes
    <2> QED BY <1>1, <1>2, <2>1 DEF PublisherInv, DataTypes
<1>5. BroadcastTypes'
    <2>1. ASSUME stage = "record" PROVE aqualinkdata'[Late(Fields[cursor])] # Unknown
        <3>1. Late(Fields[cursor]) \in {"swg_led", "boost", "frz_state"}
            BY <2>1 DEF PublisherInv, BroadcastTypes, Late
        <3>2. Late(Fields[cursor]) \in Names
            BY <3>1, FieldNames
        <3>3. aqualinkdata[Late(Fields[cursor])] # Unknown
            BY <2>1 DEF PublisherInv, BroadcastTypes
        <3> QED BY <1>1, <1>2, <3>1, <3>2, <3>3
    <2> QED BY <1>1, <2>1 DEF PublisherInv, BroadcastTypes
<1>6. Recorded'
    <2>1. \A g \in Names : Arrived'[g] = Arrived[g]
        BY <1>1 DEF Arrived
    <2> QED BY <1>1, <1>3, <2>1 DEF PublisherInv, Recorded, Between
<1>7. Sending'
    <2> SUFFICES ASSUME stage = "send", Fields[cursor] \notin slipped'
                 PROVE  /\ lastMqtt[Fields[cursor]] = Value(source, Unknown)'
                        /\ source # "zero" => aqualinkdata'[source] # Unknown
        BY <1>1 DEF Sending
    <2>1. f # source /\ Fields[cursor] \notin slipped
        BY <1>3
    <2>2. cursor \in 1..6 /\ (source = "zero" \/ source \in Names)
        BY FieldNames DEF PublisherInv, BroadcastTypes
    <2>3. source = "zero" \/ aqualinkdata'[source] = aqualinkdata[source]
        BY <1>2, <2>1, <2>2
    <2> QED BY <1>1, <2>1, <2>3 DEF PublisherInv, Sending, Value
<1>8. Recording'
    <2> SUFFICES ASSUME stage = "record", Late(Fields[cursor]) \notin slipped'
                 PROVE  Arrived'[Late(Fields[cursor])] = aqualinkdata'[Late(Fields[cursor])]
        BY <1>1 DEF Recording
    <2>1. /\ f # Late(Fields[cursor]) /\ Late(Fields[cursor]) \notin slipped
          /\ Late(Fields[cursor]) \in Names
        BY <1>3, FieldNames DEF PublisherInv, BroadcastTypes, Late
    <2>2. Arrived' = Arrived
        BY <1>1 DEF Arrived
    <2> QED BY <1>2, <2>1, <2>2 DEF PublisherInv, Recording
<1>9. Compared'
    <2> SUFFICES ASSUME ~missed' PROVE cursor = 0 /\ is_dirty' /\ stage = "compare"
        BY <1>1 DEF Compared, PublisherInv, BroadcastTypes
    <2>1. PICK tells \in BOOLEAN : /\ is_dirty' = (is_dirty \/ tells)
                                   /\ missed' = (missed \/ ~tells \/ cursor # 0)
        BY Zenon DEF ChangeState
    <2>2. tells /\ cursor = 0
        BY <2>1
    <2> QED BY <2>1, <2>2 DEF PublisherInv, BroadcastTypes
<1> QED BY <1>4, <1>5, <1>6, <1>7, <1>8, <1>9 DEF PublisherInv

(* Between broadcasts a step that leaves state and records alone keeps the  *)
(* invariant.                                                               *)
LEMMA SamePublished ==
    ASSUME PublisherInv, cursor = 0, DataTypes', connection' = "none" => mqttExit',
           UNCHANGED <<aqualinkdata, is_dirty, lastMqtt, page, cursor, stage, missed, slipped>>,
           connection' # "none" => connection # "none" /\ Arrived' = Arrived
    PROVE  PublisherInv'
<1>1. stage = "compare"
    BY DEF PublisherInv, BroadcastTypes
<1>2. BroadcastTypes' /\ Sending' /\ Recording'
    BY <1>1 DEF PublisherInv, BroadcastTypes, Sending, Recording
<1>3. Recorded'
    BY <1>1 DEF PublisherInv, Recorded, Between
<1>4. \A f : Source(f)' = Source(f)
    BY SameSource
<1>5. Compared'
    BY <1>1, <1>4 DEF PublisherInv, Compared
<1> QED BY <1>2, <1>3, <1>5 DEF PublisherInv

(* Connecting, flushing and closing keep the invariant.                     *)
LEMMA PollHeld ==
    ASSUME PublisherInv, Connect \/ Flush \/ Close
    PROVE  PublisherInv'
<1>1. /\ cursor = 0
      /\ UNCHANGED <<aqualinkdata, is_dirty, lastMqtt, page, cursor, stage, missed, slipped>>
    BY DEF Connect, Flush, Close, Poll
<1>2. DOMAIN Unsent = Names /\ DOMAIN Arrived = Names
    BY DEF Unsent, Arrived
<1>3. DOMAIN outgoing' = Names /\ DOMAIN retained' = Names
    BY <1>2 DEF PublisherInv, DataTypes, Connect, Flush, Close, Poll
<1>4. DataTypes'
    BY <1>1, <1>3 DEF PublisherInv, DataTypes
<1>5. CASE Connect
    <2>1. connection = "connecting" /\ connection' = "connected" /\ UNCHANGED <<outgoing, retained>>
        BY <1>5 DEF Connect, Poll
    <2>2. Arrived' = Arrived
        BY <2>1 DEF Arrived
    <2> QED BY <1>1, <1>4, <2>1, <2>2, SamePublished
<1>6. CASE Flush
    <2>1. connection = "connected" /\ connection' = connection /\ outgoing' = Unsent /\ retained' = Arrived
        BY <1>6 DEF Flush, Poll
    <2>2. Arrived' = [f \in Names |-> IF outgoing'[f] = Never THEN retained'[f] ELSE outgoing'[f]]
        BY DEF Arrived
    <2>3. \A f \in Names : outgoing'[f] = Never
        BY <2>1 DEF Unsent
    <2>4. Arrived' = [f \in Names |-> Arrived[f]]
        BY <2>1, <2>2, <2>3
    <2>5. Arrived' = Arrived
        BY <2>4 DEF Arrived
    <2> QED BY <1>1, <1>4, <2>1, <2>5, SamePublished
<1>7. CASE Close
    <2>1. connection' = "none" /\ mqttExit' = TRUE
        BY <1>7 DEF Close, Poll
    <2> QED BY <1>1, <1>4, <2>1, SamePublished
<1> QED BY <1>5, <1>6, <1>7

(* The begin of a broadcast keeps the invariant.                            *)
LEMMA BeginHeld ==
    ASSUME PublisherInv, BeginBroadcast
    PROVE  PublisherInv'
<1>1. /\ cursor = 0 /\ page' = aqualinkdata /\ cursor' = 1 /\ missed' = FALSE
      /\ UNCHANGED <<aqualinkdata, is_dirty, retained, stage, slipped>>
      /\ stage = "compare"
    BY DEF BeginBroadcast, PublisherInv, BroadcastTypes
<1>2. connection' # "none" /\ DOMAIN lastMqtt' = Names /\ DOMAIN outgoing' = Names
    BY DEF BeginBroadcast, start_mqtt, PublisherInv, BroadcastTypes, DataTypes, Unsent
<1>3. \/ \A f \in Names : lastMqtt'[f] = Never
      \/ UNCHANGED <<lastMqtt, outgoing, connection, mqttExit>>
    BY DEF BeginBroadcast, start_mqtt, Unsent
<1>4. DataTypes'
    <2>1. \A f \in Names : /\ lastMqtt'[f] \in Domain(f) \cup {Never}
                           /\ lastMqtt'[f] = Unknown => ZeroFor(f)
        BY <1>3 DEF PublisherInv, DataTypes, Never, Unknown
    <2> QED BY <1>1, <1>2, <2>1 DEF PublisherInv, DataTypes
<1>5. BroadcastTypes' /\ Sending' /\ Recording'
    BY <1>1, <1>2 DEF BroadcastTypes, Sending, Recording
<1>6. Recorded'
    <2>1. CASE \A f \in Names : lastMqtt'[f] = Never
        BY <2>1 DEF Recorded
    <2>2. CASE UNCHANGED <<lastMqtt, outgoing, connection, mqttExit>>
        <3>1. Arrived' = Arrived
            BY <1>1, <2>2 DEF Arrived
        <3> QED BY <1>1, <1>2, <2>2, <3>1 DEF PublisherInv, Recorded, Between
    <2> QED BY <1>3, <2>1, <2>2
<1>7. Compared'
    BY <1>1 DEF Compared
<1> QED BY <1>4, <1>5, <1>6, <1>7 DEF PublisherInv

(* Comparing a field, and sending or recording it, keeps the invariant.     *)
LEMMA CompareHeld ==
    ASSUME PublisherInv, CompareField
    PROVE  PublisherInv'
<1>1. PICK n, f, from : n = cursor /\ f = Fields[cursor] /\ from = Source(Fields[cursor])
    OBVIOUS
<1>2. /\ n \in 1..6 /\ f \in Names /\ f = Fields[n] /\ stage = "compare" /\ cursor # 0
      /\ connection # "none" /\ from = Source(f)
    BY <1>1, FieldNames DEF CompareField, PublisherInv, BroadcastTypes
<1>3. /\ UNCHANGED <<aqualinkdata, mqttExit, connection, retained, page, missed>>
      /\ slipped' = IF from = "none" THEN slipped ELSE slipped \ {f}
    BY <1>1 DEF CompareField
<1>4. CASE from = "none"
    <2>1. Step /\ UNCHANGED <<lastMqtt, outgoing>>
        BY <1>1, <1>4 DEF CompareField
    <2>2. Arrived' = Arrived /\ UNCHANGED slipped /\ stage' = "compare"
        BY <1>3, <1>4, <2>1 DEF Arrived, Step
    <2>3. DataTypes' /\ Sending' /\ Recording'
        BY <1>3, <2>1, <2>2 DEF PublisherInv, DataTypes, Sending, Recording
    <2>4. BroadcastTypes'
        BY <1>1, <1>2, <1>3, <2>1, <2>2, FieldNames DEF PublisherInv, BroadcastTypes, Step
    <2>5. Recorded'
        BY <1>2, <1>3, <2>1, <2>2 DEF PublisherInv, Recorded, Between
    <2>6. \A g : Source(g)' = Source(g)
        BY <1>3, <2>1, SameSource
    <2>7. ~missed => /\ page = aqualinkdata
                     /\ \A k \in 1..6 : k <= cursor => Source(Fields[k])' = "none"
        <3> SUFFICES ASSUME ~missed, NEW k \in 1..6, k <= cursor
                     PROVE  page = aqualinkdata /\ Source(Fields[k])' = "none"
            BY <1>2 DEF PublisherInv, Compared
        <3>1. k < cursor \/ k = cursor
            BY <1>1, <1>2
        <3> QED BY <1>1, <1>2, <1>4, <2>6, <3>1 DEF PublisherInv, Compared
    <2>8. Compared'
        BY <1>2, <1>3, <2>1, <2>7, StepCompared DEF PublisherInv
    <2> QED BY <2>3, <2>4, <2>5, <2>8 DEF PublisherInv
<1>5. CASE from # "none" /\ Late(f) = f
    <2>1. /\ outgoing' = [outgoing EXCEPT ![f] = Value(from, 0)] /\ UNCHANGED <<lastMqtt, cursor, is_dirty>>
          /\ stage' = "record" /\ source' = from
        BY <1>1, <1>5 DEF CompareField, Goes
    <2>2. f \in {"swg_led", "boost"} /\ from = f /\ aqualinkdata[f] # Unknown
        BY <1>2, <1>5, SourceIs, FieldNames DEF Late, ZeroFor
    <2>3. outgoing'[f] = aqualinkdata[f] /\ aqualinkdata[f] # Never
        <3>1. f # "zero"
            BY <2>2
        <3>2. outgoing'[f] = Value(f, 0)
            BY <1>2, <2>1, <2>2 DEF PublisherInv, DataTypes
        <3> QED BY <1>2, <3>1, <3>2, DomainValues DEF Value, PublisherInv, DataTypes
    <2>4. \A g \in Names : g # f => Arrived'[g] = Arrived[g]
        BY <1>2, <1>3, <2>1 DEF Arrived, PublisherInv, DataTypes
    <2>5. Arrived'[f] = aqualinkdata'[f]
        BY <1>2, <1>3, <2>3 DEF Arrived
    <2>6. DataTypes'
        BY <1>3, <2>1 DEF PublisherInv, DataTypes
    <2>7. BroadcastTypes'
        BY <1>1, <1>2, <1>3, <1>5, <2>1, <2>2 DEF PublisherInv, BroadcastTypes
    <2>8. Recorded'
        <3>1. \A g : Between(g)' <=> g = f
            BY <1>1, <1>5, <2>1 DEF Between
        <3>2. \A g \in Names \ slipped' : g # f => g \in Names \ slipped /\ ~Between(g)
            BY <1>2, <1>3 DEF Between
        <3> QED BY <1>2, <1>3, <2>1, <2>4, <3>1, <3>2 DEF PublisherInv, Recorded
    <2>9. Sending' /\ Recording'
        BY <1>1, <1>5, <2>1, <2>5 DEF Sending, Recording
    <2>10. \A g : Source(g)' = Source(g)
        BY <1>3, <2>1, SameSource
    <2>11. Compared'
        BY <1>1, <1>2, <1>3, <1>5, <2>1, <2>10 DEF PublisherInv, Compared
    <2> QED BY <2>6, <2>7, <2>8, <2>9, <2>11 DEF PublisherInv
<1>6. CASE from # "none" /\ Late(f) # f
    <2>1. /\ lastMqtt' = [lastMqtt EXCEPT ![f] = Value(from, Unknown)]
          /\ UNCHANGED <<outgoing, cursor, is_dirty>>
          /\ stage' = "send" /\ source' = from
        BY <1>1, <1>6 DEF CompareField, Goes
    <2>2. \/ from = f /\ aqualinkdata[f] # Unknown
          \/ from = "zero" /\ ZeroFor(f)
          \/ from = "pool_temp" /\ f = "spa_temp" /\ aqualinkdata["pool_temp"] # Unknown
        BY <1>2, <1>6, SourceIs
    <2>3. lastMqtt'[f] = Value(from, Unknown) /\ \A g \in Names : g # f => lastMqtt'[g] = lastMqtt[g]
        BY <1>2, <2>1 DEF PublisherInv, DataTypes
    <2>4. from # "zero" => Value(from, Unknown) = aqualinkdata[from] /\ aqualinkdata[from] # Unknown
        BY <2>2 DEF Value
    <2>5. Arrived' = Arrived
        BY <1>3, <2>1 DEF Arrived
    <2>6. DataTypes'
        <3>1. CASE from = f /\ f # "zero"
            BY <1>2, <1>3, <2>1, <2>3, <2>4, <3>1 DEF PublisherInv, DataTypes
        <3>2. CASE from = "zero" /\ ZeroFor(f)
            <4>1. lastMqtt'[f] = Unknown /\ Unknown \in Domain(f)
                BY <2>3, <3>2 DEF Value, ZeroFor, Domain
            <4> QED BY <1>2, <1>3, <2>1, <2>3, <3>2, <4>1 DEF PublisherInv, DataTypes
        <3>3. CASE from = "pool_temp" /\ f = "spa_temp"
            <4>1. aqualinkdata["pool_temp"] \in Domain("pool_temp") /\ Domain("pool_temp") = Domain(f)
                BY <3>3, FieldNames DEF PublisherInv, DataTypes, Domain
            <4>2. lastMqtt'[f] \in Domain(f) /\ lastMqtt'[f] # Unknown
                BY <2>3, <2>4, <3>3, <4>1
            <4> QED BY <1>2, <1>3, <2>1, <2>3, <4>2 DEF PublisherInv, DataTypes
        <3>4. f # "zero"
            BY <1>2, FieldNames
        <3> QED BY <2>2, <3>1, <3>2, <3>3, <3>4
    <2>7. BroadcastTypes'
        BY <1>1, <1>2, <1>3, <1>6, <2>1, <2>2 DEF PublisherInv, BroadcastTypes
    <2>8. Recorded'
        <3>1. \A g : Between(g)' <=> g = f
            BY <1>1, <2>1 DEF Between
        <3>2. \A g \in Names \ slipped' : g # f => g \in Names \ slipped /\ ~Between(g)
            BY <1>2, <1>3 DEF Between
        <3> QED BY <1>2, <1>3, <2>3, <2>5, <3>1, <3>2 DEF PublisherInv, Recorded
    <2>9. Sending' /\ Recording'
        BY <1>1, <1>3, <2>1, <2>3, <2>4 DEF Sending, Recording, Value
    <2>10. Source(f)' = "none"
        BY <1>2, <1>3, <1>6, <2>3, SourceAfter
    <2>11. \A g \in Names : g # f => Source(g)' = Source(g)
        BY <1>3, <2>3, SameSource
    <2>12. Compared'
        <3>1. ~missed => \A k \in 1..6 : k < cursor => Source(Fields[k])' = "none"
            BY <2>10, <2>11, FieldNames DEF PublisherInv, Compared
        <3> QED BY <1>1, <1>2, <1>3, <2>1, <2>10, <3>1 DEF PublisherInv, Compared
    <2> QED BY <2>6, <2>7, <2>8, <2>9, <2>12 DEF PublisherInv
<1> QED BY <1>4, <1>5, <1>6

(* Sending a field that was recorded first keeps the invariant.             *)
LEMMA SendHeld ==
    ASSUME PublisherInv, SendField
    PROVE  PublisherInv'
<1>1. PICK n, f, from : n = cursor /\ f = Fields[cursor] /\ from = source
    OBVIOUS
<1>2. /\ n \in 1..6 /\ f \in Names /\ f = Fields[n] /\ stage = "send" /\ cursor # 0
      /\ connection # "none" /\ Late(f) # f
    BY <1>1, FieldNames DEF SendField, PublisherInv, BroadcastTypes
<1>3. PICK with : with = IF Late(f) = "none" THEN {} ELSE {Late(f)}
    OBVIOUS
<1>4. /\ UNCHANGED <<aqualinkdata, lastMqtt, mqttExit, connection, retained, page, missed>>
      /\ outgoing' = [g \in Names |-> CASE g = f -> Value(from, 0)
                                        [] g \in with -> aqualinkdata[g]
                                        [] OTHER -> outgoing[g]]
      /\ slipped' = slipped \ with /\ f \notin with
    BY <1>1, <1>2, <1>3 DEF SendField
<1>5. Arrived'[f] = IF Value(from, 0) = Never THEN retained[f] ELSE Value(from, 0)
    BY <1>2, <1>4 DEF Arrived
<1>6. \A g \in Names : g # f /\ g \notin with => Arrived'[g] = Arrived[g]
    BY <1>4 DEF Arrived
<1>7. f \notin slipped => Arrived'[f] = AsShown(lastMqtt[f])
    <2> SUFFICES ASSUME f \notin slipped PROVE Arrived'[f] = AsShown(lastMqtt[f])
        OBVIOUS
    <2>1. /\ lastMqtt[f] = Value(from, Unknown)
          /\ from # "zero" => aqualinkdata[from] # Unknown
        BY <1>1, <1>2 DEF PublisherInv, Sending
    <2>2. CASE from = "zero"
        BY <1>5, <2>1, <2>2 DEF Value, AsShown, Never
    <2>3. CASE from # "zero"
        <3>1. from \in Names
            BY <1>1, <1>2, <2>3, FieldNames DEF PublisherInv, BroadcastTypes
        <3>2. aqualinkdata[from] # Never
            BY <3>1, DomainValues DEF PublisherInv, DataTypes
        <3> QED BY <1>5, <2>1, <2>3, <3>2 DEF Value, AsShown
    <2> QED BY <2>2, <2>3
<1>8. DataTypes'
    BY <1>4 DEF PublisherInv, DataTypes
<1>9. \A g : Source(g)' = Source(g)
    BY <1>4, SameSource
<1>10. ~missed => /\ page = aqualinkdata
                  /\ \A k \in 1..6 : k <= cursor => Source(Fields[k])' = "none"
    <2> SUFFICES ASSUME ~missed, NEW k \in 1..6, k <= cursor
                 PROVE  page = aqualinkdata /\ Source(Fields[k])' = "none"
        BY <1>2 DEF PublisherInv, Compared
    <2>1. k < cursor \/ k = cursor
        BY <1>1, <1>2
    <2> QED BY <1>2, <1>9, <2>1 DEF PublisherInv, Compared
<1>11. CASE Late(f) = "none"
    <2>1. Step /\ with = {}
        BY <1>1, <1>3, <1>11 DEF SendField
    <2>2. stage' = "compare" /\ slipped' = slipped
        BY <1>4, <2>1 DEF Step
    <2>3. BroadcastTypes'
        BY <1>1, <1>2, <1>4, <2>1, <2>2, FieldNames DEF PublisherInv, BroadcastTypes, Step
    <2>4. Recorded'
        <3>1. \A g \in Names : g # f => ~Between(g)
            BY <1>1, <1>2 DEF Between
        <3> QED BY <1>2, <1>4, <1>6, <1>7, <2>1, <2>2, <3>1 DEF PublisherInv, Recorded
    <2>5. Sending' /\ Recording'
        BY <2>2 DEF Sending, Recording
    <2>6. Compared'
        BY <1>2, <1>4, <1>10, <2>1, StepCompared DEF PublisherInv
    <2> QED BY <1>8, <2>3, <2>4, <2>5, <2>6 DEF PublisherInv
<1>12. CASE Late(f) # "none"
    <2>1. /\ stage' = "record" /\ UNCHANGED <<cursor, is_dirty>> /\ with = {Late(f)}
        BY <1>1, <1>3, <1>12 DEF SendField, Goes
    <2>2. PICK g : g = Late(f)
        OBVIOUS
    <2>3. g = "frz_state" /\ g \in Names /\ g # f /\ with = {g}
        BY <1>2, <1>12, <2>1, <2>2, FieldNames DEF Late
    <2>4. aqualinkdata[g] # Never /\ aqualinkdata[g] # Unknown
        BY <2>3, DomainValues DEF PublisherInv, DataTypes
    <2>5. Arrived'[g] = aqualinkdata'[g]
        BY <1>4, <2>3, <2>4 DEF Arrived
    <2>6. BroadcastTypes'
        BY <1>1, <1>2, <1>4, <1>12, <2>1, <2>2, <2>4 DEF PublisherInv, BroadcastTypes
    <2>7. Recorded'
        <3>1. /\ \A h \in Names : h # f => ~Between(h)
              /\ \A h : Between(h)' <=> h = g
            BY <1>1, <1>2, <2>1, <2>2 DEF Between
        <3> QED BY <1>2, <1>4, <1>6, <1>7, <2>3, <3>1 DEF PublisherInv, Recorded
    <2>8. Sending' /\ Recording'
        BY <1>1, <2>1, <2>2, <2>5 DEF Sending, Recording
    <2>9. Compared'
        BY <1>1, <1>2, <1>4, <1>9, <2>1 DEF PublisherInv, Compared
    <2> QED BY <1>8, <2>6, <2>7, <2>8, <2>9 DEF PublisherInv
<1> QED BY <1>11, <1>12

(* Recording a field that was sent first keeps the invariant.               *)
LEMMA RecordHeld ==
    ASSUME PublisherInv, RecordField
    PROVE  PublisherInv'
<1>1. PICK n, f, g : n = cursor /\ f = Fields[cursor] /\ g = Late(Fields[cursor])
    OBVIOUS
<1>2. /\ n \in 1..6 /\ f \in Names /\ f = Fields[n] /\ g = Late(f) /\ stage = "record"
      /\ cursor # 0 /\ connection # "none" /\ g # "none" /\ aqualinkdata[g] # Unknown
    BY <1>1, FieldNames DEF RecordField, PublisherInv, BroadcastTypes
<1>3. g \in Names
    BY <1>2, FieldNames DEF Late
<1>4. /\ lastMqtt' = [lastMqtt EXCEPT ![g] = aqualinkdata[g]] /\ Step
      /\ UNCHANGED <<aqualinkdata, mqttExit, connection, outgoing, retained, page, missed, slipped>>
    BY <1>1 DEF RecordField
<1>5. lastMqtt'[g] = aqualinkdata[g] /\ \A h \in Names : h # g => lastMqtt'[h] = lastMqtt[h]
    BY <1>3, <1>4 DEF PublisherInv, DataTypes
<1>6. Arrived' = Arrived /\ stage' = "compare"
    BY <1>4 DEF Arrived, Step
<1>7. DataTypes'
    BY <1>2, <1>3, <1>4, <1>5 DEF PublisherInv, DataTypes
<1>8. BroadcastTypes'
    BY <1>1, <1>2, <1>4, <1>6, FieldNames DEF PublisherInv, BroadcastTypes, Step
<1>9. Recorded'
    <2>1. \A h \in Names : h # g => ~Between(h)
        BY <1>1, <1>2 DEF Between
    <2>2. g \notin slipped => Arrived[g] = AsShown(lastMqtt'[g])
        BY <1>1, <1>2, <1>5 DEF PublisherInv, Recording, AsShown
    <2> QED BY <1>2, <1>4, <1>5, <1>6, <2>1, <2>2 DEF PublisherInv, Recorded
<1>10. Sending' /\ Recording'
    BY <1>6 DEF Sending, Recording
<1>11. Source(g)' = "none"
    BY <1>3, <1>4, <1>5, SourceRecorded
<1>12. \A h \in Names : h # g => Source(h)' = Source(h)
    BY <1>4, <1>5, SameSource
<1>13. ~missed => /\ page = aqualinkdata
                  /\ \A k \in 1..6 : k <= cursor => Source(Fields[k])' = "none"
    <2> SUFFICES ASSUME ~missed, NEW k \in 1..6, k <= cursor
                 PROVE  page = aqualinkdata /\ Source(Fields[k])' = "none"
        BY <1>2 DEF PublisherInv, Compared
    <2>1. k < cursor \/ k = cursor
        BY <1>1, <1>2
    <2>2. Fields[k] \in Names
        BY FieldNames
    <2>3. page = aqualinkdata /\ (Fields[k] = g \/ Source(Fields[k]) = "none")
        BY <1>1, <1>2, <2>1 DEF PublisherInv, Compared
    <2> QED BY <1>11, <1>12, <2>2, <2>3
<1>14. Compared'
    BY <1>2, <1>4, <1>13, StepCompared DEF PublisherInv
<1> QED BY <1>7, <1>8, <1>9, <1>10, <1>14 DEF PublisherInv

(* Every step of the broadcast keeps its invariant.                         *)
LEMMA PublisherStep == PublisherInv /\ [PublisherNext]_publisherVars => PublisherInv'
<1> SUFFICES ASSUME PublisherInv, [PublisherNext]_publisherVars PROVE PublisherInv'
    OBVIOUS
<1>1. CASE \E f \in Names : \E v \in Domain(f) : ChangeState(f, v)
    BY <1>1, ChangeHeld
<1>2. CASE Connect \/ Flush \/ Close
    BY <1>2, PollHeld
<1>3. CASE BeginBroadcast
    BY <1>3, BeginHeld
<1>4. CASE CompareField
    BY <1>4, CompareHeld
<1>5. CASE SendField
    BY <1>5, SendHeld
<1>6. CASE RecordField
    BY <1>6, RecordHeld
<1>7. CASE UNCHANGED publisherVars
    <2>1. UNCHANGED <<aqualinkdata, is_dirty, lastMqtt, mqttExit, connection, outgoing, retained,
                      page, cursor, stage, source, missed, slipped>>
        BY <1>7 DEF publisherVars
    <2>2. Arrived' = Arrived
        BY <2>1 DEF Arrived
    <2>3. DataTypes' /\ BroadcastTypes' /\ Recorded' /\ Sending' /\ Recording'
        BY <2>1, <2>2 DEF PublisherInv, DataTypes, BroadcastTypes, Recorded, Between, Sending,
                          Recording, Value
    <2>4. \A f : Source(f)' = Source(f)
        BY <2>1, SameSource
    <2>5. Compared'
        BY <2>1, <2>4 DEF PublisherInv, Compared
    <2> QED BY <2>3, <2>5 DEF PublisherInv
<1> QED BY <1>1, <1>2, <1>3, <1>4, <1>5, <1>6, <1>7 DEF PublisherNext

(* The invariant of the broadcast holds throughout.                         *)
LEMMA PublisherInvHolds == Spec => []PublisherInv
<1>1. DaemonInit => PublisherInv
    <2> SUFFICES ASSUME PublisherInit PROVE PublisherInv
        BY PartInits
    <2>1. /\ aqualinkdata = [f \in Names |-> IF Unknown \in Domain(f) THEN Unknown ELSE Off]
          /\ is_dirty = TRUE /\ lastMqtt = Unsent
          /\ connection = "connecting" /\ outgoing = Unsent /\ retained = Unsent
          /\ cursor = 0 /\ stage = "compare"
        BY DEF PublisherInit
    <2>2. DataTypes
        <3>1. \A f \in Names : aqualinkdata[f] \in Domain(f)
            BY <2>1 DEF Domain
        <3>2. \A f \in Names : lastMqtt[f] = Never /\ Never # Unknown
            BY <2>1 DEF Unsent, Never, Unknown
        <3> QED BY <2>1, <3>1, <3>2 DEF DataTypes, Unsent
    <2>3. BroadcastTypes /\ Sending /\ Recording
        BY <2>1 DEF BroadcastTypes, Sending, Recording
    <2>4. Recorded
        BY <2>1 DEF Recorded, Unsent
    <2>5. Compared
        BY <2>1 DEF Compared
    <2> QED BY <2>2, <2>3, <2>4, <2>5 DEF PublisherInv
<1>2. PublisherInv /\ [DaemonNext]_daemonVars => PublisherInv'
    BY PublisherStep, PartSteps
<1> QED BY <1>1, <1>2, PTL DEF Spec

(* When nothing is marked as changed, browsers and the MQTT server have been*)
(* told the state, whichever temperatures there are, however often the      *)
(* connection or what it had sent was lost, and whatever threads changed    *)
(* while other fields were being compared, sent and recorded.               *)
THEOREM TellsTheState == Spec => []CleanIsTold
<1>1. PublisherInv => CleanIsTold
    <2> SUFFICES ASSUME PublisherInv, cursor = 0, ~is_dirty, ~missed
                 PROVE  /\ page = aqualinkdata
                        /\ connection # "none" =>
                              \A f \in Names \ slipped : Meant(f) \in {Never, Arrived[f]}
        BY DEF CleanIsTold
    <2>1. page = aqualinkdata /\ \A f \in Names : Source(f) = "none"
        BY DEF PublisherInv, Compared
    <2> SUFFICES ASSUME connection # "none", NEW f \in Names \ slipped
                 PROVE  Meant(f) \in {Never, Arrived[f]}
        BY <2>1
    <2>2. stage = "compare"
        BY DEF PublisherInv, BroadcastTypes
    <2>3. lastMqtt[f] # Never => Arrived[f] = AsShown(lastMqtt[f])
        BY <2>2 DEF PublisherInv, Recorded, Between
    <2>4. /\ aqualinkdata[f] # Never /\ aqualinkdata["pool_temp"] # Never
          /\ lastMqtt[f] = Unknown => ZeroFor(f)
        BY DomainValues, FieldNames DEF PublisherInv, DataTypes
    <2>5. Source(f) = "none" /\ f # "none"
        BY <2>1, FieldNames
    <2>6. CASE aqualinkdata[f] = lastMqtt[f]
        <3>1. Arrived[f] = AsShown(aqualinkdata[f])
            BY <2>3, <2>4, <2>6
        <3>2. CASE aqualinkdata[f] = Unknown
            BY <2>4, <2>6, <3>1, <3>2 DEF Meant, ZeroFor, AsShown
        <3>3. CASE aqualinkdata[f] # Unknown
            BY <3>1, <3>3 DEF Meant, AsShown
        <3> QED BY <3>2, <3>3
    <2>7. CASE aqualinkdata[f] # lastMqtt[f]
        <3>1. CASE f = "boost" /\ aqualinkdata["swg_led"] = Unknown
            BY <3>1 DEF Meant
        <3>2. CASE aqualinkdata[f] = Unknown /\ f \in {"pool_temp", "spa_temp"}
            <4>1. ~ZeroFor(f)
                BY <2>5, <2>7, <3>2 DEF Source, ZeroFor
            <4>2. CASE f = "pool_temp"
                BY <3>2, <4>1, <4>2 DEF Meant, ZeroFor
            <4>3. CASE f = "spa_temp"
                <5>1. \/ aqualinkdata["pool_temp"] = Unknown
                      \/ aqualinkdata["pool_temp"] = lastMqtt[f]
                    BY <2>5, <2>7, <3>2, <4>1, <4>3 DEF Source, ZeroFor
                <5>2. Meant(f) = IF aqualinkdata["pool_temp"] = Unknown THEN Never
                                 ELSE aqualinkdata["pool_temp"]
                    BY <3>2, <4>1, <4>3 DEF Meant, ZeroFor
                <5> QED BY <2>3, <2>4, <5>1, <5>2 DEF AsShown
            <4> QED BY <3>2, <4>2, <4>3
        <3>3. CASE aqualinkdata[f] = Unknown /\ f \notin {"pool_temp", "spa_temp", "boost"}
            BY <3>3 DEF Meant
        <3>4. CASE f = "boost" /\ aqualinkdata[f] = Unknown
            BY <3>4, DomainValues DEF PublisherInv, DataTypes
        <3>5. CASE aqualinkdata[f] # Unknown /\ ~(f = "boost" /\ aqualinkdata["swg_led"] = Unknown)
            BY <2>5, <2>7, <3>5, FieldNames DEF Source
        <3> QED BY <3>1, <3>2, <3>3, <3>4, <3>5
    <2> QED BY <2>6, <2>7
<1> QED BY <1>1, PublisherInvHolds, PTL

-----------------------------------------------------------------------------
(* The message cycle.  The bits of a cycle in which nothing was lost or     *)
(* changed are those of the messages that were shown, which are the case at *)
(* the panel, and what they set still stands.  A freeze protection that was *)
(* shown in such a cycle is on till its end is told or its setpoint is read.*)
CycleFields ==
    {"frz", "default", "service", "battery", "boost", "boostInLastLoop", "msg_loop",
     "pump", "hours", "asked", "events"}
CycleBits == {"freeze", "service", "timeout", "boost", "battery"}
WholeState(s) == DOMAIN s = CycleFields /\ s.default # "on"

CycleTypes ==
    /\ WholeState(state)
    /\ panel \in [freeze : BOOLEAN, boost : BOOLEAN, battery : BOOLEAN,
                  mode : {"auto", "service", "timeout"}]
    /\ buffer \in {"battery", "other"}

(* What the messages that were shown have set.                              *)
Reflects(s, ms) ==
    /\ s.msg_loop \cap CycleBits = ms \cap CycleBits
    /\ "freeze" \in ms => s.frz = "on"
    /\ "boost" \in ms => s.boost = TRUE
    /\ "battery" \in ms => s.battery = TRUE
    /\ "service" \in ms => s.service = "on"
    /\ "timeout" \in ms => s.service = "flash"
Calmed ==
    calm => /\ ~programming /\ shown \subseteq Active /\ held \in {"none"} \cup shown
            /\ Reflects(state, shown)
StillOn ==
    /\ held = "setpoint" => setpointRead
    /\ noted /\ ~setpointRead /\ ~reported => state.frz = "on"
CycleInv == CycleTypes /\ Calmed /\ StillOn

(* What a message sets.                                                     *)
Heard(s, m, r) ==
    /\ WholeState(r)
    /\ m # "setpoint" /\ s.frz = "on" => r.frz = "on"
    /\ r.battery = IF m = "battery" THEN TRUE ELSE s.battery
    /\ r.service = CASE m = "service" -> "on" [] m = "timeout" -> "flash" [] OTHER -> "off"
    /\ m = "freeze" => r.frz = "on"
    /\ m = "boost" /\ ~programming => r.boost = TRUE
    /\ s.boost = TRUE => r.boost = TRUE
    /\ r.hours = s.hours /\ r.asked = s.asked
    /\ r.msg_loop \cap CycleBits =
          (s.msg_loop \cap CycleBits)
          \cup (IF m \in CycleBits /\ (m = "boost" => ~programming) THEN {m} ELSE {})
(* What _processMessage returns, as the proofs use it.                      *)
LEMMA MessageIs == \A s, m : WholeState(s) => Heard(s, m, processMessage(s, m))
<1> SUFFICES ASSUME NEW s, NEW m, WholeState(s) PROVE Heard(s, m, processMessage(s, m))
    OBVIOUS
<1>1. PICK r : r = processMessage(s, m)
    OBVIOUS
<1>2. Heard(s, m, r)
    BY <1>1 DEF processMessage, BoostShown, WholeState, CycleFields, CycleBits, Heard
<1> QED BY <1>1, <1>2, Zenon

(* What the end of a cycle leaves.                                          *)
LEMMA ResetIs ==
    ASSUME NEW s, WholeState(s)
    PROVE  LET r == processMessageReset(s)
           IN  /\ WholeState(r) /\ r.msg_loop = {}
               /\ r.frz = IF "freeze" \in s.msg_loop THEN s.frz ELSE s.default
               /\ r.boost = IF "boost" \in s.msg_loop THEN s.boost ELSE FALSE
               /\ r.battery = IF "battery" \in s.msg_loop THEN s.battery ELSE FALSE
               /\ r.service = IF "service" \in s.msg_loop \/ "timeout" \in s.msg_loop
                              THEN s.service ELSE "off"
               /\ "freeze" \notin s.msg_loop /\ s.frz = "on" => "freeze_off" \in r.events
<1>1. \A t, e, r : WholeState(t) /\ r = event_happened_set_device_state(t, e, crontab, hour) =>
          /\ WholeState(r) /\ r.msg_loop = t.msg_loop /\ r.frz = t.frz /\ r.default = t.default
          /\ r.boost = t.boost /\ r.battery = t.battery /\ r.service = t.service
          /\ r.events = t.events \cup {e}
    BY DEF event_happened_set_device_state, WholeState, CycleFields
<1>2. PICK f : f = FreezeOff(s)
    OBVIOUS
<1>3. /\ WholeState(f) /\ f.msg_loop = s.msg_loop
      /\ f.frz = IF "freeze" \in s.msg_loop THEN s.frz ELSE s.default
      /\ f.boost = s.boost /\ f.battery = s.battery /\ f.service = s.service
      /\ "freeze" \notin s.msg_loop /\ s.frz = "on" => "freeze_off" \in f.events
    <2>1. PICK t : t = event_happened_set_device_state(s, "freeze_off", crontab, hour)
        OBVIOUS
    <2>2. /\ WholeState(t) /\ t.msg_loop = s.msg_loop /\ t.frz = s.frz /\ t.default = s.default
          /\ t.boost = s.boost /\ t.battery = s.battery /\ t.service = s.service
          /\ "freeze_off" \in t.events
        BY <1>1, <2>1
    <2>3. f = IF "freeze" \in s.msg_loop THEN s
              ELSE [(IF s.frz # s.default THEN t ELSE s) EXCEPT !.frz = s.default]
        BY <1>2, <2>1, Zenon DEF FreezeOff
    <2>4. CASE "freeze" \in s.msg_loop
        BY <2>3, <2>4
    <2>5. CASE "freeze" \notin s.msg_loop /\ s.frz # s.default
        <3>1. f = [t EXCEPT !.frz = s.default]
            BY <2>3, <2>5
        <3> QED BY <2>2, <2>5, <3>1 DEF WholeState, CycleFields
    <2>6. CASE "freeze" \notin s.msg_loop /\ s.frz = s.default
        <3>1. f = [s EXCEPT !.frz = s.default]
            BY <2>3, <2>6
        <3> QED BY <2>6, <3>1 DEF WholeState, CycleFields
    <2> QED BY <2>4, <2>5, <2>6
<1>4. PICK v : v = ServiceOff(f)
    OBVIOUS
<1>5. /\ WholeState(v) /\ v.msg_loop = s.msg_loop /\ v.frz = f.frz
      /\ v.boost = s.boost /\ v.battery = s.battery /\ v.events = f.events
      /\ v.service = IF "service" \in s.msg_loop \/ "timeout" \in s.msg_loop
                     THEN s.service ELSE "off"
    BY <1>3, <1>4 DEF ServiceOff, WholeState, CycleFields
<1>6. PICK b : b = BoostOff(v)
    OBVIOUS
<1>7. /\ WholeState(b) /\ b.msg_loop = s.msg_loop /\ b.frz = f.frz
      /\ b.boost = IF "boost" \in s.msg_loop THEN s.boost ELSE FALSE
      /\ b.battery = s.battery /\ b.service = v.service /\ f.events \subseteq b.events
    <2>1. PICK t : t = event_happened_set_device_state(v, "boost_off", crontab, hour)
        OBVIOUS
    <2>2. /\ WholeState(t) /\ t.msg_loop = s.msg_loop /\ t.frz = f.frz
          /\ t.battery = s.battery /\ t.service = v.service /\ f.events \subseteq t.events
        <3>1. /\ WholeState(t) /\ t.msg_loop = v.msg_loop /\ t.frz = v.frz
              /\ t.battery = v.battery /\ t.service = v.service
              /\ t.events = v.events \cup {"boost_off"}
            BY <1>1, <1>5, <2>1
        <3> QED BY <1>5, <3>1
    <2>3. PICK u : u = IF v.boost \/ v.boostInLastLoop THEN t ELSE v
        OBVIOUS
    <2>4. /\ WholeState(u) /\ u.msg_loop = s.msg_loop /\ u.frz = f.frz
          /\ u.battery = s.battery /\ u.service = v.service /\ f.events \subseteq u.events
        BY <1>5, <2>2, <2>3
    <2>5. b = IF "boost" \in v.msg_loop THEN v
              ELSE [u EXCEPT !.boost = FALSE, !.boostInLastLoop = FALSE]
        BY <1>6, <2>1, <2>3, Zenon DEF BoostOff
    <2>6. CASE "boost" \in s.msg_loop
        BY <1>5, <2>5, <2>6
    <2>7. CASE "boost" \notin s.msg_loop
        <3>1. b = [u EXCEPT !.boost = FALSE, !.boostInLastLoop = FALSE]
            BY <1>5, <2>5, <2>7
        <3> QED BY <2>4, <2>7, <3>1 DEF WholeState, CycleFields
    <2> QED BY <2>6, <2>7
<1>8. PICK r : r = processMessageReset(s)
    OBVIOUS
<1>9. r = [BatteryOk(b) EXCEPT !.msg_loop = {}]
    BY <1>2, <1>4, <1>6, <1>8, Zenon DEF processMessageReset
<1>10. /\ WholeState(r) /\ r.msg_loop = {} /\ r.frz = f.frz /\ r.boost = b.boost
       /\ r.service = b.service /\ r.events = b.events
       /\ r.battery = IF "battery" \in s.msg_loop THEN s.battery ELSE FALSE
    BY <1>7, <1>9 DEF BatteryOk, WholeState, CycleFields
<1> QED BY <1>3, <1>5, <1>7, <1>8, <1>10

(* What is shown at the panel.                                              *)
LEMMA Showing ==
    ASSUME CycleTypes
    PROVE  /\ panel.mode = "service" => Active = {"service"}
           /\ panel.mode = "timeout" => Active = {"timeout"}
           /\ panel.mode = "auto" => "service" \notin Active /\ "timeout" \notin Active
           /\ "setpoint" \notin Active /\ "none" \notin Active
BY DEF Active, CycleTypes

(* In a calm cycle a message that the panel shows adds to what is reflected;*)
(* one that was shown before changes nothing.                               *)
LEMMA MessageReflected ==
    ASSUME CycleTypes, NEW s, WholeState(s), NEW ms, Reflects(s, ms), ms \subseteq Active,
           ~programming, NEW m \in Active
    PROVE  Reflects(processMessage(s, m), ms \cup {m})
<1>1. PICK r : r = processMessage(s, m)
    OBVIOUS
<1>2. Heard(s, m, r)
    BY <1>1, MessageIs, Zenon
<1>3. m # "setpoint"
    BY Showing
<1>4. r.msg_loop \cap CycleBits = (ms \cup {m}) \cap CycleBits
    BY <1>2, <1>3 DEF Reflects, Heard, CycleBits
<1>5. /\ "service" \in ms \cup {m} => m = "service"
      /\ "timeout" \in ms \cup {m} => m = "timeout"
    BY Showing DEF CycleTypes
<1> QED BY <1>1, <1>2, <1>3, <1>4, <1>5 DEF Reflects, Heard

(* The message that is processed again is one that was shown.               *)
LEMMA AgainReflected ==
    ASSUME CycleTypes, Calmed
    PROVE  /\ WholeState(Again)
           /\ calm => Reflects(Again, shown)
<1>1. WholeState(Again)
    <2>1. Heard(state, held, processMessage(state, held)) /\ WholeState(state)
        BY MessageIs, Zenon DEF CycleTypes
    <2> QED BY <2>1, Zenon DEF Again, Heard
<1>2. ASSUME calm, held # "none" PROVE Reflects(Again, shown)
    <2>1. held \in shown /\ held \in Active /\ shown \cup {held} = shown
        BY <1>2 DEF Calmed
    <2>2. Reflects(processMessage(state, held), shown \cup {held})
        BY <1>2, <2>1, MessageReflected DEF Calmed, CycleTypes
    <2> QED BY <1>2, <2>1, <2>2 DEF Again
<1>3. ASSUME calm, held = "none" PROVE Reflects(Again, shown)
    BY <1>3 DEF Again, Calmed
<1> QED BY <1>1, <1>2, <1>3

(* Freeze protection stays on till its setpoint is read.                    *)
LEMMA AgainOn ==
    ASSUME CycleTypes, held = "setpoint" => setpointRead, ~setpointRead, state.frz = "on"
    PROVE  Again.frz = "on"
<1>1. PICK r : r = processMessage(state, held)
    OBVIOUS
<1>2. Heard(state, held, r)
    BY <1>1, MessageIs, Zenon DEF CycleTypes
<1>3. held # "setpoint" => r.frz = "on"
    BY <1>2 DEF Heard
<1> QED BY <1>1, <1>3 DEF Again

(* What is said of the state after a whole cycle, and of its end.           *)
LEMMA LoopStartShows ==
    ASSUME CycleInv, LoopStart, calm
    PROVE  /\ state'.frz = "on" <=> "freeze" \in Active
           /\ state'.boost <=> "boost" \in Active
           /\ state'.battery <=> "battery" \in Active
           /\ state'.service = CASE panel.mode = "service" -> "on"
                                 [] panel.mode = "timeout" -> "flash"
                                 [] OTHER -> "off"
<1>1. PICK a : a = Again
    OBVIOUS
<1>2. /\ WholeState(a) /\ Reflects(a, shown) /\ shown = Active
    BY <1>1, AgainReflected DEF CycleInv, Calmed, LoopStart
<1>3. PICK r : r = processMessageReset(a)
    OBVIOUS
<1>4. /\ WholeState(r)
      /\ r.frz = IF "freeze" \in a.msg_loop THEN a.frz ELSE a.default
      /\ r.boost = IF "boost" \in a.msg_loop THEN a.boost ELSE FALSE
      /\ r.battery = IF "battery" \in a.msg_loop THEN a.battery ELSE FALSE
      /\ r.service = IF "service" \in a.msg_loop \/ "timeout" \in a.msg_loop
                     THEN a.service ELSE "off"
    BY <1>2, <1>3, ResetIs
<1>5. state' = [r EXCEPT !.asked = FALSE, !.events = {}]
    BY <1>1, <1>3, Zenon DEF LoopStart, Cycled
<1>6. /\ state'.frz = r.frz /\ state'.boost = r.boost
      /\ state'.battery = r.battery /\ state'.service = r.service
    BY <1>4, <1>5 DEF WholeState, CycleFields
<1>7. \A m \in CycleBits : m \in a.msg_loop <=> m \in Active
    BY <1>2 DEF Reflects
<1>8. state'.frz = "on" <=> "freeze" \in Active
    BY <1>2, <1>4, <1>6, <1>7 DEF Reflects, WholeState, CycleBits
<1>9. /\ state'.boost = IF "boost" \in Active THEN TRUE ELSE FALSE
      /\ state'.battery = IF "battery" \in Active THEN TRUE ELSE FALSE
    BY <1>2, <1>4, <1>6, <1>7 DEF Reflects, CycleBits
<1>10. state'.service = CASE panel.mode = "service" -> "on"
                          [] panel.mode = "timeout" -> "flash"
                          [] OTHER -> "off"
    <2>1. CASE panel.mode = "service"
        BY <1>2, <1>4, <1>6, <1>7, <2>1, Showing DEF Reflects, CycleBits, CycleInv
    <2>2. CASE panel.mode = "timeout"
        BY <1>2, <1>4, <1>6, <1>7, <2>2, Showing DEF Reflects, CycleBits, CycleInv
    <2>3. CASE panel.mode = "auto"
        BY <1>4, <1>6, <1>7, <2>3, Showing DEF CycleBits, CycleInv
    <2> QED BY <2>1, <2>2, <2>3 DEF CycleInv, CycleTypes
<1>11. /\ state'.boost <=> "boost" \in Active
       /\ state'.battery <=> "battery" \in Active
    BY <1>9
<1> QED BY <1>8, <1>10, <1>11

(* A message that is heard keeps the invariant.                             *)
LEMMA HearHeld ==
    ASSUME CycleInv, NEW m \in Messages, Hear(m)
    PROVE  CycleInv'
<1>1. PICK s : s = IF m \in Long THEN state ELSE Again
    OBVIOUS
<1>2. PICK r : r = processMessage(s, m)
    OBVIOUS
<1>3. /\ state' = r /\ held' = IF m \in Long THEN m ELSE "none"
      /\ buffer' = IF m \in Long THEN "other" ELSE m
      /\ shown' = shown \cup {m} /\ setpointRead' = (setpointRead \/ m = "setpoint")
      /\ m \in Active \/ (m = "setpoint" /\ programming)
      /\ UNCHANGED <<panel, programming, calm, noted, reported>>
    BY <1>1, <1>2 DEF Hear, cycleEnv
<1>4. /\ CycleTypes /\ Calmed /\ StillOn
    BY DEF CycleInv
<1>5. WholeState(s) /\ (calm => Reflects(s, shown))
    BY <1>1, <1>4, AgainReflected DEF CycleTypes, Calmed
<1>6. Heard(s, m, r)
    BY <1>2, <1>5, MessageIs, Zenon
<1>7. CycleTypes'
    BY <1>3, <1>4, <1>6 DEF CycleTypes, Heard, Messages, Long
<1>8. Active' = Active
    BY <1>3 DEF Active
<1>9. Calmed'
    <2> SUFFICES ASSUME calm PROVE /\ ~programming /\ shown \cup {m} \subseteq Active
                                   /\ held' \in {"none"} \cup shown \cup {m}
                                   /\ Reflects(r, shown \cup {m})
        BY <1>3, <1>8, Zenon DEF Calmed
    <2>1. ~programming /\ m \in Active /\ shown \subseteq Active
        BY <1>3, <1>4 DEF Calmed
    <2>2. Reflects(r, shown \cup {m})
        BY <1>2, <1>4, <1>5, <2>1, MessageReflected
    <2> QED BY <1>3, <2>1, <2>2
<1>10. StillOn'
    <2>1. ~setpointRead /\ state.frz = "on" => s.frz = "on"
        BY <1>1, <1>4, AgainOn DEF StillOn
    <2> QED BY <1>3, <1>4, <1>6, <2>1 DEF StillOn, Heard
<1> QED BY <1>7, <1>9, <1>10 DEF CycleInv

(* A message that is lost keeps the invariant.                              *)
LEMMA SlipHeld ==
    ASSUME CycleInv, NEW m \in Messages, Slip(m)
    PROVE  CycleInv'
<1>1. /\ calm' = FALSE
      /\ UNCHANGED <<panel, programming, noted, reported, setpointRead>>
    BY DEF Slip, cycleEnv
<1>2. /\ CycleTypes /\ Calmed /\ StillOn
    BY DEF CycleInv
<1>3. PICK r : r = processMessage(state, buffer)
    OBVIOUS
<1>4. Heard(state, buffer, r)
    BY <1>2, <1>3, MessageIs, Zenon DEF CycleTypes
<1>5. \/ UNCHANGED <<state, buffer, held>>
      \/ buffer' = "other" /\ held' = "other" /\ state' = state
      \/ held' = buffer /\ state' = r /\ buffer' = buffer
    BY <1>3 DEF Slip
<1>6. CycleTypes'
    BY <1>1, <1>2, <1>4, <1>5 DEF CycleTypes, Heard
<1>7. Calmed'
    BY <1>1 DEF Calmed
<1>8. StillOn'
    BY <1>1, <1>2, <1>4, <1>5 DEF StillOn, CycleTypes, Heard
<1> QED BY <1>6, <1>7, <1>8 DEF CycleInv

(* The LED of the pump is no part of it.                                    *)
LEMMA StatusHeld ==
    ASSUME CycleInv, StatusPacket
    PROVE  CycleInv'
<1>1. /\ CycleTypes /\ Calmed /\ StillOn
    BY DEF CycleInv
<1>2. PICK a : a = Again
    OBVIOUS
<1>3. WholeState(a) /\ (calm => Reflects(a, shown))
    BY <1>1, <1>2, AgainReflected
<1>4. PICK on \in BOOLEAN : state' = [a EXCEPT !.pump = on]
    BY <1>2 DEF StatusPacket
<1>5. /\ WholeState(state') /\ state'.frz = a.frz /\ state'.boost = a.boost
      /\ state'.battery = a.battery /\ state'.service = a.service
      /\ state'.msg_loop = a.msg_loop
    BY <1>3, <1>4 DEF WholeState, CycleFields
<1>6. /\ held' = "none"
      /\ UNCHANGED <<panel, programming, shown, buffer, calm, noted, reported, setpointRead>>
    BY DEF StatusPacket, cycleEnv
<1>7. Active' = Active
    BY <1>6 DEF Active
<1>8. CycleTypes'
    BY <1>1, <1>5, <1>6 DEF CycleTypes
<1>9. Calmed'
    BY <1>1, <1>3, <1>5, <1>6, <1>7 DEF Calmed, Reflects
<1>10. StillOn'
    <2>1. ~setpointRead /\ state.frz = "on" => a.frz = "on"
        BY <1>1, <1>2, AgainOn DEF StillOn
    <2> QED BY <1>1, <1>5, <1>6, <2>1 DEF StillOn
<1> QED BY <1>8, <1>9, <1>10 DEF CycleInv

(* The end of a cycle keeps the invariant.                                  *)
LEMMA LoopStartHeld ==
    ASSUME CycleInv, LoopStart
    PROVE  CycleInv'
<1>1. /\ CycleTypes /\ Calmed /\ StillOn
    BY DEF CycleInv
<1>2. PICK a : a = Again
    OBVIOUS
<1>3. WholeState(a) /\ (calm => Reflects(a, shown))
    BY <1>1, <1>2, AgainReflected
<1>4. PICK r : r = processMessageReset(a)
    OBVIOUS
<1>5. /\ WholeState(r) /\ r.msg_loop = {}
      /\ r.frz = IF "freeze" \in a.msg_loop THEN a.frz ELSE a.default
      /\ "freeze" \notin a.msg_loop /\ a.frz = "on" => "freeze_off" \in r.events
    BY <1>3, <1>4, ResetIs
<1>6. state' = [r EXCEPT !.asked = FALSE, !.events = {}] /\ Cycled = r
    BY <1>2, <1>4, Zenon DEF LoopStart, Cycled
<1>7. WholeState(state') /\ state'.msg_loop = {} /\ state'.frz = r.frz
    BY <1>5, <1>6 DEF WholeState, CycleFields
<1>8. /\ held' = "none" /\ shown' = {} /\ calm' = ~programming
      /\ noted' = IF calm THEN "freeze" \in Active ELSE noted
      /\ UNCHANGED <<panel, programming, buffer>>
    BY DEF LoopStart, cycleEnv
<1>9. CycleTypes'
    BY <1>1, <1>7, <1>8 DEF CycleTypes
<1>10. Calmed'
    BY <1>7, <1>8 DEF Calmed, Reflects
<1>11. StillOn'
    <2> SUFFICES ASSUME noted', ~setpointRead', ~reported' PROVE state'.frz = "on"
        BY <1>8 DEF StillOn
    <2>1. CASE calm
        BY <1>8, <2>1, LoopStartShows
    <2>2. CASE ~calm
        <3>1. noted /\ ~setpointRead /\ ~reported /\ "freeze_off" \notin r.events
            BY <1>6, <1>8, <2>2 DEF LoopStart
        <3>2. a.frz = "on"
            BY <1>1, <1>2, <3>1, AgainOn DEF StillOn
        <3> QED BY <1>5, <1>7, <3>1, <3>2
    <2> QED BY <2>1, <2>2
<1> QED BY <1>9, <1>10, <1>11 DEF CycleInv

(* Every step of the cycle keeps its invariant.                             *)
LEMMA CycleStep == CycleInv /\ [CycleNext]_cycleVars => CycleInv'
<1> SUFFICES ASSUME CycleInv, [CycleNext]_cycleVars PROVE CycleInv'
    OBVIOUS
<1>1. /\ CycleTypes /\ Calmed /\ StillOn
    BY DEF CycleInv
<1>2. CASE PanelChanges
    <2>1. calm' = FALSE /\ UNCHANGED <<state, buffer, held, noted, reported, setpointRead>>
        BY <1>2 DEF PanelChanges
    <2>2. panel' \in [freeze : BOOLEAN, boost : BOOLEAN, battery : BOOLEAN,
                      mode : {"auto", "service", "timeout"}]
        BY <1>1, <1>2 DEF PanelChanges, CycleTypes
    <2> QED BY <1>1, <2>1, <2>2 DEF CycleInv, CycleTypes, Calmed, StillOn
<1>3. CASE BoostRequest
    <2>1. PICK on \in BOOLEAN : state' = [state EXCEPT !.boost = on]
        BY <1>3 DEF BoostRequest
    <2>2. WholeState(state') /\ state'.frz = state.frz
        BY <1>1, <2>1 DEF CycleTypes, WholeState, CycleFields
    <2>3. calm' = FALSE /\ UNCHANGED <<panel, buffer, held, noted, reported, setpointRead>>
        BY <1>3 DEF BoostRequest
    <2> QED BY <1>1, <2>2, <2>3 DEF CycleInv, CycleTypes, Calmed, StillOn
<1>4. CASE Programs
    <2>1. calm' = FALSE /\ UNCHANGED <<panel, state, buffer, held, noted, reported, setpointRead>>
        BY <1>4 DEF Programs
    <2> QED BY <1>1, <2>1 DEF CycleInv, CycleTypes, Calmed, StillOn
<1>5. CASE Edits \/ UNCHANGED cycleVars
    <2>1. UNCHANGED <<panel, shown, programming, state, buffer, held, calm, noted, reported,
                      setpointRead>>
        BY <1>5 DEF Edits, cycleVars
    <2> QED BY <1>1, <2>1 DEF CycleInv, CycleTypes, Calmed, StillOn, Active
<1> QED BY <1>2, <1>3, <1>4, <1>5, HearHeld, SlipHeld, StatusHeld, LoopStartHeld DEF CycleNext

(* The end is told, or the setpoint was read.                               *)
LEMMA LoopStartTells ==
    ASSUME CycleInv, LoopStart, calm, noted, "freeze" \notin Active, ~setpointRead
    PROVE  reported'
<1>1. /\ CycleTypes /\ Calmed /\ StillOn
    BY DEF CycleInv
<1>2. PICK a : a = Again
    OBVIOUS
<1>3. WholeState(a) /\ Reflects(a, shown) /\ shown \subseteq Active
    BY <1>1, <1>2, AgainReflected DEF Calmed
<1>4. PICK r : r = processMessageReset(a)
    OBVIOUS
<1>5. "freeze" \notin a.msg_loop /\ a.frz = "on" => "freeze_off" \in r.events
    BY <1>3, <1>4, ResetIs
<1>6. "freeze" \notin a.msg_loop
    BY <1>3 DEF Reflects, CycleBits
<1>7. ~reported => a.frz = "on"
    BY <1>1, <1>2, AgainOn DEF StillOn
<1>8. Cycled = r
    BY <1>2, <1>4 DEF Cycled
<1> QED BY <1>5, <1>6, <1>7, <1>8 DEF LoopStart

-----------------------------------------------------------------------------
(* A set of natural numbers that is not empty has a least member.           *)
LEMMA NatMin ==
    ASSUME NEW T \in SUBSET Nat, T # {}
    PROVE  \E x \in T : \A y \in T : x <= y
<1>1. IsWellFoundedOn(OpToRel(<,Nat), Nat)
    BY NatLessThanWellFounded
<1> DEFINE R == {ss \in Nat \X Nat : ss[1] < ss[2]}
<1>2. OpToRel(<,Nat) = R
    BY DEF OpToRel
<1>3. IsWellFoundedOn(R, Nat)
    BY <1>1, <1>2
<1>4. PICK x \in T : \A y \in T : ~(<<y, x>> \in R)
    <2> HIDE DEF R
    <2> QED BY <1>3, WFMin
<1>5. \A y \in T : ~(y < x)
    <2> SUFFICES ASSUME NEW y \in T, y < x PROVE <<y, x>> \in R
        BY <1>4
    <2> QED OBVIOUS
<1> QED BY <1>5

(* The hours after the first lines of a crontab: each line is read into what*)
(* those before it have left.                                               *)
IsReading(r, h, c, n) ==
    r = [k \in 0..n |-> IF k = 0 THEN h ELSE ReadLine(r[k - 1], c[k])]
(* There is such a function for every number of lines.                      *)
LEMMA ReadingExists ==
    ASSUME NEW h, NEW c, NEW n \in Nat
    PROVE  \E r : IsReading(r, h, c, n)
<1> DEFINE T == {m \in Nat : ~\E r : IsReading(r, h, c, m)}
<1> SUFFICES ASSUME T # {} PROVE FALSE
    OBVIOUS
<1>1. PICK m \in T : \A y \in T : m <= y
    BY NatMin
<1>2. CASE m = 0
    <2> DEFINE r == [k \in 0..0 |-> h]
    <2>1. r = [k \in 0..0 |-> IF k = 0 THEN h ELSE ReadLine(r[k - 1], c[k])]
        OBVIOUS
    <2>2. IsReading(r, h, c, m)
        BY <1>2, <2>1 DEF IsReading
    <2> QED BY <2>2
<1>3. CASE m # 0
    <2>1. m - 1 \in Nat /\ m \in Nat /\ m - 1 \notin T
        BY <1>1, <1>3
    <2>2. PICK q : IsReading(q, h, c, m - 1)
        BY <2>1
    <2> DEFINE r == [k \in 0..m |-> IF k < m THEN q[k] ELSE ReadLine(q[m - 1], c[m])]
    <2>3. q = [k \in 0..(m - 1) |-> IF k = 0 THEN h ELSE ReadLine(q[k - 1], c[k])]
        BY <2>2 DEF IsReading
    <2>4. ASSUME NEW k \in 0..m
          PROVE  r[k] = IF k = 0 THEN h ELSE ReadLine(r[k - 1], c[k])
        <3>1. CASE k = m
            <4>1. r[k] = ReadLine(q[m - 1], c[m]) /\ r[m - 1] = q[m - 1]
                BY <2>1, <3>1
            <4> QED BY <1>3, <3>1, <4>1
        <3>2. CASE k # m
            <4>1. k \in 0..(m - 1) /\ r[k] = q[k]
                BY <2>1, <3>2
            <4>2. k # 0 => r[k - 1] = q[k - 1]
                BY <2>1, <4>1
            <4>3. q[k] = IF k = 0 THEN h ELSE ReadLine(q[k - 1], c[k])
                BY <2>3, <4>1
            <4> QED BY <4>1, <4>2, <4>3
        <3> QED BY <3>1, <3>2
    <2>5. r = [k \in 0..m |-> r[k]]
        OBVIOUS
    <2>6. r = [k \in 0..m |-> IF k = 0 THEN h ELSE ReadLine(r[k - 1], c[k])]
        <3> HIDE DEF r
        <3> QED BY <2>4, <2>5
    <2>7. IsReading(r, h, c, m)
        BY <2>6 DEF IsReading
    <2> QED BY <2>7
<1> QED BY <1>2, <1>3

(* get_cron_pump_times reads the lines of the crontab one after the other.  *)
LEMMA ReadingIs ==
    ASSUME NEW h, NEW c, Len(c) \in Nat
    PROVE  \E r : /\ get_cron_pump_times(h, c) = r[Len(c)] /\ r[0] = h
                  /\ \A k \in 1..Len(c) : r[k] = ReadLine(r[k - 1], c[k])
<1> DEFINE g == CHOOSE q : IsReading(q, h, c, Len(c))
<1>1. IsReading(g, h, c, Len(c))
    BY ReadingExists
<1>2. g = CHOOSE q : q = [k \in 0..Len(c) |-> IF k = 0 THEN h ELSE ReadLine(q[k - 1], c[k])]
    BY DEF IsReading
<1>3. get_cron_pump_times(h, c) = g[Len(c)]
    BY <1>2 DEF get_cron_pump_times
<1> HIDE DEF g
<1>4. g[0] = h
    BY <1>1 DEF IsReading
<1>5. \A k \in 1..Len(c) : g[k] = ReadLine(g[k - 1], c[k])
    BY <1>1 DEF IsReading
<1> QED BY <1>3, <1>4, <1>5

(* The hours that the crontab can give, by its first lines.                 *)
StartsOf(c, n) == {c[k].hour : k \in {j \in 1..n : c[j].start}}
StopsOf(c, n) == {c[k].hour : k \in {j \in 1..n : ~c[j].start}}
HoursOf(h, c, n) ==
    /\ h \in [on : 0..23, off : 0..23]
    /\ h.on = 0 \/ h.on \in StartsOf(c, Len(c))
    /\ h.off = 0 \/ h.off \in StopsOf(c, Len(c))
    /\ h.on = 0 /\ StartsOf(c, n) # {} => 0 \in StartsOf(c, Len(c))

(* One more line.                                                           *)
LEMMA LineHours ==
    ASSUME NEW c \in Seq([start : BOOLEAN, hour : 0..23]), NEW k \in 1..Len(c), NEW h,
           HoursOf(h, c, k - 1)
    PROVE  HoursOf(ReadLine(h, c[k]), c, k)
<1>1. PICK r : r = ReadLine(h, c[k])
    OBVIOUS
<1>2. c[k] \in [start : BOOLEAN, hour : 0..23] /\ Len(c) \in Nat
    BY ElementOfSeq, LenProperties
<1>3. /\ c[k].start => c[k].hour \in StartsOf(c, Len(c))
      /\ ~c[k].start => c[k].hour \in StopsOf(c, Len(c))
    BY <1>2 DEF StartsOf, StopsOf
<1>4. StartsOf(c, k) # {} => StartsOf(c, k - 1) # {} \/ c[k].start
    <2> SUFFICES ASSUME NEW x \in StartsOf(c, k), ~c[k].start PROVE StartsOf(c, k - 1) # {}
        OBVIOUS
    <2>1. PICK j \in 1..k : c[j].start /\ x = c[j].hour
        BY DEF StartsOf
    <2>2. j \in 1..(k - 1)
        BY <1>2, <2>1
    <2> QED BY <2>1, <2>2 DEF StartsOf
<1>5. CASE c[k].start /\ (c[k].hour < h.on \/ h.on = 0)
    <2>1. r = [h EXCEPT !.on = c[k].hour]
        BY <1>1, <1>5 DEF ReadLine
    <2>2. r \in [on : 0..23, off : 0..23] /\ r.on = c[k].hour /\ r.off = h.off
        BY <1>2, <2>1 DEF HoursOf
    <2>3. HoursOf(r, c, k)
        BY <1>3, <1>5, <2>2 DEF HoursOf
    <2> QED BY <1>1, <2>3
<1>6. CASE ~c[k].start /\ c[k].hour > h.off
    <2>1. r = [h EXCEPT !.off = c[k].hour]
        BY <1>1, <1>6 DEF ReadLine
    <2>2. r \in [on : 0..23, off : 0..23] /\ r.off = c[k].hour /\ r.on = h.on
        BY <1>2, <2>1 DEF HoursOf
    <2>3. HoursOf(r, c, k)
        BY <1>3, <1>4, <1>6, <2>2 DEF HoursOf
    <2> QED BY <1>1, <2>3
<1>7. CASE /\ ~(c[k].start /\ (c[k].hour < h.on \/ h.on = 0))
           /\ ~(~c[k].start /\ c[k].hour > h.off)
    <2>1. r = h
        BY <1>1, <1>7 DEF ReadLine
    <2>2. HoursOf(r, c, k)
        BY <1>3, <1>4, <1>7, <2>1 DEF HoursOf
    <2> QED BY <1>1, <2>2
<1> QED BY <1>5, <1>6, <1>7

(* The whole crontab, line by line.                                         *)
LEMMA CrontabHours ==
    ASSUME NEW c \in Seq([start : BOOLEAN, hour : 0..23]), NEW h, HoursOf(h, c, 0)
    PROVE  HoursOf(get_cron_pump_times(h, c), c, Len(c))
<1>1. Len(c) \in Nat
    OBVIOUS
<1>2. PICK r : /\ get_cron_pump_times(h, c) = r[Len(c)] /\ r[0] = h
               /\ \A k \in 1..Len(c) : r[k] = ReadLine(r[k - 1], c[k])
    BY <1>1, ReadingIs
<1> DEFINE T == {k \in 0..Len(c) : ~HoursOf(r[k], c, k)}
<1>3. T = {}
    <2> SUFFICES ASSUME T # {} PROVE FALSE
        OBVIOUS
    <2>1. T \in SUBSET Nat
        OBVIOUS
    <2>2. PICK k \in T : \A y \in T : k <= y
        BY <2>1, NatMin
    <2>3. k # 0
        BY <1>2, <2>2
    <2>4. k \in 1..Len(c) /\ k - 1 \in 0..Len(c) /\ k - 1 \notin T
        BY <1>1, <2>2, <2>3
    <2>5. HoursOf(r[k - 1], c, k - 1)
        BY <2>4
    <2>6. HoursOf(r[k], c, k)
        BY <1>2, <2>4, <2>5, LineHours
    <2> QED BY <2>2, <2>6
<1> QED BY <1>1, <1>2, <1>3

(* The hours that were read are those of the crontab, as long as it has not *)
(* changed.                                                                 *)
WithinHours ==
    /\ StartHours # {} => \E h \in StartHours : h <= hour
    /\ \E h \in StopHours : hour < h
Timed(s) == HoursOf(s.hours, crontab, 0) /\ (s.asked => WithinHours)
HoursInv ==
    /\ crontab \in Crontabs /\ hour \in Hours /\ state.asked = FALSE
    /\ ~edited => HoursOf(state.hours, crontab, 0)

(* An event keeps them so, and asks for the pump within them only.          *)
LEMMA EventTimed ==
    ASSUME crontab \in Crontabs, hour \in Hours, NEW s, WholeState(s), Timed(s), NEW e, NEW r,
           r = event_happened_set_device_state(s, e, crontab, hour)
    PROVE  WholeState(r) /\ Timed(r)
<1>1. crontab \in Seq([start : BOOLEAN, hour : 0..23]) /\ hour \in 0..23
    BY SchedulerAssumption
<1>2. Len(crontab) \in Nat /\ DOMAIN crontab = 1..Len(crontab)
    BY <1>1, LenProperties
<1>3. PICK t : t = get_cron_pump_times(s.hours, crontab)
    OBVIOUS
<1>4. HoursOf(t, crontab, Len(crontab))
    BY <1>1, <1>3, CrontabHours DEF Timed
<1>5. HoursOf(t, crontab, 0)
    BY <1>4 DEF HoursOf, StartsOf
<1>6. /\ StartHours = StartsOf(crontab, Len(crontab))
      /\ StopHours = StopsOf(crontab, Len(crontab))
    BY <1>2 DEF StartHours, StopHours, StartsOf, StopsOf
<1>7. ASSUME scheduledOn(t, hour) PROVE WithinHours
    <2>1. hour >= t.on /\ hour < t.off /\ t \in [on : 0..23, off : 0..23]
        BY <1>4, <1>7 DEF scheduledOn, HoursOf
    <2>2. t.off \in StopHours
        BY <1>1, <1>4, <1>6, <2>1 DEF HoursOf
    <2>3. StartHours # {} => t.on \in StartHours
        BY <1>4, <1>6 DEF HoursOf
    <2> QED BY <2>1, <2>2, <2>3 DEF WithinHours
<1>8. PICK asks \in BOOLEAN : asks <=> (scheduledOn(t, hour) /\ ~s.pump)
    OBVIOUS
<1>9. /\ WholeState(r) /\ r.hours = t
      /\ r.asked => s.asked \/ scheduledOn(t, hour)
    BY <1>3, <1>8 DEF event_happened_set_device_state, WholeState, CycleFields
<1> QED BY <1>5, <1>7, <1>9 DEF Timed

(* So does the end of a cycle, with the events it has.                      *)
LEMMA ResetTimed ==
    ASSUME crontab \in Crontabs, hour \in Hours, NEW s, WholeState(s), Timed(s)
    PROVE  Timed(processMessageReset(s))
<1>1. PICK f : f = FreezeOff(s)
    OBVIOUS
<1>2. WholeState(f) /\ Timed(f)
    <2>1. PICK t : t = event_happened_set_device_state(s, "freeze_off", crontab, hour)
        OBVIOUS
    <2>2. WholeState(t) /\ Timed(t)
        BY <2>1, EventTimed
    <2>3. f = s \/ f = [t EXCEPT !.frz = s.default] \/ f = [s EXCEPT !.frz = s.default]
        BY <1>1, <2>1 DEF FreezeOff
    <2> QED BY <2>2, <2>3 DEF WholeState, CycleFields, Timed
<1>3. PICK v : v = ServiceOff(f)
    OBVIOUS
<1>4. WholeState(v) /\ Timed(v)
    BY <1>2, <1>3 DEF ServiceOff, WholeState, CycleFields, Timed
<1>5. PICK b : b = BoostOff(v)
    OBVIOUS
<1>6. WholeState(b) /\ Timed(b)
    <2>1. PICK t : t = event_happened_set_device_state(v, "boost_off", crontab, hour)
        OBVIOUS
    <2>2. WholeState(t) /\ Timed(t)
        BY <1>4, <2>1, EventTimed
    <2>3. \/ b = v \/ b = [t EXCEPT !.boost = FALSE, !.boostInLastLoop = FALSE]
          \/ b = [v EXCEPT !.boost = FALSE, !.boostInLastLoop = FALSE]
        BY <1>5, <2>1 DEF BoostOff
    <2> QED BY <1>4, <2>2, <2>3 DEF WholeState, CycleFields, Timed
<1>7. PICK k : k = BatteryOk(b)
    OBVIOUS
<1>8. WholeState(k) /\ Timed(k)
    BY <1>6, <1>7 DEF BatteryOk, WholeState, CycleFields, Timed
<1>9. processMessageReset(s) = [k EXCEPT !.msg_loop = {}]
    BY <1>1, <1>3, <1>5, <1>7, Zenon DEF processMessageReset
<1> QED BY <1>8, <1>9 DEF WholeState, CycleFields, Timed

(* Messages leave them alone.                                               *)
LEMMA MessageHours ==
    ASSUME NEW s, WholeState(s), NEW m, NEW r, r = processMessage(s, m)
    PROVE  r.hours = s.hours /\ r.asked = s.asked
BY MessageIs, ZenonT(40) DEF Heard

(* Every step of the cycle keeps the hours.                                 *)
LEMMA HoursStep == CycleInv /\ HoursInv /\ [CycleNext]_cycleVars => HoursInv'
<1> SUFFICES ASSUME CycleInv, HoursInv, [CycleNext]_cycleVars PROVE HoursInv'
    OBVIOUS
<1>1. WholeState(state) /\ buffer \in {"battery", "other"}
    BY DEF CycleInv, CycleTypes
<1>2. PICK a : a = Again
    OBVIOUS
<1>3. WholeState(a) /\ a.hours = state.hours /\ a.asked = state.asked
    <2>1. WholeState(a)
        BY <1>2, AgainReflected DEF CycleInv
    <2>2. PICK q : q = processMessage(state, held)
        OBVIOUS
    <2>3. q.hours = state.hours /\ q.asked = state.asked
        BY <1>1, <2>2, MessageHours
    <2> QED BY <1>2, <2>1, <2>2, <2>3 DEF Again
<1>4. ASSUME NEW m \in Messages, Hear(m) PROVE HoursInv'
    <2>1. PICK s : s = IF m \in Long THEN state ELSE a
        OBVIOUS
    <2>2. WholeState(s) /\ s.hours = state.hours /\ s.asked = state.asked
        BY <1>1, <1>3, <2>1
    <2>3. PICK r : r = processMessage(s, m)
        OBVIOUS
    <2>4. r.hours = s.hours /\ r.asked = s.asked
        BY <2>2, <2>3, MessageHours
    <2>5. state' = r
        BY <1>2, <1>4, <2>1, <2>3 DEF Hear
    <2>6. UNCHANGED <<crontab, hour, edited>>
        BY <1>4 DEF Hear, cycleEnv
    <2> QED BY <2>2, <2>4, <2>5, <2>6 DEF HoursInv
<1>5. ASSUME NEW m \in Messages, Slip(m) PROVE HoursInv'
    <2>1. PICK r : r = processMessage(state, buffer)
        OBVIOUS
    <2>2. r.hours = state.hours /\ r.asked = state.asked
        BY <1>1, <2>1, MessageHours
    <2>3. state' = state \/ state' = r
        BY <1>5, <2>1 DEF Slip
    <2>4. UNCHANGED <<crontab, hour, edited>>
        BY <1>5 DEF Slip, cycleEnv
    <2> QED BY <2>2, <2>3, <2>4 DEF HoursInv
<1>6. CASE StatusPacket
    <2>1. PICK on \in BOOLEAN : state' = [a EXCEPT !.pump = on]
        BY <1>2, <1>6 DEF StatusPacket
    <2>2. state'.hours = state.hours /\ state'.asked = state.asked
        BY <1>3, <2>1 DEF WholeState, CycleFields
    <2>3. UNCHANGED <<crontab, hour, edited>>
        BY <1>6 DEF StatusPacket, cycleEnv
    <2> QED BY <2>2, <2>3 DEF HoursInv
<1>7. CASE LoopStart
    <2>1. PICK r : r = processMessageReset(a)
        OBVIOUS
    <2>2. WholeState(r)
        BY <1>3, <2>1, ResetIs
    <2>3. ~edited => HoursOf(r.hours, crontab, 0)
        <3> SUFFICES ASSUME ~edited PROVE HoursOf(r.hours, crontab, 0)
            OBVIOUS
        <3>1. Timed(a) /\ crontab \in Crontabs /\ hour \in Hours
            BY <1>3 DEF HoursInv, Timed
        <3>2. Timed(r)
            BY <1>3, <2>1, <3>1, ResetTimed
        <3> QED BY <3>2 DEF Timed
    <2>4. state' = [r EXCEPT !.asked = FALSE, !.events = {}]
        BY <1>2, <1>7, <2>1, Zenon DEF LoopStart, Cycled
    <2>5. state'.hours = r.hours /\ state'.asked = FALSE
        BY <2>2, <2>4 DEF WholeState, CycleFields
    <2>6. UNCHANGED <<crontab, hour, edited>>
        BY <1>7 DEF LoopStart, cycleEnv
    <2> QED BY <2>3, <2>5, <2>6 DEF HoursInv
<1>8. CASE BoostRequest
    <2>1. PICK on \in BOOLEAN : state' = [state EXCEPT !.boost = on]
        BY <1>8 DEF BoostRequest
    <2>2. state'.hours = state.hours /\ state'.asked = state.asked
        BY <1>1, <2>1 DEF WholeState, CycleFields
    <2>3. UNCHANGED <<crontab, hour, edited>>
        BY <1>8 DEF BoostRequest
    <2> QED BY <2>2, <2>3 DEF HoursInv
<1>9. CASE Edits
    BY <1>9 DEF Edits, HoursInv
<1>10. CASE PanelChanges \/ Programs \/ UNCHANGED cycleVars
    <2>1. UNCHANGED <<state, crontab, hour, edited>>
        BY <1>10 DEF PanelChanges, Programs, cycleVars
    <2> QED BY <2>1 DEF HoursInv
<1> QED BY <1>4, <1>5, <1>6, <1>7, <1>8, <1>9, <1>10 DEF CycleNext

(* The pump is asked for within the hours.                                  *)
LEMMA LoopStartTimed ==
    ASSUME CycleInv, HoursInv, LoopStart, Cycled.asked, ~edited
    PROVE  WithinHours
<1>1. PICK a : a = Again
    OBVIOUS
<1>2. WholeState(a) /\ a.hours = state.hours /\ a.asked = state.asked
    <2>1. WholeState(a) /\ WholeState(state)
        BY <1>1, AgainReflected DEF CycleInv, CycleTypes
    <2>2. PICK q : q = processMessage(state, held)
        OBVIOUS
    <2>3. q.hours = state.hours /\ q.asked = state.asked
        BY <2>1, <2>2, MessageHours
    <2> QED BY <1>1, <2>1, <2>2, <2>3 DEF Again
<1>3. Timed(a) /\ crontab \in Crontabs /\ hour \in Hours
    BY <1>2 DEF HoursInv, Timed
<1>4. Timed(Cycled)
    BY <1>1, <1>2, <1>3, ResetTimed, Zenon DEF Cycled
<1> QED BY <1>4 DEF Timed

(* The invariant of the message cycle holds throughout.                     *)
LEMMA CycleInvHolds == Spec => [](CycleInv /\ HoursInv)
<1>1. DaemonInit => CycleInv /\ HoursInv
    <2> SUFFICES ASSUME CycleInit PROVE CycleInv /\ HoursInv
        BY PartInits
    <2>1. WholeState(state)
        BY DEF CycleInit, WholeState, CycleFields
    <2>2. CycleInv
        BY <2>1 DEF CycleInit, CycleInv, CycleTypes, Calmed, StillOn
    <2>3. state.hours = [on |-> 0, off |-> 0] /\ state.asked = FALSE
        BY DEF CycleInit
    <2>4. HoursOf(state.hours, crontab, 0)
        BY <2>3 DEF HoursOf, StartsOf
    <2> QED BY <2>2, <2>3, <2>4 DEF CycleInit, HoursInv
<1>2. CycleInv /\ HoursInv /\ [DaemonNext]_daemonVars => (CycleInv /\ HoursInv)'
    BY CycleStep, HoursStep, PartSteps
<1> QED BY <1>1, <1>2, PTL DEF Spec

(* After a cycle of messages in which nothing was lost or changed and no    *)
(* program ran, AqualinkD says of freeze protection, boost, battery and     *)
(* service mode what is the case at the panel, whatever was lost, whatever  *)
(* long message was processed twice and whatever was said before.           *)
THEOREM ShowsWhatIsTheCase == Spec => ShownAfterWholeCycle
<1>1. CycleInv /\ [DaemonNext]_daemonVars =>
          [LoopStart /\ calm =>
              /\ state'.frz = "on" <=> "freeze" \in Active
              /\ state'.boost <=> "boost" \in Active
              /\ state'.battery <=> "battery" \in Active
              /\ state'.service = CASE panel.mode = "service" -> "on"
                                    [] panel.mode = "timeout" -> "flash"
                                    [] OTHER -> "off"]_cycleVars
    BY LoopStartShows
<1> QED BY <1>1, CycleInvHolds, PTL DEF Spec, ShownAfterWholeCycle

(* The end of a freeze protection that was shown in a whole cycle has been  *)
(* told to the scheduler by the end of the next whole cycle, whatever cycles*)
(* with lost messages lie between them, if its setpoint was not read.       *)
THEOREM TellsTheEnd == Spec => EndIsNoticed
<1>1. CycleInv /\ [DaemonNext]_daemonVars =>
          [LoopStart /\ calm /\ noted /\ "freeze" \notin Active /\ ~setpointRead => reported']_cycleVars
    BY LoopStartTells
<1> QED BY <1>1, CycleInvHolds, PTL DEF Spec, EndIsNoticed

(* For every crontab, of any length, the scheduler asks for the pump only   *)
(* between an hour at which it starts it and one at which it stops it.      *)
THEOREM StartsWithinHours == Spec => PumpOnWithinHours
<1>1. CycleInv /\ HoursInv /\ [DaemonNext]_daemonVars =>
          [LoopStart /\ Cycled.asked /\ ~edited =>
              /\ StartHours # {} => \E h \in StartHours : h <= hour
              /\ \E h \in StopHours : hour < h]_cycleVars
    BY LoopStartTimed DEF WithinHours
<1> QED BY <1>1, CycleInvHolds, PTL DEF Spec, PumpOnWithinHours

-----------------------------------------------------------------------------
(* What Setpoints promises, for any number of requests for any temperatures.*)
SetpointTypes ==
    /\ setup \in Setups /\ units \in {"unknown", PanelUnits}
    /\ knownPoint \in [Points -> Int] /\ panelPoint \in [Points -> Int]
    /\ intended \in [Points -> Int] /\ excused \in [Points -> BOOLEAN] /\ unordered \in BOOLEAN
    /\ pending \in [what : {"none", "set", "increment"}, point : Points, value : Int]
    /\ due \in Seq([point : Points, value : Int, route : Via, other : Int])
    /\ \A k \in DOMAIN due : due[k].route = Route(due[k].point)

(* An increment is asked for at the adapter, and nothing else is intended   *)
(* for its set point till it is acted on.                                   *)
Incrementing ==
    pending.what = "increment" =>
        setup.via = "adapter" /\ pending.point \in Heaters /\ intended[pending.point] = NotKnown

(* The units are known, or count as those of the panel.                     *)
UnitsKnown == setup.celsius => units # "unknown"

AsksFor(p) == pending.what = "set" /\ pending.point = p
DueFor(p) == {k \in DOMAIN due : due[k].point = p}
LastFor(p, k) == k \in DueFor(p) /\ \A j \in DueFor(p) : j <= k

(* What is intended for a set point is put off, or due last, or there.      *)
Underway(p) ==
    /\ InRange(p, intended[p], PanelUnits) = intended[p] /\ UnitsKnown
    /\ AsksFor(p) => pending.value = intended[p]
    /\ ~AsksFor(p) =>
          /\ DueFor(p) = {} => panelPoint[p] = intended[p]
          /\ \A k \in DOMAIN due : LastFor(p, k) => due[k].value = intended[p]
          /\ \A j, k \in DueFor(p) : j # k => Route(p) \in Queued
AskedKept == \A p \in Points : intended[p] # NotKnown /\ ~excused[p] => Underway(p)

IsIn(v, p) == Least(p, PanelUnits) <= v /\ v <= Most(p, PanelUnits)
Above(p, v, w) == IF p = "pool" THEN v > w ELSE w > v

(* A command of a queue that goes with the panel's other temperature as it  *)
(* was, if the panel could have that; a program limits its value itself.    *)
Sound(g) ==
    IF g.route \in Queued
    THEN IsIn(g.other, TheOther(g.point)) /\ g.other # NotKnown =>
             IsIn(g.value, g.point) /\ Above(g.point, g.value, g.other)
    ELSE units # "unknown"
PanelOrdered ==
    panelPoint["pool"] > panelPoint["spa"] /\ \A p \in Heaters : IsIn(panelPoint[p], p)
AllDue == {due[k] : k \in DOMAIN due}
OrderKept ==
    Temps /\ ~unordered =>
        PanelOrdered /\ \A g \in AllDue : g.point \in Heaters => Sound(g)

SetpointInv == SetpointTypes /\ Incrementing /\ AskedKept /\ OrderKept

-----------------------------------------------------------------------------
(* What is known of the constants.                                          *)
LEMMA SetupType ==
    ASSUME setup \in Setups
    PROVE  /\ setup.celsius \in BOOLEAN /\ setup.single \in BOOLEAN /\ setup.via \in Via
           /\ setup.points \subseteq Points
BY SetpointAssumption

(* Limits.                                                                  *)
LEMMA LimitTypes ==
    ASSUME NEW p, NEW u
    PROVE  Least(p, u) \in Int /\ Most(p, u) \in Int
BY DEF Least, Most

(* A limited value is a temperature.                                        *)
LEMMA InRangeType ==
    ASSUME NEW p, NEW u, NEW v \in Int
    PROVE  InRange(p, v, u) \in Int /\ InRange(p, v, u) # NotKnown
BY DEF InRange, Within, Least, Most, NotKnown

(* What has been limited stays as it is when it is limited again.           *)
LEMMA InRangeTwice ==
    ASSUME NEW p, NEW u, NEW v \in Int
    PROVE  InRange(p, InRange(p, v, u), u) = InRange(p, v, u)
BY DEF InRange, Within, Least, Most

(* What setpoint_check returns is a temperature.                            *)
LEMMA CheckType ==
    ASSUME SetpointTypes, NEW p \in Points, NEW v \in Int
    PROVE  setpoint_check(p, v) \in Int
<1>1. Least(p, units) \in Int /\ Most(p, units) \in Int
    BY LimitTypes
<1>2. p \in Heaters => knownPoint[TheOther(p)] \in Int
    BY SetpointAssumption DEF SetpointTypes, Heaters, TheOther
<1> QED BY <1>1, <1>2 DEF setpoint_check, Within

(* Once the units are known, limits are those of the panel.                 *)
LEMMA SameLimits ==
    ASSUME SetpointTypes, UnitsKnown, NEW p
    PROVE  /\ Least(p, units) = Least(p, PanelUnits) /\ Most(p, units) = Most(p, PanelUnits)
           /\ \A v : InRange(p, v, units) = InRange(p, v, PanelUnits)
<1>1. (units = "C") <=> (PanelUnits = "C")
    BY SetupType DEF SetpointTypes, UnitsKnown, PanelUnits
<1> QED BY <1>1, ZenonT(40) DEF Least, Most, InRange

(* A heater's set point is limited by the other one that is known.          *)
LEMMA CheckOrders ==
    ASSUME SetpointTypes, UnitsKnown, Temps, NEW p \in Heaters, NEW v \in Int,
           NEW o, o = knownPoint[TheOther(p)], o # NotKnown, IsIn(o, TheOther(p))
    PROVE  IsIn(setpoint_check(p, v), p) /\ Above(p, setpoint_check(p, v), o)
<1>1. o \in Int /\ Temps = TRUE
    BY SetpointAssumption, SetupType DEF SetpointTypes, Heaters, TheOther, Temps
<1>2. /\ Least(p, units) = Least(p, PanelUnits) /\ Most(p, units) = Most(p, PanelUnits)
    BY SameLimits
<1>3. CASE p = "pool"
    <2>1. setpoint_check(p, v) = IF Least(p, PanelUnits) <= o
                                 THEN Within(v, o + 1, Most(p, PanelUnits))
                                 ELSE Within(v, Least(p, PanelUnits), Most(p, PanelUnits))
        BY <1>1, <1>2, <1>3 DEF setpoint_check, Heaters
    <2> QED BY <1>1, <1>3, <2>1 DEF IsIn, Above, Within, Least, Most, TheOther, Heaters, Temps
<1>4. CASE p = "spa"
    <2>1. setpoint_check(p, v) = IF Most(p, PanelUnits) >= o
                                 THEN Within(v, Least(p, PanelUnits), o - 1)
                                 ELSE Within(v, Least(p, PanelUnits), Most(p, PanelUnits))
        BY <1>1, <1>2, <1>4 DEF setpoint_check, Heaters
    <2> QED BY <1>1, <1>4, <2>1 DEF IsIn, Above, Within, Least, Most, TheOther, Heaters, Temps
<1> QED BY <1>3, <1>4 DEF Heaters

-----------------------------------------------------------------------------
(* At first the panel is in order and nothing is asked for.                 *)
LEMMA SetpointStarts == SetpointInit => SetpointInv
<1> SUFFICES ASSUME SetpointInit PROVE SetpointInv
    OBVIOUS
<1>1. /\ setup \in Setups /\ units = "unknown" /\ knownPoint = [p \in Points |-> NotKnown]
      /\ panelPoint = [p \in Points |-> OnPanel(PanelC[p])]
      /\ pending = NoRequest /\ due = <<>>
      /\ intended = [p \in Points |-> NotKnown] /\ excused = [p \in Points |-> FALSE]
      /\ unordered = FALSE /\ "pool" \in Points /\ "spa" \in Points
    BY SetpointAssumption DEF SetpointInit
<1>2. setup.celsius \in BOOLEAN /\ setup.single \in BOOLEAN /\ \A p \in Points : PanelC[p] \in Int
    BY <1>1, SetupType, SetpointAssumption
<1>3. SetpointTypes
    <2>1. \A p \in Points : OnPanel(PanelC[p]) \in Int
        BY <1>2 DEF OnPanel, ToF
    <2>2. due \in Seq([point : Points, value : Int, route : Via, other : Int]) /\ DOMAIN due = {}
        BY <1>1, EmptySeq
    <2>3. panelPoint \in [Points -> Int]
        BY <1>1, <2>1
    <2>4. knownPoint \in [Points -> Int] /\ intended \in [Points -> Int]
        BY <1>1 DEF NotKnown
    <2>5. excused \in [Points -> BOOLEAN] /\ unordered \in BOOLEAN
        BY <1>1, Zenon
    <2>6. pending \in [what : {"none", "set", "increment"}, point : Points, value : Int]
        BY <1>1 DEF NoRequest, Pending
    <2> QED BY <1>1, <2>2, <2>3, <2>4, <2>5, <2>6, Zenon DEF SetpointTypes
<1>4. Incrementing /\ AskedKept
    BY <1>1 DEF Incrementing, AskedKept, NoRequest, Pending
<1>5. ASSUME Temps PROVE PanelOrdered
    <2>1. /\ PanelC["pool"] \in Int /\ PanelC["spa"] \in Int
          /\ PanelC["pool"] > PanelC["spa"] /\ PanelC["pool"] <= 40 /\ PanelC["spa"] >= 3
          /\ setup.single = TRUE
        BY <1>1, <1>2, <1>5, SetpointAssumption DEF Temps
    <2>2. CASE setup.celsius = TRUE
        BY <1>1, <2>1, <2>2
           DEF PanelOrdered, IsIn, Least, Most, PanelUnits, Heaters, OnPanel
    <2>3. CASE setup.celsius = FALSE
        <3>1. panelPoint["pool"] = ToF(PanelC["pool"]) /\ panelPoint["spa"] = ToF(PanelC["spa"])
            BY <1>1, <2>3 DEF OnPanel
        <3>2. /\ ToF(PanelC["pool"]) > ToF(PanelC["spa"])
              /\ ToF(PanelC["pool"]) \in 37..104 /\ ToF(PanelC["spa"]) \in 36..103
            BY <2>1 DEF ToF
        <3> QED BY <2>1, <2>3, <3>1, <3>2 DEF PanelOrdered, IsIn, Least, Most, PanelUnits, Heaters
    <2> QED BY <1>2, <2>2, <2>3
<1>6. OrderKept
    BY <1>1, <1>5 DEF OrderKept, AllDue
<1> QED BY <1>3, <1>4, <1>6 DEF SetpointInv

(* What is left to be done when something is done with the k-th.            *)
LEMMA RemovedIs ==
    ASSUME SetpointTypes, NEW k \in DOMAIN due
    PROVE  /\ Removed(k) \in Seq([point : Points, value : Int, route : Via, other : Int])
           /\ DOMAIN Removed(k) = 1..(Len(due) - 1)
           /\ \A j \in 1..(Len(due) - 1) : Removed(k)[j] = IF j < k THEN due[j] ELSE due[j + 1]
<1> DEFINE T == [point : Points, value : Int, route : Via, other : Int]
           p == SubSeq(due, 1, k - 1)
           q == SubSeq(due, k + 1, Len(due))
<1>1. due \in Seq(T)
    BY DEF SetpointTypes
<1> HIDE DEF T
<1>2. Len(due) \in Nat /\ DOMAIN due = 1..Len(due) /\ \A j \in 1..Len(due) : due[j] \in T
    BY <1>1, LenProperties, ElementOfSeq
<1>3. p \in Seq(T) /\ Len(p) = k - 1 /\ \A j \in 1..(k - 1) : p[j] = due[j]
    BY <1>1, <1>2, SubSeqProperties
<1>4. q \in Seq(T) /\ Len(q) = Len(due) - k /\ \A j \in 1..(Len(due) - k) : q[j] = due[k + j]
    BY <1>1, <1>2, SubSeqProperties
<1> HIDE DEF p, q
<1> DEFINE r == p \o q
<1>5. /\ r \in Seq(T) /\ Len(r) = Len(p) + Len(q)
      /\ \A j \in 1..(Len(p) + Len(q)) : r[j] = IF j <= Len(p) THEN p[j] ELSE q[j - Len(p)]
    BY <1>3, <1>4, ConcatProperties
<1>6. Removed(k) = r
    BY DEF Removed, p, q
<1> HIDE DEF r
<1>7. DOMAIN r = 1..(Len(due) - 1)
    BY <1>2, <1>3, <1>4, <1>5, LenProperties
<1>8. ASSUME NEW j \in 1..(Len(due) - 1)
      PROVE  r[j] = IF j < k THEN due[j] ELSE due[j + 1]
    <2>1. CASE j < k
        BY <1>2, <1>3, <1>4, <1>5, <2>1
    <2>2. CASE ~(j < k)
        <3>1. j - Len(p) \in 1..(Len(due) - k) /\ r[j] = q[j - Len(p)]
            BY <1>2, <1>3, <1>4, <1>5, <2>2, SMTT(30)
        <3>2. q[j - Len(p)] = due[k + (j - Len(p))] /\ k + (j - Len(p)) = j + 1
            BY <1>2, <1>3, <1>4, <3>1
        <3> QED BY <2>2, <3>1, <3>2
    <2> QED BY <2>1, <2>2
<1> QED BY <1>5, <1>6, <1>7, <1>8 DEF T

(* A program or a command that is started comes last.                       *)
LEMMA ProgramType ==
    ASSUME SetpointTypes, NEW p \in Points, NEW v \in Int
    PROVE  Program(p, v) \in [point : Points, value : Int, route : Via, other : Int]
<1>1. Route(p) \in Via
    BY SetupType, Zenon DEF SetpointTypes, Route, Via
<1>2. p \in Heaters => knownPoint[TheOther(p)] \in Int
    BY SetpointAssumption DEF SetpointTypes, Heaters, TheOther
<1>3. (IF Temps /\ p \in Heaters THEN knownPoint[TheOther(p)] ELSE NotKnown) \in Int
    BY <1>2 DEF NotKnown
<1> QED BY <1>1, <1>3, Zenon DEF Program

(* A program that is added is the last one due.                             *)
LEMMA AppendedIs ==
    ASSUME SetpointTypes, NEW p \in Points, NEW v \in Int, NEW d, d = Append(due, Program(p, v))
    PROVE  /\ d \in Seq([point : Points, value : Int, route : Via, other : Int])
           /\ Len(due) \in Nat /\ DOMAIN due = 1..Len(due) /\ DOMAIN d = 1..(Len(due) + 1)
           /\ \A j \in 1..Len(due) : d[j] = due[j]
           /\ d[Len(due) + 1] = Program(p, v)
<1> DEFINE T == [point : Points, value : Int, route : Via, other : Int]
<1>1. due \in Seq(T) /\ Program(p, v) \in T
    BY ProgramType DEF SetpointTypes
<1> HIDE DEF T
<1>2. /\ d \in Seq(T) /\ Len(d) = Len(due) + 1 /\ \A j \in 1..Len(due) : d[j] = due[j]
      /\ d[Len(due) + 1] = Program(p, v)
    BY <1>1, AppendProperties
<1> QED BY <1>1, <1>2, LenProperties DEF T

-----------------------------------------------------------------------------
(* Types.                                                                   *)
LEMMA SetpointTypesAsk ==
    ASSUME SetpointTypes, NEW p \in Points, AskSetpoint(p) \/ AskIncrement(p)
    PROVE  SetpointTypes'
<1>1. CASE AskSetpoint(p)
    <2>1. PICK c \in AskedC : \E mqtt \in BOOLEAN :
             LET v == IF mqtt THEN (IF units = "C" THEN c ELSE ToF(c)) ELSE OnPanel(c)
             IN /\ pending' = Pending("set", p, setpoint_check(p, v))
                /\ intended' = [intended EXCEPT ![p] = InRange(p, OnPanel(c), PanelUnits)]
                /\ Replaced(p, Moved(p, v) \/ (setup.celsius /\ units = "unknown"))
                /\ UNCHANGED <<setup, units, knownPoint, panelPoint, due, unordered>>
        BY <1>1 DEF AskSetpoint
    <2>2. PICK mqtt \in BOOLEAN :
             LET v == IF mqtt THEN (IF units = "C" THEN c ELSE ToF(c)) ELSE OnPanel(c)
             IN /\ pending' = Pending("set", p, setpoint_check(p, v))
                /\ intended' = [intended EXCEPT ![p] = InRange(p, OnPanel(c), PanelUnits)]
                /\ Replaced(p, Moved(p, v) \/ (setup.celsius /\ units = "unknown"))
                /\ UNCHANGED <<setup, units, knownPoint, panelPoint, due, unordered>>
        BY <2>1
    <2>3. PICK v : v = IF mqtt THEN (IF units = "C" THEN c ELSE ToF(c)) ELSE OnPanel(c)
        OBVIOUS
    <2>4. c \in Int /\ v \in Int /\ OnPanel(c) \in Int
        BY <2>3, SetpointAssumption DEF ToF, OnPanel
    <2>5. setpoint_check(p, v) \in Int /\ InRange(p, OnPanel(c), PanelUnits) \in Int
        BY <2>4, CheckType, InRangeType
    <2>6. pending' = [what |-> "set", point |-> p, value |-> setpoint_check(p, v)]
        BY <2>2, <2>3 DEF Pending
    <2>7. PICK m : m = (Moved(p, v) \/ (setup.celsius /\ units = "unknown"))
        OBVIOUS
    <2>8. m \in BOOLEAN /\ Replaced(p, m)
        BY <2>2, <2>3, <2>7, Zenon
    <2>9. excused' \in [Points -> BOOLEAN]
        BY <2>8, Zenon DEF Replaced, SetpointTypes
    <2>10. intended' \in [Points -> Int]
        BY <2>2, <2>5 DEF SetpointTypes
    <2>11. pending' \in [what : {"none", "set", "increment"}, point : Points, value : Int]
        BY <2>5, <2>6
    <2> QED BY <2>2, <2>9, <2>10, <2>11 DEF SetpointTypes, PanelUnits, Route
<1>2. CASE AskIncrement(p)
    <2>1. excused' \in [Points -> BOOLEAN]
        BY <1>2, Zenon DEF AskIncrement, Replaced, SetpointTypes
    <2>2. intended' \in [Points -> Int]
        BY <1>2 DEF AskIncrement, NotKnown, SetpointTypes
    <2>3. pending' \in [what : {"none", "set", "increment"}, point : Points, value : Int]
        BY <1>2 DEF AskIncrement, Pending
    <2>4. UNCHANGED <<setup, units, knownPoint, panelPoint, due, unordered>>
        BY <1>2 DEF AskIncrement
    <2> QED BY <2>1, <2>2, <2>3, <2>4 DEF SetpointTypes, PanelUnits, Route
<1> QED BY <1>1, <1>2

(* An excuse is a truth value.                                              *)
LEMMA ExcuseType ==
    ASSUME SetpointTypes, NEW p, NEW when \in BOOLEAN, Excuse(p, when)
    PROVE  excused' \in [Points -> BOOLEAN]
<1>1. excused \in [Points -> BOOLEAN] /\ excused' = [excused EXCEPT ![p] = @ \/ when]
    BY DEF SetpointTypes, Excuse
<1> QED BY <1>1, Zenon

(* What is started is sent the way that its set point goes.                 *)
LEMMA SetpointTypesAppend ==
    ASSUME SetpointTypes, NEW p \in Points, NEW v \in Int,
           due' = due \/ due' = Append(due, Program(p, v)),
           UNCHANGED <<setup, units, knownPoint, panelPoint>>,
           intended' \in [Points -> Int], excused' \in [Points -> BOOLEAN],
           unordered' \in BOOLEAN, pending' = NoRequest
    PROVE  SetpointTypes'
<1>1. PICK d : d = due'
    OBVIOUS
<1>2. /\ d \in Seq([point : Points, value : Int, route : Via, other : Int])
      /\ \A k \in DOMAIN d : d[k].route = Route(d[k].point)
    <2>1. CASE due' = due
        BY <1>1, <2>1 DEF SetpointTypes
    <2>2. CASE d = Append(due, Program(p, v))
        <3>1. /\ d \in Seq([point : Points, value : Int, route : Via, other : Int])
              /\ Len(due) \in Nat /\ DOMAIN due = 1..Len(due) /\ DOMAIN d = 1..(Len(due) + 1)
              /\ \A j \in 1..Len(due) : d[j] = due[j]
              /\ d[Len(due) + 1] = Program(p, v)
            BY <2>2, AppendedIs
        <3>2. Program(p, v).route = Route(Program(p, v).point)
            BY DEF Program
        <3>3. \A k \in 1..Len(due) : due[k].route = Route(due[k].point)
            BY <3>1 DEF SetpointTypes
        <3>4. ASSUME NEW k \in 1..(Len(due) + 1) PROVE d[k].route = Route(d[k].point)
            <4>1. k \in 1..Len(due) \/ k = Len(due) + 1
                BY <3>1
            <4> QED BY <3>1, <3>2, <3>3, <4>1
        <3> QED BY <3>1, <3>4
    <2> QED BY <1>1, <2>1, <2>2
<1>3. pending' \in [what : {"none", "set", "increment"}, point : Points, value : Int]
    BY SetpointAssumption DEF NoRequest, Pending
<1>4. (\A k \in DOMAIN due : due[k].route = Route(due[k].point))'
    BY <1>1, <1>2, Zenon DEF Route
<1>5. /\ setup' \in Setups /\ (units \in {"unknown", PanelUnits})'
      /\ knownPoint' \in [Points -> Int] /\ panelPoint' \in [Points -> Int]
    BY Zenon DEF SetpointTypes, PanelUnits
<1> QED BY <1>1, <1>2, <1>3, <1>4, <1>5, Zenon DEF SetpointTypes

(* Acting on the request that was put off keeps the types.                  *)
LEMMA SetpointTypesAct == SetpointTypes /\ ActOnSetpoint => SetpointTypes'
<1> SUFFICES ASSUME SetpointTypes, ActOnSetpoint PROVE SetpointTypes'
    OBVIOUS
<1>1. pending' = NoRequest /\ UNCHANGED <<setup, units, knownPoint, panelPoint>>
    BY DEF ActOnSetpoint
<1>2. /\ pending.point \in Points /\ pending.value \in Int /\ knownPoint[pending.point] \in Int
      /\ panelPoint[pending.point] \in Int
    BY DEF SetpointTypes
<1>3. CASE ActOnSet
    <2>1. PICK p, v : p = pending.point /\ v = setpoint_check(p, pending.value)
        OBVIOUS
    <2>2. p \in Points /\ v \in Int
        BY <1>2, <2>1, CheckType
    <2>3. PICK m \in BOOLEAN : Excuse(p, m)
        BY <1>3, <2>1, Zenon DEF ActOnSet
    <2>4. excused' \in [Points -> BOOLEAN]
        BY <2>3, ExcuseType
    <2>5. /\ due' = due \/ due' = Append(due, Program(p, v))
          /\ UNCHANGED <<intended, unordered>>
        BY <1>3, <2>1 DEF ActOnSet
    <2>6. intended' \in [Points -> Int] /\ unordered' \in BOOLEAN
        BY <2>5 DEF SetpointTypes
    <2> QED BY <1>1, <2>2, <2>4, <2>5, <2>6, SetpointTypesAppend
<1>4. CASE ActOnIncrement
    <2>1. PICK p : p = pending.point
        OBVIOUS
    <2>2. PICK v : v = setpoint_check(p, knownPoint[p] + pending.value)
        OBVIOUS
    <2>3. p \in Points /\ v \in Int
        BY <1>2, <2>1, <2>2, CheckType
    <2>4. PICK m \in BOOLEAN : Excuse(p, m)
        BY <1>4, <2>1, Zenon DEF ActOnIncrement
    <2>5. excused' \in [Points -> BOOLEAN]
        BY <2>4, ExcuseType
    <2>6. due' = Append(due, Program(p, v))
        BY <1>4, <2>1, <2>2 DEF ActOnIncrement
    <2>7. unordered' \in BOOLEAN
        BY <1>4, Zenon DEF ActOnIncrement
    <2>8. intended' \in [Points -> Int]
        <3>1. InRange(p, panelPoint[p] + pending.value, PanelUnits) \in Int
            BY <1>2, <2>1, InRangeType
        <3> QED BY <1>4, <2>1, <3>1 DEF ActOnIncrement, SetpointTypes
    <2> QED BY <1>1, <2>3, <2>5, <2>6, <2>7, <2>8, SetpointTypesAppend
<1> QED BY <1>3, <1>4 DEF ActOnSetpoint

(* What is due is of the types, and goes the way of its set point.          *)
LEMMA DueType ==
    ASSUME SetpointTypes, NEW k \in DOMAIN due
    PROVE  /\ due[k].point \in Points /\ due[k].value \in Int /\ due[k].route \in Via
           /\ due[k].other \in Int /\ due[k].route = Route(due[k].point)
<1>1. due \in Seq([point : Points, value : Int, route : Via, other : Int])
    BY DEF SetpointTypes
<1>2. due[k] \in [point : Points, value : Int, route : Via, other : Int]
    BY <1>1, LenProperties, ElementOfSeq
<1> QED BY <1>2 DEF SetpointTypes

(* What a program sets, as it gets the slot or as it was started with, is a *)
(* temperature.                                                             *)
LEMMA FinalType ==
    ASSUME SetpointTypes, NEW k \in DOMAIN due
    PROVE  Final(due[k]) \in Int /\ SetTo(due[k]) \in Int
<1>1. Final(due[k]) \in Int
    BY DueType, CheckType DEF Final
<1>2. due[k].point \in Points /\ knownPoint[due[k].point] \in Int /\ panelPoint[due[k].point] \in Int
    BY DueType DEF SetpointTypes
<1>3. InRange(due[k].point, panelPoint[due[k].point] + Final(due[k]) - knownPoint[due[k].point],
              PanelUnits) \in Int
    BY <1>1, <1>2, InRangeType
<1> QED BY <1>1, <1>2, <1>3, Zenon DEF SetTo

(* What removes one program that is due keeps the types.                    *)
LEMMA SetpointTypesRemove ==
    ASSUME SetpointTypes, NEW k \in DOMAIN due, due' = Removed(k),
           UNCHANGED <<setup, units, pending, intended>>,
           knownPoint' \in [Points -> Int], panelPoint' \in [Points -> Int],
           excused' \in [Points -> BOOLEAN], unordered' \in BOOLEAN
    PROVE  SetpointTypes'
<1>1. PICK d : d = Removed(k)
    OBVIOUS
<1>2. /\ d \in Seq([point : Points, value : Int, route : Via, other : Int])
      /\ DOMAIN d = 1..(Len(due) - 1)
      /\ \A j \in 1..(Len(due) - 1) : d[j] = IF j < k THEN due[j] ELSE due[j + 1]
    BY <1>1, RemovedIs
<1>3. Len(due) \in Nat /\ DOMAIN due = 1..Len(due)
    BY LenProperties DEF SetpointTypes
<1>4. ASSUME NEW j \in 1..(Len(due) - 1) PROVE d[j].route = Route(d[j].point)
    <2>1. j \in 1..Len(due) /\ j + 1 \in 1..Len(due)
        BY <1>3
    <2>2. \A i \in 1..Len(due) : due[i].route = Route(due[i].point)
        BY <1>3, DueType
    <2> QED BY <1>2, <2>1, <2>2
<1>5. (\A j \in DOMAIN due : due[j].route = Route(due[j].point))'
    BY <1>1, <1>2, <1>4, Zenon DEF Route
<1>6. /\ setup' \in Setups /\ (units \in {"unknown", PanelUnits})' /\ intended' \in [Points -> Int]
      /\ pending' \in [what : {"none", "set", "increment"}, point : Points, value : Int]
    BY Zenon DEF SetpointTypes, PanelUnits
<1> QED BY <1>1, <1>2, <1>5, <1>6, Zenon DEF SetpointTypes

(* The end of a program, with or without success, keeps the types.          *)
LEMMA SetpointTypesDone ==
    ASSUME SetpointTypes, NEW k \in DOMAIN due, SetPanel(k) \/ NotSet(k)
    PROVE  SetpointTypes'
<1>1. PICK n : n = SetTo(due[k])
    OBVIOUS
<1>2. n \in Int
    BY <1>1, FinalType
<1>3. due' = Removed(k) /\ UNCHANGED <<setup, units, pending, intended>>
    BY Zenon DEF SetPanel, NotSet
<1>4. knownPoint' \in [Points -> Int] /\ panelPoint' \in [Points -> Int]
    <2>1. knownPoint \in [Points -> Int] /\ panelPoint \in [Points -> Int]
        BY DEF SetpointTypes
    <2>2. CASE SetPanel(k)
        <3>1. /\ panelPoint' = [panelPoint EXCEPT ![due[k].point] = n]
              /\ knownPoint' = knownPoint \/ knownPoint' = [knownPoint EXCEPT ![due[k].point] = n]
            BY <1>1, <2>2 DEF SetPanel
        <3> QED BY <1>2, <2>1, <3>1
    <2>3. CASE NotSet(k)
        BY <2>1, <2>3, Zenon DEF NotSet
    <2> QED BY <2>2, <2>3
<1>5. excused' \in [Points -> BOOLEAN]
    <2>1. PICK m \in BOOLEAN : Excuse(due[k].point, m)
        BY Zenon DEF SetPanel, NotSet
    <2> QED BY <2>1, ExcuseType
<1>6. unordered' \in BOOLEAN
    BY Zenon DEF SetPanel, NotSet, SetpointTypes
<1> QED BY <1>3, <1>4, <1>5, <1>6, SetpointTypesRemove

(* What is learnt from the panel keeps the types.                           *)
LEMMA SetpointTypesLearn ==
    ASSUME SetpointTypes, NEW p \in Points, LearnUnits \/ LearnSetpoint(p) \/ PanelIsSet(p)
    PROVE  SetpointTypes'
<1>1. CASE LearnUnits
    BY <1>1, Zenon DEF LearnUnits, SetpointTypes, PanelUnits, Route, setpointHistory
<1>2. CASE LearnSetpoint(p)
    <2>1. knownPoint' \in [Points -> Int]
        BY <1>2 DEF LearnSetpoint, SetpointTypes
    <2> QED BY <1>2, <2>1, Zenon DEF LearnSetpoint, SetpointTypes, PanelUnits, Route, setpointHistory
<1>3. CASE PanelIsSet(p)
    <2>1. PICK c \in AskedC :
             /\ panelPoint' = [panelPoint EXCEPT ![p] = InRange(p, OnPanel(c), PanelUnits)]
             /\ intended' = [intended EXCEPT ![p] = NotKnown]
             /\ UNCHANGED <<setup, units, knownPoint, pending, due, excused, unordered>>
        BY <1>3 DEF PanelIsSet
    <2>2. OnPanel(c) \in Int
        BY SetpointAssumption DEF OnPanel, ToF
    <2>3. InRange(p, OnPanel(c), PanelUnits) \in Int
        BY <2>2, InRangeType
    <2>4. panelPoint' \in [Points -> Int] /\ intended' \in [Points -> Int]
        BY <2>1, <2>3 DEF SetpointTypes, NotKnown
    <2> QED BY <2>1, <2>4, Zenon DEF SetpointTypes, PanelUnits, Route
<1> QED BY <1>1, <1>2, <1>3

(* Every step keeps the types.                                              *)
LEMMA SetpointTypesStep == SetpointTypes /\ [SetpointNext]_setpointVars => SetpointTypes'
<1> SUFFICES ASSUME SetpointTypes, [SetpointNext]_setpointVars PROVE SetpointTypes'
    OBVIOUS
<1>1. CASE UNCHANGED setpointVars
    BY <1>1, Zenon DEF setpointVars, SetpointTypes, PanelUnits, Route
<1>2. CASE LearnUnits
    BY <1>2, SetpointTypesLearn, SetpointAssumption
<1> QED BY <1>1, <1>2, SetpointTypesAsk, SetpointTypesAct, SetpointTypesDone, SetpointTypesLearn
        DEF SetpointNext

-----------------------------------------------------------------------------
(* Every step keeps what is said of an increment that is put off.           *)
LEMMA IncrementingStep ==
    SetpointTypes /\ Incrementing /\ [SetpointNext]_setpointVars => Incrementing'
<1> SUFFICES ASSUME SetpointTypes, Incrementing, [SetpointNext]_setpointVars PROVE Incrementing'
    OBVIOUS
<1>1. ASSUME NEW p \in Points, AskSetpoint(p) PROVE Incrementing'
    BY <1>1 DEF AskSetpoint, Incrementing, Pending
<1>2. ASSUME NEW p \in Points, AskIncrement(p) PROVE Incrementing'
    <2>1. pending'.point = p /\ intended'[p] = NotKnown /\ setup' = setup
        BY <1>2 DEF AskIncrement, Pending, SetpointTypes
    <2> QED BY <1>2, <2>1 DEF AskIncrement, Incrementing, Heaters
<1>3. CASE ActOnSetpoint
    BY <1>3 DEF ActOnSetpoint, Incrementing, NoRequest, Pending
<1>4. ASSUME NEW p \in Points, PanelIsSet(p) PROVE Incrementing'
    <2>1. intended' = [intended EXCEPT ![p] = NotKnown] /\ UNCHANGED <<setup, pending>>
        BY <1>4 DEF PanelIsSet
    <2> QED BY <2>1 DEF Incrementing, SetpointTypes, Heaters
<1>5. CASE \/ \E p \in Points : LearnSetpoint(p)
           \/ \E k \in DOMAIN due : SetPanel(k) \/ NotSet(k)
           \/ LearnUnits \/ UNCHANGED setpointVars
    <2>1. UNCHANGED <<setup, pending, intended>>
        BY <1>5, Zenon DEF LearnSetpoint, SetPanel, NotSet, LearnUnits, setpointVars, setpointHistory
    <2> QED BY <2>1, Zenon DEF Incrementing, Heaters
<1> QED BY <1>1, <1>2, <1>3, <1>4, <1>5 DEF SetpointNext

-----------------------------------------------------------------------------
(* TEMP1 above TEMP2.  What is sound stays so when the units get known.     *)
LEMMA SoundStays ==
    setup' = setup /\ (units = "unknown" \/ units' = units) => \A g : Sound(g) => Sound(g)'
<1> SUFFICES ASSUME setup' = setup, units = "unknown" \/ units' = units, NEW g, Sound(g)
             PROVE  Sound(g)'
    OBVIOUS
<1>1. \A v, p : IsIn(v, p)' <=> IsIn(v, p)
    BY ZenonT(40) DEF IsIn, PanelUnits, Least, Most, Heaters
<1>2. CASE g.route \in Queued
    BY <1>1, <1>2, Zenon DEF Sound, Above, TheOther, Queued
<1>3. CASE g.route \notin Queued
    BY <1>3, Zenon DEF Sound, Queued
<1> QED BY <1>2, <1>3

(* Nothing is out of order if the panel stays as it is and nothing is added *)
(* that is not sound.                                                       *)
LEMMA OrderStays ==
    ASSUME OrderKept, setup' = setup, units = "unknown" \/ units' = units,
           panelPoint' = panelPoint, unordered => unordered',
           Temps /\ ~unordered' =>
               \A g \in AllDue' : g \in AllDue \/ (g.point \in Heaters => Sound(g))
    PROVE  OrderKept'
<1> SUFFICES ASSUME Temps', ~unordered'
             PROVE  PanelOrdered' /\ (\A g \in AllDue : g.point \in Heaters => Sound(g))'
    BY DEF OrderKept
<1>1. Temps /\ ~unordered
    BY DEF Temps
<1>2. PanelOrdered
    BY <1>1 DEF OrderKept
<1>3. PanelOrdered'
    BY <1>2, Zenon DEF PanelOrdered, IsIn, PanelUnits, Least, Most, Heaters
<1>4. ASSUME NEW g \in AllDue', g.point \in Heaters PROVE Sound(g)'
    <2>1. Sound(g)
        BY <1>1, <1>4 DEF OrderKept
    <2> QED BY <2>1, SoundStays
<1> QED BY <1>3, <1>4, Zenon DEF Heaters

(* A heater's command is sound when it is started in the panel's units.     *)
LEMMA ProgramSound ==
    ASSUME SetpointTypes, UnitsKnown, NEW p \in Heaters, NEW x \in Int, Temps,
           units # "unknown" \/ Route(p) \in Queued
    PROVE  Sound(Program(p, setpoint_check(p, x)))
<1>1. PICK g : g = Program(p, setpoint_check(p, x))
    OBVIOUS
<1>2. /\ g.route = Route(p) /\ g.point = p /\ g.value = setpoint_check(p, x)
      /\ g.other = knownPoint[TheOther(p)]
    BY <1>1 DEF Program
<1>3. ASSUME IsIn(g.other, TheOther(p)), g.other # NotKnown
      PROVE  IsIn(g.value, p) /\ Above(p, g.value, g.other)
    BY <1>2, <1>3, CheckOrders
<1> QED BY <1>1, <1>2, <1>3, Zenon DEF Sound

(* Acting on a request keeps the order of TEMP1 and TEMP2, or says that it  *)
(* may not.                                                                 *)
LEMMA OrderAct ==
    ASSUME SetpointTypes, Incrementing, OrderKept, ActOnSetpoint
    PROVE  OrderKept'
<1>1. setup' = setup /\ units' = units /\ panelPoint' = panelPoint /\ knownPoint' = knownPoint
    BY DEF ActOnSetpoint
<1>2. pending.point \in Points /\ pending.value \in Int /\ knownPoint[pending.point] \in Int
    BY DEF SetpointTypes
<1>3. unordered => unordered'
    BY Zenon DEF ActOnSetpoint, ActOnSet, ActOnIncrement
<1>4. PICK x : /\ x \in Int
               /\ \/ due' = due
                  \/ due' = Append(due, Program(pending.point, setpoint_check(pending.point, x)))
    <2>1. CASE ActOnSet
        BY <1>2, <2>1 DEF ActOnSet
    <2>2. CASE ActOnIncrement
        <3>1. knownPoint[pending.point] + pending.value \in Int
            BY <1>2
        <3> QED BY <2>2, <3>1 DEF ActOnIncrement
    <2> QED BY <2>1, <2>2 DEF ActOnSetpoint
<1>5. ASSUME Temps, ~unordered', pending.point \in Heaters
      PROVE  UnitsKnown /\ (units # "unknown" \/ Route(pending.point) \in Queued)
    <2>1. CASE ActOnSet
        BY <2>1 DEF ActOnSet, UnitsKnown
    <2>2. CASE ActOnIncrement
        <3>1. UnitsKnown
            BY <1>5, <2>2, Zenon DEF ActOnIncrement, UnitsKnown
        <3>2. setup.via = "adapter" /\ pending.point \in {"pool", "spa"}
            BY <1>5, <2>2 DEF ActOnIncrement, Incrementing, Heaters
        <3>3. Route(pending.point) \in Queued
            BY <3>2 DEF Route, Queued
        <3> QED BY <3>1, <3>3
    <2> QED BY <2>1, <2>2 DEF ActOnSetpoint
<1>6. ASSUME Temps, ~unordered', NEW g \in AllDue', g \notin AllDue, g.point \in Heaters
      PROVE  Sound(g)
    <2>1. PICK p, v : p = pending.point /\ v = setpoint_check(p, x)
        OBVIOUS
    <2>2. PICK d : d = due'
        OBVIOUS
    <2>3. d = due \/ d = Append(due, Program(p, v))
        BY <1>4, <2>1, <2>2
    <2>4. PICK k \in DOMAIN d : g = d[k]
        BY <1>6, <2>2 DEF AllDue
    <2>5. d = Append(due, Program(p, v)) /\ v \in Int
        BY <1>2, <1>4, <1>6, <2>1, <2>3, <2>4, CheckType DEF AllDue
    <2>6. /\ DOMAIN due = 1..Len(due) /\ DOMAIN d = 1..(Len(due) + 1) /\ Len(due) \in Nat
          /\ \A j \in 1..Len(due) : d[j] = due[j]
          /\ d[Len(due) + 1] = Program(p, v)
        BY <1>2, <2>1, <2>5, AppendedIs
    <2>7. g = Program(p, v)
        <3>1. k \in 1..Len(due) \/ k = Len(due) + 1
            BY <2>6
        <3> QED BY <1>6, <2>4, <2>6, <3>1 DEF AllDue
    <2>8. p \in Heaters
        BY <1>6, <2>7 DEF Program
    <2> QED BY <1>4, <1>5, <1>6, <2>1, <2>7, <2>8, ProgramSound
<1>7. Temps /\ ~unordered' =>
          \A g \in AllDue' : g \in AllDue \/ (g.point \in Heaters => Sound(g))
    BY <1>6, Zenon
<1> QED BY <1>1, <1>3, <1>7, OrderStays, Zenon

(* Removing a program adds none.                                            *)
LEMMA RemovedDues ==
    ASSUME SetpointTypes, NEW k \in DOMAIN due, due' = Removed(k)
    PROVE  AllDue' \subseteq AllDue
<1>1. PICK d : d = Removed(k)
    OBVIOUS
<1>2. /\ DOMAIN d = 1..(Len(due) - 1) /\ DOMAIN due = 1..Len(due) /\ Len(due) \in Nat
      /\ \A j \in 1..(Len(due) - 1) : d[j] = IF j < k THEN due[j] ELSE due[j + 1]
    BY <1>1, RemovedIs, LenProperties DEF SetpointTypes
<1>3. ASSUME NEW j \in 1..(Len(due) - 1) PROVE d[j] \in AllDue
    <2>1. j \in DOMAIN due /\ j + 1 \in DOMAIN due
        BY <1>2
    <2> QED BY <1>2, <2>1 DEF AllDue
<1> QED BY <1>1, <1>2, <1>3 DEF AllDue

(* A program that limits a heater's value as the panel is leaves it in      *)
(* order.                                                                   *)
LEMMA SetInOrder ==
    ASSUME SetpointTypes, OrderKept, Temps, ~unordered, NEW k \in DOMAIN due, SetPanel(k),
           due[k].point \in Heaters, ~Miscounted(due[k]), ~LimitedByOld(due[k])
    PROVE  /\ IsIn(SetTo(due[k]), due[k].point)
           /\ Above(due[k].point, SetTo(due[k]), panelPoint[TheOther(due[k].point)])
<1>1. PICK g, p, q : g = due[k] /\ p = g.point /\ q = TheOther(p)
    OBVIOUS
<1>2. /\ p \in Points /\ q \in Points /\ p \in Heaters /\ q \in Heaters /\ g.value \in Int
      /\ g.point = p /\ knownPoint[q] \in Int /\ panelPoint[q] \in Int
      /\ knownPoint[p] \in Int /\ panelPoint[p] \in Int
    BY <1>1, DueType, SetpointAssumption DEF SetpointTypes, Heaters, TheOther
<1>3. g.point \in Heaters => Sound(g)
    BY <1>1 DEF OrderKept, AllDue
<1>4. Sound(g)
    BY <1>2, <1>3
<1>5. IsIn(panelPoint[q], q)
    BY <1>2 DEF OrderKept, PanelOrdered
<1>6. panelPoint[q] # NotKnown
    BY <1>2, <1>5 DEF IsIn, NotKnown, Least, Heaters
<1>7. panelPoint[q] = IF ChecksAgain(g) THEN knownPoint[q] ELSE g.other
    BY <1>1, <1>2, Zenon DEF LimitedByOld
<1>8. IsIn(Final(g), p) /\ Above(p, Final(g), panelPoint[q]) /\ Final(g) \in Int
    <2>1. CASE ChecksAgain(g)
        <3>1. units # "unknown" /\ UnitsKnown
            BY <1>4, <2>1 DEF Sound, ChecksAgain, UnitsKnown
        <3>2. Final(g) = setpoint_check(p, g.value) /\ panelPoint[q] = knownPoint[TheOther(p)]
            BY <1>1, <1>7, <2>1 DEF Final
        <3>3. IsIn(setpoint_check(p, g.value), p) /\ Above(p, setpoint_check(p, g.value), panelPoint[q])
            BY <1>1, <1>2, <1>5, <1>6, <3>1, <3>2, CheckOrders
        <3> QED BY <1>2, <3>2, <3>3, CheckType
    <2>2. CASE ~ChecksAgain(g)
        <3>1. g.route \in Queued
            BY <1>2, <2>2 DEF ChecksAgain, Heaters
        <3>2. panelPoint[q] = g.other /\ Final(g) = g.value
            BY <1>7, <2>2 DEF Final
        <3> QED BY <1>1, <1>2, <1>4, <1>5, <1>6, <3>1, <3>2 DEF Sound
    <2> QED BY <2>1, <2>2
<1>9. SetTo(g) = Final(g)
    <2>1. CASE g.route # "pda"
        BY <2>1 DEF SetTo
    <2>2. CASE g.route = "pda"
        <3>1. knownPoint[p] = panelPoint[p]
            BY <1>1, <2>2 DEF Miscounted
        <3>2. panelPoint[p] + Final(g) - knownPoint[p] = Final(g)
            BY <1>2, <1>8, <3>1
        <3>3. InRange(p, Final(g), PanelUnits) = Final(g)
            BY <1>8, LimitTypes DEF IsIn, InRange, Within
        <3> QED BY <1>1, <2>2, <3>1, <3>2, <3>3 DEF SetTo
    <2> QED BY <2>1, <2>2
<1> QED BY <1>1, <1>8, <1>9

(* Setting the panel keeps the order.                                       *)
LEMMA OrderSet ==
    ASSUME SetpointTypes, OrderKept, NEW k \in DOMAIN due, SetPanel(k)
    PROVE  OrderKept'
<1> SUFFICES ASSUME Temps', ~unordered'
             PROVE  PanelOrdered' /\ (\A g \in AllDue : g.point \in Heaters => Sound(g))'
    BY DEF OrderKept
<1>1. /\ due' = Removed(k) /\ setup' = setup /\ units' = units
      /\ panelPoint' = [panelPoint EXCEPT ![due[k].point] = SetTo(due[k])]
    BY DEF SetPanel
<1>2. /\ Temps /\ ~unordered
      /\ due[k].point \in Heaters => ~Miscounted(due[k]) /\ ~LimitedByOld(due[k])
    BY <1>1, Zenon DEF SetPanel, Temps, LimitedByOld
<1>3. PanelOrdered
    BY <1>2 DEF OrderKept
<1>4. PICK p, n : p = due[k].point /\ n = SetTo(due[k])
    OBVIOUS
<1>5. p \in Points /\ n \in Int /\ panelPoint' = [panelPoint EXCEPT ![p] = n]
    BY <1>1, <1>4, DueType, FinalType
<1>6. panelPoint \in [Points -> Int] /\ {"pool", "spa"} \subseteq Points
    BY SetpointAssumption DEF SetpointTypes
<1>7. \A q \in Heaters : IsIn(panelPoint'[q], q)
    <2>1. p \in Heaters => IsIn(n, p)
        BY <1>2, <1>4, SetInOrder
    <2> QED BY <1>3, <1>5, <1>6, <2>1 DEF PanelOrdered, Heaters
<1>8. panelPoint'["pool"] > panelPoint'["spa"]
    <2>1. p \in Heaters => Above(p, n, panelPoint[TheOther(p)])
        BY <1>2, <1>4, SetInOrder
    <2> QED BY <1>3, <1>5, <1>6, <2>1 DEF PanelOrdered, Heaters, Above, TheOther
<1>9. PanelOrdered'
    <2>1. \A v, q : IsIn(v, q) => IsIn(v, q)'
        BY <1>1, Zenon DEF IsIn, Least, Most, PanelUnits, Heaters
    <2> QED BY <1>7, <1>8, <2>1, Zenon DEF PanelOrdered, Heaters
<1>10. AllDue' \subseteq AllDue
    BY <1>1, RemovedDues
<1>11. ASSUME NEW g \in AllDue', g.point \in Heaters PROVE Sound(g)'
    <2>1. Sound(g)
        BY <1>2, <1>10, <1>11 DEF OrderKept
    <2> QED BY <1>1, <2>1, SoundStays, Zenon
<1> QED BY <1>9, <1>11, Zenon DEF Heaters

(* Requests, failures and what is learnt keep the order.                    *)
LEMMA OrderOther ==
    ASSUME SetpointTypes, OrderKept, NEW p \in Points,
           \/ AskSetpoint(p) \/ AskIncrement(p) \/ LearnSetpoint(p) \/ LearnUnits
           \/ UNCHANGED setpointVars \/ \E k \in DOMAIN due : NotSet(k)
    PROVE  OrderKept'
<1>1. /\ setup' = setup /\ panelPoint' = panelPoint /\ unordered' = unordered
      /\ units = "unknown" \/ units' = units
    BY Zenon DEF AskSetpoint, AskIncrement, LearnSetpoint, LearnUnits, NotSet, setpointVars,
                 setpointHistory, PanelUnits
<1>2. due' = due \/ \E k \in DOMAIN due : due' = Removed(k)
    BY Zenon DEF AskSetpoint, AskIncrement, LearnSetpoint, LearnUnits, NotSet, setpointVars
<1>3. AllDue' \subseteq AllDue
    BY <1>2, RemovedDues DEF AllDue
<1> QED BY <1>1, <1>3, OrderStays

(* The panel itself keeps TEMP1 above TEMP2.                                *)
LEMMA OrderPanel ==
    ASSUME SetpointTypes, OrderKept, NEW p \in Points, PanelIsSet(p)
    PROVE  OrderKept'
<1>1. PICK c \in AskedC :
         /\ panelPoint' = [panelPoint EXCEPT ![p] = InRange(p, OnPanel(c), PanelUnits)]
         /\ Temps => panelPoint'["pool"] > panelPoint'["spa"]
         /\ UNCHANGED <<setup, units, due, unordered>>
    BY DEF PanelIsSet
<1>2. PICK n : n = InRange(p, OnPanel(c), PanelUnits)
    OBVIOUS
<1>3. OnPanel(c) \in Int /\ setup.single \in BOOLEAN
    BY SetpointAssumption, SetupType DEF OnPanel, ToF, SetpointTypes
<1>4. p \in Heaters => IsIn(n, p)
    BY <1>2, <1>3 DEF IsIn, InRange, Within, Least, Most, Heaters
<1> SUFFICES ASSUME Temps', ~unordered'
             PROVE  PanelOrdered' /\ (\A g \in AllDue : g.point \in Heaters => Sound(g))'
    BY DEF OrderKept
<1>5. Temps /\ ~unordered
    BY <1>1 DEF Temps
<1>6. PanelOrdered /\ \A g \in AllDue : g.point \in Heaters => Sound(g)
    BY <1>5 DEF OrderKept
<1>7. \A q \in Heaters : IsIn(panelPoint'[q], q)
    BY <1>1, <1>2, <1>4, <1>6, SetpointAssumption DEF PanelOrdered, Heaters, SetpointTypes
<1>8. PanelOrdered'
    <2>1. \A v, q : IsIn(v, q) => IsIn(v, q)'
        BY <1>1, Zenon DEF IsIn, Least, Most, PanelUnits, Heaters
    <2> QED BY <1>1, <1>5, <1>7, <2>1, Zenon DEF PanelOrdered, Heaters
<1>9. AllDue' = AllDue
    BY <1>1 DEF AllDue
<1>10. ASSUME NEW g \in AllDue', g.point \in Heaters PROVE Sound(g)'
    <2>1. Sound(g)
        BY <1>6, <1>9, <1>10
    <2> QED BY <1>1, <2>1, SoundStays, Zenon
<1> QED BY <1>8, <1>10, Zenon DEF Heaters

(* Every step keeps the order.                                              *)
LEMMA OrderStep ==
    SetpointTypes /\ Incrementing /\ OrderKept /\ [SetpointNext]_setpointVars => OrderKept'
<1> SUFFICES ASSUME SetpointTypes, Incrementing, OrderKept, [SetpointNext]_setpointVars
             PROVE  OrderKept'
    OBVIOUS
<1>1. "pool" \in Points
    BY SetpointAssumption
<1>2. CASE LearnUnits \/ UNCHANGED setpointVars \/ \E k \in DOMAIN due : NotSet(k)
    BY <1>1, <1>2, OrderOther
<1> QED BY <1>2, OrderAct, OrderSet, OrderOther, OrderPanel DEF SetpointNext

-----------------------------------------------------------------------------
(* What was asked for.  It stays underway if it is not asked for again,     *)
(* nothing is done for it and its set point stays as it is.                 *)
LEMMA UnderwayStays ==
    ASSUME NEW p, Underway(p), setup' = setup, units' = units,
           intended'[p] = intended[p], panelPoint'[p] = panelPoint[p],
           DueFor(p)' = DueFor(p), \A k \in DueFor(p) : due'[k] = due[k],
           AsksFor(p)' <=> AsksFor(p), AsksFor(p) => pending' = pending
    PROVE  Underway(p)'
<1>1. Route(p)' = Route(p) /\ (\A q : Route(q)' = Route(q)) /\ PanelUnits' = PanelUnits
    BY Zenon DEF Route, PanelUnits
<1>2. InRange(p, intended[p], PanelUnits)' = intended'[p] /\ UnitsKnown'
    BY <1>1 DEF Underway, InRange, Within, Least, Most, UnitsKnown, Heaters
<1>3. AsksFor(p)' => pending'.value = intended'[p]
    BY DEF Underway
<1>4. \A k : LastFor(p, k)' <=> LastFor(p, k)
    BY Zenon DEF LastFor
<1>5. ~AsksFor(p)' =>
          /\ DueFor(p)' = {} => panelPoint'[p] = intended'[p]
          /\ \A k \in DOMAIN due' : LastFor(p, k)' => due'[k].value = intended'[p]
          /\ \A j, k \in DueFor(p)' : j # k => Route(p)' \in Queued
    BY <1>1, <1>4, Zenon DEF Underway, LastFor, DueFor
<1> QED BY <1>2, <1>3, <1>5 DEF Underway, Queued

(* What was asked for is converted to the panel's units and limited as the  *)
(* panel would, unless that is excused.                                     *)
LEMMA AskedAsk ==
    ASSUME SetpointTypes, AskedKept, NEW p \in Points, AskSetpoint(p)
    PROVE  AskedKept'
<1>1. PICK c \in AskedC : \E mqtt \in BOOLEAN :
         LET v == IF mqtt THEN (IF units = "C" THEN c ELSE ToF(c)) ELSE OnPanel(c)
         IN /\ pending' = Pending("set", p, setpoint_check(p, v))
            /\ intended' = [intended EXCEPT ![p] = InRange(p, OnPanel(c), PanelUnits)]
            /\ Replaced(p, Moved(p, v) \/ (setup.celsius /\ units = "unknown"))
            /\ UNCHANGED <<setup, units, knownPoint, panelPoint, due>>
    BY DEF AskSetpoint
<1>2. PICK mqtt \in BOOLEAN :
         LET v == IF mqtt THEN (IF units = "C" THEN c ELSE ToF(c)) ELSE OnPanel(c)
         IN /\ pending' = Pending("set", p, setpoint_check(p, v))
            /\ intended' = [intended EXCEPT ![p] = InRange(p, OnPanel(c), PanelUnits)]
            /\ Replaced(p, Moved(p, v) \/ (setup.celsius /\ units = "unknown"))
            /\ UNCHANGED <<setup, units, knownPoint, panelPoint, due>>
    BY <1>1
<1>3. PICK v : v = IF mqtt THEN (IF units = "C" THEN c ELSE ToF(c)) ELSE OnPanel(c)
    OBVIOUS
<1>4. c \in Int /\ OnPanel(c) \in Int /\ intended \in [Points -> Int]
    BY SetpointAssumption DEF ToF, OnPanel, SetpointTypes
<1>5. /\ pending'.what = "set" /\ pending'.point = p /\ pending'.value = setpoint_check(p, v)
      /\ intended' = [intended EXCEPT ![p] = InRange(p, OnPanel(c), PanelUnits)]
      /\ UNCHANGED <<setup, units, panelPoint, due>>
    BY <1>2, <1>3 DEF Pending
<1>6. PICK m \in BOOLEAN : (m <=> (Moved(p, v) \/ (setup.celsius /\ units = "unknown"))) /\ Replaced(p, m)
    BY <1>2, <1>3, Zenon
<1>7. excused' = [q \in Points |-> IF q = p THEN m
                                   ELSE excused[q] \/ (pending # NoRequest /\ pending.point = q)]
    BY <1>6 DEF Replaced
<1>8. ASSUME NEW q \in Points, q # p, intended'[q] # NotKnown, ~excused'[q] PROVE Underway(q)'
    <2>1. ~excused[q] /\ ~(pending # NoRequest /\ pending.point = q)
        BY <1>7, <1>8, Zenon
    <2>2. ~AsksFor(q) /\ ~AsksFor(q)'
        BY <1>5, <1>8, <2>1 DEF AsksFor, NoRequest, Pending
    <2>3. intended'[q] = intended[q]
        BY <1>4, <1>5, <1>8
    <2>4. Underway(q)
        BY <1>8, <2>1, <2>3 DEF AskedKept
    <2>5. panelPoint'[q] = panelPoint[q] /\ DueFor(q)' = DueFor(q) /\ \A k \in DueFor(q) : due'[k] = due[k]
        BY <1>5 DEF DueFor
    <2> QED BY <1>5, <2>2, <2>3, <2>4, <2>5, UnderwayStays
<1>9. ASSUME ~excused'[p] PROVE Underway(p)'
    <2>1. ~Moved(p, v) /\ UnitsKnown
        BY <1>6, <1>7, <1>9, Zenon DEF UnitsKnown
    <2>2. v = OnPanel(c)
        BY <1>3, <2>1, SetupType DEF UnitsKnown, OnPanel, PanelUnits, SetpointTypes
    <2>3. setpoint_check(p, v) = InRange(p, OnPanel(c), PanelUnits)
        BY <2>1, <2>2, SameLimits DEF Moved
    <2>4. intended'[p] = InRange(p, OnPanel(c), PanelUnits)
        BY <1>4, <1>5
    <2>5. InRange(p, intended'[p], PanelUnits) = intended'[p]
        BY <1>4, <2>4, InRangeTwice
    <2>6. InRange(p, intended[p], PanelUnits)' = InRange(p, intended'[p], PanelUnits)
        <3>1. setup' = setup
            BY <1>5
        <3> QED BY <3>1, Zenon DEF InRange, Within, Least, Most, Heaters, PanelUnits
    <2>7. UnitsKnown' /\ AsksFor(p)' /\ pending'.value = intended'[p]
        BY <1>5, <2>1, <2>3, <2>4 DEF UnitsKnown, AsksFor
    <2> QED BY <2>5, <2>6, <2>7 DEF Underway
<1> QED BY <1>8, <1>9, Zenon DEF AskedKept

(* Nothing that is underway is disturbed by an increment of another one.    *)
LEMMA AskedIncrement ==
    ASSUME SetpointTypes, AskedKept, NEW p \in Points, AskIncrement(p)
    PROVE  AskedKept'
<1>1. /\ pending'.what = "increment" /\ intended' = [intended EXCEPT ![p] = NotKnown]
      /\ UNCHANGED <<setup, units, panelPoint, due>>
      /\ excused' = [q \in Points |-> IF q = p THEN FALSE
                                      ELSE excused[q] \/ (pending # NoRequest /\ pending.point = q)]
    BY Zenon DEF AskIncrement, Replaced, Pending
<1>2. ASSUME NEW q \in Points, intended'[q] # NotKnown, ~excused'[q] PROVE Underway(q)'
    <2>1. q # p /\ intended'[q] = intended[q]
        BY <1>1, <1>2 DEF SetpointTypes
    <2>2. ~excused[q] /\ ~(pending # NoRequest /\ pending.point = q)
        BY <1>1, <1>2, <2>1, Zenon
    <2>3. ~AsksFor(q) /\ ~AsksFor(q)'
        BY <1>1, <2>2 DEF AsksFor, NoRequest, Pending
    <2>4. Underway(q)
        BY <1>2, <2>1, <2>2 DEF AskedKept
    <2>5. panelPoint'[q] = panelPoint[q] /\ DueFor(q)' = DueFor(q) /\ \A k \in DueFor(q) : due'[k] = due[k]
        BY <1>1 DEF DueFor
    <2> QED BY <1>1, <2>1, <2>3, <2>4, <2>5, UnderwayStays
<1> QED BY <1>2 DEF AskedKept

(* Where no set point is set, asked for or put off, what is underway stays  *)
(* so; the panel's own changes are nobody's intention.                      *)
LEMMA AskedLearn ==
    ASSUME SetpointTypes, AskedKept, NEW p \in Points,
           LearnUnits \/ LearnSetpoint(p) \/ PanelIsSet(p) \/ UNCHANGED setpointVars
    PROVE  AskedKept'
<1>1. UNCHANGED <<setup, due, pending, excused>> /\ (units' = units \/ units = "unknown")
    BY Zenon DEF LearnUnits, LearnSetpoint, PanelIsSet, setpointVars, setpointHistory
<1>2. ASSUME NEW q \in Points, intended'[q] # NotKnown
      PROVE  intended'[q] = intended[q] /\ panelPoint'[q] = panelPoint[q]
    <2>1. CASE PanelIsSet(p)
        <3>1. PICK n : /\ panelPoint' = [panelPoint EXCEPT ![p] = n]
                       /\ intended' = [intended EXCEPT ![p] = NotKnown]
            BY <2>1 DEF PanelIsSet
        <3> QED BY <1>2, <3>1 DEF SetpointTypes
    <2>2. CASE ~PanelIsSet(p)
        BY <2>2, Zenon DEF LearnUnits, LearnSetpoint, setpointVars, setpointHistory
    <2> QED BY <2>1, <2>2
<1>3. ASSUME NEW q \in Points, intended'[q] # NotKnown, ~excused'[q] PROVE Underway(q)'
    <2>1. Underway(q)
        BY <1>1, <1>2, <1>3 DEF AskedKept
    <2>2. InRange(q, intended[q], PanelUnits)' = intended'[q]
        <3>1. InRange(q, intended[q], PanelUnits)' = InRange(q, intended[q], PanelUnits)
            BY <1>1, <1>2, <1>3, ZenonT(40) DEF InRange, Within, Least, Most, Heaters, PanelUnits
        <3> QED BY <1>2, <1>3, <2>1, <3>1 DEF Underway
    <2>3. UnitsKnown'
        <3>1. units' = units \/ units' = PanelUnits
            BY Zenon DEF LearnUnits, LearnSetpoint, PanelIsSet, setpointVars
        <3> QED BY <1>1, <2>1, <3>1 DEF Underway, UnitsKnown, PanelUnits
    <2>4. AsksFor(q)' <=> AsksFor(q)
        BY <1>1, Zenon DEF AsksFor
    <2>5. DueFor(q)' = DueFor(q) /\ \A k : LastFor(q, k)' <=> LastFor(q, k)
        BY <1>1, Zenon DEF DueFor, LastFor
    <2>6. Route(q)' = Route(q)
        BY <1>1, Zenon DEF Route
    <2>7. AsksFor(q)' => pending'.value = intended'[q]
        BY <1>1, <1>2, <1>3, <2>1, <2>4 DEF Underway
    <2>8. ~AsksFor(q)' =>
              /\ DueFor(q)' = {} => panelPoint'[q] = intended'[q]
              /\ \A k \in DOMAIN due' : LastFor(q, k)' => due'[k].value = intended'[q]
              /\ \A j, k \in DueFor(q)' : j # k => Route(q)' \in Queued
        BY <1>1, <1>2, <1>3, <2>1, <2>4, <2>5, <2>6, Zenon DEF Underway
    <2> QED BY <2>2, <2>3, <2>7, <2>8 DEF Underway, Queued
<1> QED BY <1>3 DEF AskedKept

(* What is there already, with nothing due, is underway.                    *)
LEMMA UnderwayThere ==
    ASSUME NEW p, UnitsKnown, setup' = setup, units' = units, intended' = intended,
           InRange(p, intended[p], PanelUnits) = intended[p],
           ~AsksFor(p)', panelPoint'[p] = intended'[p], DueFor(p)' = {}
    PROVE  Underway(p)'
<1>1. InRange(p, intended[p], PanelUnits)' = intended'[p] /\ UnitsKnown'
    BY Zenon DEF InRange, Within, Least, Most, UnitsKnown, Heaters, PanelUnits
<1>2. \A k \in DOMAIN due' : LastFor(p, k)' => due'[k].value = intended'[p]
    BY DEF LastFor
<1> QED BY <1>1, <1>2 DEF Underway

(* What a request is acted on for is what was intended, unless excused.     *)
LEMMA AskedAct ==
    ASSUME SetpointTypes, AskedKept, ActOnSetpoint
    PROVE  AskedKept'
<1>1. pending' = NoRequest /\ UNCHANGED <<setup, units, knownPoint, panelPoint>>
    BY DEF ActOnSetpoint
<1>2. PICK p : p = pending.point
    OBVIOUS
<1>3. /\ p \in Points /\ pending.value \in Int /\ knownPoint[p] \in Int /\ panelPoint[p] \in Int
      /\ intended \in [Points -> Int] /\ intended[p] \in Int
    BY <1>2 DEF SetpointTypes
<1>4. PICK x : x = IF pending.what = "set" THEN pending.value ELSE knownPoint[p] + pending.value
    OBVIOUS
<1>5. PICK v : v = setpoint_check(p, x)
    OBVIOUS
<1>6. x \in Int /\ v \in Int
    BY <1>3, <1>4, <1>5, CheckType
<1>7. due' = due \/ due' = Append(due, Program(p, v))
    BY <1>2, <1>4, <1>5, Zenon DEF ActOnSetpoint, ActOnSet, ActOnIncrement
<1>8. \A q : ~AsksFor(q)'
    BY <1>1 DEF AsksFor, NoRequest, Pending
<1>9. /\ \A q \in Points : q # p => intended'[q] = intended[q]
      /\ \A q \in Points : ~excused'[q] => ~excused[q]
    <2>1. CASE ActOnSet
        <3>1. PICK m \in BOOLEAN : Excuse(p, m)
            BY <1>2, <2>1, Zenon DEF ActOnSet
        <3> QED BY <2>1, <3>1, Zenon DEF ActOnSet, Excuse, SetpointTypes
    <2>2. CASE ActOnIncrement
        <3>1. PICK m \in BOOLEAN : Excuse(p, m)
            BY <1>2, <2>2, Zenon DEF ActOnIncrement
        <3>2. \A q \in Points : ~excused'[q] => ~excused[q]
            BY <3>1, Zenon DEF Excuse, SetpointTypes
        <3> QED BY <1>2, <1>3, <2>2, <3>2 DEF ActOnIncrement
    <2> QED BY <2>1, <2>2 DEF ActOnSetpoint
<1>10. PICK d : d = due'
    OBVIOUS
<1>11. ASSUME ActOnSet
       PROVE  /\ pending.what = "set" /\ units # "unknown" /\ x = pending.value
              /\ intended' = intended
              /\ \E m \in BOOLEAN : Excuse(p, m) /\ (m <=>
                     \/ Moved(p, x) \/ (knownPoint[p] = v /\ panelPoint[p] # v)
                     \/ (knownPoint[p] = v \/ Route(p) \notin Queued) /\ IsDue(p))
    <2>1. pending.what = "set" /\ units # "unknown" /\ intended' = intended
        BY <1>11 DEF ActOnSet
    <2>2. x = pending.value
        BY <1>4, <2>1
    <2>3. PICK m : /\ Excuse(pending.point, m)
                   /\ m = LET p_ == pending.point
                              v_ == setpoint_check(p_, pending.value)
                          IN \/ Moved(p_, pending.value)
                             \/ knownPoint[p_] = v_ /\ panelPoint[p_] # v_
                             \/ (knownPoint[p_] = v_ \/ Route(p_) \notin Queued) /\ IsDue(p_)
        BY <1>11, Zenon DEF ActOnSet
    <2>4. m \in BOOLEAN
        BY <2>3, Zenon
    <2>5. m <=> \/ Moved(p, x) \/ (knownPoint[p] = v /\ panelPoint[p] # v)
                \/ (knownPoint[p] = v \/ Route(p) \notin Queued) /\ IsDue(p)
        <3>1. v = setpoint_check(p, pending.value)
            BY <1>5, <2>2
        <3> QED BY <1>2, <2>2, <2>3, <3>1
    <2> QED BY <1>2, <2>1, <2>2, <2>3, <2>4, <2>5
<1>12. CASE d = due
    <2>1. ASSUME NEW q \in Points, q # p, intended'[q] # NotKnown, ~excused'[q] PROVE Underway(q)'
        <3>1. Underway(q) /\ intended'[q] = intended[q]
            BY <1>9, <2>1 DEF AskedKept
        <3>2. ~AsksFor(q)
            BY <1>2, <2>1 DEF AsksFor
        <3>3. DueFor(q)' = DueFor(q) /\ \A k \in DueFor(q) : due'[k] = due[k]
            BY <1>10, <1>12 DEF DueFor
        <3> QED BY <1>1, <1>8, <3>1, <3>2, <3>3, UnderwayStays
    <2>2. ASSUME intended'[p] # NotKnown, ~excused'[p] PROVE Underway(p)'
        <3>1. ActOnSet /\ knownPoint[p] = v
            <4>1. due' # Append(due, Program(p, v))
                <5>1. due' = due
                    BY <1>10, <1>12
                <5> QED BY <1>3, <1>6, <5>1, AppendedIs
            <4> QED BY <1>2, <1>4, <1>5, <4>1, Zenon DEF ActOnSetpoint, ActOnSet, ActOnIncrement
        <3>2. /\ pending.what = "set" /\ units # "unknown" /\ x = pending.value
              /\ ~Moved(p, x) /\ ~(knownPoint[p] = v /\ panelPoint[p] # v)
              /\ ~((knownPoint[p] = v \/ Route(p) \notin Queued) /\ IsDue(p))
              /\ intended' = intended
            <4>1. PICK m \in BOOLEAN : Excuse(p, m) /\ (m <=>
                       \/ Moved(p, x) \/ (knownPoint[p] = v /\ panelPoint[p] # v)
                       \/ (knownPoint[p] = v \/ Route(p) \notin Queued) /\ IsDue(p))
                BY <1>11, <3>1
            <4>2. ~m
                BY <1>3, <2>2, <4>1, Zenon DEF Excuse, SetpointTypes
            <4>3. pending.what = "set" /\ units # "unknown" /\ x = pending.value /\ intended' = intended
                BY <1>11, <3>1
            <4> QED BY <4>1, <4>2, <4>3
        <3>3. Underway(p) /\ AsksFor(p)
            BY <1>2, <1>3, <1>9, <2>2, <3>2 DEF AskedKept, AsksFor
        <3>4. UnitsKnown /\ InRange(p, intended[p], PanelUnits) = intended[p] /\ x = intended[p]
            BY <3>2, <3>3 DEF Underway
        <3>5. v = intended[p]
            BY <1>5, <3>2, <3>4, SameLimits DEF Moved
        <3>6. panelPoint'[p] = intended'[p] /\ DueFor(p)' = {}
            BY <1>1, <1>10, <1>12, <3>1, <3>2, <3>5 DEF IsDue, DueFor
        <3> QED BY <1>1, <1>8, <3>2, <3>4, <3>6, UnderwayThere
    <2> QED BY <2>1, <2>2 DEF AskedKept
<1>13. CASE d = Append(due, Program(p, v))
    <2>1. /\ DOMAIN due = 1..Len(due) /\ DOMAIN d = 1..(Len(due) + 1) /\ Len(due) \in Nat
          /\ \A j \in 1..Len(due) : d[j] = due[j]
          /\ d[Len(due) + 1] = Program(p, v)
        BY <1>3, <1>6, <1>13, AppendedIs
    <2>2. Program(p, v).point = p /\ Program(p, v).value = v
        BY DEF Program
    <2>3. \A k \in DOMAIN due' : k \in 1..Len(due) \/ k = Len(due) + 1
        BY <1>10, <2>1
    <2>4. /\ \A q \in Points : q # p => DueFor(q)' = DueFor(q)
          /\ \A k \in DOMAIN due : due'[k] = due[k]
          /\ DueFor(p)' = DueFor(p) \union {Len(due) + 1}
        BY <1>10, <2>1, <2>2, <2>3 DEF DueFor
    <2>5. ASSUME NEW q \in Points, q # p, intended'[q] # NotKnown, ~excused'[q] PROVE Underway(q)'
        <3>1. Underway(q) /\ intended'[q] = intended[q]
            BY <1>9, <2>5 DEF AskedKept
        <3>2. ~AsksFor(q)
            BY <1>2, <2>5 DEF AsksFor
        <3>3. DueFor(q)' = DueFor(q) /\ \A k \in DueFor(q) : due'[k] = due[k]
            BY <2>4, <2>5 DEF DueFor
        <3> QED BY <1>1, <1>8, <3>1, <3>2, <3>3, UnderwayStays
    <2>6. ASSUME intended'[p] # NotKnown, ~excused'[p]
          PROVE  /\ v = intended'[p] /\ UnitsKnown /\ InRange(p, v, PanelUnits) = v
                 /\ DueFor(p) # {} => Route(p) \in Queued
        <3>1. CASE ActOnSet
            <4>1. PICK m \in BOOLEAN : Excuse(p, m) /\ (m <=>
                       \/ Moved(p, x) \/ (knownPoint[p] = v /\ panelPoint[p] # v)
                       \/ (knownPoint[p] = v \/ Route(p) \notin Queued) /\ IsDue(p))
                BY <1>11, <3>1
            <4>2. ~m
                BY <1>3, <2>6, <4>1, Zenon DEF Excuse, SetpointTypes
            <4>3. /\ pending.what = "set" /\ units # "unknown" /\ x = pending.value
                  /\ ~Moved(p, x) /\ (IsDue(p) => Route(p) \in Queued) /\ intended' = intended
                <5>1. pending.what = "set" /\ units # "unknown" /\ x = pending.value /\ intended' = intended
                    BY <1>11, <3>1
                <5> QED BY <4>1, <4>2, <5>1
            <4>4. Underway(p) /\ AsksFor(p)
                BY <1>2, <1>3, <1>9, <2>6, <4>3 DEF AskedKept, AsksFor
            <4>5. UnitsKnown /\ InRange(p, intended[p], PanelUnits) = intended[p] /\ x = intended[p]
                BY <4>3, <4>4 DEF Underway
            <4>6. v = intended[p]
                BY <1>5, <4>3, <4>5, SameLimits DEF Moved
            <4> QED BY <4>3, <4>5, <4>6 DEF IsDue, DueFor
        <3>2. CASE ActOnIncrement
            <4>1. PICK m \in BOOLEAN : Excuse(p, m) /\ (m <=>
                       \/ Moved(p, knownPoint[p] + pending.value) \/ knownPoint[p] # panelPoint[p]
                       \/ IsDue(p) \/ (setup.celsius /\ units = "unknown"))
                BY <1>2, <3>2, Zenon DEF ActOnIncrement
            <4>2. ~m
                BY <1>3, <2>6, <4>1, Zenon DEF Excuse, SetpointTypes
            <4>3. x = knownPoint[p] + pending.value
                BY <1>4, <3>2 DEF ActOnIncrement
            <4>4. ~Moved(p, x) /\ knownPoint[p] = panelPoint[p] /\ ~IsDue(p) /\ UnitsKnown
                BY <4>1, <4>2, <4>3, Zenon DEF UnitsKnown
            <4>5. intended'[p] = InRange(p, x, PanelUnits)
                BY <1>2, <1>3, <3>2, <4>3, <4>4 DEF ActOnIncrement
            <4>6. v = InRange(p, x, PanelUnits)
                BY <1>5, <4>4, SameLimits DEF Moved
            <4>7. InRange(p, v, PanelUnits) = v
                BY <1>6, <4>6, InRangeTwice
            <4> QED BY <4>4, <4>5, <4>6, <4>7 DEF IsDue, DueFor
        <3> QED BY <3>1, <3>2 DEF ActOnSetpoint
    <2>7. ASSUME intended'[p] # NotKnown, ~excused'[p] PROVE Underway(p)'
        <3>1. \A k : LastFor(p, k)' => k = Len(due) + 1
            <4>1. \A k \in DueFor(p)' : k <= Len(due) + 1 /\ k \in Int
                BY <1>10, <2>1, <2>3 DEF DueFor
            <4>2. Len(due) + 1 \in DueFor(p)'
                BY <2>4
            <4>3. \A k : LastFor(p, k)' => k \in DueFor(p)' /\ Len(due) + 1 <= k
                BY <4>2, Zenon DEF LastFor
            <4> QED BY <2>1, <4>1, <4>3
        <3>2. \A k \in DOMAIN due' : LastFor(p, k)' => due'[k].value = intended'[p]
            BY <1>10, <2>1, <2>2, <2>6, <2>7, <3>1
        <3>3. ASSUME NEW j \in DueFor(p)', NEW k \in DueFor(p)', j # k PROVE Route(p) \in Queued
            BY <2>4, <2>6, <2>7, <3>3
        <3>4. /\ Route(p)' = Route(p) /\ UnitsKnown'
              /\ InRange(p, intended[p], PanelUnits)' = InRange(p, intended'[p], PanelUnits)
            <4>1. setup' = setup /\ units' = units
                BY <1>1
            <4> QED BY <2>6, <2>7, <4>1, Zenon
                    DEF Route, UnitsKnown, InRange, Within, Least, Most, Heaters, PanelUnits
        <3>5. DueFor(p)' # {} /\ InRange(p, intended[p], PanelUnits)' = intended'[p]
            BY <2>4, <2>6, <2>7, <3>4
        <3>6. \A j, k \in DueFor(p)' : j # k => Route(p)' \in Queued
            BY <3>3, <3>4
        <3> QED BY <1>8, <3>2, <3>4, <3>5, <3>6, Zenon DEF Underway, Queued
    <2> QED BY <2>5, <2>7, Zenon DEF AskedKept
<1> QED BY <1>7, <1>10, <1>12, <1>13

(* Where the entries are once the k-th is removed.                          *)
Before(k, j) == IF j < k THEN j ELSE j + 1

(* When one program is removed the others move up, in their order.          *)
LEMMA RemovedPlaces ==
    ASSUME SetpointTypes, NEW k \in DOMAIN due, due' = Removed(k)
    PROVE  /\ DOMAIN due \subseteq Int /\ DOMAIN due' \subseteq Int
           /\ \A j \in DOMAIN due' : /\ Before(k, j) \in DOMAIN due /\ Before(k, j) # k
                                     /\ due'[j] = due[Before(k, j)]
           /\ \A i \in DOMAIN due : i # k => \E j \in DOMAIN due' : Before(k, j) = i
           /\ \A j, l \in DOMAIN due' : /\ Before(k, j) = Before(k, l) => j = l
                                        /\ Before(k, j) <= Before(k, l) <=> j <= l
<1>1. PICK d : d = Removed(k)
    OBVIOUS
<1>2. /\ DOMAIN d = 1..(Len(due) - 1) /\ DOMAIN due = 1..Len(due) /\ Len(due) \in Nat
      /\ \A j \in 1..(Len(due) - 1) : d[j] = IF j < k THEN due[j] ELSE due[j + 1]
    BY <1>1, RemovedIs, LenProperties DEF SetpointTypes
<1>3. ASSUME NEW j \in DOMAIN d
      PROVE  Before(k, j) \in DOMAIN due /\ Before(k, j) # k /\ d[j] = due[Before(k, j)]
    BY <1>2 DEF Before
<1>4. ASSUME NEW i \in DOMAIN due, i # k PROVE \E j \in DOMAIN d : Before(k, j) = i
    <2>1. CASE i < k
        <3>1. i \in DOMAIN d /\ Before(k, i) = i
            BY <1>2, <2>1 DEF Before
        <3> QED BY <3>1
    <2>2. CASE ~(i < k)
        <3>1. i - 1 \in DOMAIN d /\ Before(k, i - 1) = i
            BY <1>2, <1>4, <2>2 DEF Before
        <3> QED BY <3>1
    <2> QED BY <2>1, <2>2
<1>5. ASSUME NEW j \in DOMAIN d, NEW l \in DOMAIN d
      PROVE  /\ Before(k, j) = Before(k, l) => j = l
             /\ Before(k, j) <= Before(k, l) <=> j <= l
    BY <1>2 DEF Before
<1>6. DOMAIN due \subseteq Int /\ DOMAIN d \subseteq Int
    BY <1>2
<1> QED BY <1>1, <1>3, <1>4, <1>5, <1>6

(* Of two commands for a set point the first one is taken, so that what was *)
(* last is still there, and still last.                                     *)
LEMMA LastStays ==
    ASSUME SetpointTypes, NEW k \in DOMAIN due, due' = Removed(k), NEW p,
           k \in DueFor(p) => (\A i \in DueFor(p) : k <= i)
    PROVE  /\ \A j : LastFor(p, j)' => LastFor(p, Before(k, j)) /\ due'[j] = due[Before(k, j)]
           /\ \A j \in DueFor(p)' : Before(k, j) \in DueFor(p) \ {k}
           /\ DueFor(p)' = {} => DueFor(p) \subseteq {k}
<1>1. \A j \in DueFor(p)' : j \in DOMAIN due' /\ due'[j].point = p
    BY Zenon DEF DueFor
<1>2. \A j \in DueFor(p)' : Before(k, j) \in DueFor(p) \ {k}
    BY <1>1, RemovedPlaces DEF DueFor
<1>3. \A i \in DueFor(p) : i # k => \E j \in DueFor(p)' : Before(k, j) = i
    <2> SUFFICES ASSUME NEW i \in DueFor(p), i # k PROVE \E j \in DueFor(p)' : Before(k, j) = i
        OBVIOUS
    <2>1. i \in DOMAIN due /\ due[i].point = p
        BY DEF DueFor
    <2>2. PICK j \in DOMAIN due' : Before(k, j) = i
        BY <2>1, RemovedPlaces
    <2>3. due'[j] = due[i]
        BY <2>2, RemovedPlaces
    <2>4. j \in DueFor(p)'
        BY <2>1, <2>3 DEF DueFor
    <2> QED BY <2>2, <2>4
<1>4. ASSUME NEW j, LastFor(p, j)' PROVE LastFor(p, Before(k, j)) /\ due'[j] = due[Before(k, j)]
    <2>1. j \in DueFor(p)' /\ \A l \in DueFor(p)' : l <= j
        BY <1>4, Zenon DEF LastFor
    <2>2. j \in DOMAIN due' /\ Before(k, j) \in DueFor(p)
        BY <1>1, <1>2, <2>1
    <2>3. ASSUME NEW i \in DueFor(p) PROVE i <= Before(k, j)
        <3>1. CASE i = k
            BY <2>2, <3>1
        <3>2. CASE i # k
            <4>1. PICK l \in DueFor(p)' : Before(k, l) = i
                BY <1>3, <3>2
            <4>2. l <= j /\ l \in DOMAIN due'
                BY <1>1, <2>1, <4>1
            <4> QED BY <2>2, <4>1, <4>2, RemovedPlaces
        <3> QED BY <3>1, <3>2
    <2> QED BY <2>2, <2>3, RemovedPlaces DEF LastFor
<1> QED BY <1>2, <1>3, <1>4

(* What is intended stays underway when a program leaves that was not the   *)
(* last for its set point, or did what was intended.                        *)
LEMMA UnderwayRemoved ==
    ASSUME SetpointTypes, NEW k \in DOMAIN due, due' = Removed(k), NEW p, Underway(p),
           UNCHANGED <<setup, units, pending, intended>>,
           ~AsksFor(p) /\ k \in DueFor(p) => (\A i \in DueFor(p) : k <= i),
           ~AsksFor(p) /\ DueFor(p)' = {} => panelPoint'[p] = intended'[p]
    PROVE  Underway(p)'
<1>1. setup' = setup /\ units' = units /\ pending' = pending /\ intended' = intended
    OBVIOUS
<1>2. AsksFor(p)' <=> AsksFor(p)
    BY <1>1, Zenon DEF AsksFor
<1>3. InRange(p, intended[p], PanelUnits)' = intended'[p] /\ UnitsKnown' /\ Route(p)' = Route(p)
    <2>1. InRange(p, intended[p], PanelUnits)' = InRange(p, intended[p], PanelUnits)
        BY <1>1, ZenonT(40) DEF InRange, Within, Least, Most, Heaters, PanelUnits
    <2>2. UnitsKnown' /\ Route(p)' = Route(p)
        BY <1>1, Zenon DEF Underway, UnitsKnown, Route
    <2> QED BY <1>1, <2>1, <2>2 DEF Underway
<1>4. AsksFor(p)' => pending'.value = intended'[p]
    BY <1>1, <1>2 DEF Underway
<1>5. ASSUME ~AsksFor(p)
      PROVE  /\ \A j \in DOMAIN due' : LastFor(p, j)' => due'[j].value = intended'[p]
             /\ \A j, l \in DueFor(p)' : j # l => Route(p)' \in Queued
    <2>1. /\ \A j : LastFor(p, j)' => LastFor(p, Before(k, j)) /\ due'[j] = due[Before(k, j)]
          /\ \A j \in DueFor(p)' : Before(k, j) \in DueFor(p) \ {k}
        BY <1>5, LastStays
    <2>2. /\ \A i \in DOMAIN due : LastFor(p, i) => due[i].value = intended[p]
          /\ \A i, l \in DueFor(p) : i # l => Route(p) \in Queued
        BY <1>5 DEF Underway
    <2>3. ASSUME NEW j \in DOMAIN due', LastFor(p, j)' PROVE due'[j].value = intended'[p]
        <3>1. LastFor(p, Before(k, j)) /\ due'[j] = due[Before(k, j)] /\ Before(k, j) \in DOMAIN due
            BY <2>1, <2>3, RemovedPlaces
        <3> QED BY <1>1, <2>2, <3>1
    <2>4. ASSUME NEW j \in DueFor(p)', NEW l \in DueFor(p)', j # l PROVE Route(p) \in Queued
        <3>1. j \in DOMAIN due' /\ l \in DOMAIN due'
            BY <2>4, Zenon DEF DueFor
        <3>2. Before(k, j) # Before(k, l)
            BY <2>4, <3>1, RemovedPlaces
        <3> QED BY <2>1, <2>2, <2>4, <3>2
    <2> QED BY <1>3, <2>3, <2>4
<1> QED BY <1>2, <1>3, <1>4, <1>5, Zenon DEF Underway, Queued

(* A set point that is set is what was intended, unless that is excused.    *)
LEMMA SetsValue ==
    ASSUME SetpointTypes, NEW k \in DOMAIN due, UnitsKnown, NEW n \in Int, due[k].value = n,
           InRange(due[k].point, n, PanelUnits) = n, ~Miscounted(due[k]),
           ~(ChecksAgain(due[k]) /\ Moved(due[k].point, due[k].value))
    PROVE  SetTo(due[k]) = n
<1>1. PICK g, p : g = due[k] /\ p = g.point
    OBVIOUS
<1>2. /\ p \in Points /\ g.point = p /\ g.value = n
      /\ knownPoint[p] \in Int /\ panelPoint[p] \in Int
    BY <1>1, DueType DEF SetpointTypes
<1>3. Final(g) = n
    <2>1. CASE ChecksAgain(g)
        <3>1. setpoint_check(p, n) = InRange(p, n, units)
            BY <1>1, <1>2, <2>1 DEF Moved
        <3> QED BY <1>1, <1>2, <2>1, <3>1, SameLimits DEF Final
    <2>2. CASE ~ChecksAgain(g)
        BY <1>2, <2>2 DEF Final
    <2> QED BY <2>1, <2>2
<1>4. CASE g.route # "pda"
    BY <1>1, <1>3, <1>4 DEF SetTo
<1>5. CASE g.route = "pda"
    <2>1. knownPoint[p] = panelPoint[p]
        BY <1>1, <1>2, <1>5 DEF Miscounted
    <2>2. panelPoint[p] + n - knownPoint[p] = n
        BY <1>2, <2>1
    <2> QED BY <1>1, <1>2, <1>3, <1>5, <2>1, <2>2 DEF SetTo
<1> QED BY <1>4, <1>5

(* The end of a program keeps what is said of the requests.                 *)
LEMMA AskedDone ==
    ASSUME SetpointTypes, AskedKept, NEW k \in DOMAIN due, SetPanel(k) \/ NotSet(k)
    PROVE  AskedKept'
<1>1. due' = Removed(k) /\ UNCHANGED <<setup, units, pending, intended>>
    BY Zenon DEF SetPanel, NotSet
<1>2. PICK p : p = due[k].point
    OBVIOUS
<1>3. p \in Points /\ due[k].route = Route(p)
    BY <1>2, DueType
<1>4. \A q \in Points : ~excused'[q] => ~excused[q]
    <2>1. PICK m \in BOOLEAN : Excuse(p, m)
        BY <1>2, Zenon DEF SetPanel, NotSet
    <2> QED BY <2>1, Zenon DEF Excuse, SetpointTypes
<1>5. ASSUME NEW q \in Points, q # p, intended'[q] # NotKnown, ~excused'[q] PROVE Underway(q)'
    <2>1. Underway(q) /\ k \notin DueFor(q)
        BY <1>1, <1>2, <1>4, <1>5 DEF AskedKept, DueFor
    <2>2. panelPoint'[q] = panelPoint[q]
        BY <1>2, <1>5 DEF SetPanel, NotSet, SetpointTypes
    <2>3. ~AsksFor(q) /\ DueFor(q)' = {} => panelPoint'[q] = intended'[q]
        <3>1. DueFor(q)' = {} => DueFor(q) \subseteq {k}
            BY <1>1, <2>1, LastStays
        <3> QED BY <1>1, <2>1, <2>2, <3>1 DEF Underway
    <2> QED BY <1>1, <2>1, <2>3, UnderwayRemoved
<1>6. ASSUME intended'[p] # NotKnown, ~excused'[p] PROVE Underway(p)'
    <2>1. Underway(p)
        BY <1>1, <1>3, <1>4, <1>6 DEF AskedKept
    <2>2. SetPanel(k)
        <3>1. CASE NotSet(k)
            BY <1>2, <1>3, <1>6, <3>1, Zenon DEF NotSet, Excuse, SetpointTypes
        <3> QED BY <3>1
    <2>3. ~Miscounted(due[k]) /\ ~(ChecksAgain(due[k]) /\ Moved(due[k].point, due[k].value))
        <3>1. PICK m \in BOOLEAN :
                 /\ Excuse(p, m)
                 /\ m <=> (\/ Miscounted(due[k])
                           \/ (ChecksAgain(due[k]) /\ Moved(due[k].point, due[k].value)))
            BY <1>2, <2>2, Zenon DEF SetPanel
        <3>2. ~m
            BY <1>3, <1>6, <3>1, Zenon DEF Excuse, SetpointTypes
        <3> QED BY <3>1, <3>2
    <2>4. k \in DueFor(p) /\ DOMAIN due \subseteq Int
        BY <1>1, <1>2, RemovedPlaces DEF DueFor
    <2>5. ASSUME ~AsksFor(p), NEW i \in DueFor(p) PROVE k <= i
        <3>1. i \in DOMAIN due /\ due[i].point = p /\ i \in Int /\ k \in Int
            BY <2>4 DEF DueFor
        <3> SUFFICES ASSUME i < k PROVE FALSE
            BY <3>1
        <3>2. Route(p) \in Queued
            BY <2>1, <2>4, <2>5, <3>1 DEF Underway
        <3>3. due[i].route = Route(p)
            BY <3>1, DueType
        <3>4. i \in 1..k-1
            <4>1. DOMAIN due = 1..Len(due) /\ Len(due) \in Nat
                BY LenProperties DEF SetpointTypes
            <4> QED BY <3>1, <4>1
        <3> QED BY <1>3, <2>2, <3>2, <3>3, <3>4 DEF SetPanel, May
    <2>6. ASSUME ~AsksFor(p), DueFor(p)' = {} PROVE panelPoint'[p] = intended'[p]
        <3>1. DueFor(p) \subseteq {k}
            BY <1>1, <2>5, <2>6, LastStays
        <3>2. LastFor(p, k)
            BY <2>4, <3>1 DEF LastFor
        <3>3. due[k].value = intended[p] /\ InRange(p, intended[p], PanelUnits) = intended[p] /\ UnitsKnown
            BY <2>1, <2>6, <3>2 DEF Underway
        <3>4. SetTo(due[k]) = intended[p]
            BY <1>2, <1>3, <2>3, <3>3, SetsValue DEF SetpointTypes
        <3> QED BY <1>1, <1>2, <1>3, <2>2, <3>4 DEF SetPanel, SetpointTypes
    <2> QED BY <1>1, <2>1, <2>5, <2>6, UnderwayRemoved
<1> QED BY <1>5, <1>6, Zenon DEF AskedKept

-----------------------------------------------------------------------------
(* Every step keeps the invariant.                                          *)
LEMMA SetpointStep == SetpointInv /\ [SetpointNext]_setpointVars => SetpointInv'
<1> SUFFICES ASSUME SetpointInv, [SetpointNext]_setpointVars PROVE SetpointInv'
    OBVIOUS
<1>1. SetpointTypes /\ Incrementing /\ AskedKept /\ OrderKept
    BY DEF SetpointInv
<1>2. "pool" \in Points
    BY SetpointAssumption
<1>3. AskedKept'
    <2>1. CASE LearnUnits \/ UNCHANGED setpointVars
        BY <1>1, <1>2, <2>1, AskedLearn
    <2> QED BY <1>1, <2>1, AskedAsk, AskedIncrement, AskedLearn, AskedAct, AskedDone
            DEF SetpointNext
<1> QED BY <1>1, <1>3, SetpointTypesStep, IncrementingStep, OrderStep DEF SetpointInv

(* The invariant of the set points holds throughout.                        *)
LEMMA SetpointInvHolds == Spec => []SetpointInv
<1>1. DaemonInit => SetpointInv
    BY PartInits, SetpointStarts
<1>2. SetpointInv /\ [DaemonNext]_daemonVars => SetpointInv'
    BY PartSteps, SetpointStep
<1> QED BY <1>1, <1>2, PTL DEF Spec

(* When nothing is to be done the panel has the last value that was asked   *)
(* for, and TEMP1 is above TEMP2, for any number of requests for any        *)
(* temperatures, of any panel and by any of the protocols, but for the      *)
(* cases that the property excepts (action_delayed_request,                 *)
(* setpoint_check, programDeviceValue).                                     *)
THEOREM SetsWhatIsAsked == Spec => []SetpointsFollow
<1>1. SetpointInv => SetpointsFollow
    <2> SUFFICES ASSUME SetpointInv PROVE SetpointsFollow
        OBVIOUS
    <2>1. AsAsked
        <3> SUFFICES ASSUME pending = NoRequest, due = <<>>,
                            NEW p \in Points, intended[p] # NotKnown, ~excused[p]
                     PROVE  panelPoint[p] = intended[p]
            BY DEF AsAsked
        <3>1. Underway(p)
            BY DEF SetpointInv, AskedKept
        <3>2. ~AsksFor(p) /\ DueFor(p) = {}
            BY DEF AsksFor, NoRequest, Pending, DueFor
        <3> QED BY <3>1, <3>2 DEF Underway
    <2>2. InOrder
        BY DEF SetpointInv, OrderKept, PanelOrdered, InOrder
    <2> QED BY <2>1, <2>2 DEF SetpointsFollow
<1> QED BY <1>1, SetpointInvHolds, PTL
=============================================================================
