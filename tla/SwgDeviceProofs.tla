--------------------------- MODULE SwgDeviceProofs ---------------------------
(* What SwgDevice promises for any devices, reports and percents, proved.   *)
EXTENDS SwgDevice, TLAPS

(* What the setters keep of the record: its type, and the two invariants    *)
(* that relate its fields.                                                  *)
Matched(s) ==
    /\ \/ s.status \in {s.last, "OFF"}
       \/ s.last \in {"GENFAULT", "UNLISTED"}
       \/ s.last = "UNKNOWN" /\ s.status = "ON"
    /\ s.led = "OFF" =>
         \/ s.status \in DarkState
         \/ s.status \in {"UNKNOWN", "ON"} /\ s.last \in {"UNKNOWN", "UNLISTED"}

Consistent(s) == s \in SwgRecord /\ Matched(s)

(* Overwriting the three fields that the setters of the status write.       *)
With(s, st, la, le) == [s EXCEPT !.last = la, !.status = st, !.led = le]

(* Overwriting status, last report and LED leaves a record with these.      *)
LEMMA Overwrite ==
    ASSUME NEW s \in SwgRecord, NEW st \in Status, NEW la \in Status \cup {"UNLISTED"},
           NEW le \in {"UNKNOWN", "OFF", "ON", "ENABLE"}
    PROVE  /\ With(s, st, la, le) \in SwgRecord
           /\ With(s, st, la, le).status = st
           /\ With(s, st, la, le).last = la
           /\ With(s, st, la, le).led = le
<1>1. With(s, st, la, le) \in SwgRecord
    BY Zenon DEF SwgRecord, With
<1> QED BY <1>1 DEF SwgRecord, With

(* Overwriting the last report leaves the rest.                             *)
LEMMA OverwriteLast ==
    ASSUME NEW s \in SwgRecord, NEW la \in Status \cup {"UNLISTED"}
    PROVE  LET r == [s EXCEPT !.last = la]
           IN  r \in SwgRecord /\ r.status = s.status /\ r.last = la /\ r.led = s.led
BY DEF SwgRecord

(* setSWGdeviceStatus keeps the record consistent, whoever reports.         *)
LEMMA StatusKeeps ==
    ASSUME NEW s \in SwgRecord, Matched(s), NEW from,
           NEW st \in (Status \ {"UNKNOWN"}) \cup {"UNLISTED"}
    PROVE  Consistent(SetDeviceStatus(s, from, st))
<1> USE DEF Consistent, Matched
<1>1. ASSUME s.status \in BetterThanFault
      PROVE  Consistent([s EXCEPT !.last = "GENFAULT"])
    <2> DEFINE r == [s EXCEPT !.last = "GENFAULT"]
    <2>1. r \in SwgRecord /\ r.status = s.status /\ r.last = "GENFAULT" /\ r.led = s.led
        BY OverwriteLast DEF Status, LitState
    <2> SUFFICES Consistent(r)
        OBVIOUS
    <2> HIDE DEF r
    <2> QED BY <1>1, <2>1 DEF BetterThanFault, DarkState
<1>2. ASSUME st \in LitState, NEW led \in {"ON", "ENABLE"}
      PROVE  Consistent(With(s, st, st, led))
    <2> DEFINE r == With(s, st, st, led)
    <2>1. st \in Status /\ led \in {"UNKNOWN", "OFF", "ON", "ENABLE"}
        BY <1>2 DEF Status
    <2>2. r \in SwgRecord /\ r.status = st /\ r.last = st /\ r.led = led
        BY <2>1, Overwrite
    <2> SUFFICES Consistent(r)
        OBVIOUS
    <2> HIDE DEF r
    <2> QED BY <1>2, <2>2
<1>3. ASSUME st \in DarkState
      PROVE  Consistent(With(s, st, st, "OFF"))
    <2> DEFINE r == With(s, st, st, "OFF")
    <2>1. st \in Status
        BY <1>3 DEF Status
    <2>2. r \in SwgRecord /\ r.status = st /\ r.last = st /\ r.led = "OFF"
        BY <2>1, Overwrite
    <2> SUFFICES Consistent(r)
        OBVIOUS
    <2> HIDE DEF r
    <2> QED BY <1>3, <2>2
<1>4. Consistent([s EXCEPT !.last = "UNLISTED"])
    <2> DEFINE r == [s EXCEPT !.last = "UNLISTED"]
    <2>1. r \in SwgRecord /\ r.status = s.status /\ r.last = "UNLISTED" /\ r.led = s.led
        BY OverwriteLast
    <2> SUFFICES Consistent(r)
        OBVIOUS
    <2> HIDE DEF r
    <2> QED BY <2>1 DEF DarkState
<1> USE DEF LitState, DarkState, ErrorState, BetterThanFault
<1>5. Consistent(Reported(s, st))
    <2>1. CASE st \in LitState
        <3>1. Reported(s, st) =
                With(s, st, st, IF st \in ErrorState THEN "ENABLE" ELSE "ON")
            BY <2>1 DEF Reported, With
        <3>2. (IF st \in ErrorState THEN "ENABLE" ELSE "ON") \in {"ON", "ENABLE"}
            OBVIOUS
        <3> HIDE DEF Consistent, Matched, ErrorState, LitState, DarkState
        <3> QED BY <2>1, <3>1, <3>2, <1>2
    <2>2. CASE st \in DarkState
        BY <2>2, <1>3 DEF Reported, With
    <2>3. CASE st = "UNLISTED"
        BY <2>3, <1>4 DEF Reported
    <2> QED BY <2>1, <2>2, <2>3 DEF Status
<1> HIDE DEF LitState, DarkState, ErrorState, BetterThanFault, Matched
<1> QED BY <1>1, <1>5 DEF SetDeviceStatus

(* Turning off keeps the record consistent.                                 *)
LEMMA OffKeeps ==
    ASSUME NEW s \in SwgRecord, Matched(s) PROVE Consistent(SetOff(s))
<1> DEFINE r == SetOff(s)
<1>1. r \in SwgRecord
    <2>1. "OFF" \in Status
        BY DEF Status, DarkState
    <2> QED BY <2>1, Zenon DEF SetOff, SwgRecord
<1>2. r.status = "OFF" /\ r.led = "OFF"
    BY DEF SetOff, SwgRecord
<1> HIDE DEF r
<1>3. Consistent(r)
    BY <1>1, <1>2 DEF Consistent, Matched, DarkState
<1> QED BY <1>3 DEF r

(* Boost keeps the record consistent.                                       *)
LEMMA BoostKeeps ==
    ASSUME NEW s \in SwgRecord, Matched(s), NEW on \in BOOLEAN
    PROVE  Consistent(SetBoost(s, on))
<1> DEFINE r == SetBoost(s, on)
<1>1. r \in SwgRecord
    BY Zenon DEF SetBoost, SwgRecord
<1>2. r.status = s.status /\ r.last = s.last /\ r.led = s.led
    BY DEF SetBoost, SwgRecord
<1> HIDE DEF r
<1>3. Consistent(r)
    BY <1>1, <1>2 DEF Consistent, Matched
<1> QED BY <1>3 DEF r

(* setSWGpercent lights an LED that was OFF or leaves it, and makes UNKNOWN *)
(* ON only before the first report.                                         *)
LEMMA PercentKeeps ==
    ASSUME NEW s \in SwgRecord, Matched(s), NEW p \in Percents \cup {0, Boosted}
    PROVE  Consistent(SetPercent(s, p))
<1> DEFINE st == IF s.status = "UNKNOWN" THEN "ON" ELSE s.status
           le == IF p > 0
                 THEN IF s.led = "ENABLE" /\ s.status \in ErrorState THEN s.led ELSE "ON"
                 ELSE IF s.led \in {"ON", "UNKNOWN"} THEN "ENABLE" ELSE s.led
           r == [s EXCEPT !.percent = p, !.status = st, !.led = le]
<1>1. SetPercent(s, p) = r
    BY DEF SetPercent, SwgRecord
<1>2. st \in Status /\ le \in {"UNKNOWN", "OFF", "ON", "ENABLE"}
    BY DEF SwgRecord, Status, LitState
<1>3. le = "OFF" => s.led = "OFF"
    OBVIOUS
<1>4. st = s.status \/ (s.status = "UNKNOWN" /\ st = "ON")
    OBVIOUS
<1> HIDE DEF st, le
<1>5. r \in SwgRecord
    BY <1>2, Zenon DEF SwgRecord
<1>6. r.status = st /\ r.last = s.last /\ r.led = le
    BY DEF SwgRecord
<1> HIDE DEF r
<1>7. Matched(r)
    BY <1>3, <1>4, <1>6 DEF Matched, DarkState
<1> QED BY <1>1, <1>5, <1>7 DEF Consistent

(* A change of the percent keeps the record consistent.                     *)
LEMMA ChangeKeeps ==
    ASSUME NEW s \in SwgRecord, Matched(s), NEW p \in Percents \cup {0, Boosted}
    PROVE  Consistent(ChangePercent(s, p))
BY PercentKeeps DEF ChangePercent, Consistent

-----------------------------------------------------------------------------
(* Whoever is expected to answer is the device polled last, unless the      *)
(* frame that polled it was lost.  A poll that finds an answer due takes    *)
(* the interest away; one that does not names its own device.               *)
LEMMA AttributionStep ==
    AnswerIsAttributed /\ [Next]_vars => AnswerIsAttributed'
<1> SUFFICES ASSUME AnswerIsAttributed, [Next]_vars PROVE AnswerIsAttributed'
    OBVIOUS
<1> USE DEF AnswerIsAttributed
<1>1. ASSUME NEW d \in Device, NEW p, Poll(d, p) PROVE AnswerIsAttributed'
    BY <1>1 DEF Poll, MissingAck, ToDevice
<1>2. ASSUME NEW st, Answer(st) PROVE AnswerIsAttributed'
    BY <1>2 DEF Answer
<1>3. CASE AnswerLost
    BY <1>3 DEF AnswerLost
<1>4. CASE UNCHANGED bus
    BY <1>4 DEF bus
<1>5. CASE \E p \in Percents : AquapurePercent(p) \/ RequestPercent(p) \/ SwgProgram(p)
    BY <1>5, <1>4 DEF AquapurePercent, Message, RequestPercent, SwgProgram
<1>6. CASE \/ \E st \in Shown : CheckAquapure(st)
           \/ SaltPpm \/ BoostRemaining
           \/ \E pump \in {"ON", "OFF"} : CycleEnds(pump)
    BY <1>6, <1>4 DEF CheckAquapure, SaltPpm, BoostRemaining, Message, CycleEnds
<1>7. CASE ProgramEnds \/ \E k \in {"other", "boost"} : OtherProgram(k)
    BY <1>7, <1>4 DEF ProgramEnds, OtherProgram
<1> QED BY <1>1, <1>2, <1>3, <1>4, <1>5, <1>6, <1>7 DEF Next, vars

(* An answer is never taken for that of a device polled before, if the poll *)
(* was read.                                                                *)
THEOREM Attributed == Spec => []AnswerIsAttributed
<1>1. Init => AnswerIsAttributed
    BY DEF Init, AnswerIsAttributed
<1> QED BY <1>1, AttributionStep, PTL DEF Spec

-----------------------------------------------------------------------------
(* The threads that wait with a percent, and the one that a delayed percent *)
(* will start, were all asked for.                                          *)
Counted ==
    \A p \in Percents : waiting[p] + (IF delayed = p THEN 1 ELSE 0) <= requests

SwgInv == TypeOK /\ Counted /\ Matched(swg)

(* Whatever happens, the record stays consistent.                           *)
LEMMA RecordStep == SwgInv /\ [Next]_vars => Consistent(swg')
<1> SUFFICES ASSUME SwgInv, [Next]_vars PROVE Consistent(swg')
    OBVIOUS
<1>0. swg \in SwgRecord /\ Matched(swg) /\ Consistent(swg)
    BY DEF SwgInv, TypeOK, Consistent
<1>1. ASSUME UNCHANGED swg PROVE Consistent(swg')
    BY <1>0, <1>1
<1>2. ASSUME NEW d \in Device, NEW p \in Percents \cup {Boosted, Unknown}, Poll(d, p)
      PROVE  Consistent(swg')
    <2>1. CASE MissingAck
        BY <2>1, <1>0, OffKeeps DEF MissingAck
    <2>2. CASE ToDevice(d, p)
        <3>1. CASE swg' = swg
            BY <3>1, <1>1
        <3>2. CASE /\ p # Unknown
                   /\ swg' = SetBoost(IF swg.percent # p THEN SetPercent(swg, p) ELSE swg,
                                      p > 100)
            <4>1. p \in Percents \cup {0, Boosted}
                BY <3>2
            <4>2. Consistent(IF swg.percent # p THEN SetPercent(swg, p) ELSE swg)
                BY <4>1, <1>0, PercentKeeps
            <4>3. (p > 100) \in BOOLEAN
                OBVIOUS
            <4> QED BY <3>2, <4>2, <4>3, BoostKeeps DEF Consistent
        <3> QED BY <2>2, <3>1, <3>2 DEF ToDevice
    <2> QED BY <1>1, <1>2, <2>1, <2>2 DEF Poll
<1>3. ASSUME NEW st \in Reports \cup {"NONE"}, Answer(st)
      PROVE  Consistent(swg')
    <2>1. CASE st # "NONE" /\ StatusFromSwg(st)
        <3>1. st \in (Status \ {"UNKNOWN"}) \cup {"UNLISTED"}
            BY <2>1, SwgAssumption
        <3> QED BY <2>1, <3>1, <1>0, StatusKeeps DEF StatusFromSwg
    <2> QED BY <1>1, <1>3, <2>1 DEF Answer, FromSwg, FromOther
<1>4. ASSUME NEW st \in (Status \ {"UNKNOWN"}) \cup {"UNLISTED"},
             swg' = SetDeviceStatus(swg, "ALLBUTTON", st)
      PROVE  Consistent(swg')
    BY <1>4, <1>0, StatusKeeps
<1>5. ASSUME NEW p \in Percents, AquapurePercent(p) \/ RequestPercent(p) \/ SwgProgram(p)
      PROVE  Consistent(swg')
    BY <1>5, <1>0, <1>1, ChangeKeeps, PercentKeeps
       DEF AquapurePercent, Message, RequestPercent, SwgProgram
<1>6. ASSUME NEW st \in Shown, CheckAquapure(st) PROVE Consistent(swg')
    <2>1. st \in (Status \ {"UNKNOWN"}) \cup {"UNLISTED"}
        BY SwgAssumption DEF Status, LitState, BetterThanFault
    <2> QED BY <2>1, <1>4, <1>6 DEF CheckAquapure, Message
<1>7. CASE SaltPpm
    <2>1. "ON" \in Status \ {"UNKNOWN"}
        BY DEF Status, LitState
    <2> QED BY <2>1, <1>1, <1>4, <1>7 DEF SaltPpm, Message
<1>8. CASE BoostRemaining
    <2>1. Consistent(IF swg.percent # Boosted THEN SetPercent(swg, Boosted) ELSE swg)
        BY <1>0, PercentKeeps
    <2> QED BY <2>1, <1>8, BoostKeeps DEF BoostRemaining, Message, Consistent
<1>9. ASSUME NEW pump \in {"ON", "OFF"}, CycleEnds(pump) PROVE Consistent(swg')
    <2> DEFINE s == NoDeviceMessage(swg, pump)
               t == NoPercentMessage(s, pump)
    <2>1. Consistent(s)
        <3>1. {"ON", "OFF"} \subseteq Status \ {"UNKNOWN"}
            BY DEF Status, LitState, DarkState
        <3> QED BY <3>1, <1>0, StatusKeeps DEF NoDeviceMessage
    <2> HIDE DEF s
    <2>2. Consistent(t)
        BY <2>1, OffKeeps, ChangeKeeps DEF NoPercentMessage, Consistent
    <2>3. swg' = IF "BOOST" \in msg_loop THEN t ELSE SetBoost(t, FALSE)
        BY <1>9 DEF CycleEnds, s
    <2> HIDE DEF t
    <2> QED BY <2>2, <2>3, BoostKeeps DEF Consistent
<1>10. CASE ProgramEnds
    <2>1. CASE swg' = swg
        BY <2>1, <1>1
    <2>2. CASE swg' = SetPercent(swg, active.percent) /\ active.kind = "swg"
        <3>1. active.percent \in Percents
            BY <2>2 DEF SwgInv, TypeOK
        <3> QED BY <2>2, <3>1, <1>0, PercentKeeps
    <2>3. CASE swg' = [SetBoost(swg, FALSE) EXCEPT !.percent = 0]
        <3> DEFINE s == SetBoost(swg, FALSE)
                   t == [s EXCEPT !.percent = 0]
        <3>1. s \in SwgRecord /\ Matched(s)
            BY <1>0, BoostKeeps DEF Consistent
        <3> HIDE DEF s
        <3>2. t \in SwgRecord
            BY <3>1, Zenon DEF SwgRecord
        <3>3. t.status = s.status /\ t.last = s.last /\ t.led = s.led
            BY <3>1 DEF SwgRecord
        <3> HIDE DEF t
        <3>4. Consistent(t)
            BY <3>1, <3>2, <3>3 DEF Consistent, Matched
        <3> QED BY <2>3, <3>4 DEF s, t
    <2> QED BY <1>10, <2>1, <2>2, <2>3 DEF ProgramEnds, ProgramDone
<1>11. CASE AnswerLost \/ UNCHANGED vars \/ \E k \in {"other", "boost"} : OtherProgram(k)
    BY <1>11, <1>1 DEF AnswerLost, vars, OtherProgram
<1> QED
    BY <1>2, <1>3, <1>5, <1>6, <1>7, <1>8, <1>9, <1>10, <1>11 DEF Next

(* The variables of the bus keep their types.  The count of unanswered      *)
(* polls stops at its limit because the test of it is in the action.        *)
BusTyped ==
    /\ polled \in Device \cup {NoDevice} /\ prev \in Device \cup {NoDevice}
    /\ swgId \in Swg \cup {NoDevice}
    /\ heard \in BOOLEAN
    /\ interest \in {"NONE", "SWG", "OTHER"}
    /\ noreply \in 0..3
    /\ interest = "SWG" => prev \in Swg

(* Every step keeps the types of the bus.                                   *)
LEMMA BusStep == BusTyped /\ [Next]_vars => BusTyped'
<1> SUFFICES ASSUME BusTyped, [Next]_vars PROVE BusTyped'
    OBVIOUS
<1> USE DEF BusTyped
<1>1. ASSUME UNCHANGED bus PROVE BusTyped'
    BY <1>1 DEF bus
<1>2. ASSUME NEW d \in Device, NEW p, Poll(d, p) PROVE BusTyped'
    <2>1. polled' = d /\ heard' \in BOOLEAN
        BY <1>2, Zenon DEF Poll
    <2>2. CASE MissingAck
        <3>1. noreply' = noreply \/ (noreply < 3 /\ noreply' = noreply + 1)
            BY <2>2 DEF MissingAck
        <3>2. interest' = "NONE" /\ prev' = NoDevice /\ swgId' = swgId
            BY <2>2 DEF MissingAck
        <3> QED BY <2>1, <3>1, <3>2
    <2>3. CASE ToDevice(d, p)
        <3>1. /\ interest' = IF d \in Swg THEN "SWG" ELSE "OTHER"
              /\ prev' = d /\ UNCHANGED <<swgId, noreply>>
            BY <2>3 DEF ToDevice
        <3> QED BY <2>1, <3>1
    <2>4. CASE UNCHANGED <<interest, prev, swgId, noreply>>
        BY <2>1, <2>4
    <2> QED BY <1>2, <2>2, <2>3, <2>4 DEF Poll
<1>3. ASSUME NEW st, Answer(st) PROVE BusTyped'
    <2>1. polled' = NoDevice /\ interest' = "NONE" /\ prev' = NoDevice
        BY <1>3 DEF Answer
    <2>2. heard' \in BOOLEAN
        BY <1>3, Zenon DEF Answer
    <2>3. noreply' \in {0, noreply}
        BY <1>3 DEF Answer, FromSwg, FromOther
    <2>4. swgId' = swgId \/ (swgId' = prev /\ interest = "SWG")
        BY <1>3 DEF Answer, FromSwg, FromOther
    <2> QED BY <2>1, <2>2, <2>3, <2>4
<1>4. CASE AnswerLost
    BY <1>4 DEF AnswerLost
<1>5. ASSUME NEW p, AquapurePercent(p) \/ RequestPercent(p) \/ SwgProgram(p)
      PROVE  BusTyped'
    BY <1>5, <1>1 DEF AquapurePercent, Message, RequestPercent, SwgProgram
<1>6. CASE \/ \E st \in Shown : CheckAquapure(st)
           \/ SaltPpm \/ BoostRemaining
           \/ \E pump \in {"ON", "OFF"} : CycleEnds(pump)
    BY <1>6, <1>1 DEF CheckAquapure, SaltPpm, BoostRemaining, Message, CycleEnds
<1>7. CASE ProgramEnds \/ \E k \in {"other", "boost"} : OtherProgram(k)
    BY <1>7, <1>1 DEF ProgramEnds, OtherProgram
<1> QED BY <1>1, <1>2, <1>3, <1>4, <1>5, <1>6, <1>7 DEF Next, vars

(* The programs keep their types, and every one of them was asked for.      *)
ProgramsTyped ==
    /\ delayed \in Percents \cup {Unknown}
    /\ msg_loop \subseteq {"SWG", "SWG_DEVICE", "BOOST"}
    /\ active \in [kind : {"none", "other", "boost"}, percent : {Unknown}]
                 \cup [kind : {"swg"}, percent : Percents]
    /\ waiting \in [Percents -> Nat]
    /\ requests \in 0..Requests

(* Every step keeps the types of the programs, and no more of them than were*)
(* asked for.                                                               *)
LEMMA ProgramsStep ==
    ProgramsTyped /\ Counted /\ [Next]_vars => ProgramsTyped' /\ Counted'
<1> SUFFICES ASSUME ProgramsTyped, Counted, [Next]_vars
             PROVE  ProgramsTyped' /\ Counted'
    OBVIOUS
<1>0. Unknown \notin Percents
    BY SwgAssumption DEF Unknown, Boosted
<1> USE SwgAssumption DEF ProgramsTyped, Counted
<1>1. ASSUME UNCHANGED <<delayed, active, waiting, requests>>,
             msg_loop' \subseteq {"SWG", "SWG_DEVICE", "BOOST"}
      PROVE  ProgramsTyped' /\ Counted'
    BY <1>1
<1>2. ASSUME NEW d, NEW p, Poll(d, p) PROVE ProgramsTyped' /\ Counted'
    BY <1>1, <1>2 DEF Poll
<1>3. ASSUME NEW st, Answer(st) PROVE ProgramsTyped' /\ Counted'
    <2>1. CASE UNCHANGED <<delayed, waiting>>
        BY <2>1, <1>1, <1>3 DEF Answer
    <2>2. CASE delayed # Unknown /\ StartProgram(delayed) /\ delayed' = Unknown
        <3>1. UNCHANGED <<msg_loop, active, requests>>
            BY <1>3 DEF Answer
        <3>2. waiting' = [waiting EXCEPT ![delayed] = @ + 1]
            BY <2>2 DEF StartProgram
        <3>3. ProgramsTyped'
            BY <2>2, <3>1, <3>2
        <3>4. ASSUME NEW p \in Percents
              PROVE  waiting'[p] + (IF delayed' = p THEN 1 ELSE 0) <= requests'
            BY <1>0, <2>2, <3>1, <3>2, <3>4
        <3> QED BY <3>3, <3>4
    <2> QED BY <1>3, <2>1, <2>2 DEF Answer, FromSwg, FromOther, StatusFromSwg
<1>4. ASSUME NEW p \in Percents, RequestPercent(p) PROVE ProgramsTyped' /\ Counted'
    <2>1. /\ requests' = requests + 1 /\ requests' \in 0..Requests
          /\ UNCHANGED <<msg_loop, active>>
        BY <1>4 DEF RequestPercent
    <2>2. CASE delayed' = p /\ UNCHANGED waiting
        BY <2>1, <2>2
    <2>3. CASE UNCHANGED <<delayed, waiting>>
        BY <2>1, <2>3
    <2>4. CASE UNCHANGED delayed /\ StartProgram(p)
        <3>1. waiting' = [waiting EXCEPT ![p] = @ + 1]
            BY <2>4 DEF StartProgram
        <3>2. ProgramsTyped'
            BY <2>1, <2>4, <3>1
        <3>3. ASSUME NEW q \in Percents
              PROVE  waiting'[q] + (IF delayed' = q THEN 1 ELSE 0) <= requests'
            BY <2>1, <2>4, <3>1
        <3> QED BY <3>2, <3>3
    <2> QED BY <1>4, <2>2, <2>3, <2>4 DEF RequestPercent
<1>5. ASSUME NEW p \in Percents, SwgProgram(p) PROVE ProgramsTyped' /\ Counted'
    <2>1. ProgramsTyped'
        BY <1>5 DEF SwgProgram
    <2>2. Counted'
        BY <1>5 DEF SwgProgram
    <2> QED BY <2>1, <2>2
<1>6. ASSUME NEW k \in {"other", "boost"}, OtherProgram(k)
      PROVE  ProgramsTyped' /\ Counted'
    <2>1. ProgramsTyped'
        BY <1>6 DEF OtherProgram
    <2>2. Counted'
        BY <1>6 DEF OtherProgram
    <2> QED BY <2>1, <2>2
<1>7. CASE ProgramEnds
    BY <1>7 DEF ProgramEnds, Idle
<1>8. CASE \/ \E p \in Percents : AquapurePercent(p)
           \/ \E st \in Shown : CheckAquapure(st)
           \/ SaltPpm \/ BoostRemaining
           \/ \E pump \in {"ON", "OFF"} : CycleEnds(pump)
    BY <1>8, <1>1
       DEF AquapurePercent, CheckAquapure, SaltPpm, BoostRemaining, Message, CycleEnds
<1>9. CASE AnswerLost \/ UNCHANGED vars
    BY <1>9, <1>1 DEF AnswerLost, vars
<1> QED BY <1>2, <1>3, <1>4, <1>5, <1>6, <1>7, <1>8, <1>9 DEF Next

-----------------------------------------------------------------------------
(* The type invariant follows from its parts, and the parts from it.        *)
SwgParts == BusTyped /\ ProgramsTyped /\ Counted /\ Consistent(swg)

(* The parts of the invariant give the types and the properties.            *)
LEMMA PartsAreTyped == SwgParts => TypeOK /\ SwgInv
<1> SUFFICES ASSUME SwgParts PROVE TypeOK /\ SwgInv
    OBVIOUS
<1>1. ASSUME NEW p \in Percents PROVE waiting[p] \in 0..Requests
    BY SwgAssumption DEF SwgParts, ProgramsTyped, Counted
<1>2. waiting \in [Percents -> 0..Requests]
    BY <1>1 DEF SwgParts, ProgramsTyped
<1>3. TypeOK
    BY <1>2 DEF SwgParts, BusTyped, ProgramsTyped, Consistent, TypeOK
<1> QED BY <1>3 DEF SwgParts, SwgInv, Consistent

(* The parts of the invariant hold throughout.                              *)
LEMMA PartsHold == Spec => []SwgParts
<1>1. Init => SwgParts
    <2> SUFFICES ASSUME Init PROVE SwgParts
        OBVIOUS
    <2> USE SwgAssumption DEF Init
    <2>1. BusTyped
        <3>1. /\ polled = NoDevice /\ prev = NoDevice /\ swgId = NoDevice
              /\ interest = "NONE" /\ noreply = 0
            BY DEF Init
        <3>2. heard \in BOOLEAN
            BY Zenon DEF Init
        <3> HIDE DEF Init
        <3> QED BY <3>1, <3>2 DEF BusTyped
    <2>2. ProgramsTyped /\ Counted
        BY DEF ProgramsTyped, Counted, Idle, Unknown, Boosted
    <2>3. Consistent(swg)
        BY DEF Consistent, Matched, SwgRecord, Status, LitState
    <2> QED BY <2>1, <2>2, <2>3 DEF SwgParts
<1>2. SwgParts /\ [Next]_vars => SwgParts'
    BY BusStep, ProgramsStep, RecordStep, PartsAreTyped DEF SwgParts
<1> QED BY <1>1, <1>2, PTL DEF Spec

(* The variables keep their types; no more programs wait than were asked    *)
(* for, and the count of unanswered polls never passes its limit.           *)
THEOREM TypeCorrect == Spec => []TypeOK
BY PartsHold, PartsAreTyped, PTL

(* The status is the last one reported, with the exceptions it names.       *)
THEOREM LastReportStands == Spec => []StatusIsLastReport
<1>1. SwgParts => StatusIsLastReport
    BY DEF SwgParts, Consistent, Matched, StatusIsLastReport
<1> QED BY <1>1, PartsHold, PTL

(* A dark LED stands for a device that is off.                              *)
THEOREM DarkLedMeansOff == Spec => []DarkMeansOff
<1>1. SwgParts => DarkMeansOff
    BY DEF SwgParts, Consistent, Matched, DarkMeansOff
<1> QED BY <1>1, PartsHold, PTL
=============================================================================
