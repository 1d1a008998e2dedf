-------------------------- MODULE DeviceTimerProofs --------------------------
(* What DeviceTimer promises for any threads, timers and durations, proved. *)
EXTENDS DeviceTimer, SequenceTheorems, TLAPS


(* What a step of a request carries.                                        *)
LEMMA StepShape ==
    ASSUME NEW s \in Step
    PROVE  /\ s[1] \in {"set", "preset", "start", "create", "store", "press", "clear"}
           /\ s[1] \in {"set", "preset"} => s[2] \in BOOLEAN /\ s = <<s[1], s[2]>>
           /\ s[1] \in {"start", "create"} => s[2] \in Durations \cup Runtimes
           /\ s[1] = "store" => s[2] \in Worker /\ s[3] \in {0} \cup Durations \cup Runtimes
           /\ s[1] = "press" => s = <<"press">>
<1>1. CASE \E on \in BOOLEAN : s = <<"set", on>>
    BY <1>1
<1>2. CASE \E on \in BOOLEAN : s = <<"preset", on>>
    BY <1>2
<1>3. CASE \E d \in Durations \cup Runtimes : s = <<"start", d>>
    BY <1>3
<1>4. CASE \E d \in Durations \cup Runtimes : s = <<"create", d>>
    BY <1>4
<1>5. CASE \E w \in Worker, d \in {0} \cup Durations \cup Runtimes : s = <<"store", w, d>>
    BY <1>5
<1>6. CASE s = <<"press">> \/ s = <<"clear">>
    BY <1>6
<1> QED BY <1>1, <1>2, <1>3, <1>4, <1>5, <1>6 DEF Step

(* Whatever a timer is given to run is a number of seconds.                 *)
LEMMA SecondsAreNat == \A d \in {0} \cup Durations \cup Runtimes : d \in Nat
BY TimerAssumption

(* The sequences of steps that the requests are made of.                    *)
LEMMA Requested ==
    /\ On \in Seq(Step) /\ Off \in Seq(Step)
    /\ \A d \in Durations \cup Runtimes : Timed(d) \in Seq(Step)
    /\ \A d \in Durations \cup Runtimes, on \in BOOLEAN :
          << <<"start", d>> >> \o << <<"press">>, <<"preset", on>> >> \in Seq(Step)
    /\ \A on \in BOOLEAN : <<>> \o << <<"press">>, <<"preset", on>> >> \in Seq(Step)
    /\ <<>> \in Seq(Step)
    /\ \A s \in Step : <<s>> \in Seq(Step)
<1>1. \A S : \A s, t \in S : <<s>> \in Seq(S) /\ <<s, t>> \in Seq(S)
    OBVIOUS
<1>2. /\ \A on \in BOOLEAN : <<"set", on>> \in Step /\ <<"preset", on>> \in Step
      /\ \A d \in Durations \cup Runtimes : <<"start", d>> \in Step
      /\ <<"press">> \in Step /\ <<"clear">> \in Step
    BY DEF Step
<1>3. <<>> \in Seq(Step)
    OBVIOUS
<1>4. On \in Seq(Step) /\ Off \in Seq(Step)
    BY <1>1, <1>2, Zenon DEF On, Off
<1>5. ASSUME NEW d \in Durations \cup Runtimes PROVE Timed(d) \in Seq(Step)
    BY <1>1, <1>2, Zenon DEF Timed
<1>6. ASSUME NEW on \in BOOLEAN PROVE << <<"press">>, <<"preset", on>> >> \in Seq(Step)
    BY <1>1, <1>2, Zenon
<1>7. \A s, t \in Seq(Step) : s \o t \in Seq(Step)
    BY ConcatProperties
<1> QED BY <1>1, <1>2, <1>3, <1>4, <1>5, <1>6, <1>7, Zenon

(* The rest of a request, after other steps or none.                        *)
LEMMA GotoType ==
    ASSUME TypeOK, NEW a \in Actor, Busy(a), NEW steps \in Seq(Step), Goto(a, steps)
    PROVE  todo' \in [Actor -> Seq(Step)]
<1>1. todo[a] \in Seq(Step) /\ todo[a] # <<>>
    BY DEF TypeOK, Busy
<1>2. steps \o Tail(todo[a]) \in Seq(Step)
    BY <1>1, HeadTailProperties, ConcatProperties
<1> QED BY <1>2 DEF Goto, TypeOK

-----------------------------------------------------------------------------
(* A timer that still looks at the LED has looked less often than it may.   *)
Looks == {"new", "led", "delay"}
TypeInv ==
    /\ TypeOK
    /\ \A w \in Worker : timer[w].pc \in Looks => timer[w].tries < GiveUpAt

(* A list from which one entry is removed keeps all the others.             *)
LEMMA WithoutOne ==
    ASSUME NEW S, NEW s \in Seq(S), NEW i \in DOMAIN s
    PROVE  LET r == SubSeq(s, 1, i - 1) \o SubSeq(s, i + 1, Len(s))
           IN  /\ r \in Seq(S)
               /\ Len(r) = Len(s) - 1
               /\ \A j \in DOMAIN s : j # i => \E k \in DOMAIN r : r[k] = s[j]
<1> DEFINE p == SubSeq(s, 1, i - 1)
           q == SubSeq(s, i + 1, Len(s))
<1>1. Len(s) \in Nat /\ DOMAIN s = 1..Len(s) /\ \A j \in 1..Len(s) : s[j] \in S
    BY LenProperties, ElementOfSeq
<1>2. /\ p \in Seq(S) /\ Len(p) = i - 1
      /\ \A j \in 1..(i - 1) : p[j] = s[j]
    BY <1>1, SubSeqProperties
<1>3. /\ q \in Seq(S) /\ Len(q) = Len(s) - i
      /\ \A j \in 1..(Len(s) - i) : q[j] = s[i + j]
    BY <1>1, SubSeqProperties
<1> HIDE DEF p, q
<1> DEFINE r == p \o q
<1>4. /\ r \in Seq(S) /\ Len(r) = Len(p) + Len(q)
      /\ \A j \in 1..(Len(p) + Len(q)) : r[j] = IF j <= Len(p) THEN p[j] ELSE q[j - Len(p)]
    BY <1>2, <1>3, ConcatProperties
<1>5. DOMAIN r = 1..Len(r)
    BY <1>4, LenProperties
<1> HIDE DEF r
<1>6. Len(r) = Len(s) - 1 /\ DOMAIN r = 1..(Len(s) - 1) /\ i \in 1..Len(s)
    BY <1>1, <1>2, <1>3, <1>4, <1>5
<1>7. ASSUME NEW j \in DOMAIN s, j # i
      PROVE  \E k \in DOMAIN r : r[k] = s[j]
    <2>1. CASE j < i
        <3>1. j \in 1..(Len(p) + Len(q)) /\ j <= Len(p) /\ j \in 1..(i - 1) /\ j \in DOMAIN r
            BY <1>1, <1>2, <1>3, <1>6, <2>1
        <3> QED BY <1>2, <1>4, <3>1
    <2>2. CASE j > i
        <3>1. /\ j - 1 \in 1..(Len(p) + Len(q)) /\ ~(j - 1 <= Len(p)) /\ j - 1 \in DOMAIN r
              /\ j - i \in 1..(Len(s) - i) /\ (j - 1) - Len(p) = j - i /\ i + (j - i) = j
            <4>1. Len(s) \in Nat /\ j \in 1..Len(s) /\ i \in 1..Len(s)
                BY <1>1
            <4>2. Len(p) = i - 1 /\ Len(q) = Len(s) - i /\ DOMAIN r = 1..(Len(s) - 1)
                BY <1>2, <1>3, <1>6
            <4>3. j - 1 \in 1..(Len(s) - 1) /\ j - i \in 1..(Len(s) - i)
                BY <2>2, <4>1
            <4>4. Len(p) + Len(q) = Len(s) - 1 /\ ~(j - 1 <= Len(p))
                BY <2>2, <4>1, <4>2
            <4>5. (j - 1) - Len(p) = j - i /\ i + (j - i) = j
                BY <4>1, <4>2
            <4>6. j - 1 \in 1..(Len(p) + Len(q)) /\ j - 1 \in DOMAIN r
                BY <4>2, <4>3, <4>4, Zenon
            <4> QED BY <4>3, <4>4, <4>5, <4>6, Zenon
        <3>2. r[j - 1] = q[j - i]
            BY <1>4, <3>1
        <3>3. q[j - i] = s[j]
            BY <1>3, <3>1
        <3> QED BY <3>1, <3>2, <3>3
    <2> QED BY <1>1, <1>6, <1>7, <2>1, <2>2
<1> QED BY <1>4, <1>6, <1>7 DEF p, q, r

(* Putting a record in the place of another keeps the timers in their type. *)
Good(t) ==
    /\ t \in TimerRecord
    /\ t.pc \in Looks => t.tries < GiveUpAt

(* A timer that is put in the place of another is as good as it.            *)
LEMMA Replaced ==
    ASSUME TypeInv, NEW w \in Worker, NEW t, Good(t), timer' = [timer EXCEPT ![w] = t]
    PROVE  /\ timer' \in [Worker -> TimerRecord]
           /\ \A v \in Worker : timer'[v].pc \in Looks => timer'[v].tries < GiveUpAt
<1>1. timer \in [Worker -> {u \in {timer[v] : v \in Worker} : Good(u)}]
    BY DEF TypeInv, TypeOK, Good
<1>2. \A v \in Worker : Good(timer'[v])
    BY <1>1
<1>3. timer' = [v \in Worker |-> timer'[v]]
    BY <1>1
<1> QED BY <1>2, <1>3 DEF Good

(* Every timer is as the types say.                                         *)
LEMMA GoodNow == TypeInv => \A w \in Worker : Good(timer[w])
BY DEF TypeInv, TypeOK, Good

(* Every step of a request keeps the types: what is left of the request     *)
(* is still one.                                                            *)
LEMMA RequestTypes == \A a \in Actor : TypeInv /\ RequestStep(a) => TypeInv'
<1> SUFFICES ASSUME TypeInv, NEW a \in Actor, RequestStep(a)
             PROVE  TypeInv'
    OBVIOUS
<1> DEFINE s == todo[a][1]
<1>1. Busy(a)
    BY DEF RequestStep, Set, Press, Preset, Start, Create, Store, Clear, Now
<1>2. s \in Step
    BY <1>1, ElementOfSeq, EmptySeq DEF TypeInv, TypeOK, Busy
<1> HIDE DEF s
<1> DEFINE typed == todo' \in [Actor -> Seq(Step)]
<1> HIDE DEF typed
<1>3. ASSUME NEW steps \in Seq(Step), Goto(a, steps) PROVE typed
    BY <1>1, <1>3, GotoType DEF TypeInv, typed
<1>4. typed /\ UNCHANGED timer /\ runtime' \in Runtimes
      /\ {device', seen', led', mask', stale', unheeded'} \subseteq BOOLEAN
      /\ keys' \in Nat /\ list' \in Seq(Worker) /\ requests' \in 0..Requests
      /\ wish' \in {"OFF", "ON", "TIMED"} /\ left' \in Nat
      => TypeInv'
    BY DEF TypeInv, TypeOK, typed
<1> USE TimerAssumption DEF TypeInv, TypeOK, panel, history
<1>5. CASE Set(a)
    <2>1. s[2] \in BOOLEAN
        BY <1>2, <1>5, StepShape DEF Set, Now, s
    <2>2. runtime > 0 => runtime \in Durations \cup Runtimes
        OBVIOUS
    <2>3. typed
        BY <1>3, <1>5, <2>1, <2>2, Requested DEF Set, s
    <2> QED BY <1>4, <1>5, <2>3 DEF Set
<1>6. CASE Press(a)
    <2>1. typed
        BY <1>3, <1>6, Requested DEF Press
    <2> QED BY <1>4, <1>6, <2>1 DEF Press
<1>7. CASE Preset(a)
    <2>1. s[2] \in BOOLEAN
        BY <1>2, <1>7, StepShape DEF Preset, Now, s
    <2> QED BY <1>3, <1>4, <1>7, <2>1, Requested DEF Preset, s
<1>8. CASE Start(a)
    <2>1. s[2] \in Durations \cup Runtimes
        BY <1>2, <1>8, StepShape DEF Start, Now, s
    <2>2. IF list = <<>> THEN <<"create", s[2]>> \in Step ELSE <<"store", Head(list), s[2]>> \in Step
        <3>1. list # <<>> => Head(list) \in Worker
            BY HeadTailProperties
        <3>2. \A e \in {0} \cup Durations \cup Runtimes :
                 <<"create", e>> \in Step \/ e \notin Durations \cup Runtimes
            BY DEF Step
        <3>3. \A v \in Worker, e \in {0} \cup Durations \cup Runtimes : <<"store", v, e>> \in Step
            BY DEF Step
        <3> QED BY <2>1, <3>1, <3>2, <3>3, Zenon
    <2>3. typed
        BY <1>3, <1>8, <2>2, Requested DEF Start, s
    <2> QED BY <1>4, <1>8, <2>3 DEF Start
<1>9. CASE Create(a)
    <2> DEFINE w == CHOOSE v \in Worker : timer[v] = Free
               d == s[2]
    <2>1. w \in Worker /\ timer[w] = Free
        BY <1>9 DEF Create
    <2>2. d \in Durations \cup Runtimes
        BY <1>2, <1>9, StepShape DEF Create, Now, s
    <2>3. /\ timer' = [timer EXCEPT ![w].pc = "new", ![w].duration = d]
          /\ list' = Append(list, w) /\ left' = d
          /\ Goto(a, <<>>)
          /\ unheeded' \in BOOLEAN
          /\ UNCHANGED <<runtime, panel, mask, requests, wish, stale>>
        BY <1>9 DEF Create, s
    <2> HIDE DEF w, d
    <2>4. typed
        BY <1>3, <2>3, Requested
    <2>5. list' \in Seq(Worker)
        BY <2>1, <2>3, AppendProperties
    <2> DEFINE t == [timer[w] EXCEPT !.pc = "new", !.duration = d]
    <2>6. timer' = [timer EXCEPT ![w] = t]
        BY <2>1, <2>3
    <2>7. Good(t)
        <3>1. timer[w].tries = 0
            BY <2>1 DEF Free
        <3>2. timer[w] \in TimerRecord
            BY <2>1
        <3>3. t \in TimerRecord
            BY <2>2, <3>2 DEF TimerRecord
        <3>4. t.tries < GiveUpAt
            BY <3>1, <3>2 DEF TimerRecord
        <3> QED BY <3>3, <3>4 DEF Good
    <2> HIDE DEF t
    <2>8. /\ timer' \in [Worker -> TimerRecord]
          /\ \A v \in Worker : timer'[v].pc \in Looks => timer'[v].tries < GiveUpAt
        BY <2>1, <2>6, <2>7, Replaced
    <2> QED BY <2>2, <2>3, <2>4, <2>5, <2>8 DEF typed
<1>10. CASE Store(a)
    <2> DEFINE w == s[2]
               d == s[3]
    <2>1. w \in Worker /\ d \in {0} \cup Durations \cup Runtimes
        BY <1>2, <1>10, StepShape DEF Store, Now, s
    <2>2. /\ timer' = IF timer[w].pc = "free" THEN timer
                      ELSE [timer EXCEPT ![w].duration = d,
                                         ![w].pc = IF @ = "wait" THEN "woken" ELSE @]
          /\ left' = IF a \in Client THEN d ELSE left
          /\ Goto(a, <<>>)
          /\ unheeded' \in BOOLEAN
          /\ UNCHANGED <<runtime, panel, mask, list, requests, wish, stale>>
        BY <1>10 DEF Store, s
    <2> HIDE DEF w, d
    <2>3. typed
        BY <1>3, <2>2, Requested
    <2> DEFINE t == [timer[w] EXCEPT !.duration = d,
                                     !.pc = IF @ = "wait" THEN "woken" ELSE @]
    <2>4. timer' = timer \/ timer' = [timer EXCEPT ![w] = t]
        BY <2>1, <2>2
    <2>5. Good(t)
        BY <2>1, GoodNow DEF Good, Looks, TimerRecord
    <2> HIDE DEF t
    <2>6. /\ timer' \in [Worker -> TimerRecord]
          /\ \A v \in Worker : timer'[v].pc \in Looks => timer'[v].tries < GiveUpAt
        BY <2>1, <2>4, <2>5, Replaced
    <2> QED BY <2>1, <2>2, <2>3, <2>6 DEF typed
<1>11. CASE Clear(a)
    <2>1. <<"store", Head(list), 0>> \in Step \/ list = <<>>
        BY HeadTailProperties DEF Step
    <2>2. typed
        BY <1>3, <1>11, <2>1, Requested DEF Clear
    <2> QED BY <1>4, <1>11, <2>2 DEF Clear
<1> QED BY <1>5, <1>6, <1>7, <1>8, <1>9, <1>10, <1>11 DEF RequestStep

(* So does every step of a timer.  The give-up bounds how often it looks.   *)
LEMMA TimerTypes == \A w \in Worker : TypeInv /\ TimerStep(w) => TypeInv'
<1> SUFFICES ASSUME TypeInv, NEW w \in Worker, TimerStep(w)
             PROVE  TypeInv'
    OBVIOUS
<1> USE TimerAssumption
<1>1. /\ timer' \in [Worker -> TimerRecord]
      /\ \A v \in Worker : timer'[v].pc \in Looks => timer'[v].tries < GiveUpAt
      /\ todo' \in [Actor -> Seq(Step)]
      /\ mask' \in BOOLEAN /\ list' \in Seq(Worker)
      /\ wish' \in {"OFF", "ON", "TIMED"}
      /\ stale' \in BOOLEAN /\ unheeded' \in BOOLEAN
      /\ UNCHANGED <<runtime, device, seen, led, keys, requests, left>>
      => TypeInv'
    BY DEF TypeInv, TypeOK
<1> DEFINE unasked == UNCHANGED <<runtime, panel, list, todo, requests, history>>
<1>0. unasked /\ mask' \in BOOLEAN =>
      /\ todo' \in [Actor -> Seq(Step)] /\ list' \in Seq(Worker)
      /\ wish' \in {"OFF", "ON", "TIMED"}
      /\ stale' \in BOOLEAN /\ unheeded' \in BOOLEAN
      /\ UNCHANGED <<runtime, device, seen, led, keys, requests, left>>
    BY DEF TypeInv, TypeOK, panel, history
<1>mask. mask \in BOOLEAN
    BY DEF TypeInv, TypeOK
<1> HIDE DEF unasked
<1>2. CASE Begin(w)
    <2> DEFINE t == [timer[w] EXCEPT !.pc = "led"]
    <2>1. timer' = [timer EXCEPT ![w] = t]
        BY <1>2 DEF Begin, At, Move
    <2>2. Good(t)
        BY <1>2, GoodNow DEF Begin, At, Good, Looks, TimerRecord
    <2> HIDE DEF t
    <2>3. unasked /\ mask' \in BOOLEAN
        BY <1>mask, <1>2 DEF Begin, unasked
    <2>4. /\ timer' \in [Worker -> TimerRecord]
          /\ \A v \in Worker : timer'[v].pc \in Looks => timer'[v].tries < GiveUpAt
        BY <2>1, <2>2, Replaced
    <2> QED BY <1>0, <1>1, <2>3, <2>4
<1>3. CASE CheckLed(w)
    <2> DEFINE t == [timer[w] EXCEPT !.pc = IF led THEN "arm" ELSE "delay",
                                     !.alarm = IF led THEN 0 ELSE 1]
    <2>1. timer' = [timer EXCEPT ![w] = t]
        BY <1>3 DEF CheckLed, At, Move
    <2>2. Good(t)
        BY <1>3, GoodNow DEF CheckLed, At, Good, Looks, TimerRecord
    <2> HIDE DEF t
    <2>3. unasked /\ mask' \in BOOLEAN
        BY <1>mask, <1>3 DEF CheckLed, unasked
    <2>4. /\ timer' \in [Worker -> TimerRecord]
          /\ \A v \in Worker : timer'[v].pc \in Looks => timer'[v].tries < GiveUpAt
        BY <2>1, <2>2, Replaced
    <2> QED BY <1>0, <1>1, <2>3, <2>4
<1>4. CASE AskForOn(w)
    <2> DEFINE t == [timer[w] EXCEPT !.tries = @ + 1, !.pc = "led"]
    <2>1. timer' = [timer EXCEPT ![w] = t]
        BY <1>4 DEF AskForOn, At, Move
    <2>2. Good(t)
        <3>1. timer[w] \in TimerRecord /\ timer[w].tries = AskAt
            BY <1>4, GoodNow DEF AskForOn, At, Good
        <3>2. timer[w].tries + 1 \in 0..GiveUpAt /\ timer[w].tries + 1 < GiveUpAt
            BY <3>1
        <3>3. t \in TimerRecord /\ t.tries = timer[w].tries + 1
            BY <3>1, <3>2 DEF TimerRecord
        <3> QED BY <3>2, <3>3 DEF Good
    <2> HIDE DEF t
    <2>3. todo' \in [Actor -> Seq(Step)] /\ stale' \in BOOLEAN /\ unheeded' \in BOOLEAN
        BY <1>4, Requested DEF AskForOn, Ask, TypeInv, TypeOK
    <2>4. list' \in Seq(Worker) /\ wish' \in {"OFF", "ON", "TIMED"}
          /\ UNCHANGED <<runtime, device, seen, led, keys, requests, left, mask>>
        BY <1>4 DEF AskForOn, Ask, panel, TypeInv, TypeOK
    <2>5. /\ timer' \in [Worker -> TimerRecord]
          /\ \A v \in Worker : timer'[v].pc \in Looks => timer'[v].tries < GiveUpAt
        BY <2>1, <2>2, Replaced
    <2> QED BY <1>1, <1>mask, <2>3, <2>4, <2>5
<1>5. CASE LookAgain(w)
    <2> DEFINE t == [timer[w] EXCEPT !.tries = @ + 1,
                   !.pc = IF timer[w].tries + 1 = GiveUpAt THEN "arm" ELSE "led"]
    <2>1. timer' = [timer EXCEPT ![w] = t]
        BY <1>5 DEF LookAgain, At, Move
    <2>2. Good(t)
        <3>1. timer[w] \in TimerRecord /\ timer[w].tries < GiveUpAt
            BY <1>5, GoodNow DEF LookAgain, At, Good, Looks
        <3>2. timer[w].tries + 1 \in 0..GiveUpAt
              /\ (timer[w].tries + 1 < GiveUpAt \/ timer[w].tries + 1 = GiveUpAt)
            BY <3>1 DEF TimerRecord
        <3>3. t \in TimerRecord /\ t.tries = timer[w].tries + 1
              /\ t.pc = IF timer[w].tries + 1 = GiveUpAt THEN "arm" ELSE "led"
            BY <3>1, <3>2 DEF TimerRecord
        <3> QED BY <3>2, <3>3 DEF Good, Looks
    <2> HIDE DEF t
    <2>3. unasked /\ mask' \in BOOLEAN
        BY <1>mask, <1>5 DEF LookAgain, unasked
    <2>4. /\ timer' \in [Worker -> TimerRecord]
          /\ \A v \in Worker : timer'[v].pc \in Looks => timer'[v].tries < GiveUpAt
        BY <2>1, <2>2, Replaced
    <2> QED BY <1>0, <1>1, <2>3, <2>4
<1>6. CASE Arm(w)
    <2> DEFINE t == [timer[w] EXCEPT !.pc = "loop", !.armed = timer[w].duration, !.ran = 0]
    <2>1. timer' = [timer EXCEPT ![w] = t]
        BY <1>6 DEF Arm, At, Move
    <2>2. Good(t)
        BY <1>6, GoodNow DEF Arm, At, Good, Looks, TimerRecord
    <2> HIDE DEF t
    <2>3. unasked /\ mask' \in BOOLEAN
        BY <1>mask, <1>6 DEF Arm, unasked
    <2>4. /\ timer' \in [Worker -> TimerRecord]
          /\ \A v \in Worker : timer'[v].pc \in Looks => timer'[v].tries < GiveUpAt
        BY <2>1, <2>2, Replaced
    <2> QED BY <1>0, <1>1, <2>3, <2>4
<1>7. CASE Loop(w)
    <2> DEFINE t == [timer[w] EXCEPT
                   !.pc = IF Remaining(w) <= 0 THEN "end" ELSE "wait",
                   !.alarm = IF Remaining(w) <= 0 THEN 0 ELSE Alarm(Remaining(w))]
    <2>1. timer' = [timer EXCEPT ![w] = t]
        BY <1>7 DEF Loop, At, Move
    <2>2. Good(t)
        <3>1. timer[w] \in TimerRecord
            BY GoodNow DEF Good
        <3>2. Remaining(w) <= 0 \/ Alarm(Remaining(w)) \in Nat
            <4>armed. timer[w].armed \in {0} \cup Durations \cup Runtimes
                  /\ timer[w].ran \in Nat
                BY <3>1 DEF TimerRecord
            <4>1. timer[w].armed \in Nat /\ timer[w].ran \in Nat
                BY <4>armed, SecondsAreNat
            <4>2. Remaining(w) \in Int
                BY <4>1 DEF Remaining
            <4> QED BY <4>2 DEF Alarm
        <3>3. t \in TimerRecord /\ t.pc \in {"end", "wait"}
            BY <3>1, <3>2 DEF TimerRecord
        <3> QED BY <3>3 DEF Good, Looks
    <2> HIDE DEF t
    <2>3. unasked /\ mask' \in BOOLEAN
        BY <1>mask, <1>7 DEF Loop, unasked
    <2>4. /\ timer' \in [Worker -> TimerRecord]
          /\ \A v \in Worker : timer'[v].pc \in Looks => timer'[v].tries < GiveUpAt
        BY <2>1, <2>2, Replaced
    <2> QED BY <1>0, <1>1, <2>3, <2>4
<1>8. CASE Timeout(w)
    <2> DEFINE t == [timer[w] EXCEPT !.pc = "loop"]
    <2>1. timer' = [timer EXCEPT ![w] = t]
        BY <1>8 DEF Timeout, At, Move
    <2>2. Good(t)
        BY <1>8, GoodNow DEF Timeout, At, Good, Looks, TimerRecord
    <2> HIDE DEF t
    <2>3. unasked /\ mask' \in BOOLEAN
        BY <1>mask, <1>8 DEF Timeout, unasked
    <2>4. /\ timer' \in [Worker -> TimerRecord]
          /\ \A v \in Worker : timer'[v].pc \in Looks => timer'[v].tries < GiveUpAt
        BY <2>1, <2>2, Replaced
    <2> QED BY <1>0, <1>1, <2>3, <2>4
<1>9. CASE Woken(w)
    <2> DEFINE t == [timer[w] EXCEPT
                   !.pc = IF timer[w].duration = 0 THEN "end" ELSE "loop",
                   !.armed = IF timer[w].duration = 0 THEN @ ELSE timer[w].duration,
                   !.ran = IF timer[w].duration = 0 THEN @ ELSE 0,
                   !.alarm = 0]
    <2>1. timer' = [timer EXCEPT ![w] = t]
        BY <1>9 DEF Woken, At, Move
    <2>2. Good(t)
        BY <1>9, GoodNow DEF Woken, At, Good, Looks, TimerRecord
    <2> HIDE DEF t
    <2>3. unasked /\ mask' \in BOOLEAN
        BY <1>mask, <1>9 DEF Woken, unasked
    <2>4. /\ timer' \in [Worker -> TimerRecord]
          /\ \A v \in Worker : timer'[v].pc \in Looks => timer'[v].tries < GiveUpAt
        BY <2>1, <2>2, Replaced
    <2> QED BY <1>0, <1>1, <2>3, <2>4
<1>10. CASE AskForOff(w)
    <2> DEFINE t == [timer[w] EXCEPT !.pc = "leave"]
    <2>1. timer' = [timer EXCEPT ![w] = t]
        BY <1>10 DEF AskForOff, At, Move
    <2>2. Good(t)
        BY <1>10, GoodNow DEF AskForOff, At, Good, Looks, TimerRecord
    <2> HIDE DEF t
    <2>3. todo' \in [Actor -> Seq(Step)] /\ stale' \in BOOLEAN /\ unheeded' \in BOOLEAN
        BY <1>10, Requested DEF AskForOff, Ask, TypeInv, TypeOK
    <2>4. list' \in Seq(Worker) /\ wish' \in {"OFF", "ON", "TIMED"}
          /\ UNCHANGED <<runtime, device, seen, led, keys, requests, left, mask>>
        BY <1>10 DEF AskForOff, Ask, panel, TypeInv, TypeOK
    <2>5. /\ timer' \in [Worker -> TimerRecord]
          /\ \A v \in Worker : timer'[v].pc \in Looks => timer'[v].tries < GiveUpAt
        BY <2>1, <2>2, Replaced
    <2> QED BY <1>1, <1>mask, <2>3, <2>4, <2>5
<1>11. CASE EndQuietly(w)
    <2> DEFINE t == [timer[w] EXCEPT !.pc = "leave"]
    <2>1. timer' = [timer EXCEPT ![w] = t]
        BY <1>11 DEF EndQuietly, At, Move
    <2>2. Good(t)
        BY <1>11, GoodNow DEF EndQuietly, At, Good, Looks, TimerRecord
    <2> HIDE DEF t
    <2>3. unasked /\ mask' \in BOOLEAN
        BY <1>mask, <1>11 DEF EndQuietly, unasked
    <2>4. /\ timer' \in [Worker -> TimerRecord]
          /\ \A v \in Worker : timer'[v].pc \in Looks => timer'[v].tries < GiveUpAt
        BY <2>1, <2>2, Replaced
    <2> QED BY <1>0, <1>1, <2>3, <2>4
<1>12. CASE Leave(w)
    <2> DEFINE t == [timer[w] EXCEPT !.pc = "unlink"]
    <2>1. timer' = [timer EXCEPT ![w] = t]
        BY <1>12 DEF Leave, At, Move
    <2>2. Good(t)
        BY <1>12, GoodNow DEF Leave, At, Good, Looks, TimerRecord
    <2> HIDE DEF t
    <2>3. unasked /\ mask' \in BOOLEAN
        BY <1>mask, <1>12 DEF Leave, unasked
    <2>4. /\ timer' \in [Worker -> TimerRecord]
          /\ \A v \in Worker : timer'[v].pc \in Looks => timer'[v].tries < GiveUpAt
        BY <2>1, <2>2, Replaced
    <2> QED BY <1>0, <1>1, <2>3, <2>4
<1>13. CASE Unlink(w)
    <2> DEFINE t == Free
    <2>1. timer' = [timer EXCEPT ![w] = t]
        BY <1>13 DEF Unlink, At, Move
    <2>2. Good(t)
        BY <1>13, GoodNow DEF Unlink, At, Good, Looks, TimerRecord, Free
    <2> HIDE DEF t
    <2>3. PICK i \in DOMAIN list :
             list' = SubSeq(list, 1, i - 1) \o SubSeq(list, i + 1, Len(list))
        BY <1>13 DEF Unlink
    <2>4. list' \in Seq(Worker)
        BY <2>3, WithoutOne DEF TypeInv, TypeOK
    <2>5. /\ timer' \in [Worker -> TimerRecord]
          /\ \A v \in Worker : timer'[v].pc \in Looks => timer'[v].tries < GiveUpAt
        BY <2>1, <2>2, Replaced
    <2> QED BY <1>1, <1>13, <2>4, <2>5 DEF Unlink, TypeInv, TypeOK, panel, history
<1> QED BY <1>2, <1>3, <1>4, <1>5, <1>6, <1>7, <1>8, <1>9, <1>10, <1>11, <1>12, <1>13
        DEF TimerStep

(* Every step keeps the types.                                              *)
LEMMA TypeStep == TypeInv /\ [Next]_vars => TypeInv'
<1> SUFFICES ASSUME TypeInv, [Next]_vars PROVE TypeInv'
    OBVIOUS
<1> USE TimerAssumption DEF panel, history
<1>1. ASSUME NEW c \in Client, Request(c) PROVE TypeInv'
    <2>1. todo' \in [Actor -> Seq(Step)]
        <3>1. todo \in [Actor -> Seq(Step)] /\ c \in Actor
            BY DEF TypeInv, TypeOK, Actor
        <3>2. PICK steps \in Seq(Step) : todo' = [todo EXCEPT ![c] = steps]
            BY <1>1, Requested, Zenon DEF Request
        <3> QED BY <3>1, <3>2
    <2> QED BY <1>1, <2>1 DEF Request, TypeInv, TypeOK
<1>2. CASE Status
    <2>1. led' \in BOOLEAN /\ stale' \in BOOLEAN /\ seen' \in BOOLEAN /\ device' \in BOOLEAN
        BY <1>2, Zenon DEF Status, TypeInv, TypeOK
    <2>2. keys' \in Nat
        <3>1. keys \in Nat
            BY DEF TypeInv, TypeOK
        <3> QED BY <1>2, <3>1 DEF Status
    <2> QED BY <1>2, <2>1, <2>2 DEF Status, TypeInv, TypeOK
<1>3. CASE Touch
    BY <1>3 DEF Touch, TypeInv, TypeOK
<1>4. CASE Tick
    <2>1. ASSUME NEW w \in Worker
          PROVE  /\ timer'[w] \in TimerRecord
                 /\ timer'[w].pc \in Looks => timer'[w].tries < GiveUpAt
        <3> DEFINE ran == IF timer[w].pc = "wait" THEN timer[w].ran + 1 ELSE timer[w].ran
                   alarm == Down(timer[w].alarm)
        <3>1. timer[w] \in TimerRecord /\ Good(timer[w])
            BY GoodNow DEF Good
        <3>2. timer'[w] = [timer[w] EXCEPT !.alarm = alarm, !.ran = ran]
            BY <1>4 DEF Tick
        <3>3. alarm \in Nat /\ ran \in Nat
            BY <3>1 DEF TimerRecord, Down
        <3> HIDE DEF alarm, ran
        <3> QED BY <3>1, <3>2, <3>3 DEF TimerRecord, Good
    <2>2. timer' \in [Worker -> TimerRecord]
        BY <1>4, <2>1 DEF Tick
    <2>3. left' \in Nat
        <3>1. left \in Nat
            BY DEF TypeInv, TypeOK
        <3>2. left' = Down(left)
            BY <1>4 DEF Tick
        <3> QED BY <3>1, <3>2 DEF Down
    <2> QED BY <1>4, <2>1, <2>2, <2>3 DEF Tick, TypeInv, TypeOK
<1>5. CASE UNCHANGED vars
    BY <1>5 DEF vars, TypeInv, TypeOK
<1> QED BY <1>1, <1>2, <1>3, <1>4, <1>5, RequestTypes, TimerTypes DEF Next

(* The variables keep their types: for any number of threads and timers the *)
(* record of a timer stays one, and it looks at the LED GiveUpAt times at   *)
(* most.                                                                    *)
LEMMA TypeInvHolds == Spec => []TypeInv
<1>1. Init => TypeInv
    <2>1. Free \in TimerRecord /\ Free.tries < GiveUpAt
        BY TimerAssumption DEF Free, TimerRecord
    <2>2. <<>> \in Seq(Step) /\ <<>> \in Seq(Worker)
        BY EmptySeq
    <2>3. Init => todo \in [Actor -> Seq(Step)] /\ list \in Seq(Worker)
        BY <2>2 DEF Init
    <2>4. Init => timer \in [Worker -> TimerRecord]
                  /\ \A w \in Worker : timer[w].tries < GiveUpAt
        BY <2>1 DEF Init
    <2>5. Init => /\ runtime \in Runtimes /\ requests \in 0..Requests /\ keys \in Nat
                  /\ left \in Nat /\ wish \in {"OFF", "ON", "TIMED"}
        BY TimerAssumption DEF Init
    <2>6. Init => /\ device \in BOOLEAN /\ seen \in BOOLEAN /\ led \in BOOLEAN
                  /\ mask \in BOOLEAN /\ stale \in BOOLEAN /\ unheeded \in BOOLEAN
        BY DEF Init
    <2> QED BY <2>3, <2>4, <2>5, <2>6, Zenon DEF TypeInv, TypeOK
<1> QED BY <1>1, TypeStep, PTL DEF Spec

(* The requests are sequences of steps that the code has, a timer's numbers *)
(* are bounded, and a timer that still looks at the LED has looked less     *)
(* often than it may (aq_timer.c:172-181).                                  *)
THEOREM TypeCorrect == Spec => []TypeOK
<1>1. TypeInv => TypeOK
    BY DEF TypeInv
<1> QED BY <1>1, TypeInvHolds, PTL

-----------------------------------------------------------------------------
(* The inductive form of NotOffEarly.  A timer that is not free is in the   *)
(* list, so the timer that is created for an empty list is alone.  As long  *)
(* as no duration went unheeded there is one timer at most, and what is     *)
(* left of the duration is not more than it has still to run.               *)
Live(w) == timer[w].pc # "free"
Listed == \A w \in Worker : Live(w) => \E i \in DOMAIN list : list[i] = w
OneLives == \A v, w \in Worker : Live(v) /\ Live(w) => v = w
BusyTimers == \A w \in Worker : Busy(w) => timer[w].pc \in {"led", "leave"}
InTime(t) ==
    \/ t.duration = 0
    \/ left = 0
    \/ t.pc \in {"new", "led", "delay", "arm", "woken"} /\ left <= t.duration
    \/ t.pc \in {"loop", "wait"} /\ left <= t.armed - t.ran
    \/ t.pc \in {"free", "leave", "unlink"}
TimeInv ==
    /\ Listed
    /\ BusyTimers
    /\ ~unheeded => OneLives /\ \A w \in Worker : InTime(timer[w])

(* The numbers of a timer are numbers.                                      *)
LEMMA Numbers ==
    TypeInv => \A w \in Worker : /\ timer[w].duration \in Nat /\ timer[w].armed \in Nat
                                 /\ timer[w].ran \in Nat /\ left \in Nat
<1>1. ASSUME TypeInv, NEW w \in Worker
      PROVE  /\ timer[w].duration \in {0} \cup Durations \cup Runtimes
             /\ timer[w].armed \in {0} \cup Durations \cup Runtimes
             /\ timer[w].ran \in Nat /\ left \in Nat
    BY <1>1 DEF TypeInv, TypeOK, TimerRecord
<1> QED BY <1>1, SecondsAreNat

(* What is left of a request keeps its thread busy, it does not make another*)
(* thread so.                                                               *)
LEMMA GotoBusy ==
    ASSUME TypeInv, NEW a \in Actor, Busy(a), NEW steps, Goto(a, steps), NEW b \in Actor, Busy(b)'
    PROVE  Busy(b)
BY DEF TypeInv, TypeOK, Goto, Busy

(* A step of a timer that leaves the list alone disturbs its own record at  *)
(* most.                                                                    *)
LEMMA TimerTime == \A w \in Worker : TypeInv /\ TimeInv /\ TimerStep(w) => TimeInv'
<1> SUFFICES ASSUME TypeInv, TimeInv, NEW w \in Worker, TimerStep(w)
             PROVE  TimeInv'
    OBVIOUS
<1>1. timer \in [Worker -> TimerRecord] /\ left \in Nat /\ todo \in [Actor -> Seq(Step)]
      /\ w \in Actor
    BY DEF TypeInv, TypeOK, Actor
<1>2. ASSUME timer[w].pc # "free", timer'[w].pc # "free", list' = list,
             \A v \in Worker : v # w => timer'[v] = timer[v],
             BusyTimers', left' = left, unheeded => unheeded',
             ~unheeded' => InTime(timer[w])'
      PROVE  TimeInv'
    BY <1>2 DEF TimeInv, Listed, Live, OneLives, InTime
<1>3. CASE Begin(w)
    <2>1. timer[w].pc # "free" /\ timer'[w].pc # "free" /\ list' = list
          /\ \A v \in Worker : v # w => timer'[v] = timer[v]
        BY <1>3, <1>1 DEF Begin, At, Move
    <2>2. BusyTimers'
        BY <1>3, <1>1 DEF Begin, At, Move, TimeInv, BusyTimers, Busy, Ask
    <2>3. left' = left /\ (unheeded => unheeded')
        BY <1>3 DEF Begin, history, Ask
    <2>4. ~unheeded' => InTime(timer[w])'
        BY <1>3, <1>1, <2>3 DEF Begin, At, Move, InTime, TimeInv
    <2> QED BY <1>2, <2>1, <2>2, <2>3, <2>4
<1>4. CASE CheckLed(w)
    <2>1. timer[w].pc # "free" /\ timer'[w].pc # "free" /\ list' = list
          /\ \A v \in Worker : v # w => timer'[v] = timer[v]
        BY <1>4, <1>1 DEF CheckLed, At, Move
    <2>2. BusyTimers'
        BY <1>4, <1>1 DEF CheckLed, At, Move, TimeInv, BusyTimers, Busy, Ask
    <2>3. left' = left /\ (unheeded => unheeded')
        BY <1>4 DEF CheckLed, history, Ask
    <2>4. ~unheeded' => InTime(timer[w])'
        BY <1>4, <1>1, <2>3 DEF CheckLed, At, Move, InTime, TimeInv
    <2> QED BY <1>2, <2>1, <2>2, <2>3, <2>4
<1>5. CASE AskForOn(w)
    <2>1. timer[w].pc # "free" /\ timer'[w].pc # "free" /\ list' = list
          /\ \A v \in Worker : v # w => timer'[v] = timer[v]
        BY <1>5, <1>1 DEF AskForOn, At, Move
    <2>2. BusyTimers'
        BY <1>5, <1>1 DEF AskForOn, At, Move, TimeInv, BusyTimers, Busy, Ask
    <2>3. left' = left /\ (unheeded => unheeded')
        BY <1>5 DEF AskForOn, history, Ask
    <2>4. ~unheeded' => InTime(timer[w])'
        <3>1. /\ timer[w].pc = "delay" /\ timer'[w].pc = "led"
              /\ timer'[w].duration = timer[w].duration
            BY <1>5, <1>1 DEF AskForOn, At, Move, TimerRecord
        <3>2. ~unheeded' => InTime(timer[w])
            BY <2>3 DEF TimeInv
        <3> QED BY <1>5, <2>3, <3>1, <3>2, Numbers DEF AskForOn, At, InTime
    <2> QED BY <1>2, <2>1, <2>2, <2>3, <2>4
<1>6. CASE LookAgain(w)
    <2>1. timer[w].pc # "free" /\ timer'[w].pc # "free" /\ list' = list
          /\ \A v \in Worker : v # w => timer'[v] = timer[v]
        BY <1>6, <1>1 DEF LookAgain, At, Move
    <2>2. BusyTimers'
        BY <1>6, <1>1 DEF LookAgain, At, Move, TimeInv, BusyTimers, Busy, Ask
    <2>3. left' = left /\ (unheeded => unheeded')
        BY <1>6 DEF LookAgain, history, Ask
    <2>4. ~unheeded' => InTime(timer[w])'
        BY <1>6, <1>1, <2>3 DEF LookAgain, At, Move, InTime, TimeInv
    <2> QED BY <1>2, <2>1, <2>2, <2>3, <2>4
<1>7. CASE Arm(w)
    <2>1. timer[w].pc # "free" /\ timer'[w].pc # "free" /\ list' = list
          /\ \A v \in Worker : v # w => timer'[v] = timer[v]
        BY <1>7, <1>1 DEF Arm, At, Move
    <2>2. BusyTimers'
        BY <1>7, <1>1 DEF Arm, At, Move, TimeInv, BusyTimers, Busy, Ask
    <2>3. left' = left /\ (unheeded => unheeded')
        BY <1>7 DEF Arm, history, Ask
    <2>4. ~unheeded' => InTime(timer[w])'
        <3>1. /\ timer[w].pc = "arm" /\ timer'[w].pc = "loop"
              /\ timer'[w].duration = timer[w].duration
              /\ timer'[w].armed = timer[w].duration /\ timer'[w].ran = 0
            BY <1>7, <1>1 DEF Arm, At, Move, TimerRecord
        <3>2. ~unheeded' => InTime(timer[w])
            BY <2>3 DEF TimeInv
        <3> QED BY <1>7, <2>3, <3>1, <3>2, Numbers DEF Arm, At, InTime
    <2> QED BY <1>2, <2>1, <2>2, <2>3, <2>4
<1>8. CASE Loop(w)
    <2>1. timer[w].pc # "free" /\ timer'[w].pc # "free" /\ list' = list
          /\ \A v \in Worker : v # w => timer'[v] = timer[v]
        BY <1>8, <1>1 DEF Loop, At, Move
    <2>2. BusyTimers'
        BY <1>8, <1>1 DEF Loop, At, Move, TimeInv, BusyTimers, Busy, Ask
    <2>3. left' = left /\ (unheeded => unheeded')
        BY <1>8 DEF Loop, history, Ask
    <2>4. ~unheeded' => InTime(timer[w])'
        <3>1. /\ timer[w].pc = "loop"
              /\ timer'[w].pc = IF timer[w].armed - timer[w].ran <= 0 THEN "end" ELSE "wait"
              /\ timer'[w].duration = timer[w].duration
              /\ timer'[w].armed = timer[w].armed /\ timer'[w].ran = timer[w].ran
            BY <1>8, <1>1 DEF Loop, At, Move, TimerRecord, Remaining
        <3>2. ~unheeded' => InTime(timer[w])
            BY <2>3 DEF TimeInv
        <3> QED BY <1>8, <2>3, <3>1, <3>2, Numbers DEF Loop, At, InTime
    <2> QED BY <1>2, <2>1, <2>2, <2>3, <2>4
<1>9. CASE Timeout(w)
    <2>1. timer[w].pc # "free" /\ timer'[w].pc # "free" /\ list' = list
          /\ \A v \in Worker : v # w => timer'[v] = timer[v]
        BY <1>9, <1>1 DEF Timeout, At, Move
    <2>2. BusyTimers'
        BY <1>9, <1>1 DEF Timeout, At, Move, TimeInv, BusyTimers, Busy, Ask
    <2>3. left' = left /\ (unheeded => unheeded')
        BY <1>9 DEF Timeout, history, Ask
    <2>4. ~unheeded' => InTime(timer[w])'
        BY <1>9, <1>1, <2>3 DEF Timeout, At, Move, InTime, TimeInv
    <2> QED BY <1>2, <2>1, <2>2, <2>3, <2>4
<1>10. CASE Woken(w)
    <2>1. timer[w].pc # "free" /\ timer'[w].pc # "free" /\ list' = list
          /\ \A v \in Worker : v # w => timer'[v] = timer[v]
        BY <1>10, <1>1 DEF Woken, At, Move
    <2>2. BusyTimers'
        BY <1>10, <1>1 DEF Woken, At, Move, TimeInv, BusyTimers, Busy, Ask
    <2>3. left' = left /\ (unheeded => unheeded')
        BY <1>10 DEF Woken, history, Ask
    <2>4. ~unheeded' => InTime(timer[w])'
        <3>1. /\ timer[w].pc = "woken"
              /\ timer'[w].pc = IF timer[w].duration = 0 THEN "end" ELSE "loop"
              /\ timer'[w].duration = timer[w].duration
              /\ timer[w].duration = 0
                 \/ (timer'[w].armed = timer[w].duration /\ timer'[w].ran = 0)
            BY <1>10, <1>1 DEF Woken, At, Move, TimerRecord
        <3>2. ~unheeded' => InTime(timer[w])
            BY <2>3 DEF TimeInv
        <3> QED BY <1>10, <2>3, <3>1, <3>2, Numbers DEF Woken, At, InTime
    <2> QED BY <1>2, <2>1, <2>2, <2>3, <2>4
<1>11. CASE AskForOff(w)
    <2>1. timer[w].pc # "free" /\ timer'[w].pc # "free" /\ list' = list
          /\ \A v \in Worker : v # w => timer'[v] = timer[v]
        BY <1>11, <1>1 DEF AskForOff, At, Move
    <2>2. BusyTimers'
        BY <1>11, <1>1 DEF AskForOff, At, Move, TimeInv, BusyTimers, Busy, Ask
    <2>3. left' = left /\ (unheeded => unheeded')
        BY <1>11 DEF AskForOff, history, Ask
    <2>4. ~unheeded' => InTime(timer[w])'
        BY <1>11, <1>1, <2>3 DEF AskForOff, At, Move, InTime, TimeInv
    <2> QED BY <1>2, <2>1, <2>2, <2>3, <2>4
<1>12. CASE EndQuietly(w)
    <2>1. timer[w].pc # "free" /\ timer'[w].pc # "free" /\ list' = list
          /\ \A v \in Worker : v # w => timer'[v] = timer[v]
        BY <1>12, <1>1 DEF EndQuietly, At, Move
    <2>2. BusyTimers'
        BY <1>12, <1>1 DEF EndQuietly, At, Move, TimeInv, BusyTimers, Busy, Ask
    <2>3. left' = left /\ (unheeded => unheeded')
        BY <1>12 DEF EndQuietly, history, Ask
    <2>4. ~unheeded' => InTime(timer[w])'
        BY <1>12, <1>1, <2>3 DEF EndQuietly, At, Move, InTime, TimeInv
    <2> QED BY <1>2, <2>1, <2>2, <2>3, <2>4
<1>13. CASE Leave(w)
    <2>1. timer[w].pc # "free" /\ timer'[w].pc # "free" /\ list' = list
          /\ \A v \in Worker : v # w => timer'[v] = timer[v]
        BY <1>13, <1>1 DEF Leave, At, Move
    <2>2. BusyTimers'
        BY <1>13, <1>1 DEF Leave, At, Move, TimeInv, BusyTimers, Busy, Ask
    <2>3. left' = left /\ (unheeded => unheeded')
        BY <1>13 DEF Leave, history, Ask
    <2>4. ~unheeded' => InTime(timer[w])'
        BY <1>13, <1>1, <2>3 DEF Leave, At, Move, InTime, TimeInv
    <2> QED BY <1>2, <2>1, <2>2, <2>3, <2>4
<1>14. CASE Unlink(w)
    <2>1. timer' = [timer EXCEPT ![w] = Free] /\ UNCHANGED <<todo, left, unheeded>>
        BY <1>14 DEF Unlink, history
    <2>2. timer'[w] = Free /\ \A v \in Worker : v # w => timer'[v] = timer[v]
        BY <1>1, <2>1
    <2>3. Listed'
        <3>1. PICK i \in DOMAIN list :
                 list[i] = w /\ list' = SubSeq(list, 1, i - 1) \o SubSeq(list, i + 1, Len(list))
            BY <1>14 DEF Unlink
        <3>2. \A j \in DOMAIN list : j # i => \E k \in DOMAIN list' : list'[k] = list[j]
            BY <3>1, WithoutOne DEF TypeInv, TypeOK
        <3>3. ASSUME NEW v \in Worker, timer'[v].pc # "free"
              PROVE  \E k \in DOMAIN list' : list'[k] = v
            <4>1. v # w
                BY <2>2, <3>3 DEF Free
            <4>2. PICK j \in DOMAIN list : list[j] = v
                BY <2>2, <3>3, <4>1 DEF TimeInv, Listed, Live
            <4> QED BY <3>1, <3>2, <4>1, <4>2
        <3> QED BY <3>3 DEF Listed, Live
    <2>4. BusyTimers'
        BY <1>1, <1>14, <2>1, <2>2 DEF Unlink, At, TimeInv, BusyTimers, Busy
    <2>5. ~unheeded' => OneLives'
        BY <2>1, <2>2 DEF TimeInv, OneLives, Live, Free
    <2>6. ~unheeded' => \A v \in Worker : InTime(timer[v])'
        BY <2>1, <2>2 DEF TimeInv, InTime, Free
    <2> QED BY <2>3, <2>4, <2>5, <2>6 DEF TimeInv
<1> QED BY <1>3, <1>4, <1>5, <1>6, <1>7, <1>8, <1>9, <1>10, <1>11, <1>12, <1>13, <1>14
        DEF TimerStep

(* A request sets a duration in two ways: it creates a timer for an empty   *)
(* list, or it writes into the one that it found.                           *)
LEMMA RequestTime == \A a \in Actor : TypeInv /\ TimeInv /\ RequestStep(a) => TimeInv'
<1> SUFFICES ASSUME TypeInv, TimeInv, NEW a \in Actor, RequestStep(a)
             PROVE  TimeInv'
    OBVIOUS
<1> DEFINE s == todo[a][1]
<1>1. timer \in [Worker -> TimerRecord] /\ left \in Nat /\ list \in Seq(Worker)
    BY DEF TypeInv, TypeOK
<1>2. Busy(a) /\ s \in Step
    <2>1. Busy(a)
        BY DEF RequestStep, Set, Press, Preset, Start, Create, Store, Clear, Now
    <2> QED BY <2>1, ElementOfSeq, EmptySeq DEF TypeInv, TypeOK, Busy
<1> HIDE DEF s
<1>3. ASSUME NEW steps, Goto(a, steps), NEW b \in Actor, Busy(b)'
      PROVE  Busy(b)
    BY <1>2, <1>3, GotoBusy
<1>4. CASE Set(a) \/ Press(a) \/ Preset(a) \/ Start(a) \/ Clear(a)
    <2>1. \E steps : Goto(a, steps)
        BY <1>4 DEF Set, Press, Preset, Start, Clear
    <2>2. UNCHANGED <<timer, list, left, unheeded>>
        BY <1>4 DEF Set, Press, Preset, Start, Clear, history
    <2> QED BY <1>3, <2>1, <2>2
            DEF TimeInv, Listed, Live, BusyTimers, OneLives, InTime, Actor
<1>5. CASE Create(a)
    <2> DEFINE w == CHOOSE v \in Worker : timer[v] = Free
               d == s[2]
    <2>1. w \in Worker /\ timer[w] = Free
        BY <1>5 DEF Create
    <2>2. d \in Durations \cup Runtimes
        BY <1>2, <1>5, StepShape DEF Create, Now, s
    <2>3. /\ timer' = [timer EXCEPT ![w].pc = "new", ![w].duration = d]
          /\ list' = Append(list, w) /\ left' = d
          /\ Goto(a, <<>>)
          /\ unheeded' = (unheeded \/ list # <<>>)
        BY <1>5 DEF Create, s
    <2> HIDE DEF w, d
    <2>4. /\ timer'[w].pc = "new" /\ timer'[w].duration = d
          /\ \A v \in Worker : v # w => timer'[v] = timer[v]
        BY <1>1, <2>1, <2>3 DEF TimerRecord
    <2>5. Listed'
        <3>1. DOMAIN list' = 1..(Len(list) + 1) /\ DOMAIN list = 1..Len(list)
              /\ Len(list) \in Nat /\ list'[Len(list) + 1] = w
              /\ \A i \in 1..Len(list) : list'[i] = list[i]
            BY <1>1, <2>1, <2>3, AppendProperties, LenProperties
        <3> QED BY <2>4, <3>1 DEF TimeInv, Listed, Live
    <2>6. timer[w].pc = "free"
        BY <2>1 DEF Free
    <2>7. BusyTimers'
        BY <1>3, <2>3, <2>4, <2>6 DEF TimeInv, BusyTimers, Actor
    <2>8. ASSUME ~unheeded' PROVE \A v \in Worker : v # w => timer'[v].pc = "free"
        <3>1. list = <<>>
            BY <2>3, <2>8
        <3> QED BY <2>4, <3>1, EmptySeq DEF TimeInv, Listed, Live
    <2>9. ~unheeded' => OneLives'
        BY <2>8 DEF OneLives, Live
    <2>10. ~unheeded' => \A v \in Worker : InTime(timer[v])'
        <3>1. d \in Nat
            BY <2>2, SecondsAreNat
        <3>2. \A v \in Worker : v = w => InTime(timer[v])'
            BY <2>3, <2>4, <3>1 DEF InTime
        <3>3. ~unheeded' => \A v \in Worker : v # w => InTime(timer[v])'
            BY <2>8 DEF InTime
        <3> QED BY <3>2, <3>3
    <2> QED BY <2>5, <2>7, <2>9, <2>10 DEF TimeInv
<1>6. CASE Store(a)
    <2> DEFINE w == s[2]
               d == s[3]
    <2>1. w \in Worker /\ d \in Nat
        BY <1>2, <1>6, StepShape, SecondsAreNat DEF Store, Now, s
    <2>2. /\ timer' = IF timer[w].pc = "free" THEN timer
                      ELSE [timer EXCEPT ![w].duration = d,
                                         ![w].pc = IF @ = "wait" THEN "woken" ELSE @]
          /\ left' = (IF a \in Client THEN d ELSE left)
          /\ Goto(a, <<>>)
          /\ unheeded' = (unheeded \/ (d > 0 /\ (a = w \/ timer[w].pc \notin Heeds)))
          /\ list' = list
        BY <1>6 DEF Store, s
    <2> HIDE DEF w, d
    <2>3. /\ \A v \in Worker : v # w => timer'[v] = timer[v]
          /\ timer[w].pc = "free" => timer'[w] = timer[w]
          /\ timer[w].pc # "free" =>
                /\ timer'[w].pc = IF timer[w].pc = "wait" THEN "woken" ELSE timer[w].pc
                /\ timer'[w].duration = d
                /\ timer'[w].armed = timer[w].armed /\ timer'[w].ran = timer[w].ran
        BY <1>1, <2>1, <2>2 DEF TimerRecord
    <2>4. Listed'
        BY <2>2, <2>3 DEF TimeInv, Listed, Live
    <2>5. BusyTimers'
        BY <1>3, <2>2, <2>3 DEF TimeInv, BusyTimers, Actor
    <2>6. ~unheeded' => OneLives'
        <3>1. \A v \in Worker : Live(v)' => Live(v)
            BY <2>3 DEF Live
        <3>2. ~unheeded' => OneLives
            BY <2>2 DEF TimeInv
        <3> QED BY <3>1, <3>2, Zenon DEF OneLives
    <2>7. ASSUME ~unheeded', NEW v \in Worker PROVE InTime(timer[v])'
        <3>1. OneLives /\ InTime(timer[v])
            BY <2>2, <2>7 DEF TimeInv
        <3>2. CASE d = 0
            BY <2>2, <2>3, <3>1, <3>2, Numbers DEF InTime
        <3>3. CASE d > 0
            <4>1. a # w /\ timer[w].pc \in Heeds
                BY <2>2, <2>7, <3>3
            <4>2. Live(w)
                BY <4>1 DEF Live, Heeds
            <4>3. a \in Client
                <5>1. ASSUME a \in Worker PROVE Live(a)
                    BY <1>2, <5>1 DEF TimeInv, BusyTimers, Live
                <5> QED BY <2>1, <3>1, <4>1, <4>2, <5>1 DEF OneLives, Actor
            <4>4. left' = d
                BY <2>2, <4>3
            <4>5. v # w => timer'[v].pc = "free"
                BY <2>1, <2>3, <3>1, <4>2 DEF OneLives, Live
            <4>6. timer'[w].pc \in {"new", "led", "delay", "arm", "woken"}
                  /\ timer'[w].duration = d
                BY <2>3, <4>1 DEF Heeds
            <4> QED BY <2>1, <4>4, <4>5, <4>6 DEF InTime
        <3> QED BY <2>1, <3>2, <3>3
    <2> QED BY <2>4, <2>5, <2>6, <2>7 DEF TimeInv
<1> QED BY <1>4, <1>5, <1>6 DEF RequestStep

(* The inductive form is kept by every step.  In a second, what is left and *)
(* what the timer that waits has still to run both become one less.         *)
LEMMA TimeStep == TypeInv /\ TimeInv /\ [Next]_vars => TimeInv'
<1> SUFFICES ASSUME TypeInv, TimeInv, [Next]_vars PROVE TimeInv'
    OBVIOUS
<1> USE DEF TimeInv, Listed, Live, BusyTimers, OneLives
<1>1. ASSUME NEW c \in Client, Request(c) PROVE TimeInv'
    <2>1. UNCHANGED <<timer, list, left, unheeded>>
        BY <1>1 DEF Request
    <2>2. \A w \in Worker : Busy(w)' => Busy(w)
        BY <1>1, TimerAssumption DEF Request, Busy, TypeInv, TypeOK, Actor
    <2> QED BY <2>1, <2>2 DEF InTime
<1>2. CASE Status \/ Touch
    <2>1. UNCHANGED <<timer, list, left, unheeded, todo>>
        BY <1>2 DEF Status, Touch
    <2> QED BY <2>1 DEF InTime, Busy
<1>3. CASE Tick
    <2>1. UNCHANGED <<list, unheeded, todo>> /\ left' = Down(left)
        BY <1>3 DEF Tick
    <2>2. ASSUME NEW w \in Worker
          PROVE  /\ timer'[w].pc = timer[w].pc /\ timer'[w].duration = timer[w].duration
                 /\ timer'[w].armed = timer[w].armed
                 /\ timer'[w].ran = IF timer[w].pc = "wait" THEN timer[w].ran + 1
                                    ELSE timer[w].ran
                 /\ timer[w].pc # "loop"
        <3>1. timer[w] \in TimerRecord
            BY DEF TypeInv, TypeOK
        <3> QED BY <1>3, <3>1 DEF Tick, TimerRecord, Rests
    <2>3. ~unheeded' => \A w \in Worker : InTime(timer[w])'
        BY <2>1, <2>2, Numbers DEF InTime, Down
    <2> QED BY <2>1, <2>2, <2>3 DEF Busy
<1>4. CASE UNCHANGED vars
    BY <1>4 DEF vars, panel, history, InTime, Busy
<1> QED BY <1>1, <1>2, <1>3, <1>4, RequestTime, TimerTime DEF Next

(* The invariant of the durations holds throughout.                         *)
LEMMA TimeInvHolds == Spec => []TimeInv
<1>1. Init => TimeInv
    BY DEF Init, TimeInv, Listed, Live, BusyTimers, OneLives, InTime, Free, Busy, Actor
<1> QED BY <1>1, TypeInvHolds, TimeStep, PTL DEF Spec

(* A timer that asks for OFF does it at its end, with a duration; by then   *)
(* nothing is left of the duration that was set last, unless one went       *)
(* unheeded.                                                                *)
LEMMA OffStep ==
    TypeInv /\ TimeInv /\ [Next]_vars =>
        [\A w \in Worker : At(w, "end") /\ Busy(w)' => left = 0 \/ unheeded]_vars
<1> SUFFICES ASSUME TypeInv, TimeInv, Next, NEW w \in Worker, At(w, "end"), Busy(w)'
             PROVE  left = 0 \/ unheeded
    OBVIOUS
<1>1. w \in Actor /\ todo \in [Actor -> Seq(Step)] /\ w \notin Client
    BY TimerAssumption DEF Actor, TypeInv, TypeOK
<1>2. ASSUME NEW c \in Client, Request(c) PROVE FALSE
    BY <1>1, <1>2 DEF Request, At, Busy
<1>3. ASSUME NEW a \in Actor, RequestStep(a) PROVE FALSE
    <2>1. Busy(a) /\ \E steps : Goto(a, steps)
        BY <1>3 DEF RequestStep, Set, Press, Preset, Start, Create, Store, Clear, Now
    <2> QED BY <1>1, <2>1, GotoBusy DEF At
<1>4. ASSUME Status \/ Touch \/ Tick PROVE FALSE
    BY <1>4 DEF Status, Touch, Tick, At, Busy
<1>5. ASSUME NEW v \in Worker, TimerStep(v) PROVE AskForOff(w)
    BY <1>1, <1>5 DEF TimerStep, Begin, CheckLed, AskForOn, LookAgain, Arm, Loop, Timeout,
        Woken, AskForOff, EndQuietly, Leave, Unlink, At, Busy, Ask
<1>6. AskForOff(w)
    BY <1>2, <1>3, <1>4, <1>5, Zenon DEF Next
<1> QED BY <1>6, Numbers DEF AskForOff, At, TimeInv, InTime

(* A timer does not turn the device off before the duration set last is     *)
(* over, whatever the durations, unless start_timer set one where no timer  *)
(* hears of it.                                                             *)
THEOREM OffInTime == Spec => NotOffEarly
<1> QED BY TypeInvHolds, TimeInvHolds, OffStep, PTL DEF Spec, NotOffEarly

-----------------------------------------------------------------------------
(* The inductive form of WishIsKept.  What the device will be once the keys *)
(* in the stack are consumed is what the LED shows, except between the key  *)
(* of a request and its pre-setting of the LED, and it is what was asked    *)
(* for last, except before the key.                                         *)
Coming == device # Odd(keys)
Asked == wish # "OFF"
Agreed == Coming = led /\ Coming = Asked

(* Steps that neither press the key nor set the LED.                        *)
TimerKind == {"start", "create", "store", "clear"}
Quiet(s, from) == \A i \in from..Len(s) : s[i][1] \in TimerKind

AskedFirst(s) ==
    /\ Len(s) > 0 /\ s[1] = <<"set", Asked>> /\ Quiet(s, 2)
    /\ Coming = led
KeyFirst(s) ==
    /\ Len(s) > 1 /\ s[1] = <<"press">> /\ s[2] = <<"preset", Asked>> /\ Quiet(s, 3)
    /\ Coming = led /\ led # Asked
TimerFirst(s) ==
    /\ Len(s) > 2 /\ s[1][1] \in TimerKind
    /\ s[2] = <<"press">> /\ s[3] = <<"preset", Asked>> /\ Quiet(s, 4)
    /\ Coming = led /\ led # Asked
LedFirst(s) ==
    /\ Len(s) > 0 /\ s[1] = <<"preset", Asked>> /\ Quiet(s, 2)
    /\ Coming = Asked
Progress(s) ==
    AskedFirst(s) \/ KeyFirst(s) \/ TimerFirst(s) \/ LedFirst(s) \/ (Quiet(s, 1) /\ Agreed)

OneAsks == \A a, b \in Actor : Busy(a) /\ Busy(b) => a = b
WishInv ==
    ~stale => /\ OneAsks
              /\ Idle => Agreed
              /\ \A a \in Actor : Busy(a) => Progress(todo[a])

(* The rest of a request after n steps: the n steps, then what was behind   *)
(* the first.                                                               *)
LEMMA After ==
    ASSUME NEW s \in Seq(Step), s # <<>>, NEW steps \in Seq(Step)
    PROVE  LET t == steps \o Tail(s)
           IN  /\ t \in Seq(Step) /\ Len(t) = Len(steps) + Len(s) - 1
               /\ \A i \in 1..Len(steps) : t[i] = steps[i]
               /\ \A i \in 2..Len(s) : t[Len(steps) + i - 1] = s[i]
               /\ \A n \in Nat \ {0, 1} : Quiet(s, n) => Quiet(t, Len(steps) + n - 1)
<1> DEFINE r == Tail(s)
           t == steps \o r
<1>1. Len(s) \in Nat /\ Len(s) > 0 /\ Len(steps) \in Nat
    BY EmptySeq, LenProperties
<1>2. r \in Seq(Step) /\ Len(r) = Len(s) - 1 /\ \A i \in 1..Len(r) : r[i] = s[i + 1]
    BY HeadTailProperties
<1> HIDE DEF r
<1>3. /\ t \in Seq(Step) /\ Len(t) = Len(steps) + Len(r)
      /\ \A i \in 1..(Len(steps) + Len(r)) :
            t[i] = IF i <= Len(steps) THEN steps[i] ELSE r[i - Len(steps)]
    BY <1>2, ConcatProperties
<1> HIDE DEF t
<1>4. ASSUME NEW i \in 1..Len(steps) PROVE t[i] = steps[i]
    BY <1>1, <1>2, <1>3
<1>5. ASSUME NEW i \in 2..Len(s) PROVE t[Len(steps) + i - 1] = s[i]
    <2>1. /\ Len(steps) + i - 1 \in 1..(Len(steps) + Len(r))
          /\ ~(Len(steps) + i - 1 <= Len(steps))
          /\ (Len(steps) + i - 1) - Len(steps) = i - 1
        BY <1>1, <1>2
    <2>2. t[Len(steps) + i - 1] = r[i - 1]
        BY <1>3, <2>1
    <2>3. i - 1 \in 1..Len(r) /\ (i - 1) + 1 = i
        BY <1>1, <1>2
    <2> QED BY <1>2, <2>2, <2>3
<1>6. Len(t) = Len(steps) + Len(s) - 1
    BY <1>1, <1>2, <1>3
<1>7. ASSUME NEW n \in Nat \ {0, 1}, Quiet(s, n), NEW j \in (Len(steps) + n - 1)..Len(t)
      PROVE  t[j][1] \in TimerKind
    <2> DEFINE i == j - Len(steps) + 1
    <2>1. i \in 2..Len(s) /\ i \in n..Len(s) /\ Len(steps) + i - 1 = j
        BY <1>1, <1>6
    <2>2. t[j] = s[i]
        BY <1>5, <2>1
    <2> QED BY <1>7, <2>1, <2>2 DEF Quiet
<1> QED BY <1>3, <1>4, <1>5, <1>6, <1>7 DEF t, r, Quiet

(* The key toggles, so one more or less of them changes what is coming.     *)
LEMMA OddStep == \A n \in Nat : Odd(n + 1) = ~Odd(n) /\ Odd(0) = FALSE
BY DEF Odd

(* With one request under way, the invariant is about what is left of it.   *)
LEMMA WishOfRequest ==
    ASSUME TypeInv, WishInv, NEW a \in Actor, Busy(a), NEW steps, Goto(a, steps),
           stale' = stale, ~stale => Progress(todo[a])'
    PROVE  WishInv'
<1> SUFFICES ASSUME ~stale PROVE OneAsks' /\ (Idle' => Agreed')
                                 /\ \A b \in Actor : Busy(b)' => Progress(todo[b])'
    BY DEF WishInv
<1>1. \A b \in Actor : Busy(b)' => b = a
    BY GotoBusy DEF WishInv, OneAsks
<1>2. OneAsks' /\ \A b \in Actor : Busy(b)' => Progress(todo[b])'
    BY <1>1 DEF OneAsks
<1>3. ASSUME Idle' PROVE Agreed'
    <2>1. todo'[a] = <<>> /\ Len(<<>>) = 0
        BY <1>3 DEF Idle, Busy
    <2> QED BY <2>1 DEF Progress, AskedFirst, KeyFirst, TimerFirst, LedFirst
<1> QED BY <1>2, <1>3

(* What the first step says about the progress of a request.                *)
LEMMA FirstStep ==
    ASSUME NEW s \in Seq(Step), Len(s) > 0, Progress(s)
    PROVE  /\ s[1][1] = "set" => AskedFirst(s)
           /\ s[1][1] = "press" => KeyFirst(s)
           /\ s[1][1] = "preset" => LedFirst(s)
           /\ s[1][1] \in TimerKind => TimerFirst(s) \/ (Quiet(s, 1) /\ Agreed)
<1>1. Len(s) \in Nat /\ 1 \in 1..Len(s)
    BY LenProperties
<1>2. AskedFirst(s) => s[1][1] = "set"
    BY DEF AskedFirst
<1>3. KeyFirst(s) => s[1][1] = "press"
    BY DEF KeyFirst
<1>4. LedFirst(s) => s[1][1] = "preset"
    BY DEF LedFirst
<1>5. TimerFirst(s) \/ Quiet(s, 1) => s[1][1] \in TimerKind
    BY <1>1 DEF TimerFirst, Quiet
<1> QED BY <1>2, <1>3, <1>4, <1>5 DEF Progress, TimerKind

(* Every step of a request keeps the wish, if two requests do not overlap.  *)
LEMMA RequestWish == \A a \in Actor : TypeInv /\ WishInv /\ RequestStep(a) => WishInv'
<1> SUFFICES ASSUME TypeInv, WishInv, NEW a \in Actor, RequestStep(a)
             PROVE  WishInv'
    OBVIOUS
<1> DEFINE s == todo[a]
<1>1. Busy(a) /\ s \in Seq(Step) /\ s # <<>>
    BY DEF RequestStep, Set, Press, Preset, Start, Create, Store, Clear, Now, TypeInv,
           TypeOK, Busy
<1>2. Len(s) \in Nat /\ Len(s) > 0 /\ s[1] \in Step
    BY <1>1, EmptySeq, ElementOfSeq
<1>3. ~stale => Progress(s)
    BY <1>1 DEF WishInv
<1>4. ASSUME NEW steps \in Seq(Step), Goto(a, steps)
      PROVE  /\ todo'[a] \in Seq(Step) /\ Len(todo'[a]) = Len(steps) + Len(s) - 1
             /\ \A i \in 1..Len(steps) : todo'[a][i] = steps[i]
             /\ \A i \in 2..Len(s) : todo'[a][Len(steps) + i - 1] = s[i]
             /\ \A n \in Nat \ {0, 1} : Quiet(s, n) => Quiet(todo'[a], Len(steps) + n - 1)
    <2>1. todo'[a] = steps \o Tail(s)
        BY <1>4 DEF Goto, TypeInv, TypeOK
    <2> HIDE DEF s
    <2>2. PICK t : t = steps \o Tail(s)
        OBVIOUS
    <2>3. /\ Len(t) = Len(steps) + Len(s) - 1 /\ t \in Seq(Step)
          /\ \A i \in 1..Len(steps) : t[i] = steps[i]
          /\ \A i \in 2..Len(s) : t[Len(steps) + i - 1] = s[i]
          /\ \A n \in Nat \ {0, 1} : Quiet(s, n) => Quiet(t, Len(steps) + n - 1)
        BY <1>1, <2>2, After
    <2> QED BY <2>1, <2>2, <2>3
<1> HIDE DEF s
<1>5. ASSUME Goto(a, <<>>)
      PROVE  /\ Len(todo'[a]) = Len(s) - 1
             /\ \A i \in 2..Len(s) : todo'[a][i - 1] = s[i]
             /\ \A n \in Nat \ {0, 1} : Quiet(s, n) => Quiet(todo'[a], n - 1)
    <2>1. <<>> \in Seq(Step) /\ Len(<<>>) = 0
        BY EmptySeq
    <2>2. /\ Len(todo'[a]) = 0 + Len(s) - 1
          /\ \A i \in 2..Len(s) : todo'[a][0 + i - 1] = s[i]
          /\ \A n \in Nat \ {0, 1} : Quiet(s, n) => Quiet(todo'[a], 0 + n - 1)
        BY <1>4, <1>5, <2>1
    <2>3. Len(s) \in Nat /\ \A n \in Nat : 0 + n - 1 = n - 1
        BY <1>2
    <2> QED BY <2>2, <2>3
<1>6. ASSUME NEW step \in Step, Goto(a, <<step>>)
      PROVE  /\ Len(todo'[a]) = Len(s) /\ todo'[a][1] = step
             /\ \A i \in 2..Len(s) : todo'[a][i] = s[i]
             /\ \A n \in Nat \ {0, 1} : Quiet(s, n) => Quiet(todo'[a], n)
    <2>1. <<step>> \in Seq(Step) /\ Len(<<step>>) = 1 /\ <<step>>[1] = step /\ 1 \in 1..1
        OBVIOUS
    <2>2. /\ Len(todo'[a]) = 1 + Len(s) - 1
          /\ todo'[a][1] = step
          /\ \A i \in 2..Len(s) : todo'[a][1 + i - 1] = s[i]
          /\ \A n \in Nat \ {0, 1} : Quiet(s, n) => Quiet(todo'[a], 1 + n - 1)
        BY <1>4, <1>6, <2>1
    <2>3. Len(s) \in Nat /\ \A n \in Nat : 1 + n - 1 = n
        BY <1>2
    <2> QED BY <2>2, <2>3
<1>7. CASE Set(a)
    <2> DEFINE on == s[1][2]
    <2>1. s[1] = <<"set", on>> /\ on \in BOOLEAN
        BY <1>2, <1>7, StepShape DEF Set, Now, s
    <2>2. /\ IF led = on
             THEN Goto(a, <<>>) /\ UNCHANGED wish
             ELSE /\ Goto(a, (IF runtime > 0 THEN << <<"start", runtime>> >> ELSE <<>>)
                             \o << <<"press">>, <<"preset", on>> >>)
                  /\ wish' = IF on /\ runtime > 0 THEN "TIMED" ELSE wish
          /\ UNCHANGED <<device, led, keys, stale>>
        BY <1>7 DEF Set, s, panel
    <2> HIDE DEF on
    <2>3. ~stale => Asked = on /\ Coming = led /\ Quiet(s, 2)
        <3>1. ~stale => AskedFirst(s)
            BY <1>1, <1>2, <1>3, <2>1, FirstStep
        <3>2. AskedFirst(s) => s[1][2] = Asked
            BY DEF AskedFirst
        <3> QED BY <3>1, <3>2 DEF AskedFirst, on
    <2>4. CASE led = on
        <3>1. ~stale => Progress(todo[a])'
            <4>1. Goto(a, <<>>) /\ UNCHANGED <<wish, device, led, keys>>
                BY <2>2, <2>4
            <4>2. Quiet(s, 2) => Quiet(todo'[a], 1)
                BY <1>5, <4>1
            <4>3. ~stale => Quiet(todo[a], 1)'
                BY <2>3, <4>2 DEF Quiet
            <4> QED BY <2>3, <2>4, <4>1, <4>3 DEF Progress, Agreed, Coming, Asked
        <3> QED BY <1>1, <2>2, <2>4, <3>1, WishOfRequest
    <2>5. CASE led # on /\ runtime > 0
        <3> DEFINE steps == << <<"start", runtime>> >> \o << <<"press">>, <<"preset", on>> >>
        <3>1. Goto(a, steps) /\ steps \in Seq(Step)
            BY <2>1, <2>2, <2>5, Requested DEF TypeInv, TypeOK
        <3>2. /\ Len(steps) = 3 /\ steps[1] = <<"start", runtime>> /\ steps[2] = <<"press">>
              /\ steps[3] = <<"preset", on>>
            OBVIOUS
        <3> HIDE DEF steps
        <3>3. /\ Len(todo'[a]) = 3 + Len(s) - 1
              /\ \A i \in 1..3 : todo'[a][i] = steps[i]
              /\ \A n \in Nat \ {0, 1} : Quiet(s, n) => Quiet(todo'[a], 3 + n - 1)
            BY <1>4, <3>1, <3>2
        <3>4. Len(todo'[a]) > 2 /\ (Quiet(s, 2) => Quiet(todo'[a], 4))
            <4>1. 2 \in Nat \ {0, 1} /\ 3 + 2 - 1 = 4
                OBVIOUS
            <4>2. Quiet(s, 2) => Quiet(todo'[a], 4)
                BY <3>3, <4>1
            <4> QED BY <1>2, <3>3, <4>2
        <3>5. /\ todo'[a][1][1] = "start" /\ todo'[a][2] = <<"press">>
              /\ todo'[a][3] = <<"preset", on>>
            BY <3>2, <3>3
        <3>6. ~stale => Asked' = on /\ Coming' = led' /\ led' # on
            BY <2>1, <2>2, <2>3, <2>5 DEF Coming, Asked
        <3>7. ~stale => TimerFirst(todo[a])'
            BY <2>3, <3>4, <3>5, <3>6 DEF TimerFirst, TimerKind, Quiet
        <3> QED BY <1>1, <2>2, <3>1, <3>7, WishOfRequest DEF Progress
    <2>6. CASE led # on /\ ~(runtime > 0)
        <3> DEFINE steps == <<>> \o << <<"press">>, <<"preset", on>> >>
        <3>1. Goto(a, steps) /\ steps \in Seq(Step)
            BY <2>1, <2>2, <2>6, Requested
        <3>2. /\ Len(steps) = 2 /\ steps[1] = <<"press">> /\ steps[2] = <<"preset", on>>
            OBVIOUS
        <3> HIDE DEF steps
        <3>3. /\ Len(todo'[a]) = 2 + Len(s) - 1
              /\ \A i \in 1..2 : todo'[a][i] = steps[i]
              /\ \A n \in Nat \ {0, 1} : Quiet(s, n) => Quiet(todo'[a], 2 + n - 1)
            BY <1>4, <3>1, <3>2
        <3>4. Len(todo'[a]) > 1 /\ (Quiet(s, 2) => Quiet(todo'[a], 3))
            <4>1. 2 \in Nat \ {0, 1} /\ 2 + 2 - 1 = 3
                OBVIOUS
            <4>2. Quiet(s, 2) => Quiet(todo'[a], 3)
                BY <3>3, <4>1
            <4> QED BY <1>2, <3>3, <4>2
        <3>5. todo'[a][1] = <<"press">> /\ todo'[a][2] = <<"preset", on>>
            BY <3>2, <3>3
        <3>6. ~stale => Asked' = on /\ Coming' = led' /\ led' # on
            BY <2>1, <2>2, <2>3, <2>6 DEF Coming, Asked
        <3>7. ~stale => KeyFirst(todo[a])'
            BY <2>3, <3>4, <3>5, <3>6 DEF KeyFirst, Quiet
        <3> QED BY <1>1, <2>2, <3>1, <3>7, WishOfRequest DEF Progress
    <2> QED BY <2>4, <2>5, <2>6
<1>8. CASE Press(a)
    <2>1. Goto(a, <<>>) /\ keys' = keys + 1 /\ UNCHANGED <<device, led, wish, stale>>
          /\ s[1][1] = "press"
        BY <1>8 DEF Press, history, Now, s
    <2>2. ~stale => KeyFirst(s)
        BY <1>1, <1>2, <1>3, <2>1, FirstStep
    <2>3. Coming' = ~Coming
        <3>1. keys \in Nat /\ device \in BOOLEAN
            BY DEF TypeInv, TypeOK
        <3>2. Odd(keys)' = ~Odd(keys)
            BY <2>1, <3>1, OddStep DEF Odd
        <3>3. device' = device /\ device \in {TRUE, FALSE}
            BY <2>1, <3>1
        <3> QED BY <3>2, <3>3 DEF Coming, Odd
    <2>4. KeyFirst(s) => /\ Len(todo'[a]) > 0 /\ todo'[a][1] = <<"preset", Asked>>
                         /\ Quiet(todo'[a], 2) /\ Coming = led /\ led # Asked
        <3>1. 2 \in 2..Len(s) => todo'[a][1] = s[2]
            BY <1>5, <2>1
        <3>2. Quiet(s, 3) => Quiet(todo'[a], 2)
            <4>1. 3 \in Nat \ {0, 1} /\ 3 - 1 = 2
                OBVIOUS
            <4> QED BY <1>5, <2>1, <4>1
        <3> QED BY <1>2, <1>5, <2>1, <3>1, <3>2 DEF KeyFirst
    <2>5. ~stale => LedFirst(todo[a])'
        <3>1. Asked' = Asked /\ led \in BOOLEAN /\ Asked \in BOOLEAN
            BY <2>1 DEF Asked, TypeInv, TypeOK
        <3> QED BY <2>2, <2>3, <2>4, <3>1 DEF LedFirst, Quiet
    <2> QED BY <1>1, <2>1, <2>5, WishOfRequest DEF Progress
<1>9. CASE Preset(a)
    <2>1. Goto(a, <<>>) /\ led' = s[1][2] /\ UNCHANGED <<device, keys, wish, stale>>
          /\ s[1][1] = "preset"
        BY <1>9 DEF Preset, history, Now, s
    <2>2. ~stale => LedFirst(s)
        BY <1>1, <1>2, <1>3, <2>1, FirstStep
    <2>3. LedFirst(s) => s[1][2] = Asked
        BY DEF LedFirst
    <2>4. Quiet(s, 2) => Quiet(todo'[a], 1)
        BY <1>5, <2>1
    <2>5. ~stale => (Quiet(todo[a], 1) /\ Agreed)'
        BY <2>1, <2>2, <2>3, <2>4 DEF LedFirst, Quiet, Agreed, Coming, Asked
    <2> QED BY <1>1, <2>1, <2>5, WishOfRequest DEF Progress
<1>10. ASSUME s[1][1] \in TimerKind, UNCHANGED <<device, led, keys, wish, stale>>,
              NEW step \in Step, step[1] \in TimerKind, Goto(a, <<step>>)
       PROVE  WishInv'
    <2>1. UNCHANGED <<Coming, Asked, led>>
        BY <1>10 DEF Coming, Asked
    <2>2. TimerFirst(s) => TimerFirst(todo[a])'
        <3>1. Len(s) > 2 => todo'[a][2] = s[2] /\ todo'[a][3] = s[3] /\ Len(todo'[a]) > 2
            BY <1>2, <1>6, <1>10
        <3>2. Quiet(s, 4) => Quiet(todo'[a], 4)
            BY <1>6, <1>10
        <3> QED BY <1>6, <1>10, <2>1, <3>1, <3>2 DEF TimerFirst, Quiet
    <2>3. Quiet(s, 1) => Quiet(todo'[a], 1)
        BY <1>2, <1>6, <1>10 DEF Quiet
    <2>4. ~stale => Progress(todo[a])'
        BY <1>1, <1>2, <1>3, <1>10, <2>1, <2>2, <2>3, FirstStep DEF Progress, Quiet, Agreed
    <2> QED BY <1>1, <1>10, <2>4, WishOfRequest
<1>11. ASSUME s[1][1] \in TimerKind, UNCHANGED <<device, led, keys, wish, stale>>,
              Goto(a, <<>>)
       PROVE  WishInv'
    <2>1. UNCHANGED <<Coming, Asked, led>>
        BY <1>11 DEF Coming, Asked
    <2>2. TimerFirst(s) => KeyFirst(todo[a])'
        <3>1. Len(s) > 2 => todo'[a][1] = s[2] /\ todo'[a][2] = s[3] /\ Len(todo'[a]) > 1
            <4>1. Len(s) > 2 => 2 \in 2..Len(s) /\ 3 \in 2..Len(s) /\ 2 - 1 = 1 /\ 3 - 1 = 2
                                /\ Len(s) - 1 > 1
                BY <1>2
            <4> QED BY <1>5, <1>11, <4>1
        <3>2. Quiet(s, 4) => Quiet(todo'[a], 3)
            <4>1. 4 \in Nat \ {0, 1} /\ 4 - 1 = 3
                OBVIOUS
            <4> QED BY <1>5, <1>11, <4>1
        <3> QED BY <2>1, <3>1, <3>2 DEF TimerFirst, KeyFirst, Quiet
    <2>3. Quiet(s, 1) => Quiet(todo'[a], 1)
        <3>1. Quiet(s, 1) => Quiet(s, 2)
            BY <1>2 DEF Quiet
        <3>2. 2 \in Nat \ {0, 1} /\ 2 - 1 = 1
            OBVIOUS
        <3> QED BY <1>5, <1>11, <3>1, <3>2
    <2>4. ~stale => Progress(todo[a])'
        BY <1>1, <1>2, <1>3, <1>11, <2>1, <2>2, <2>3, FirstStep DEF Progress, Quiet, Agreed
    <2> QED BY <1>1, <1>11, <2>4, WishOfRequest
<1>12. CASE Start(a)
    <2> DEFINE step == IF list = <<>> THEN <<"create", s[1][2]>> ELSE <<"store", Head(list), s[1][2]>>
    <2>1. s[1][1] = "start" /\ Goto(a, <<step>>) /\ UNCHANGED <<device, led, keys, wish, stale>>
        BY <1>12 DEF Start, Now, s, panel, history
    <2>2. s[1][2] \in Durations \cup Runtimes
        BY <1>2, <2>1, StepShape
    <2>3. list # <<>> => Head(list) \in Worker
        BY HeadTailProperties DEF TypeInv, TypeOK
    <2>4. step[1] \in TimerKind
        BY DEF TimerKind
    <2>5. step \in Step
        <3>1. <<"create", s[1][2]>> \in Step
            BY <2>2 DEF Step
        <3>2. list # <<>> => <<"store", Head(list), s[1][2]>> \in Step
            <4>1. \A v \in Worker, e \in {0} \cup Durations \cup Runtimes :
                     <<"store", v, e>> \in Step
                BY DEF Step
            <4> QED BY <2>2, <2>3, <4>1, Zenon
        <3> QED BY <3>1, <3>2
    <2> QED BY <1>10, <2>1, <2>4, <2>5 DEF TimerKind
<1>13. CASE Create(a) \/ Store(a)
    <2>1. s[1][1] \in {"create", "store"} /\ Goto(a, <<>>)
          /\ UNCHANGED <<device, led, keys, wish, stale>>
        BY <1>13 DEF Create, Store, Now, s, panel
    <2> QED BY <1>11, <2>1 DEF TimerKind
<1>14. CASE Clear(a)
    <2>1. s[1][1] = "clear" /\ UNCHANGED <<device, led, keys, wish, stale>>
          /\ \/ Goto(a, <<>>)
             \/ list # <<>> /\ Goto(a, << <<"store", Head(list), 0>> >>)
        BY <1>14 DEF Clear, Now, s, panel, history
    <2>2. list # <<>> => <<"store", Head(list), 0>> \in Step
        <3>1. list # <<>> => Head(list) \in Worker
            BY HeadTailProperties DEF TypeInv, TypeOK
        <3> QED BY <3>1 DEF Step
    <2>3. <<"store", Head(list), 0>>[1] = "store"
        OBVIOUS
    <2> QED BY <1>10, <1>11, <2>1, <2>2, <2>3 DEF TimerKind
<1> QED BY <1>7, <1>8, <1>9, <1>12, <1>13, <1>14 DEF RequestStep

(* A request that begins when no other is under way asks first.             *)
LEMMA AskWish ==
    ASSUME TypeInv, WishInv, NEW a \in Actor, NEW steps \in Seq(Step),
           todo' = [todo EXCEPT ![a] = steps], stale' = (stale \/ ~Idle),
           UNCHANGED <<device, led, keys>>,
           \/ steps = On /\ wish' # "OFF"
           \/ steps = Off /\ wish' = "OFF"
           \/ wish' # "OFF" /\ \E d : steps = Timed(d)
    PROVE  WishInv'
<1> SUFFICES ASSUME ~stale' PROVE OneAsks' /\ (Idle' => Agreed')
                                 /\ \A b \in Actor : Busy(b)' => Progress(todo[b])'
    BY DEF WishInv
<1>1. todo \in [Actor -> Seq(Step)]
    BY DEF TypeInv, TypeOK
<1>2. Idle /\ Agreed
    BY DEF WishInv
<1>3. todo'[a] = steps /\ \A b \in Actor : b # a => ~Busy(b)'
    BY <1>1, <1>2 DEF Idle, Busy
<1>4. /\ Len(steps) \in {1, 2} /\ steps[1] = <<"set", Asked'>>
      /\ Len(steps) = 2 => steps[2][1] \in TimerKind
    <2>1. CASE steps = On /\ wish' # "OFF"
        <3>1. Asked' = TRUE
            BY <2>1 DEF Asked
        <3>2. Len(steps) = 1 /\ steps[1] = <<"set", TRUE>>
            BY <2>1 DEF On
        <3> QED BY <3>1, <3>2
    <2>2. CASE steps = Off /\ wish' = "OFF"
        BY <2>2 DEF Off, Asked, TimerKind
    <2>3. CASE wish' # "OFF" /\ \E d : steps = Timed(d)
        <3>1. Asked' = TRUE
            BY <2>3 DEF Asked
        <3>2. /\ Len(steps) = 2 /\ steps[1] = <<"set", TRUE>>
              /\ steps[2][1] \in TimerKind
            <4>1. PICK d : steps = << <<"set", TRUE>>, <<"start", d>> >>
                BY <2>3 DEF Timed
            <4>2. steps[2] = <<"start", d>>
                BY <4>1
            <4>3. steps[2][1] = "start"
                BY <4>2
            <4> QED BY <4>1, <4>3 DEF TimerKind
        <3> QED BY <3>1, <3>2
    <2> QED BY <2>1, <2>2, <2>3
<1>5. AskedFirst(todo[a])'
    <2>1. Quiet(todo[a], 2)'
        BY <1>3, <1>4 DEF Quiet
    <2>2. (Coming = led)'
        BY <1>2 DEF Agreed, Coming
    <2> QED BY <1>3, <1>4, <2>1, <2>2 DEF AskedFirst
<1>6. Busy(a)'
    BY <1>3, <1>4 DEF Busy
<1> QED BY <1>3, <1>5, <1>6 DEF OneAsks, Idle, Progress

(* The panel consumes a key and the LED follows it, unless it is stale.     *)
LEMMA StatusWish == TypeInv /\ WishInv /\ Status => WishInv'
<1> SUFFICES ASSUME TypeInv, WishInv, Status, ~stale' PROVE WishInv'
    BY DEF WishInv
<1>1. keys \in Nat /\ {device, led} \subseteq BOOLEAN
    BY DEF TypeInv, TypeOK
<1>2. UNCHANGED <<todo, wish>> /\ ~stale
    BY DEF Status
<1>3. Coming' = Coming /\ Asked' = Asked
    <2>1. CASE keys = 0
        BY <1>2, <2>1 DEF Status, Coming, Asked
    <2>2. CASE keys > 0
        <3>1. device' = ~device /\ keys' = keys - 1
            BY <1>1, <2>2 DEF Status
        <3>2. Odd(keys) = ~Odd(keys)'
            BY <1>1, <2>2, <3>1 DEF Odd
        <3>3. device \in {TRUE, FALSE}
            BY <1>1
        <3> QED BY <1>2, <3>1, <3>2, <3>3 DEF Coming, Asked, Odd
    <2> QED BY <1>1, <2>1, <2>2
<1>4. led' = led \/ led' = Coming
    <2>1. led' = led \/ (keys = 0 /\ led' = device)
        BY <1>1 DEF Status
    <2>2. keys = 0 => Coming = device
        BY <1>1, OddStep DEF Coming
    <2> QED BY <2>1, <2>2
<1>5. Agreed => Agreed'
    BY <1>3, <1>4 DEF Agreed
<1>6. ASSUME NEW t, Progress(t) PROVE Progress(t)'
    BY <1>3, <1>4, <1>5, <1>6
       DEF Progress, AskedFirst, KeyFirst, TimerFirst, LedFirst, Quiet
<1>7. \A a \in Actor : Busy(a) => Progress(todo[a])
    BY <1>2 DEF WishInv
<1> QED BY <1>2, <1>5, <1>6, <1>7 DEF WishInv, OneAsks, Idle, Busy

(* Every step keeps the invariant of what was asked for.                    *)
LEMMA WishStep == TypeInv /\ WishInv /\ [Next]_vars => WishInv'
<1> SUFFICES ASSUME TypeInv, WishInv, [Next]_vars PROVE WishInv'
    OBVIOUS
<1>1. ASSUME UNCHANGED <<device, led, keys, todo, wish, stale>> PROVE WishInv'
    BY <1>1 DEF WishInv, OneAsks, Idle, Busy, Agreed, Coming, Asked, Progress, AskedFirst,
                KeyFirst, TimerFirst, LedFirst, Quiet
<1>2. ASSUME NEW c \in Client, Request(c) PROVE WishInv'
    <2>1. c \in Actor
        BY DEF Actor
    <2>2. UNCHANGED <<device, led, keys>> /\ stale' = (stale \/ ~Idle)
        BY <1>2 DEF Request, panel
    <2>3. PICK steps \in Seq(Step) :
             /\ todo' = [todo EXCEPT ![c] = steps]
             /\ \/ steps = On /\ wish' = "ON"
                \/ steps = Off /\ wish' = "OFF"
                \/ wish' = "TIMED" /\ \E d : steps = Timed(d)
        BY <1>2, Requested, Zenon DEF Request
    <2> QED BY <2>1, <2>2, <2>3, AskWish
<1>3. ASSUME NEW w \in Worker, TimerStep(w) PROVE WishInv'
    <2>1. CASE AskForOn(w)
        <3>1. UNCHANGED <<device, led, keys>> /\ stale' = (stale \/ ~Idle)
              /\ todo' = [todo EXCEPT ![w] = On] /\ wish' = "TIMED"
            BY <2>1 DEF AskForOn, Ask, panel
        <3> QED BY <3>1, AskWish, Requested DEF Actor
    <2>2. CASE AskForOff(w)
        <3>1. UNCHANGED <<device, led, keys>> /\ stale' = (stale \/ ~Idle)
              /\ todo' = [todo EXCEPT ![w] = Off] /\ wish' = "OFF"
            BY <2>2 DEF AskForOff, Ask, panel
        <3> QED BY <3>1, AskWish, Requested DEF Actor
    <2>3. CASE ~AskForOn(w) /\ ~AskForOff(w)
        BY <1>1, <1>3, <2>3 DEF TimerStep, Begin, CheckLed, LookAgain, Arm, Loop, Timeout,
            Woken, EndQuietly, Leave, Unlink, panel, history
    <2> QED BY <2>1, <2>2, <2>3
<1>4. CASE Touch
    BY <1>4 DEF Touch, WishInv
<1>5. CASE Tick
    BY <1>1, <1>5 DEF Tick, panel
<1>6. CASE UNCHANGED vars
    BY <1>1, <1>6 DEF vars, panel, history
<1> QED BY <1>2, <1>3, <1>4, <1>5, <1>6, RequestWish, StatusWish DEF Next

(* When no request is under way, the device will be what was asked for last *)
(* once the keys are consumed, for any number of threads, timers and keys,  *)
(* unless a status overtook a key, requests overlapped or the panel was     *)
(* touched.                                                                 *)
THEOREM WishKept == Spec => []WishIsKept
<1>1. Init => WishInv
    BY OddStep DEF Init, WishInv, OneAsks, Idle, Busy, Agreed, Coming, Asked
<1>2. WishInv => WishIsKept
    BY DEF WishInv, WishIsKept, Agreed, Coming, Asked
<1> QED BY <1>1, <1>2, TypeInvHolds, WishStep, PTL DEF Spec
=============================================================================
