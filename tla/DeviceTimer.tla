----------------------------- MODULE DeviceTimer -----------------------------
(***************************************************************************)
(* One device of the panel (a button): the requests that turn it on and    *)
(* off or on for a while (aq_panel.c), the threads that turn it off when   *)
(* the time is up (aq_timer.c), and the panel, which shows the state of    *)
(* the device in its status packets and takes the key that toggles it      *)
(* (allbutton.c).                                                          *)
(*                                                                         *)
(* Requests come from the threads in Client and from the timers            *)
(* themselves, and run in the thread that makes them, in the small steps   *)
(* that are left in todo.  Nothing protects the list of timers, their      *)
(* durations or the LED.  A second passes only when no thread has anything *)
(* to do but wait, since a step takes far less than that; the packets of   *)
(* the panel may come at any time.                                         *)
(*                                                                         *)
(* Panel type: RS, a plain device switched by its ALLBUTTON key, with      *)
(* device_pre_state on.  A use of a timer that was freed has no effect     *)
(* unless its memory is the next timer's by then.  Definitions marked      *)
(* (Fault) are not part of the specification.                              *)
(***************************************************************************)
EXTENDS Integers, Sequences

CONSTANTS
    Client,      \* the threads that make requests: network and main loop
    Worker,      \* the timers: timer_worker threads and their records
    Durations,   \* the durations that clients ask for
    Runtimes,    \* runtime_sec may be one of these, 0 when not configured
    Fine,        \* the time left from which a timer wakes each second (60)
    AskAt,       \* the LED checks before it asks for ON (5)
    GiveUpAt,    \* the LED checks before it gives up (10)
    Requests     \* bound: how often clients make a request or someone is at the panel

Actor == Client \cup Worker

ASSUME TimerAssumption ==
    /\ Client \cap Worker = {}
    /\ Durations \subseteq Nat \ {0}
    /\ Runtimes \subseteq Nat
    /\ Fine \in Nat \ {0}
    /\ AskAt \in Nat /\ GiveUpAt \in Nat /\ AskAt + 1 < GiveUpAt
    /\ Requests \in Nat

VARIABLES
    runtime,   \* runtime_sec of the device
    device,    \* the device runs
    seen,      \* last_checksum: the device state in the last status
    led,       \* led->state is not OFF
    keys,      \* keys of this device in the stack of allbutton_aq_programmer.c
    mask,      \* TIMER_ACTIVE
    list,      \* _timerthread_ll, the timers of this device
    timer,     \* timer[w]: the record and the thread of a timer
    todo,      \* todo[a]: what is left of the request that a is making
    requests,  \* requests and toggles at the panel so far
    wish,      \* history: what was asked for last
    left,      \* history: what is left of the duration that a client set last
    stale,     \* history: a status overtook a key, or two requests overlapped
    unheeded   \* history: a duration was not, or cannot be, kept

panel == <<device, seen, led, keys>>
history == <<wish, left, stale, unheeded>>
vars == <<runtime, panel, mask, list, timer, todo, requests, history>>

Free == [pc |-> "free", duration |-> 0, armed |-> 0, ran |-> 0, alarm |-> 0, tries |-> 0]

(* A timerthread record, the place of its thread, and the locals of that.   *)
TimerRecord ==
    [pc : {"free", "new", "led", "delay", "arm", "loop", "wait", "woken", "end",
           "leave", "unlink"},
     duration : {0} \cup Durations \cup Runtimes,
     armed : {0} \cup Durations \cup Runtimes,
     ran : Nat, alarm : Nat, tries : 0..GiveUpAt]

(* The steps of a request.                                                  *)
Step ==
    {<<"set", on>> : on \in BOOLEAN} \cup {<<"preset", on>> : on \in BOOLEAN}
    \cup {<<"start", d>> : d \in Durations \cup Runtimes}
    \cup {<<"create", d>> : d \in Durations \cup Runtimes}
    \cup {<<"store", w, d>> : w \in Worker, d \in {0} \cup Durations \cup Runtimes}
    \cup {<<"press">>, <<"clear">>}

TypeOK ==
    /\ runtime \in Runtimes
    /\ device \in BOOLEAN /\ seen \in BOOLEAN /\ led \in BOOLEAN /\ mask \in BOOLEAN
    /\ keys \in Nat
    /\ list \in Seq(Worker)
    /\ timer \in [Worker -> TimerRecord]
    /\ todo \in [Actor -> Seq(Step)]
    /\ requests \in 0..Requests
    /\ wish \in {"OFF", "ON", "TIMED"}
    /\ left \in Nat
    /\ stale \in BOOLEAN /\ unheeded \in BOOLEAN

Init ==
    /\ runtime \in Runtimes
    /\ device = FALSE /\ seen = FALSE /\ led = FALSE /\ keys = 0
    /\ mask = FALSE /\ list = <<>>
    /\ timer = [w \in Worker |-> Free]
    /\ todo = [a \in Actor |-> <<>>]
    /\ requests = 0
    /\ wish = "OFF" /\ left = 0 /\ stale = FALSE /\ unheeded = FALSE

-----------------------------------------------------------------------------
(* Requests: panel_device_request, setDeviceState, start_timer, clear_timer.*)

Busy(a) == todo[a] # <<>>
Idle == \A a \in Actor : ~Busy(a)

(* The first step of a's request gives way to steps.                        *)
Goto(a, steps) == todo' = [todo EXCEPT ![a] = steps \o Tail(@)]

Now(a, kind) == Busy(a) /\ todo[a][1][1] = kind

On == << <<"set", TRUE>> >>
Off == << <<"set", FALSE>>, <<"clear">> >>
Timed(d) == << <<"set", TRUE>>, <<"start", d>> >>

(* panel_device_request by a client: ON_OFF, TIMER and TIMER_SEC.           *)
Request(c) ==
    /\ ~Busy(c) /\ requests < Requests
    /\ requests' = requests + 1
    /\ \/ wish' = "ON" /\ todo' = [todo EXCEPT ![c] = On]
       \/ wish' = "OFF" /\ todo' = [todo EXCEPT ![c] = Off]
       \/ \E d \in Durations : wish' = "TIMED" /\ todo' = [todo EXCEPT ![c] = Timed(d)]
    /\ stale' = (stale \/ ~Idle)
    /\ UNCHANGED <<runtime, panel, mask, list, timer, left, unheeded>>

(* (Fault) A request is not ignored when the device is in its state.        *)
SetAlways(a) ==
    /\ Now(a, "set")
    /\ LET on == todo[a][1][2] IN
          /\ Goto(a, (IF runtime > 0 THEN << <<"start", runtime>> >> ELSE <<>>)
                     \o << <<"press">>, <<"preset", on>> >>)
          /\ wish' = IF on /\ runtime > 0 THEN "TIMED" ELSE wish
    /\ UNCHANGED <<runtime, panel, mask, list, timer, requests, left, stale, unheeded>>

(* setDeviceState, down to the test of runtime_sec: nothing is done for a   *)
(* device that is in the state already.  The time starts on OFF as on ON.   *)
Set(a) ==
    /\ Now(a, "set")
    /\ LET on == todo[a][1][2] IN
       IF led = on
       THEN Goto(a, <<>>) /\ UNCHANGED wish
       ELSE /\ Goto(a, (IF runtime > 0 THEN << <<"start", runtime>> >> ELSE <<>>)
                       \o << <<"press">>, <<"preset", on>> >>)
            /\ wish' = IF on /\ runtime > 0 THEN "TIMED" ELSE wish
    /\ UNCHANGED <<runtime, panel, mask, list, timer, requests, left, stale, unheeded>>

(* aq_send_allb_cmd.                                                        *)
Press(a) ==
    /\ Now(a, "press")
    /\ keys' = keys + 1
    /\ Goto(a, <<>>)
    /\ UNCHANGED <<runtime, device, seen, led, mask, list, timer, requests, history>>

(* The rest of setDeviceState: pre-state the LED.                           *)
Preset(a) ==
    /\ Now(a, "preset")
    /\ led' = todo[a][1][2]
    /\ Goto(a, <<>>)
    /\ UNCHANGED <<runtime, device, seen, keys, mask, list, timer, requests, history>>

(* start_timer, find_timerthread: is there a timer for the device?          *)
Start(a) ==
    /\ Now(a, "start")
    /\ LET d == todo[a][1][2] IN
       Goto(a, << IF list = <<>> THEN <<"create", d>> ELSE <<"store", Head(list), d>> >>)
    /\ UNCHANGED <<runtime, panel, mask, list, timer, requests, history>>

(* start_timer, the other branch: a new timer at the end of the list.       *)
Create(a) ==
    /\ Now(a, "create")
    /\ \E w \in Worker : timer[w] = Free
    /\ LET w == CHOOSE v \in Worker : timer[v] = Free IN
          /\ timer' = [timer EXCEPT ![w].pc = "new", ![w].duration = todo[a][1][2]]
          /\ list' = Append(list, w)
    /\ left' = todo[a][1][2]
    /\ unheeded' = (unheeded \/ list # <<>>)
    /\ Goto(a, <<>>)
    /\ UNCHANGED <<runtime, panel, mask, requests, wish, stale>>

(* The pcs of a timer that has still to read its duration, or to hear of it.*)
Heeds == {"new", "led", "delay", "arm", "wait", "woken"}

(* The branch of start_timer that found a timer, and clear_timer: set the   *)
(* duration and broadcast.  Only a timer that waits hears it.               *)
Store(a) ==
    /\ Now(a, "store")
    /\ LET w == todo[a][1][2]
           d == todo[a][1][3]
       IN  /\ timer' = IF timer[w].pc = "free" THEN timer
                       ELSE [timer EXCEPT ![w].duration = d,
                                          ![w].pc = IF @ = "wait" THEN "woken" ELSE @]
           /\ left' = IF a \in Client THEN d ELSE left
           /\ unheeded' = (unheeded \/ (d > 0 /\ (a = w \/ timer[w].pc \notin Heeds)))
    /\ Goto(a, <<>>)
    /\ UNCHANGED <<runtime, panel, mask, list, requests, wish, stale>>

(* The end of an OFF request: clear_timer if TIMER_ACTIVE.                  *)
Clear(a) ==
    /\ Now(a, "clear")
    /\ Goto(a, IF mask /\ list # <<>> THEN << <<"store", Head(list), 0>> >> ELSE <<>>)
    /\ UNCHANGED <<runtime, panel, mask, list, timer, requests, history>>

-----------------------------------------------------------------------------
(* timer_worker, while it makes no request.                                 *)

At(w, pc) == ~Busy(w) /\ timer[w].pc = pc

Move(w, pc) == timer' = [timer EXCEPT ![w].pc = pc]

Begin(w) ==
    /\ At(w, "new")
    /\ mask' = TRUE
    /\ Move(w, "led")
    /\ UNCHANGED <<runtime, panel, list, todo, requests, history>>

(* The head of the loop that waits for the device to be on.                 *)
CheckLed(w) ==
    /\ At(w, "led")
    /\ timer' = [timer EXCEPT ![w].pc = IF led THEN "arm" ELSE "delay",
                              ![w].alarm = IF led THEN 0 ELSE 1]
    /\ UNCHANGED <<runtime, panel, mask, list, todo, requests, history>>

(* A timer requests ON or OFF.                                              *)
Ask(w, steps, outcome) ==
    /\ todo' = [todo EXCEPT ![w] = steps]
    /\ wish' = outcome
    /\ stale' = (stale \/ ~Idle)

(* Its body after the delay: ask for ON at one count, give up at another.   *)
AskForOn(w) ==
    /\ At(w, "delay") /\ timer[w].alarm = 0 /\ timer[w].tries = AskAt
    /\ timer' = [timer EXCEPT ![w].tries = @ + 1, ![w].pc = "led"]
    /\ Ask(w, On, "TIMED")
    /\ unheeded' = (unheeded \/ wish # "TIMED")
    /\ UNCHANGED <<runtime, panel, mask, list, requests, left>>

(* (Fault) The timer never gives up.                                        *)
LookAgainForever(w) ==
    /\ At(w, "delay") /\ timer[w].alarm = 0 /\ timer[w].tries # AskAt
    /\ Move(w, "led")
    /\ UNCHANGED <<runtime, panel, mask, list, todo, requests, history>>

(* (Fault) The timer gives up one check late.                               *)
LookAgainOnce(w) ==
    /\ At(w, "delay") /\ timer[w].alarm = 0 /\ timer[w].tries # AskAt
    /\ timer' = [timer EXCEPT
           ![w].tries = @ + 1,
           ![w].pc = IF timer[w].tries = GiveUpAt THEN "arm" ELSE "led"]
    /\ UNCHANGED <<runtime, panel, mask, list, todo, requests, history>>

LookAgain(w) ==
    /\ At(w, "delay") /\ timer[w].alarm = 0 /\ timer[w].tries # AskAt
    /\ timer' = [timer EXCEPT
           ![w].tries = @ + 1,
           ![w].pc = IF timer[w].tries + 1 = GiveUpAt THEN "arm" ELSE "led"]
    /\ UNCHANGED <<runtime, panel, mask, list, todo, requests, history>>

(* Calculate the end time from the duration.                                *)
Arm(w) ==
    /\ At(w, "arm")
    /\ timer' = [timer EXCEPT ![w].pc = "loop", ![w].armed = timer[w].duration,
                              ![w].ran = 0]
    /\ UNCHANGED <<runtime, panel, mask, list, todo, requests, history>>

Remaining(w) == timer[w].armed - timer[w].ran

Alarm(remaining) == IF remaining > Fine THEN remaining - Fine ELSE 1

(* The head of the main loop: finish, or wait for the alarm or a signal.    *)
Loop(w) ==
    /\ At(w, "loop")
    /\ timer' = [timer EXCEPT
           ![w].pc = IF Remaining(w) <= 0 THEN "end" ELSE "wait",
           ![w].alarm = IF Remaining(w) <= 0 THEN 0 ELSE Alarm(Remaining(w))]
    /\ UNCHANGED <<runtime, panel, mask, list, todo, requests, history>>

(* (Fault) An alarm is the end.                                             *)
TimeoutEnds(w) ==
    /\ At(w, "wait") /\ timer[w].alarm = 0
    /\ Move(w, "end")
    /\ UNCHANGED <<runtime, panel, mask, list, todo, requests, history>>

Timeout(w) ==
    /\ At(w, "wait") /\ timer[w].alarm = 0
    /\ Move(w, "loop")
    /\ UNCHANGED <<runtime, panel, mask, list, todo, requests, history>>

(* After a signal: cancelled, or the end time is calculated anew.           *)
Woken(w) ==
    /\ At(w, "woken")
    /\ timer' = [timer EXCEPT
           ![w].pc = IF timer[w].duration = 0 THEN "end" ELSE "loop",
           ![w].armed = IF timer[w].duration = 0 THEN @ ELSE timer[w].duration,
           ![w].ran = IF timer[w].duration = 0 THEN @ ELSE 0,
           ![w].alarm = 0]
    /\ UNCHANGED <<runtime, panel, mask, list, todo, requests, history>>

(* (Fault) The time is up: turn the device on.                              *)
AskForOnAgain(w) ==
    /\ At(w, "end") /\ timer[w].duration # 0 /\ led
    /\ Move(w, "leave")
    /\ Ask(w, On, "TIMED")
    /\ UNCHANGED <<runtime, panel, mask, list, requests, left, unheeded>>

(* The time is up: turn the device off.                                     *)
AskForOff(w) ==
    /\ At(w, "end") /\ timer[w].duration # 0 /\ led
    /\ Move(w, "leave")
    /\ Ask(w, Off, "OFF")
    /\ UNCHANGED <<runtime, panel, mask, list, requests, left, unheeded>>

(* The timer was cleared, or the device is off already.                     *)
EndQuietly(w) ==
    /\ At(w, "end") /\ ~(timer[w].duration # 0 /\ led)
    /\ Move(w, "leave")
    /\ UNCHANGED <<runtime, panel, mask, list, todo, requests, history>>

Leave(w) ==
    /\ At(w, "leave")
    /\ mask' = FALSE
    /\ Move(w, "unlink")
    /\ UNCHANGED <<runtime, panel, list, todo, requests, history>>

Unlink(w) ==
    /\ At(w, "unlink")
    /\ \E i \in DOMAIN list :
          list[i] = w /\ list' = SubSeq(list, 1, i - 1) \o SubSeq(list, i + 1, Len(list))
    /\ timer' = [timer EXCEPT ![w] = Free]
    /\ UNCHANGED <<runtime, panel, mask, todo, requests, history>>

-----------------------------------------------------------------------------
(* The panel: process_allbutton_packet and the acknowledgement.             *)

(* A status sets the LED, but one that equals the packet before is ignored; *)
(* another packet to our keypad may have come in between.  The answer       *)
(* carries a key, which toggles the device.                                 *)
Status ==
    /\ \E ignored \in {FALSE, seen = device} :
          /\ led' = IF ignored THEN led ELSE device
          /\ stale' = (stale \/ (keys > 0 /\ ~ignored))
    /\ seen' = device
    /\ IF keys = 0
       THEN UNCHANGED <<device, keys>>
       ELSE device' = ~device /\ keys' = keys - 1
    /\ UNCHANGED <<runtime, mask, list, timer, todo, requests, wish, left, unheeded>>

(* Somebody toggles the device at the panel.                                *)
Touch ==
    /\ requests < Requests
    /\ requests' = requests + 1
    /\ device' = ~device
    /\ stale' = TRUE
    /\ UNCHANGED <<runtime, seen, led, keys, mask, list, timer, todo, wish, left,
                   unheeded>>

-----------------------------------------------------------------------------

TimerStep(w) ==
    \/ Begin(w) \/ CheckLed(w) \/ AskForOn(w) \/ LookAgain(w) \/ Arm(w) \/ Loop(w)
    \/ Timeout(w) \/ Woken(w) \/ AskForOff(w) \/ EndQuietly(w) \/ Leave(w) \/ Unlink(w)

RequestStep(a) ==
    Set(a) \/ Press(a) \/ Preset(a) \/ Start(a) \/ Create(a) \/ Store(a) \/ Clear(a)

(* A timer that only time moves.                                            *)
Rests(t) ==
    \/ t.pc = "free"
    \/ t.pc \in {"delay", "wait"} /\ t.alarm > 0

Down(n) == IF n > 0 THEN n - 1 ELSE 0

(* A second goes by, in which all threads but those that wait get along.    *)
Tick ==
    /\ Idle /\ \A w \in Worker : Rests(timer[w])
    /\ \E w \in Worker : timer[w].pc # "free"
    /\ timer' = [w \in Worker |->
           [timer[w] EXCEPT !.alarm = Down(@),
                            !.ran = IF timer[w].pc = "wait" THEN @ + 1 ELSE @]]
    /\ left' = Down(left)
    /\ UNCHANGED <<runtime, panel, mask, list, todo, requests, wish, stale, unheeded>>

Next ==
    \/ \E c \in Client : Request(c)
    \/ \E a \in Actor : RequestStep(a)
    \/ \E w \in Worker : TimerStep(w)
    \/ Status \/ Touch \/ Tick

(* Threads run, the panel sends its status again and again, time goes by.   *)
Fairness ==
    /\ \A a \in Actor : WF_vars(RequestStep(a))
    /\ \A w \in Worker : WF_vars(TimerStep(w))
    /\ WF_vars(Status) /\ WF_vars(Tick)

Spec == Init /\ [][Next]_vars /\ Fairness

-----------------------------------------------------------------------------
(* Properties.                                                              *)

Odd(n) == n % 2 = 1

(* When no request is under way the keys in the stack bring the device to   *)
(* the state asked for last, whoever asked, unless a status overtook a key, *)
(* two requests overlapped or somebody was at the panel: setDeviceState     *)
(* decides by the LED whether a toggle is due, and pre-states it.           *)
WishIsKept ==
    Idle /\ ~stale => (device # Odd(keys)) = (wish # "OFF")

(* A timer does not turn the device off before the duration that was set    *)
(* last is over, except for a duration set where the timer does not hear of *)
(* it: start_timer resets a timer that is running.                          *)
NotOffEarly ==
    [][\A w \in Worker : At(w, "end") /\ Busy(w)' => left = 0 \/ unheeded]_vars

(* A device that was asked for on for a while is turned off in the end,     *)
(* unless the duration reached a timer that was ending or the LED misled it.*)
TimedGoesOff ==
    <>[](wish = "TIMED" => ~device \/ stale \/ unheeded)

(* Every timer ends, also when its device never turns on: timer_worker.     *)
EveryTimerEnds ==
    \A w \in Worker : timer[w].pc # "free" ~> timer[w].pc = "free"

(* The comment before clear_timer in panel_device_request, "Clear timer if  *)
(* off request and timer is active": a timer does not turn the device on    *)
(* after a request turned it off.                                           *)
OffMeansOff ==
    [][\A w \in Worker : At(w, "delay") /\ Busy(w)' /\ wish = "OFF" => ~Idle]_vars
=============================================================================
