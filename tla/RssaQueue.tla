------------------------------ MODULE RssaQueue ------------------------------
(***************************************************************************)
(* The command queue of the RS serial adapter (serialadapter.c).  Web,     *)
(* MQTT and timer threads push commands; the main thread, which answers    *)
(* each message of the panel with the head of the queue and then removes   *)
(* it, pushes too, when it polls the panel.  Nothing is locked: a push is  *)
(* a test of the length, its increment and a copy into the slot, and a     *)
(* removal is a memmove and a decrement.  Each of these is a step here     *)
(* (the increment and the decrement are taken to be one access each, which *)
(* is the kindest outcome of the race the build can have).                 *)
(*                                                                         *)
(* A setpoint takes two commands: "ready" announces it, the panel answers  *)
(* with a message 0x07, and the answer to that carries the value.          *)
(* Definitions marked (Fault) are not part of the specification.           *)
(***************************************************************************)
EXTENDS Integers, Sequences, FiniteSets

CONSTANTS
    Client,       \* the threads that push commands, the main thread not included
    Main,         \* the main thread
    QLen,         \* RSSA_QLEN (40)
    Warm,         \* packets from a probe to the first poll (5)
    PollPeriod,   \* packets from a poll to the next (100)
    LightPeriod,  \* packets between two polls of the color lights (10)
    Lights,       \* how many color lights are polled
    Requests      \* bound: how many requests the clients make

ASSUME QueueAssumption ==
    /\ Main \notin Client /\ IsFiniteSet(Client)
    /\ QLen \in Nat \ {0}
    /\ Warm \in Nat \ {0}
    /\ {PollPeriod, LightPeriod} \subseteq Nat \ {0}
    /\ {Lights, Requests} \subseteq Nat

Thread == Client \cup {Main}

(* A command: what it asks for, and the request that it belongs to.         *)
Kind == {"get", "state", "ready", "set"}
Command == [kind : Kind, req : 0..Requests]
Nothing == [kind |-> "none", req |-> 0]

(* rssadapter_device_state, set_aqualink_rssadapter_aux_extended_state and  *)
(* queue_aqualink_rssadapter_setpoint: the commands that a request pushes.  *)
Pushes(r) ==
    { <<[kind |-> "state", req |-> r]>>,
      <<[kind |-> "state", req |-> r], [kind |-> "get", req |-> r]>>,
      <<[kind |-> "ready", req |-> r], [kind |-> "set", req |-> r]>> }

(* The polls of the main thread, which no client asked for.                 *)
Gets(n) == [k \in 1..n |-> [kind |-> "get", req |-> 0]]

VARIABLES
    queue,     \* _rssa_queue
    len,       \* _rssa_q_length
    last,      \* _rssa_last_was_queue
    cnt,       \* the packet counter of process_rssadapter_packet
    todo,      \* todo[t]: what thread t has still to push
    pc,        \* pc[t]: where in push_rssa_cmd thread t is
    idx,       \* idx[t]: the slot that t has reserved
    main,      \* where the main thread is
    msg,       \* the message it is working on
    requests,  \* the requests made so far
    expects,   \* panel: the setpoint request it has seen "ready" of, or 0
    answer,    \* the command of the queue that was sent last
    raced      \* two threads have been in the queue at a time

vars == <<queue, len, last, cnt, todo, pc, idx, main, msg, requests, expects,
          answer, raced>>

Message == {"PROBE", "STATUS", "OTHER", "0x07"}

(* Threads that have read the queue's length or contents and have not yet   *)
(* finished with them.                                                      *)
Busy(p, m) ==
    {t \in Thread : p[t] \in {"checked", "reserved"}}
        \cup {t \in {Main} : m \in {"sending", "moving", "counting"}}

TypeOK ==
    /\ queue \in [0..QLen-1 -> Command \cup {Nothing}]
    /\ len \in 0..(QLen + Cardinality(Client))
    /\ last \in BOOLEAN
    /\ cnt \in -Warm..(PollPeriod - 1)
    /\ todo \in [Thread -> Seq(Command)]
    /\ pc \in [Thread -> {"idle", "checked", "reserved"}]
    /\ idx \in [Thread -> 0..(QLen + Cardinality(Client))]
    /\ main \in {"reading", "pushing", "sending", "moving", "counting"}
    /\ msg \in Message
    /\ requests \in 0..Requests
    /\ expects \in 0..Requests
    /\ answer \in Command \cup {Nothing}
    /\ raced \in BOOLEAN

Init ==
    /\ queue = [k \in 0..QLen-1 |-> Nothing]
    /\ len = 0
    /\ last = FALSE
    /\ cnt = -Warm
    /\ todo = [t \in Thread |-> <<>>]
    /\ pc = [t \in Thread |-> "idle"]
    /\ idx = [t \in Thread |-> 0]
    /\ main = "reading"
    /\ msg = "OTHER"
    /\ requests = 0
    /\ expects = 0
    /\ answer = Nothing
    /\ raced = FALSE

Notice == raced' = (raced \/ Cardinality(Busy(pc', main')) > 1)

-----------------------------------------------------------------------------
(* A client calls one of the functions that push.                           *)
Request(t) ==
    /\ t \in Client
    /\ todo[t] = <<>>
    /\ requests < Requests
    /\ requests' = requests + 1
    /\ \E s \in Pushes(requests + 1) : todo' = [todo EXCEPT ![t] = s]
    /\ UNCHANGED <<queue, len, last, cnt, pc, idx, main, msg, expects, answer, raced>>

Pushing(t) == todo[t] # <<>> /\ (t = Main => main = "pushing")

(* (Fault) The queue is allowed to grow one beyond its end.                 *)
PushTestOffByOne(t) ==
    /\ Pushing(t)
    /\ pc[t] = "idle"
    /\ \/ /\ len > QLen
          /\ todo' = [todo EXCEPT ![t] = Tail(@)]
          /\ UNCHANGED pc
       \/ /\ len <= QLen
          /\ pc' = [pc EXCEPT ![t] = "checked"]
          /\ UNCHANGED todo
    /\ UNCHANGED <<queue, len, last, cnt, idx, main, msg, requests, expects, answer>>
    /\ Notice

(* push_rssa_cmd: the test.  A full queue drops the command, and the caller *)
(* goes on with its next one.                                               *)
PushTest(t) ==
    /\ Pushing(t)
    /\ pc[t] = "idle"
    /\ \/ /\ len >= QLen
          /\ todo' = [todo EXCEPT ![t] = Tail(@)]
          /\ UNCHANGED pc
       \/ /\ len < QLen
          /\ pc' = [pc EXCEPT ![t] = "checked"]
          /\ UNCHANGED todo
    /\ UNCHANGED <<queue, len, last, cnt, idx, main, msg, requests, expects, answer>>
    /\ Notice

(* _rssa_q_length++, which C orders before the copy.                        *)
PushReserve(t) ==
    /\ pc[t] = "checked"
    /\ pc' = [pc EXCEPT ![t] = "reserved"]
    /\ idx' = [idx EXCEPT ![t] = len]
    /\ len' = len + 1
    /\ UNCHANGED <<queue, last, cnt, todo, main, msg, requests, expects, answer>>
    /\ Notice

(* memcpy into the slot.  A slot beyond the array, which only a race can    *)
(* reserve, is memory that the model does not have.                         *)
PushStore(t) ==
    /\ pc[t] = "reserved"
    /\ pc' = [pc EXCEPT ![t] = "idle"]
    /\ idx' = [idx EXCEPT ![t] = 0]
    /\ queue' = [k \in 0..QLen-1 |-> IF k = idx[t] THEN Head(todo[t]) ELSE queue[k]]
    /\ todo' = [todo EXCEPT ![t] = Tail(@)]
    /\ UNCHANGED <<len, last, cnt, main, msg, requests, expects, answer>>
    /\ Notice

-----------------------------------------------------------------------------
(* The commands that process_rssadapter_packet polls with when its counter  *)
(* has come to c: the color lights, the first poll after a probe, and the   *)
(* regular one.                                                             *)
Polls(c) ==
    Gets((IF c % LightPeriod = 0 THEN Lights ELSE 0)
         + (IF c = 0 THEN 3 ELSE IF c >= PollPeriod THEN 2 ELSE 0))

(* A message of the panel: process_rssadapter_packet counts it, polls, and  *)
(* starts over after a probe.  The panel asks for a value, with 0x07, once  *)
(* it has been told that it is ready.                                       *)
Receive(m) ==
    /\ main = "reading"
    /\ m = "0x07" => expects # 0
    /\ main' = "pushing"
    /\ msg' = m
    /\ LET c == cnt + 1
       IN /\ todo' = [todo EXCEPT ![Main] = Polls(c)]
          /\ cnt' = IF m = "PROBE" THEN -Warm ELSE IF c >= PollPeriod THEN 0 ELSE c
    /\ UNCHANGED <<queue, len, last, pc, idx, requests, expects, answer, raced>>

(* (Fault) The length is not tested before the head is used.                *)
AnswerUntested ==
    /\ main = "pushing"
    /\ todo[Main] = <<>>
    /\ last' = (msg \in {"STATUS", "0x07"})
    /\ main' = IF last' THEN "sending" ELSE "reading"
    /\ expects' = IF msg \in {"PROBE", "0x07"} /\ ~last' THEN 0 ELSE expects
    /\ UNCHANGED <<queue, len, cnt, todo, pc, idx, msg, requests, answer>>
    /\ Notice

(* get_rssa_cmd: only a status and the message 0x07 are answered from the   *)
(* queue.  The others, and an empty queue, have a fixed answer, after which *)
(* remove_rssa_cmd does nothing.                                            *)
Answer ==
    /\ main = "pushing"
    /\ todo[Main] = <<>>
    /\ last' = (msg \in {"STATUS", "0x07"} /\ len > 0)
    /\ main' = IF last' THEN "sending" ELSE "reading"
    /\ expects' = IF msg \in {"PROBE", "0x07"} /\ ~last' THEN 0 ELSE expects
    /\ UNCHANGED <<queue, len, cnt, todo, pc, idx, msg, requests, answer>>
    /\ Notice

(* send_jandy_command reads the slot that get_rssa_cmd has pointed it to,   *)
(* and the panel takes it.                                                  *)
Send ==
    /\ main = "sending"
    /\ main' = "moving"
    /\ answer' = queue[0]
    /\ expects' = IF queue[0].kind = "ready" THEN queue[0].req
                  ELSE IF msg = "0x07" THEN 0 ELSE expects
    /\ UNCHANGED <<queue, len, last, cnt, todo, pc, idx, msg, requests, raced>>

(* remove_rssa_cmd: memmove of as many slots as the queue is long, which    *)
(* brings in one slot from beyond its end, and beyond the array if it is    *)
(* full; then the decrement.                                                *)
RemoveMove ==
    /\ main = "moving"
    /\ main' = "counting"
    /\ queue' = [k \in 0..QLen-1 |->
                    IF k < len /\ k + 1 < QLen THEN queue[k + 1] ELSE queue[k]]
    /\ UNCHANGED <<len, last, cnt, todo, pc, idx, msg, requests, expects, answer, raced>>

(* (Fault) The length is not decremented.                                   *)
RemoveNothing ==
    /\ main = "counting"
    /\ main' = "reading"
    /\ UNCHANGED <<queue, len, last, cnt, todo, pc, idx, msg, requests, expects,
                   answer, raced>>

RemoveCount ==
    /\ main = "counting"
    /\ main' = "reading"
    /\ len' = len - 1
    /\ UNCHANGED <<queue, last, cnt, todo, pc, idx, msg, requests, expects,
                   answer, raced>>

Push(t) == PushTest(t) \/ PushReserve(t) \/ PushStore(t)
MainStep == Answer \/ Send \/ RemoveMove \/ RemoveCount

Next ==
    \/ \E t \in Client : Request(t)
    \/ \E t \in Thread : Push(t)
    \/ \E m \in Message : Receive(m)
    \/ MainStep

Spec == Init /\ [][Next]_vars

(* Threads run, and the panel asks for the adapter's status again and       *)
(* again.                                                                   *)
Fairness ==
    /\ \A t \in Thread : WF_vars(Push(t))
    /\ WF_vars(MainStep)
    /\ SF_vars(Receive("STATUS"))

FairSpec == Spec /\ Fairness

-----------------------------------------------------------------------------
(* The queue as its users see it: without the slots that are reserved and   *)
(* not yet stored, and without the command that is sent and not yet removed.*)
(* After a race there may be anything in it.                                *)
Slot(k) == IF k < QLen THEN queue[k] ELSE Nothing
Pending ==
    LET n == len - Cardinality({t \in Thread : pc[t] = "reserved"})
    IN CASE raced -> <<>>
         [] ~raced /\ main = "moving" -> [k \in 1..(n - 1) |-> Slot(k)]
         [] ~raced /\ main = "counting" -> [k \in 1..(n - 1) |-> Slot(k - 1)]
         [] OTHER -> [k \in 1..n |-> Slot(k - 1)]

Fifo == INSTANCE CommandFifo WITH fifo <- Pending, sent <- answer, Capacity <- QLen

(* As long as no two threads have been in the queue at a time, it sends     *)
(* every command it has accepted exactly once and in order, whatever other  *)
(* commands and messages come between.                                      *)
FifoUnlessRaced ==
    Fifo!Init /\ [][raced' \/ Fifo!Next]_<<Pending, answer>>

(* The commands of a request do not stay in the queue: polls, probes and    *)
(* other requests only delay them.                                          *)
Waits(r) == \E k \in DOMAIN Pending : Pending[k].req = r
EveryCommandLeaves == \A r \in 1..Requests : Waits(r) ~> ~Waits(r)

(* The message 0x07 is answered with the value of the setpoint that was     *)
(* announced.                                                               *)
SecondPartFollows ==
    [][Send /\ msg = "0x07" /\ ~raced => answer' = [kind |-> "set", req |-> expects]]_vars
=============================================================================
