--------------------------- MODULE IaqualinkQueue ---------------------------
(* The queue of the iAqualink protocol (iaqualink.c).  A setting takes two  *)
(* frames: "ready", which makes the panel ask for the second with a message *)
(* 0x73, and the full command.  The full command is built in one global     *)
(* buffer by the threads that make requests, and pushed into a queue that   *)
(* the main thread, which answers the panel from it, polls with too.        *)
(* Nothing is locked.  A push is a test, a copy and an increment; a removal *)
(* a memmove and a decrement.                                               *)
EXTENDS Integers, Sequences, FiniteSets

CONSTANTS
    Clients,      \* threads that make requests, each for a device of its own
    QueueLength,  \* IAQUA_QLEN (20)
    StatusEvery,  \* IAQALINK_STATUS_POLL_COUNT (101)
    Asks,         \* bound: requests
    Losses        \* bound: messages and answers that are lost

ASSUME IaqualinkAssumption ==
    /\ {QueueLength, StatusEvery} \subseteq Nat \ {0} /\ {Asks, Losses} \subseteq Nat
    /\ IsFiniteSet(Clients)

Values == {0, 1}    \* 0 for a setter that writes no value

MainThread == "main"
ASSUME MainIsNoClient == MainThread \notin Clients

NoDevice == "0x00"
Frame(k, d, v) == [kind |-> k, device |-> d, value |-> v]
Ready == Frame("ready", NoDevice, 0)        \* _cmd_readyCommand
StatusPoll == Frame("status", NoDevice, 0)  \* cmd_getMainstatus and the others
Std == Frame("std", NoDevice, 0)            \* _std_cmd

VARIABLES
    fullcmd,    \* bytes 4 and 6 of _fullcmd
    wanted,     \* wanted[t]: the frame that client t is about to queue
    slots,      \* _iqaua_queue
    qlen,       \* _iaqua_q_length
    fromQueue,  \* _aqua_last_cmdfrom_queue
    cnt53,      \* cnt of process_iaqualink_packet
    ops,        \* ops[t]: what thread t has still to do
    at,         \* at[t]: "test", "copy" or "count": where in a push it is
    mainAt,     \* where the main thread is
    message,    \* the message that the panel sends next, 0x53 or 0x73
    answered,   \* the frame that was sent last
    asked,      \* the full commands that were requested (history)
    unsent,     \* those that were queued and not sent since (history)
    mixed,      \* two threads were in the buffer at a time (history)
    queueRaced, \* two threads were in the queue at a time (history)
    lost

iaqVars == <<fullcmd, wanted, slots, qlen, fromQueue, cnt53, ops, at, mainAt, message,
             answered, asked, unsent, mixed, queueRaced, lost>>
iaqBuffer == <<fullcmd, wanted, asked, mixed>>

Threads == Clients \cup {MainThread}
Pushing(t) == at[t] # "test"

IaqInit ==
    /\ fullcmd = [device |-> NoDevice, value |-> 0]
    /\ slots = [k \in 0..QueueLength-1 |-> Std] /\ qlen = 0
    /\ fromQueue = FALSE /\ cnt53 = 0
    /\ wanted = [t \in Clients |-> Std]
    /\ ops = [t \in Threads |-> <<>>] /\ at = [t \in Threads |-> "test"]
    /\ mainAt = "reading" /\ message = "0x53" /\ answered = Std
    /\ asked = {} /\ unsent = {} /\ mixed = FALSE /\ queueRaced = FALSE /\ lost = 0

-----------------------------------------------------------------------------
(* (Fault) The value is left in the buffer.                                 *)
EmptiedOfDevice(f) == [fullcmd EXCEPT !.device = NoDevice]

(* Every setter resets the bytes that it has set.                           *)
Emptied(f) == IF f.value = 0 THEN [fullcmd EXCEPT !.device = NoDevice]
              ELSE [device |-> NoDevice, value |-> 0]

(* set_iaqualink_aux_state leaves the value alone, the setters of setpoints *)
(* and lights write it.                                                     *)
Filled(f) == IF f.value = 0 THEN [fullcmd EXCEPT !.device = f.device]
             ELSE [device |-> f.device, value |-> f.value]

Ask(t) == \E v \in Values :
    /\ ops[t] = <<>> /\ Cardinality(asked) < Asks
    /\ LET f == Frame("full", t, v)
       IN /\ f \notin asked
          /\ asked' = asked \cup {f}
          /\ ops' = [ops EXCEPT ![t] = <<"ready", "full", "reset">>]
          /\ fullcmd' = Filled(f) /\ wanted' = [wanted EXCEPT ![t] = f]
    /\ mixed' = (mixed \/ \E u \in Clients : ops[u] # <<>>)
    /\ UNCHANGED <<slots, qlen, fromQueue, cnt53, at, mainAt, message, answered, unsent, queueRaced,
                   lost>>

Reset(t) ==
    /\ ops[t] = <<"reset">>
    /\ fullcmd' = Emptied(wanted[t])
    /\ ops' = [ops EXCEPT ![t] = <<>>] /\ wanted' = [wanted EXCEPT ![t] = Std]
    /\ UNCHANGED <<slots, qlen, fromQueue, cnt53, at, mainAt, message, answered, asked, unsent,
                   mixed, queueRaced, lost>>

-----------------------------------------------------------------------------
(* The threads that are between the test and the increment of a push, or    *)
(* between the memmove and the decrement of a removal.  A whole removal in  *)
(* the middle of a push does no harm.                                       *)
Inside(place, m) == {t \in Threads : place[t] # "test" \/ (t = MainThread /\ m = "moved")}
WatchQueue == queueRaced' = (queueRaced \/ Cardinality(Inside(at', mainAt')) > 1)

Pushes(t) ==
    /\ ops[t] # <<>> /\ Head(ops[t]) \in {"ready", "full", "status"}
    /\ t = MainThread => mainAt = "processing"
Content(what) ==
    CASE what = "ready" -> Ready
      [] what = "status" -> StatusPoll
      [] OTHER -> Frame("full", fullcmd.device, fullcmd.value)

(* push_iaqualink_cmd: a full queue drops the frame, and the caller goes on.*)
PushCheck(t) ==
    /\ Pushes(t) /\ ~Pushing(t)
    /\ IF qlen >= QueueLength
       THEN ops' = [ops EXCEPT ![t] = Tail(@)] /\ UNCHANGED at
       ELSE at' = [at EXCEPT ![t] = "copy"] /\ UNCHANGED ops
    /\ UNCHANGED <<iaqBuffer, slots, qlen, fromQueue, cnt53, mainAt, message, answered, unsent, lost>>
    /\ WatchQueue

(* The slot beyond the array, which only a race can reach, is left out.     *)
PushCopy(t) ==
    /\ at[t] = "copy"
    /\ at' = [at EXCEPT ![t] = "count"]
    /\ slots' = [k \in DOMAIN slots |-> IF k = qlen THEN Content(Head(ops[t])) ELSE slots[k]]
    /\ UNCHANGED <<iaqBuffer, qlen, fromQueue, cnt53, ops, mainAt, message, answered, unsent,
                   lost>>
    /\ WatchQueue

PushCount(t) ==
    /\ at[t] = "count"
    /\ at' = [at EXCEPT ![t] = "test"]
    /\ ops' = [ops EXCEPT ![t] = Tail(@)]
    /\ qlen' = qlen + 1
    /\ unsent' = unsent \cup {f \in {slots[k] : k \in DOMAIN slots \cap {qlen}} : f.kind = "full"}
    /\ UNCHANGED <<iaqBuffer, slots, fromQueue, cnt53, mainAt, message, answered, lost>>
    /\ WatchQueue

-----------------------------------------------------------------------------
(* process_iaqualink_packet: now and then three polls, unless the counter   *)
(* of the iAqualink Touch protocol says that the panel is to be left alone. *)
Process ==
    /\ mainAt = "reading"
    /\ mainAt' = "processing"
    /\ LET c == cnt53 + (IF message = "0x53" THEN 1 ELSE 0)
           due == message = "0x53" /\ c >= StatusEvery
       IN /\ cnt53' = IF due THEN 0 ELSE c
          /\ \E quiet \in {TRUE, ~due} :
                ops' = [ops EXCEPT ![MainThread] =
                            IF due /\ ~quiet THEN <<"status", "status", "status">> ELSE <<>>]
    /\ UNCHANGED <<iaqBuffer, slots, qlen, fromQueue, at, message, answered, unsent, queueRaced,
                   lost>>

(* (Fault) A full command is removed although "ready" was sent again.       *)
TakesFull(m) ==
    /\ qlen > 0
    /\ m = "0x73" => slots[0].kind = "full"

(* get_iaqualink_cmd: whether the answer comes from the queue.              *)
Takes(m) ==
    /\ qlen > 0
    /\ IF m = "0x73" THEN slots[0].kind = "full" ELSE slots[0].kind # "full"
Answered(m) ==
    CASE qlen > 0 /\ m = "0x73" /\ slots[0].kind = "full" -> slots[0]
      [] qlen > 0 /\ m = "0x53" -> IF slots[0].kind = "full" THEN Ready ELSE slots[0]
      [] OTHER -> Std

(* The panel asks for a full command after "ready".  It does not hear every *)
(* answer.                                                                  *)
Reply ==
    /\ mainAt = "processing" /\ ops[MainThread] = <<>>
    /\ answered' = Answered(message) /\ unsent' = unsent \ {answered'}
    /\ fromQueue' = Takes(message)
    /\ mainAt' = IF Takes(message) THEN "removing" ELSE "reading"
    /\ \E heard \in BOOLEAN :
          /\ ~heard => lost < Losses
          /\ lost' = lost + (IF heard THEN 0 ELSE 1)
          /\ message' = IF heard /\ answered' = Ready THEN "0x73" ELSE "0x53"
    /\ UNCHANGED <<iaqBuffer, slots, qlen, cnt53, ops, at, queueRaced>>

(* A message of the panel is not heard, so it is not answered.              *)
MissMessage ==
    /\ mainAt = "reading" /\ lost < Losses
    /\ lost' = lost + 1 /\ message' = "0x53"
    /\ UNCHANGED <<iaqBuffer, slots, qlen, fromQueue, cnt53, ops, at, mainAt, answered, unsent,
                   queueRaced>>

(* remove_iaqualink_cmd.  What the memmove leaves behind it is of no        *)
(* interest.                                                                *)
RemoveFirst ==
    /\ mainAt = "removing"
    /\ mainAt' = "moved"
    /\ slots' = [k \in DOMAIN slots |-> IF k < qlen /\ k + 1 < QueueLength THEN slots[k + 1] ELSE Std]
    /\ UNCHANGED <<iaqBuffer, qlen, fromQueue, cnt53, ops, at, message, answered, unsent,
                   lost>>
    /\ WatchQueue
CountDown ==
    /\ mainAt = "moved"
    /\ mainAt' = "reading"
    /\ qlen' = qlen - 1
    /\ UNCHANGED <<iaqBuffer, slots, fromQueue, cnt53, ops, at, message, answered, unsent,
                   lost>>
    /\ WatchQueue

IaqPush(t) == PushCheck(t) \/ PushCopy(t) \/ PushCount(t)
IaqMain == Process \/ Reply \/ RemoveFirst \/ CountDown

(* After a race in the queue there may be anything in it: the model ends    *)
(* there.                                                                   *)
IaqNext ==
    /\ ~queueRaced
    /\ \/ \E t \in Clients : Ask(t) \/ Reset(t)
       \/ \E t \in Threads : IaqPush(t)
       \/ IaqMain \/ MissMessage

(* The panel polls, and threads run.                                        *)
IaqFairness ==
    /\ WF_iaqVars(~queueRaced /\ IaqMain)
    /\ \A t \in Threads : WF_iaqVars(~queueRaced /\ IaqPush(t))
    /\ \A t \in Clients : WF_iaqVars(~queueRaced /\ Reset(t))

-----------------------------------------------------------------------------
Waiting == {slots[k] : k \in 0..(IF mainAt = "moved" THEN qlen - 2 ELSE qlen - 1)}

(* A full command that waits in the queue is what one request asked for,    *)
(* with nothing of another request or of an earlier one, unless two threads *)
(* were in the shared buffer or in the queue at a time.                     *)
FramesAreRequests ==
    ~mixed /\ ~queueRaced => \A f \in Waiting : f.kind = "full" => f \in asked

(* A full command that is in the queue is sent, in whatever way "ready"     *)
(* and the messages were lost, status polls came between the two frames or  *)
(* "ready" had no room, unless two threads were in the queue at a time.     *)
(* Requests are bounded, so every one of them is sent if all are at last.   *)
FullIsSent == (unsent # {}) ~> (unsent = {} \/ queueRaced)
=============================================================================
