--------------------------- MODULE ProgrammingSlot ---------------------------
(***************************************************************************)
(* The programming slot of AqualinkD.  aqdata->active_thread says which    *)
(* thread is driving the menus of the control panel.  Every request that   *)
(* needs the menus starts a thread, which waits for the slot               *)
(* (waitForSingleThreadOrTerminate), presses keys and waits for messages   *)
(* of the panel on one condition variable shared by all threads, and at    *)
(* last gives the slot back (cleanAndTerminateThread).                     *)
(*                                                                         *)
(* The slot is read and written without a lock.  A step of this module is  *)
(* what a thread does between two accesses of shared data: the test of the *)
(* slot and the two assignments that take it are three steps, and so are   *)
(* the delay and the two assignments that free it.  The main thread, which *)
(* reads the RS485 bus, appears as Kick.                                   *)
(*                                                                         *)
(* Definitions marked (Fault) are not part of the specification.  Each is  *)
(* a definition with a plausible mistake in it, kept to show that a        *)
(* property notices the mistake.                                           *)
(***************************************************************************)
EXTENDS Naturals

CONSTANTS
    Thread,      \* the programming threads that may exist at a time
    NoThread,    \* thread_id = 0
    Emulations,  \* the protocols in use: the panel polls them, programs use them
    Tries,       \* how often a waiting thread sleeps (120 in the code)
    Messages,    \* the longest wait of a program, in messages
    MenuWaits    \* bound: the waits for a message that one program makes

(* The emulation a program_type belongs to, which is all the kick looks at. *)
Emulation == {"ALLBUTTON", "ONETOUCH", "IAQTOUCH", "AQUAPDA"}
ProgramType == Emulation \cup {"AQP_NULL"}

ASSUME SlotAssumption ==
    /\ NoThread \notin Thread
    /\ Emulations \subseteq Emulation
    /\ Tries \in Nat
    /\ Messages \in Nat
    /\ MenuWaits \in Nat

VARIABLES
    thread_id,  \* active_thread.thread_id
    ptype,      \* active_thread.ptype
    pc,         \* pc[t]: where thread t is
    type,       \* type[t]: the program that thread t was started for
    i,          \* i[t]: the loop counter of the wait that t is in
    waits,      \* waits[t]: the waits for a message that t has still to make
    mutex       \* the holder of active_thread.thread_mutex, or NoThread

vars == <<thread_id, ptype, pc, type, i, waits, mutex>>

(* "none": no thread; "waiting": in the loop that waits for the slot;       *)
(* "taking": the slot was seen free; "naming": thread_id is written, ptype  *)
(* is not; "working": between two waits; "locking": asks for the mutex;     *)
(* "checking": holds it and looks at the last message; "parked": in         *)
(* pthread_cond_wait; "woken": signalled, asks for the mutex again;         *)
(* "delaying": in the last delay; "clearing": thread_id is cleared, ptype   *)
(* is not.                                                                  *)
InBody == {"working", "locking", "checking", "parked", "woken"}
Holding == InBody \cup {"naming", "delaying"}
Place == Holding \cup {"none", "waiting", "taking", "clearing"}

(* Types.  The counter of the wait for the slot ends at Tries + 1 and that  *)
(* of a wait for a message at Messages.                                     *)
TypeOK ==
    /\ thread_id \in Thread \cup {NoThread}
    /\ ptype \in ProgramType
    /\ pc \in [Thread -> Place]
    /\ type \in [Thread -> ProgramType]
    /\ i \in [Thread -> Nat]
    /\ \A t \in Thread : i[t] <= Tries + 1 \/ i[t] <= Messages
    /\ waits \in [Thread -> 0..MenuWaits]
    /\ mutex \in Thread \cup {NoThread}

Init ==
    /\ thread_id = NoThread
    /\ ptype = "AQP_NULL"
    /\ pc = [t \in Thread |-> "none"]
    /\ type = [t \in Thread |-> "AQP_NULL"]
    /\ i = [t \in Thread |-> 0]
    /\ waits = [t \in Thread |-> 0]
    /\ mutex = NoThread

Goto(t, from, to) == pc[t] = from /\ pc' = [pc EXCEPT ![t] = to]

(* The thread exits and the record it was started with is freed.            *)
Exit(t, from) ==
    /\ Goto(t, from, "none")
    /\ type' = [type EXCEPT ![t] = "AQP_NULL"]
    /\ i' = [i EXCEPT ![t] = 0]

-----------------------------------------------------------------------------
(* _aq_programmer_: a request starts a thread.  It comes from the web or    *)
(* MQTT thread, from the main thread or from a timer, at any time.          *)
Start(t, p) ==
    /\ Goto(t, "none", "waiting")
    /\ type' = [type EXCEPT ![t] = p]
    /\ \E n \in 0..MenuWaits : waits' = [waits EXCEPT ![t] = n]
    /\ UNCHANGED <<thread_id, ptype, i, mutex>>

(* (Fault) The sleeps are not counted.                                      *)
SlotBusyUncounted(t) ==
    /\ pc[t] = "waiting"
    /\ thread_id # NoThread
    /\ i[t] <= Tries
    /\ UNCHANGED vars

(* (Fault) The limit is not tested.                                         *)
SlotBusyUnlimited(t) ==
    /\ pc[t] = "waiting"
    /\ thread_id # NoThread
    /\ i' = [i EXCEPT ![t] = @ + 1]
    /\ UNCHANGED <<thread_id, ptype, pc, type, waits, mutex>>

(* The slot is taken: count and sleep.                                      *)
SlotBusy(t) ==
    /\ pc[t] = "waiting"
    /\ thread_id # NoThread
    /\ i[t] <= Tries
    /\ i' = [i EXCEPT ![t] = @ + 1]
    /\ UNCHANGED <<thread_id, ptype, pc, type, waits, mutex>>

(* The slot is free, which leaves i as it is, and i < tries: go on and take *)
(* the slot.                                                                *)
SlotFree(t) ==
    /\ Goto(t, "waiting", "taking")
    /\ thread_id = NoThread
    /\ i[t] < Tries
    /\ i' = [i EXCEPT ![t] = 0]
    /\ UNCHANGED <<thread_id, ptype, type, waits, mutex>>

(* (Fault) After the last try the thread goes on as if the slot were free.  *)
GiveUpAndGoOn(t) ==
    /\ Goto(t, "waiting", "taking")
    /\ \/ thread_id = NoThread /\ i[t] >= Tries
       \/ thread_id # NoThread /\ i[t] > Tries
    /\ i' = [i EXCEPT ![t] = 0]
    /\ UNCHANGED <<thread_id, ptype, type, waits, mutex>>

(* The loop ends with i >= tries: the thread exits.  That is so when the    *)
(* slot is still busy after tries + 1 sleeps, and also when it became free  *)
(* during one of the last two.                                              *)
GiveUp(t) ==
    /\ Exit(t, "waiting")
    /\ \/ thread_id = NoThread /\ i[t] >= Tries
       \/ thread_id # NoThread /\ i[t] > Tries
    /\ waits' = [waits EXCEPT ![t] = 0]
    /\ UNCHANGED <<thread_id, ptype, mutex>>

(* active_thread.thread_id = &threadCtrl->thread_id                         *)
TakeSlot(t) ==
    /\ Goto(t, "taking", "naming")
    /\ thread_id' = t
    /\ UNCHANGED <<ptype, type, i, waits, mutex>>

(* (Fault) ptype is not written.                                            *)
NameNothing(t) ==
    /\ Goto(t, "naming", "working")
    /\ UNCHANGED <<thread_id, ptype, type, i, waits, mutex>>

(* active_thread.ptype = type                                               *)
NameProgram(t) ==
    /\ Goto(t, "naming", "working")
    /\ ptype' = type[t]
    /\ UNCHANGED <<thread_id, type, i, waits, mutex>>

-----------------------------------------------------------------------------
(* The body of a program: some waits, each as waitForMessage makes it.      *)
(* Lock; while (++i <= n) { stop if the last message matches; wait for the  *)
(* condition }; unlock.                                                     *)
BeginWait(t) ==
    /\ waits[t] > 0
    /\ Goto(t, "working", "locking")
    /\ waits' = [waits EXCEPT ![t] = @ - 1]
    /\ UNCHANGED <<thread_id, ptype, type, i, mutex>>

Lock(t) ==
    /\ Goto(t, "locking", "checking")
    /\ mutex = NoThread
    /\ mutex' = t
    /\ UNCHANGED <<thread_id, ptype, type, i, waits>>

(* The last message matches, or n messages were seen: leave the loop.       *)
EndWait(t) ==
    /\ Goto(t, "checking", "working")
    /\ mutex' = NoThread
    /\ i' = [i EXCEPT ![t] = 0]
    /\ UNCHANGED <<thread_id, ptype, type, waits>>

(* (Fault) The messages are not counted.                                    *)
ParkUncounted(t) ==
    /\ Goto(t, "checking", "parked")
    /\ mutex' = NoThread
    /\ UNCHANGED <<thread_id, ptype, type, i, waits>>

(* No match: pthread_cond_wait gives up the mutex and parks the thread in   *)
(* one step.                                                                *)
Park(t) ==
    /\ i[t] < Messages
    /\ Goto(t, "checking", "parked")
    /\ i' = [i EXCEPT ![t] = @ + 1]
    /\ mutex' = NoThread
    /\ UNCHANGED <<thread_id, ptype, type, waits>>

(* pthread_cond_wait returns with the mutex held again.                     *)
Wake(t) ==
    /\ Goto(t, "woken", "checking")
    /\ mutex = NoThread
    /\ mutex' = t
    /\ UNCHANGED <<thread_id, ptype, type, i, waits>>

-----------------------------------------------------------------------------
(* cleanAndTerminateThread: half a second's delay; then the slot is cleared,*)
(* whoever is in it; then ptype; then the thread exits.                     *)
EndBody(t) ==
    /\ waits[t] = 0
    /\ Goto(t, "working", "delaying")
    /\ UNCHANGED <<thread_id, ptype, type, i, waits, mutex>>

(* (Fault) The slot is not cleared.                                         *)
ClearNothing(t) ==
    /\ Goto(t, "delaying", "clearing")
    /\ UNCHANGED <<thread_id, ptype, type, i, waits, mutex>>

ClearSlot(t) ==
    /\ Goto(t, "delaying", "clearing")
    /\ thread_id' = NoThread
    /\ UNCHANGED <<ptype, type, i, waits, mutex>>

ClearType(t) ==
    /\ Exit(t, "clearing")
    /\ ptype' = "AQP_NULL"
    /\ UNCHANGED <<thread_id, waits, mutex>>

-----------------------------------------------------------------------------
(* kick_aq_program_thread: would a message of source be signalled?  Only if *)
(* the slot is taken and the type in the slot goes with the source.         *)
KickReaches(source) ==
    /\ thread_id # NoThread
    /\ \/ source = "ONETOUCH" /\ ptype = "ONETOUCH"
       \/ source = "IAQTOUCH" /\ ptype = "IAQTOUCH"
       \/ source = "ALLBUTTON" /\ ptype \notin {"ONETOUCH", "IAQTOUCH"}
       \/ source = "AQUAPDA" /\ ptype # "ONETOUCH"

(* The main thread has processed a message of source and broadcasts the     *)
(* condition, without the mutex: a thread that is not parked yet misses it. *)
Kick(source) ==
    /\ KickReaches(source)
    /\ pc' = [t \in Thread |-> IF pc[t] = "parked" THEN "woken" ELSE pc[t]]
    /\ UNCHANGED <<thread_id, ptype, type, i, waits, mutex>>

Take(t) == SlotBusy(t) \/ SlotFree(t) \/ GiveUp(t) \/ TakeSlot(t) \/ NameProgram(t)
Body(t) == BeginWait(t) \/ Lock(t) \/ EndWait(t) \/ Park(t) \/ Wake(t)
Finish(t) == EndBody(t) \/ ClearSlot(t) \/ ClearType(t)

Next ==
    \/ \E t \in Thread : \E p \in Emulations : Start(t, p)
    \/ \E t \in Thread : Take(t) \/ Body(t) \/ Finish(t)
    \/ \E source \in Emulations : Kick(source)

Spec == Init /\ [][Next]_vars

(* A thread that can run does, a mutex that is free again and again is      *)
(* given to each that asks for it, and the panel, which polls each emulated *)
(* device all the time, goes on sending messages of every emulation.        *)
Fairness ==
    /\ \A t \in Thread :
        /\ WF_vars(Take(t))
        /\ WF_vars(Finish(t))
        /\ WF_vars(BeginWait(t) \/ EndWait(t) \/ Park(t))
        /\ SF_vars(Lock(t))
        /\ SF_vars(Wake(t))
    /\ \A source \in Emulations : WF_vars(Kick(source))

FairSpec == Spec /\ Fairness

-----------------------------------------------------------------------------
(* thread_id is a pointer into a record that the thread frees when it       *)
(* exits.  However the threads interleave, also when two have taken the     *)
(* slot, the slot points to a thread that has still to clear it: it is      *)
(* never left pointing to a thread that has exited.                         *)
SlotNeverDangles == thread_id # NoThread => pc[thread_id] \in Holding

(* The slot does its job: whoever works with the panel is the one in it.    *)
Exclusive == \A t \in Thread : pc[t] \in Holding => thread_id = t

(* A thread that waits for a message is woken by the next message of its    *)
(* emulation.                                                               *)
WaiterIsKicked ==
    \A t \in Thread : pc[t] = "parked" => KickReaches(type[t])

(* The two windows that the code leaves open, between the test of the slot  *)
(* and its assignment and between the two assignments that free it.  No two *)
(* threads are in them at a time.                                           *)
Window == {"taking", "clearing"}
OneAtTheDoor == \A t, u \in Thread : pc[t] \in Window /\ pc[u] \in Window => t = u

(* Two programs work at a time only after a race in these windows: timeouts,*)
(* clean-ups and the order of the starts cannot bring it about.             *)
ExclusiveUnlessRaced == []OneAtTheDoor => []Exclusive

(* Only such a race can leave a program waiting for a kick that no message  *)
(* brings.                                                                  *)
KickedUnlessRaced == []OneAtTheDoor => []WaiterIsKicked

(* A thread that waits for the slot gets it or gives up, even when the slot *)
(* is never freed.                                                          *)
WaiterResolves == \A t \in Thread : pc[t] = "waiting" ~> pc[t] # "waiting"

(* Every program ends, whatever the panel answers, unless the race has hung *)
(* one.                                                                     *)
EveryProgramEnds ==
    []OneAtTheDoor => \A t \in Thread : pc[t] # "none" ~> pc[t] = "none"
=============================================================================
