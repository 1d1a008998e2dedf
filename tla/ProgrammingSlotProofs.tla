------------------------ MODULE ProgrammingSlotProofs ------------------------
(* What ProgrammingSlot promises for any number of threads, any number of   *)
(* tries and waits of any length, proved.                                   *)
EXTENDS ProgrammingSlot, TLAPS

(* Every step keeps the variables in their types.  The two bounds on i are  *)
(* the limits that the two loops test.                                      *)
LEMMA TypeStep == TypeOK /\ [Next]_vars => TypeOK'
<1> SUFFICES ASSUME TypeOK, [Next]_vars PROVE TypeOK'
    OBVIOUS
<1> USE SlotAssumption DEF TypeOK, ProgramType, Place, Holding, InBody, Emulation
<1>1. ASSUME NEW t \in Thread, NEW p \in Emulations, Start(t, p)
      PROVE  TypeOK'
    BY <1>1 DEF Start, Goto
<1>2. ASSUME NEW t \in Thread, Take(t) PROVE TypeOK'
    <2>1. CASE SlotBusy(t)
        BY <2>1 DEF SlotBusy
    <2>2. CASE SlotFree(t)
        BY <2>2 DEF SlotFree, Goto
    <2>3. CASE GiveUp(t)
        BY <2>3 DEF GiveUp, Exit, Goto
    <2>4. CASE TakeSlot(t)
        BY <2>4 DEF TakeSlot, Goto
    <2>5. CASE NameProgram(t)
        BY <2>5 DEF NameProgram, Goto
    <2> QED BY <1>2, <2>1, <2>2, <2>3, <2>4, <2>5 DEF Take
<1>3. ASSUME NEW t \in Thread, Body(t) PROVE TypeOK'
    <2>1. CASE BeginWait(t)
        BY <2>1 DEF BeginWait, Goto
    <2>2. CASE Lock(t)
        BY <2>2 DEF Lock, Goto
    <2>3. CASE EndWait(t)
        BY <2>3 DEF EndWait, Goto
    <2>4. CASE Park(t)
        BY <2>4 DEF Park, Goto
    <2>5. CASE Wake(t)
        BY <2>5 DEF Wake, Goto
    <2> QED BY <1>3, <2>1, <2>2, <2>3, <2>4, <2>5 DEF Body
<1>4. ASSUME NEW t \in Thread, Finish(t) PROVE TypeOK'
    <2>1. CASE EndBody(t)
        BY <2>1 DEF EndBody, Goto
    <2>2. CASE ClearSlot(t)
        BY <2>2 DEF ClearSlot, Goto
    <2>3. CASE ClearType(t)
        BY <2>3 DEF ClearType, Exit, Goto
    <2> QED BY <1>4, <2>1, <2>2, <2>3 DEF Finish
<1>5. ASSUME NEW source \in Emulations, Kick(source) PROVE TypeOK'
    BY <1>5 DEF Kick
<1>6. CASE UNCHANGED vars
    BY <1>6 DEF vars
<1> QED BY <1>1, <1>2, <1>3, <1>4, <1>5, <1>6 DEF Next

(* The variables keep their types, and no loop counter passes its limit.    *)
THEOREM TypeCorrect == Spec => []TypeOK
<1>1. Init => TypeOK
    BY SlotAssumption DEF Init, TypeOK, ProgramType, Place
<1> QED BY <1>1, TypeStep, PTL DEF Spec

-----------------------------------------------------------------------------
(* A thread leaves Holding only by clearing the slot, and no other thread   *)
(* writes itself into the slot before it is there.                          *)
LEMMA DangleStep == TypeOK /\ SlotNeverDangles /\ [Next]_vars => SlotNeverDangles'
<1> SUFFICES ASSUME TypeOK, SlotNeverDangles, [Next]_vars
             PROVE  SlotNeverDangles'
    OBVIOUS
<1> USE SlotAssumption DEF TypeOK, SlotNeverDangles, Holding, InBody, Goto, Exit
<1>1. ASSUME NEW t \in Thread, NEW p \in Emulations, Start(t, p)
      PROVE  SlotNeverDangles'
    BY <1>1 DEF Start
<1>2. ASSUME NEW t \in Thread, Take(t) PROVE SlotNeverDangles'
    BY <1>2 DEF Take, SlotBusy, SlotFree, GiveUp, TakeSlot, NameProgram
<1>3. ASSUME NEW t \in Thread, Body(t) PROVE SlotNeverDangles'
    BY <1>3 DEF Body, BeginWait, Lock, EndWait, Park, Wake
<1>4. ASSUME NEW t \in Thread, Finish(t) PROVE SlotNeverDangles'
    BY <1>4 DEF Finish, EndBody, ClearSlot, ClearType
<1>5. ASSUME NEW source \in Emulations, Kick(source) PROVE SlotNeverDangles'
    BY <1>5 DEF Kick
<1>6. CASE UNCHANGED vars
    BY <1>6 DEF vars
<1> QED BY <1>1, <1>2, <1>3, <1>4, <1>5, <1>6 DEF Next

(* The slot never points to a thread that has exited, however many threads  *)
(* raced for it.                                                            *)
THEOREM NeverDangles == Spec => []SlotNeverDangles
<1>1. Init => SlotNeverDangles
    BY DEF Init, SlotNeverDangles
<1> QED BY <1>1, TypeCorrect, DangleStep, PTL DEF Spec

-----------------------------------------------------------------------------
(* The inductive form of Exclusive.  A thread that has seen the slot free   *)
(* may rely on it: it is alone in the window, and the slot stays free.  A   *)
(* thread in the slot has its type there from the moment it has named it.   *)
FreeMeansFree == \A t \in Thread : pc[t] = "taking" => thread_id = NoThread
Named == \A t \in Thread : pc[t] \in InBody => ptype = type[t]
Typed == \A t \in Thread : pc[t] # "none" => type[t] \in Emulation
ClearedMeansFree == \A t \in Thread : pc[t] = "clearing" => thread_id = NoThread
SlotInv == Exclusive /\ FreeMeansFree /\ ClearedMeansFree /\ Named /\ Typed

(* Without a race at the door the inductive form is kept.                   *)
LEMMA SlotInvStep ==
    TypeOK /\ OneAtTheDoor /\ OneAtTheDoor' /\ SlotInv /\ [Next]_vars => SlotInv'
<1> SUFFICES ASSUME TypeOK, OneAtTheDoor, OneAtTheDoor', SlotInv, [Next]_vars
             PROVE  SlotInv'
    OBVIOUS
<1> USE SlotAssumption DEF TypeOK, OneAtTheDoor, Window, SlotInv, Exclusive,
        FreeMeansFree, ClearedMeansFree, Named, Typed, Holding, InBody, Goto, Exit
<1>1. ASSUME NEW t \in Thread, NEW p \in Emulations, Start(t, p)
      PROVE  SlotInv'
    BY <1>1 DEF Start
<1>2. ASSUME NEW t \in Thread, Take(t) PROVE SlotInv'
    <2>1. CASE SlotBusy(t)
        BY <2>1 DEF SlotBusy
    <2>2. CASE SlotFree(t)
        BY <2>2 DEF SlotFree
    <2>3. CASE GiveUp(t)
        BY <2>3 DEF GiveUp
    <2>4. CASE TakeSlot(t)
        BY <2>4 DEF TakeSlot
    <2>5. CASE NameProgram(t)
        BY <2>5 DEF NameProgram
    <2> QED BY <1>2, <2>1, <2>2, <2>3, <2>4, <2>5 DEF Take
<1>3. ASSUME NEW t \in Thread, Body(t) PROVE SlotInv'
    BY <1>3 DEF Body, BeginWait, Lock, EndWait, Park, Wake
<1>4. ASSUME NEW t \in Thread, Finish(t) PROVE SlotInv'
    <2>1. CASE EndBody(t)
        BY <2>1 DEF EndBody
    <2>2. CASE ClearSlot(t)
        BY <2>2 DEF ClearSlot
    <2>3. CASE ClearType(t)
        BY <2>3 DEF ClearType
    <2> QED BY <1>4, <2>1, <2>2, <2>3 DEF Finish
<1>5. ASSUME NEW source \in Emulations, Kick(source) PROVE SlotInv'
    BY <1>5 DEF Kick
<1>6. CASE UNCHANGED vars
    BY <1>6 DEF vars
<1> QED BY <1>1, <1>2, <1>3, <1>4, <1>5, <1>6 DEF Next

(* So it holds in every behaviour without such a race.                      *)
LEMMA SlotInvHolds == Spec => ([]OneAtTheDoor => []SlotInv)
<1>1. Init => SlotInv
    BY DEF Init, SlotInv, Exclusive, FreeMeansFree, ClearedMeansFree, Named, Typed,
           Holding, InBody
<1> QED BY <1>1, TypeCorrect, SlotInvStep, PTL DEF Spec

(* Two threads have the slot only after they were in the two windows at the *)
(* same time.                                                               *)
THEOREM SlotIsExclusive == Spec => ExclusiveUnlessRaced
<1>1. SlotInv => Exclusive
    BY DEF SlotInv
<1> QED BY <1>1, SlotInvHolds, PTL DEF ExclusiveUnlessRaced

(* And only then can a waiting thread be out of the reach of the kick.      *)
THEOREM WaiterIsReached == Spec => KickedUnlessRaced
<1>1. SlotInv /\ TypeOK => WaiterIsKicked
    BY SlotAssumption DEF SlotInv, TypeOK, WaiterIsKicked, KickReaches, Exclusive, Named,
       Typed, Holding, InBody, Emulation
<1> QED BY <1>1, SlotInvHolds, TypeCorrect, PTL DEF KickedUnlessRaced
=============================================================================
