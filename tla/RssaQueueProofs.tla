--------------------------- MODULE RssaQueueProofs ---------------------------
(* What RssaQueue promises for any threads, length of the queue and periods,*)
(* proved.                                                                  *)
EXTENDS RssaQueue, FiniteSetTheorems, SequenceTheorems, TLAPS

MostLen == QLen + Cardinality(Client)
In(place) == {t \in Thread : pc[t] = place}

(* The inductive form of TypeOK.  That the queue never seems longer than its*)
(* array and one slot for each client needs what is still to come: every    *)
(* thread that has found room will lengthen it by one.                      *)
TypeInv ==
    /\ queue \in [0..QLen-1 -> Command \cup {Nothing}]
    /\ len \in Nat
    /\ last \in BOOLEAN
    /\ cnt \in -Warm..(PollPeriod - 1)
    /\ todo \in [Thread -> Seq(Command)]
    /\ pc \in [Thread -> {"idle", "checked", "reserved"}]
    /\ idx \in [Thread -> 0..MostLen]
    /\ main \in {"reading", "pushing", "sending", "moving", "counting"}
    /\ msg \in Message
    /\ requests \in 0..Requests
    /\ expects \in 0..Requests
    /\ answer \in Command \cup {Nothing}
    /\ raced \in BOOLEAN
    /\ len + Cardinality(In("checked")) <= MostLen
    /\ main \in {"sending", "moving", "counting"} => len >= 1
    /\ \A t \in Thread : pc[t] # "idle" => Pushing(t)

(* There is one thread more than there are clients.                         *)
LEMMA Counts ==
    /\ IsFiniteSet(Thread) /\ Cardinality(Thread) = Cardinality(Client) + 1
    /\ Cardinality(Client) \in Nat /\ MostLen \in Nat
<1>1. IsFiniteSet(Client) /\ Main \notin Client /\ QLen \in Nat
    BY QueueAssumption
<1>2. Cardinality(Client) \in Nat
    BY <1>1, FS_CardinalityType
<1>3. IsFiniteSet(Thread) /\ Cardinality(Thread) = Cardinality(Client) + 1
    BY <1>1, FS_AddElement DEF Thread
<1> QED BY <1>1, <1>2, <1>3 DEF MostLen

(* Any set of threads is finite and as bounded.                             *)
LEMMA CheckedCounts ==
    ASSUME NEW S \in SUBSET Thread
    PROVE  /\ IsFiniteSet(S) /\ Cardinality(S) \in Nat
           /\ Cardinality(S) <= Cardinality(Client) + 1
BY Counts, FS_Subset, FS_CardinalityType

(* The threads at a place are threads.                                      *)
LEMMA InThread == \A place : In(place) \in SUBSET Thread
BY DEF In

(* The types that are proved are those of the module.                       *)
LEMMA TypeInvImplies == TypeInv => TypeOK
<1> SUFFICES ASSUME TypeInv PROVE TypeOK
    OBVIOUS
<1>1. len \in 0..(QLen + Cardinality(Client))
    <2>1. len \in Nat /\ len + Cardinality(In("checked")) <= MostLen
        BY DEF TypeInv
    <2>2. Cardinality(In("checked")) \in Nat /\ MostLen \in Nat
        BY CheckedCounts, Counts, InThread
    <2>3. len \in 0..MostLen
        BY <2>1, <2>2
    <2> QED BY <2>3 DEF MostLen
<1> QED BY <1>1 DEF TypeInv, TypeOK, MostLen

(* What the threads push.                                                   *)
LEMMA PushesType ==
    /\ \A r \in 0..Requests : Pushes(r) \subseteq Seq(Command)
    /\ \A n \in Nat : Gets(n) \in Seq(Command)
<1>1. 0 \in 0..Requests
    BY QueueAssumption
<1>2. \A k \in Kind, r \in 0..Requests : [kind |-> k, req |-> r] \in Command
    BY DEF Command
<1>3. ASSUME NEW r \in 0..Requests PROVE Pushes(r) \subseteq Seq(Command)
    <2>1. /\ [kind |-> "state", req |-> r] \in Command /\ [kind |-> "get", req |-> r] \in Command
          /\ [kind |-> "ready", req |-> r] \in Command /\ [kind |-> "set", req |-> r] \in Command
        BY <1>2 DEF Kind
    <2> QED BY <2>1 DEF Pushes
<1>4. ASSUME NEW n \in Nat PROVE Gets(n) \in Seq(Command)
    <2>1. [kind |-> "get", req |-> 0] \in Command
        BY <1>1, <1>2 DEF Kind
    <2> QED BY <2>1 DEF Gets
<1> QED BY <1>3, <1>4

(* What a poll pushes are commands.                                         *)
LEMMA PollsType == ASSUME NEW c \in Int PROVE Polls(c) \in Seq(Command)
<1> DEFINE lights == IF c % LightPeriod = 0 THEN Lights ELSE 0
           others == IF c = 0 THEN 3 ELSE IF c >= PollPeriod THEN 2 ELSE 0
<1>1. lights \in Nat
    BY QueueAssumption
<1>2. others \in Nat
    OBVIOUS
<1>3. lights + others \in Nat
    BY <1>1, <1>2
<1>4. Gets(lights + others) \in Seq(Command)
    BY <1>3, PushesType
<1> QED BY <1>4 DEF Polls

(* A thread that goes from one place of a push to another.                  *)
LEMMA GoesTo ==
    ASSUME pc \in [Thread -> {"idle", "checked", "reserved"}],
           NEW t \in Thread, NEW place \in {"idle", "checked", "reserved"},
           pc' = [pc EXCEPT ![t] = place]
    PROVE  /\ In("checked")' = IF place = "checked" THEN In("checked") \cup {t}
                               ELSE In("checked") \ {t}
           /\ In("reserved")' = IF place = "reserved" THEN In("reserved") \cup {t}
                                ELSE In("reserved") \ {t}
           /\ pc' \in [Thread -> {"idle", "checked", "reserved"}]
<1>1. \A u \in Thread : pc'[u] = IF u = t THEN place ELSE pc[u]
    OBVIOUS
<1> QED BY <1>1 DEF In

(* Only a thread that has something to push is within a push.               *)
LEMMA StillPushing ==
    TypeInv /\ [Next]_vars => \A t \in Thread : pc'[t] # "idle" => Pushing(t)'
<1> SUFFICES ASSUME TypeInv, [Next]_vars, NEW t \in Thread, pc'[t] # "idle" PROVE Pushing(t)'
    OBVIOUS
<1>0. pc[t] # "idle" => todo[t] # <<>> /\ (t = Main => main = "pushing")
    BY DEF TypeInv, Pushing
<1> USE DEF TypeInv
<1>1. ASSUME NEW u \in Client, Request(u) PROVE Pushing(t)'
    BY <1>0, <1>1 DEF Request, Pushing
<1>2. ASSUME NEW u \in Thread, PushTest(u) PROVE Pushing(t)'
    <2>1. todo[t] # <<>> /\ (t = Main => main = "pushing")
        BY <1>0, <1>2 DEF PushTest, Pushing
    <2>2. todo'[t] = todo[t]
        BY <1>2 DEF PushTest
    <2> QED BY <1>2, <2>1, <2>2 DEF PushTest, Pushing
<1>3. ASSUME NEW u \in Thread, PushReserve(u) PROVE Pushing(t)'
    BY <1>0, <1>3 DEF PushReserve, Pushing
<1>4. ASSUME NEW u \in Thread, PushStore(u) PROVE Pushing(t)'
    BY <1>0, <1>4 DEF PushStore, Pushing
<1>5. ASSUME NEW m \in Message, Receive(m) PROVE Pushing(t)'
    BY <1>0, <1>5 DEF Receive, Pushing
<1>6. CASE MainStep
    BY <1>0, <1>6 DEF MainStep, Answer, Send, RemoveMove, RemoveCount, Pushing
<1>7. CASE UNCHANGED vars
    BY <1>0, <1>7 DEF vars, Pushing
<1> QED BY <1>1, <1>2, <1>3, <1>4, <1>5, <1>6, <1>7 DEF Next, Push

(* Every step keeps the types.                                              *)
LEMMA TypeStep == TypeInv /\ [Next]_vars => TypeInv'
<1> SUFFICES ASSUME TypeInv, [Next]_vars PROVE TypeInv'
    OBVIOUS
<1> USE QueueAssumption
<1>1. ASSUME NEW t \in Client, Request(t) PROVE TypeInv'
    <2>1. requests + 1 \in 0..Requests
        BY <1>1 DEF Request, TypeInv
    <2>2. PICK s \in Pushes(requests + 1) : todo' = [todo EXCEPT ![t] = s]
        BY <1>1 DEF Request
    <2>3. s \in Seq(Command)
        BY <2>1, PushesType
    <2>4. todo' \in [Thread -> Seq(Command)]
        BY <2>2, <2>3 DEF TypeInv
    <2>5. In("checked")' = In("checked")
        BY <1>1 DEF Request, In
    <2> QED BY <1>1, <2>1, <2>4, <2>5, StillPushing DEF Request, TypeInv
<1>2. ASSUME NEW t \in Thread, PushTest(t) PROVE TypeInv'
    <2>1. todo' \in [Thread -> Seq(Command)]
        <3>1. todo[t] # <<>> /\ todo[t] \in Seq(Command)
            BY <1>2 DEF PushTest, Pushing, TypeInv
        <3>2. Tail(todo[t]) \in Seq(Command)
            BY <3>1, HeadTailProperties
        <3> QED BY <1>2, <3>2 DEF PushTest, TypeInv
    <2>2. CASE len >= QLen /\ UNCHANGED pc
        BY <1>2, <2>1, <2>2, StillPushing DEF PushTest, Notice, TypeInv, In
    <2>3. CASE len < QLen /\ pc' = [pc EXCEPT ![t] = "checked"]
        <3>1. pc' \in [Thread -> {"idle", "checked", "reserved"}]
            BY <2>3 DEF TypeInv
        <3>2. /\ Cardinality(In("checked"))' \in Nat
              /\ Cardinality(In("checked"))' <= Cardinality(Client) + 1
            BY CheckedCounts DEF In
        <3>3. len + Cardinality(In("checked"))' <= MostLen
            BY <2>3, <3>2, Counts, SMTT(30) DEF MostLen, TypeInv
        <3> QED BY <1>2, <2>1, <3>1, <3>3, StillPushing DEF PushTest, Notice, TypeInv
    <2> QED BY <1>2, <2>2, <2>3 DEF PushTest
<1>3. ASSUME NEW t \in Thread, PushReserve(t) PROVE TypeInv'
    <2>1. /\ In("checked")' = In("checked") \ {t} /\ t \in In("checked")
          /\ pc' \in [Thread -> {"idle", "checked", "reserved"}]
        BY <1>3, GoesTo DEF PushReserve, TypeInv, In
    <2>2. Cardinality(In("checked") \ {t}) = Cardinality(In("checked")) - 1
        BY <2>1, InThread, CheckedCounts, FS_RemoveElement
    <2>3. /\ Cardinality(In("checked")) \in Nat /\ Cardinality(In("checked") \ {t}) \in Nat
          /\ len \in Nat /\ MostLen \in Nat /\ len + Cardinality(In("checked")) <= MostLen
        BY InThread, CheckedCounts, Counts DEF TypeInv
    <2>4. len \in 0..MostLen /\ len + 1 + Cardinality(In("checked") \ {t}) <= MostLen
        BY <2>2, <2>3
    <2>5. len' + Cardinality(In("checked"))' <= MostLen
        BY <1>3, <2>1, <2>4 DEF PushReserve
    <2>6. idx' \in [Thread -> 0..MostLen] /\ len' \in Nat /\ len' >= 1
        BY <1>3, <2>4 DEF PushReserve, TypeInv
    <2> QED BY <1>3, <2>1, <2>5, <2>6, StillPushing DEF PushReserve, Notice, TypeInv
<1>4. ASSUME NEW t \in Thread, PushStore(t) PROVE TypeInv'
    <2>1. /\ In("checked")' = In("checked") \ {t} /\ t \notin In("checked")
          /\ pc' \in [Thread -> {"idle", "checked", "reserved"}]
        BY <1>4, GoesTo DEF PushStore, TypeInv, In
    <2>2. In("checked")' = In("checked")
        BY <2>1
    <2>3. todo' \in [Thread -> Seq(Command)]
        <3>1. todo[t] # <<>> /\ todo[t] \in Seq(Command)
            BY <1>4 DEF PushStore, Pushing, TypeInv
        <3>2. Tail(todo[t]) \in Seq(Command)
            BY <3>1, HeadTailProperties
        <3> QED BY <1>4, <3>2 DEF PushStore, TypeInv
    <2>4. queue' \in [0..QLen-1 -> Command \cup {Nothing}]
        <3>1. Head(todo[t]) \in Command
            BY <1>4, HeadTailProperties DEF PushStore, Pushing, TypeInv
        <3> QED BY <1>4, <3>1 DEF PushStore, TypeInv
    <2>5. idx' \in [Thread -> 0..MostLen]
        BY <1>4, Counts DEF PushStore, TypeInv
    <2>6. raced' \in BOOLEAN
        BY <1>4 DEF PushStore, Notice, TypeInv
    <2> QED BY <1>4, <2>1, <2>2, <2>3, <2>4, <2>5, <2>6, StillPushing DEF PushStore, TypeInv
<1>5. ASSUME NEW m \in Message, Receive(m) PROVE TypeInv'
    <2>1. cnt + 1 \in Int
        BY DEF TypeInv
    <2>2. Polls(cnt + 1) \in Seq(Command)
        BY <2>1, PollsType
    <2>3. todo' \in [Thread -> Seq(Command)]
        BY <1>5, <2>2 DEF Receive, TypeInv
    <2>4. cnt' \in -Warm..(PollPeriod - 1)
        BY <1>5 DEF Receive, TypeInv
    <2>5. In("checked")' = In("checked")
        BY <1>5 DEF Receive, In
    <2> QED BY <1>5, <2>3, <2>4, <2>5, StillPushing DEF Receive, TypeInv
<1>6. CASE MainStep
    <2>1. In("checked")' = In("checked")
        BY <1>6 DEF MainStep, Answer, Send, RemoveMove, RemoveCount, In
    <2>2. CASE Answer
        <3>1. last' \in BOOLEAN /\ raced' \in BOOLEAN
            BY <2>2 DEF Answer, Notice, TypeInv
        <3>2. main' \in {"reading", "sending"} /\ (main' = "sending" => len >= 1)
            <4>1. last' = (msg \in {"STATUS", "0x07"} /\ len > 0)
                  /\ main' = IF last' THEN "sending" ELSE "reading"
                BY <2>2 DEF Answer
            <4>2. len > 0 => len >= 1
                BY DEF TypeInv
            <4>3. last' => len > 0
                BY <4>1, Zenon
            <4> QED BY <4>1, <4>2, <4>3
        <3>3. expects' \in 0..Requests
            BY <2>2 DEF Answer, TypeInv
        <3> QED BY <2>1, <2>2, <3>1, <3>2, <3>3, StillPushing DEF Answer, TypeInv
    <2>3. CASE Send
        <3>1. queue[0] \in Command \cup {Nothing}
            BY DEF TypeInv
        <3>2. queue[0].req \in 0..Requests
            BY <3>1 DEF Command, Nothing
        <3> QED BY <2>1, <2>3, <3>1, <3>2, StillPushing DEF Send, TypeInv
    <2>4. CASE RemoveMove
        <3>1. \A k \in 0..QLen-1 : k + 1 < QLen => k + 1 \in 0..QLen-1
            OBVIOUS
        <3>2. queue' \in [0..QLen-1 -> Command \cup {Nothing}]
            BY <2>4, <3>1 DEF RemoveMove, TypeInv
        <3> QED BY <2>1, <2>4, <3>2, StillPushing DEF RemoveMove, TypeInv
    <2>5. CASE RemoveCount
        <3>1. len - 1 \in Nat
            BY <2>5 DEF RemoveCount, TypeInv
        <3>2. len - 1 + Cardinality(In("checked")) <= MostLen
            BY InThread, CheckedCounts, Counts, SMTT(30) DEF TypeInv
        <3> QED BY <2>1, <2>5, <3>1, <3>2, StillPushing DEF RemoveCount, TypeInv
    <2> QED BY <1>6, <2>2, <2>3, <2>4, <2>5 DEF MainStep
<1>7. CASE UNCHANGED vars
    BY <1>7, StillPushing DEF vars, TypeInv, In
<1> QED BY <1>1, <1>2, <1>3, <1>4, <1>5, <1>6, <1>7 DEF Next, Push

(* The types hold throughout.                                               *)
LEMMA TypeInvHolds == Spec => []TypeInv
<1>1. Init => TypeInv
    <2> SUFFICES ASSUME Init PROVE TypeInv
        OBVIOUS
    <2>1. In("checked") = {}
        BY DEF Init, In
    <2>2. len + Cardinality(In("checked")) <= MostLen
        <3>1. Cardinality(In("checked")) = 0
            BY <2>1, FS_EmptySet
        <3> QED BY <3>1, Counts DEF Init
    <2>3. <<>> \in Seq(Command)
        BY EmptySeq
    <2>4. /\ queue \in [0..QLen-1 -> Command \cup {Nothing}]
          /\ todo \in [Thread -> Seq(Command)]
          /\ pc \in [Thread -> {"idle", "checked", "reserved"}]
          /\ \A t \in Thread : pc[t] = "idle"
        BY <2>3 DEF Init
    <2>5. -Warm \in -Warm..(PollPeriod - 1) /\ 0 \in 0..Requests /\ 0 \in 0..MostLen
        BY Counts, QueueAssumption
    <2>6. idx \in [Thread -> 0..MostLen]
        BY <2>5 DEF Init
    <2> QED BY <2>2, <2>4, <2>5, <2>6 DEF Init, TypeInv, Message
<1> QED BY <1>1, TypeStep, PTL DEF Spec

(* The variables keep their types.  Whatever races there are, the length of *)
(* the queue stays between zero and one slot for each client beyond its     *)
(* array.                                                                   *)
THEOREM TypeCorrect == Spec => []TypeOK
BY TypeInvHolds, TypeInvImplies, PTL
-----------------------------------------------------------------------------
(* The queue is first in, first out.  The inductive invariant says that     *)
(* without a race one thread at most has read the length of the queue and is*)
(* not yet done with it: it has still the room that it has found, and the   *)
(* slot that it has reserved is the last.                                   *)
Alone ==
    ~raced =>
        /\ \A s, t \in Busy(pc, main) : s = t
        /\ len <= QLen
        /\ \A t \in Thread :
              /\ pc[t] = "checked" => len < QLen
              /\ pc[t] = "reserved" => len >= 1 /\ idx[t] = len - 1

(* If no more than one thread is busy, no two are.                          *)
LEMMA AtMostOne ==
    ASSUME NEW p, NEW m, ~(Cardinality(Busy(p, m)) > 1)
    PROVE  \A s, t \in Busy(p, m) : s = t
<1> SUFFICES ASSUME NEW s \in Busy(p, m), NEW t \in Busy(p, m), s # t PROVE FALSE
    OBVIOUS
<1>1. Busy(p, m) \in SUBSET Thread
    BY DEF Busy, Thread
<1>2. IsFiniteSet(Busy(p, m)) /\ Cardinality(Busy(p, m)) \in Nat
    BY <1>1, CheckedCounts
<1>3. IsFiniteSet({s}) /\ Cardinality({s}) = 1
    BY FS_Singleton
<1>4. Cardinality({s} \cup {t}) = 2
    BY <1>3, FS_AddElement
<1>5. {s} \cup {t} \in SUBSET Busy(p, m)
    OBVIOUS
<1>6. Cardinality({s} \cup {t}) <= Cardinality(Busy(p, m))
    BY <1>2, <1>5, FS_Subset
<1> QED BY <1>2, <1>4, <1>6

(* A thread within a push is busy, and so is the main thread when it removes*)
(* the head; it is not in both at a time.                                   *)
LEMMA BusyThreads ==
    ASSUME TypeInv
    PROVE  /\ \A t \in Thread : pc[t] # "idle" => t \in Busy(pc, main)
           /\ main \in {"sending", "moving", "counting"} =>
                 Main \in Busy(pc, main) /\ pc[Main] = "idle"
BY DEF Busy, Thread, TypeInv, Pushing

(* As long as no race is noticed, one thread at most is busy.               *)
LEMMA NoticeAlone ==
    ASSUME Notice, ~raced'
    PROVE  ~raced /\ \A s, t \in Busy(pc', main') : s = t
BY AtMostOne DEF Notice

(* Every step keeps the thread in the queue alone, with its room and its    *)
(* slot.                                                                    *)
LEMMA AloneStep == TypeInv /\ Alone /\ [Next]_vars => Alone'
<1> SUFFICES ASSUME TypeInv, Alone, [Next]_vars, ~raced'
             PROVE  /\ \A s, t \in Busy(pc', main') : s = t
                    /\ len' <= QLen
                    /\ \A t \in Thread :
                          /\ pc'[t] = "checked" => len' < QLen
                          /\ pc'[t] = "reserved" => len' >= 1 /\ idx'[t] = len' - 1
    BY DEF Alone, Busy
<1>0. len \in Nat /\ QLen \in Nat /\ QLen >= 1 /\ pc \in [Thread -> {"idle", "checked", "reserved"}]
    BY QueueAssumption DEF TypeInv
<1>1. ASSUME NEW t \in Client, Request(t) PROVE Alone'
    BY <1>1 DEF Alone, Request, Busy
<1>2. ASSUME NEW t \in Thread, PushTest(t) PROVE Alone'
    <2>1. ~raced /\ (\A s, u \in Busy(pc', main') : s = u) /\ len' = len /\ idx' = idx
        BY <1>2, NoticeAlone DEF PushTest
    <2>2. \A u \in Thread : pc'[u] = "checked" => len < QLen
        BY <1>2, <1>0, <2>1 DEF PushTest, Alone
    <2>3. \A u \in Thread : pc'[u] = "reserved" => pc[u] = "reserved"
        BY <1>2, <1>0 DEF PushTest
    <2> QED BY <2>1, <2>2, <2>3 DEF Alone, Busy
<1>3. ASSUME NEW t \in Thread, PushReserve(t) PROVE Alone'
    <2>1. ~raced /\ (\A s, u \in Busy(pc', main') : s = u) /\ len' = len + 1
          /\ len < QLen
        BY <1>3, NoticeAlone DEF PushReserve, Alone
    <2>2. \A u \in Thread : pc'[u] # "idle" => u \in Busy(pc', main')
        <3>1. pc' \in [Thread -> {"idle", "checked", "reserved"}]
            BY <1>3, <1>0 DEF PushReserve
        <3> QED BY <3>1 DEF Busy
    <2>3. pc'[t] = "reserved" /\ idx'[t] = len
        BY <1>3, <1>0 DEF PushReserve, TypeInv
    <2>4. \A u \in Thread : pc'[u] # "idle" => u = t
        BY <2>1, <2>2, <2>3
    <2> QED BY <1>0, <2>1, <2>3, <2>4 DEF Alone, Busy
<1>4. ASSUME NEW t \in Thread, PushStore(t) PROVE Alone'
    <2>1. ~raced /\ (\A s, u \in Busy(pc', main') : s = u) /\ len' = len
        BY <1>4, NoticeAlone DEF PushStore
    <2>2. \A u \in Thread : u # t => pc[u] = "idle"
        BY <1>0, <1>4, <2>1, BusyThreads DEF PushStore, Alone
    <2>3. \A u \in Thread : pc'[u] = "idle"
        BY <1>0, <1>4, <2>2 DEF PushStore
    <2>4. len <= QLen
        BY <2>1 DEF Alone
    <2> QED BY <2>1, <2>3, <2>4 DEF Alone, Busy
<1>5. ASSUME NEW m \in Message, Receive(m) PROVE Alone'
    BY <1>5 DEF Alone, Receive, Busy
<1>6. CASE Answer
    <2>1. ~raced /\ (\A s, u \in Busy(pc', main') : s = u) /\ UNCHANGED <<len, pc, idx>>
        BY <1>6, NoticeAlone DEF Answer
    <2> QED BY <2>1 DEF Alone, Busy
<1>7. CASE Send \/ RemoveMove
    <2>1. UNCHANGED <<len, pc, idx, raced>> /\ Busy(pc', main') = Busy(pc, main)
        BY <1>7 DEF Send, RemoveMove, Busy
    <2> QED BY <2>1 DEF Alone, Busy
<1>8. CASE RemoveCount
    <2>1. UNCHANGED <<pc, idx, raced>> /\ main = "counting" /\ main' = "reading" /\ len' = len - 1
        BY <1>8 DEF RemoveCount
    <2>2. \A u \in Thread : pc[u] = "idle"
        BY <2>1, BusyThreads DEF Alone
    <2>3. Busy(pc', main') = {}
        BY <2>1, <2>2 DEF Busy
    <2>4. len <= QLen
        BY <2>1 DEF Alone
    <2> QED BY <1>0, <2>1, <2>2, <2>3, <2>4 DEF Alone, Busy
<1>9. CASE UNCHANGED vars
    BY <1>9 DEF vars, Alone, Busy
<1> QED BY <1>1, <1>2, <1>3, <1>4, <1>5, <1>6, <1>7, <1>8, <1>9 DEF Next, Push, MainStep, Alone, Busy
(* The commands from slot k on, and Pending in terms of them.               *)
SlotOf(q, k) == IF k < QLen THEN q[k] ELSE Nothing
From(q, k, n) == [i \in 1..n |-> SlotOf(q, i - 1 + k)]
Content == Command \cup {Nothing}

(* The commands from a slot on are a sequence.                              *)
LEMMA FromType ==
    ASSUME NEW q \in [0..QLen-1 -> Content], NEW k \in Nat, NEW n \in Nat
    PROVE  /\ From(q, k, n) \in Seq(Content) /\ Len(From(q, k, n)) = n
           /\ \A i \in 1..n : From(q, k, n)[i] = SlotOf(q, i - 1 + k)
<1>1. \A i \in 1..n : SlotOf(q, i - 1 + k) \in Content
    BY QueueAssumption DEF SlotOf, Content
<1>2. From(q, k, n) \in [1..n -> Content]
    BY <1>1 DEF From
<1>3. From(q, k, n) \in Seq(Content)
    BY <1>2, SeqDef
<1>4. DOMAIN From(q, k, n) = 1..n
    BY <1>2
<1>5. Len(From(q, k, n)) = n
    BY <1>3, <1>4, LenProperties
<1> QED BY <1>3, <1>5 DEF From

PendingOf(q, l, p, m) ==
    LET n == l - Cardinality({t \in Thread : p[t] = "reserved"})
    IN CASE m = "moving" -> [k \in 1..(n - 1) |-> SlotOf(q, k)]
         [] m = "counting" -> [k \in 1..(n - 1) |-> SlotOf(q, k - 1)]
         [] OTHER -> [k \in 1..n |-> SlotOf(q, k - 1)]

(* What is pending depends on the queue, its length and where the threads   *)
(* are.                                                                     *)
LEMMA PendingIs ==
    /\ ~raced => Pending = PendingOf(queue, len, pc, main)
    /\ ~raced' => Pending' = PendingOf(queue', len', pc', main')
<1>1. \A k : Slot(k) = SlotOf(queue, k) /\ Slot(k)' = SlotOf(queue', k)
    BY DEF Slot, SlotOf
<1> QED BY <1>1 DEF Pending, PendingOf

(* The sequences that Pending speaks of begin at the first or the second    *)
(* slot.                                                                    *)
LEMMA FromPlaces ==
    ASSUME NEW q, NEW l
    PROVE  /\ From(q, 1, l - 1) = [i \in 1..(l - 1) |-> SlotOf(q, i)]
           /\ From(q, 0, l - 1) = [i \in 1..(l - 1) |-> SlotOf(q, i - 1)]
           /\ From(q, 0, l) = [i \in 1..l |-> SlotOf(q, i - 1)]
<1>1. \A i \in Int : i - 1 + 1 = i /\ i - 1 + 0 = i - 1
    OBVIOUS
<1> QED BY <1>1 DEF From

(* With no slot reserved what is pending is the queue, without the head that*)
(* is being removed.                                                        *)
LEMMA NoneReserved ==
    ASSUME NEW q, NEW l \in Nat, NEW p, NEW m, \A u \in Thread : p[u] # "reserved"
    PROVE  /\ m = "moving" => PendingOf(q, l, p, m) = From(q, 1, l - 1)
           /\ m = "counting" => PendingOf(q, l, p, m) = From(q, 0, l - 1)
           /\ m \notin {"moving", "counting"} => PendingOf(q, l, p, m) = From(q, 0, l)
<1> DEFINE R == {t \in Thread : p[t] = "reserved"}
<1>1. R = {}
    OBVIOUS
<1>2. Cardinality(R) = 0
    BY <1>1, FS_EmptySet
<1>3. l - Cardinality(R) = l
    BY <1>2
<1> HIDE DEF R
<1>4. PendingOf(q, l, p, m) =
         CASE m = "moving" -> [k \in 1..(l - 1) |-> SlotOf(q, k)]
           [] m = "counting" -> [k \in 1..(l - 1) |-> SlotOf(q, k - 1)]
           [] OTHER -> [k \in 1..l |-> SlotOf(q, k - 1)]
    BY <1>3, Zenon DEF PendingOf, R
<1> QED BY <1>4, FromPlaces

(* The same, while the head is moved out and while it is counted out.       *)
LEMMA Removing ==
    ASSUME NEW q, NEW l \in Nat, NEW p, \A u \in Thread : p[u] # "reserved"
    PROVE  /\ PendingOf(q, l, p, "moving") = From(q, 1, l - 1)
           /\ PendingOf(q, l, p, "counting") = From(q, 0, l - 1)
<1>1. PendingOf(q, l, p, "moving") = From(q, 1, l - 1)
    BY NoneReserved, ZenonT(40)
<1>2. PendingOf(q, l, p, "counting") = From(q, 0, l - 1)
    BY NoneReserved, ZenonT(40)
<1> QED BY <1>1, <1>2

(* With one slot reserved what is pending is the queue without its last     *)
(* slot.                                                                    *)
LEMMA OneReserved ==
    ASSUME NEW q, NEW l \in Nat, NEW p, NEW m, NEW t \in Thread,
           \A u \in Thread : p[u] = "reserved" <=> u = t,
           m \notin {"moving", "counting"}
    PROVE  PendingOf(q, l, p, m) = From(q, 0, l - 1)
<1> DEFINE R == {u \in Thread : p[u] = "reserved"}
<1>1. R = {t}
    OBVIOUS
<1>2. Cardinality(R) = 1
    BY <1>1, FS_Singleton
<1>3. l - Cardinality(R) = l - 1
    BY <1>2
<1>4. PendingOf(q, l, p, m) = [k \in 1..(l - 1) |-> SlotOf(q, k - 1)]
    BY <1>3 DEF PendingOf
<1> QED BY <1>4, FromPlaces

(* A step of the queue, as long as there is no race, is one of CommandFifo  *)
(* or leaves what is pending and what was sent last as they are.            *)
LEMMA FifoStep ==
    TypeInv /\ Alone /\ Alone' /\ [Next]_vars => [raced' \/ Fifo!Next]_<<Pending, answer>>
<1> SUFFICES ASSUME TypeInv, Alone, Alone', [Next]_vars, ~raced'
             PROVE  Fifo!Next \/ UNCHANGED <<Pending, answer>>
    OBVIOUS
<1>0. /\ ~raced
      /\ len \in Nat /\ QLen \in Nat /\ QLen >= 1
      /\ queue \in [0..QLen-1 -> Content] /\ len <= QLen
      /\ pc \in [Thread -> {"idle", "checked", "reserved"}]
    <2>1. ~raced
        BY DEF Next, Request, Push, PushTest, PushReserve, PushStore, Receive, MainStep, Answer,
               Send, RemoveMove, RemoveCount, Notice, vars
    <2> QED BY <2>1, QueueAssumption DEF TypeInv, Content, Alone
<1>11. Pending = PendingOf(queue, len, pc, main) /\ Pending' = PendingOf(queue', len', pc', main')
    BY <1>0, PendingIs
<1>12. main \in {"sending", "moving", "counting"} => \A u \in Thread : pc[u] = "idle"
    BY <1>0, BusyThreads DEF Alone
<1>1. ASSUME NEW t \in Client, Request(t) PROVE UNCHANGED <<Pending, answer>>
    BY <1>1, <1>11 DEF Request
<1>2. ASSUME NEW t \in Thread, PushTest(t) PROVE UNCHANGED <<Pending, answer>>
    <2>1. {u \in Thread : pc'[u] = "reserved"} = {u \in Thread : pc[u] = "reserved"}
        BY <1>0, <1>2 DEF PushTest
    <2> QED BY <1>2, <1>11, <2>1 DEF PushTest, PendingOf
<1>3. ASSUME NEW t \in Thread, PushReserve(t) PROVE UNCHANGED <<Pending, answer>>
    <2>1. /\ pc[t] = "checked" /\ pc' = [pc EXCEPT ![t] = "reserved"] /\ len' = len + 1
          /\ UNCHANGED <<queue, main, answer>>
        BY <1>3 DEF PushReserve
    <2>2. \A u \in Thread : u # t => pc[u] = "idle"
        BY <1>0, <2>1, BusyThreads DEF Alone
    <2>3. main \notin {"sending", "moving", "counting"}
        BY <1>12, <2>1
    <2>4. (\A u \in Thread : pc[u] # "reserved")
          /\ (\A u \in Thread : pc'[u] = "reserved" <=> u = t)
        BY <1>0, <2>1, <2>2
    <2>5. PendingOf(queue, len, pc, main) = From(queue, 0, len)
        BY <1>0, <2>3, <2>4, NoneReserved
    <2>6. PendingOf(queue, len + 1, pc', main) = From(queue, 0, (len + 1) - 1)
        <3>1. len + 1 \in Nat
            BY <1>0
        <3> QED BY <2>3, <2>4, <3>1, OneReserved
    <2>7. (len + 1) - 1 = len
        BY <1>0
    <2> QED BY <1>11, <2>1, <2>5, <2>6, <2>7
<1>4. ASSUME NEW t \in Thread, PushStore(t) PROVE Fifo!Next
    <2>1. /\ pc[t] = "reserved" /\ pc' = [pc EXCEPT ![t] = "idle"]
          /\ queue' = [k \in 0..QLen-1 |-> IF k = idx[t] THEN Head(todo[t]) ELSE queue[k]]
          /\ UNCHANGED <<len, main, answer>>
        BY <1>4 DEF PushStore
    <2>2. \A u \in Thread : u # t => pc[u] = "idle"
        BY <1>0, <2>1, BusyThreads DEF Alone
    <2>3. main \notin {"sending", "moving", "counting"}
        BY <1>12, <2>1
    <2>4. (\A u \in Thread : pc[u] = "reserved" <=> u = t)
          /\ (\A u \in Thread : pc'[u] # "reserved")
        BY <1>0, <2>1, <2>2
    <2>5. len >= 1 /\ idx[t] = len - 1
        BY <1>0, <2>1 DEF Alone
    <2>6. PICK c : c = Head(todo[t])
        OBVIOUS
    <2>7. c \in Command
        <3>1. todo[t] # <<>> /\ todo[t] \in Seq(Command)
            BY <2>1 DEF TypeInv, Pushing
        <3> QED BY <2>6, <3>1, HeadTailProperties
    <2>8. PICK n \in Nat : n = len - 1 /\ n < QLen
        BY <1>0, <2>5
    <2>9. Pending = From(queue, 0, n)
        <3>1. PendingOf(queue, len, pc, main) = From(queue, 0, len - 1)
            BY <1>0, <2>3, <2>4, OneReserved
        <3> QED BY <1>11, <2>8, <3>1
    <2>10. Pending' = From(queue', 0, len)
        <3>1. PendingOf(queue', len, pc', main) = From(queue', 0, len)
            BY <1>0, <2>3, <2>4, NoneReserved
        <3> QED BY <1>11, <2>1, <3>1
    <2>11. queue' \in [0..QLen-1 -> Content]
        BY <1>0, <2>1, <2>6, <2>7 DEF Content
    <2>12. /\ Pending \in Seq(Content) /\ Len(Pending) = n
           /\ \A i \in 1..n : Pending[i] = SlotOf(queue, i - 1 + 0)
        BY <1>0, <2>9, FromType
    <2>13. /\ Pending' \in Seq(Content) /\ Len(Pending') = len
           /\ \A i \in 1..len : Pending'[i] = SlotOf(queue', i - 1 + 0)
        BY <1>0, <2>10, <2>11, FromType
    <2>14. \A i \in 1..n : SlotOf(queue', i - 1 + 0) = SlotOf(queue, i - 1 + 0)
        BY <1>0, <2>1, <2>5, <2>8 DEF SlotOf
    <2>15. SlotOf(queue', len - 1 + 0) = c
        BY <1>0, <2>1, <2>5, <2>6, <2>8 DEF SlotOf
    <2>16. /\ Append(Pending, c) \in Seq(Content) /\ Len(Append(Pending, c)) = n + 1
           /\ \A i \in 1..n : Append(Pending, c)[i] = Pending[i]
           /\ Append(Pending, c)[n + 1] = c
        BY <2>7, <2>12, AppendProperties DEF Content
    <2>17. len = n + 1
        BY <1>0, <2>8
    <2>18. \A i \in 1..len : Pending'[i] = Append(Pending, c)[i]
        <3>1. \A i \in 1..len : i \in 1..n \/ i = n + 1
            BY <2>8, <2>17
        <3>2. Pending'[n + 1] = c
            BY <2>8, <2>13, <2>15, <2>17
        <3>3. \A i \in 1..n : Pending'[i] = Pending[i]
            BY <2>8, <2>12, <2>13, <2>14, <2>17
        <3> QED BY <2>16, <3>1, <3>2, <3>3
    <2>19. Pending' = Append(Pending, c)
        BY <2>13, <2>16, <2>17, <2>18, SeqEqual
    <2> QED BY <2>1, <2>7, <2>8, <2>12, <2>19 DEF Fifo!Next, Fifo!Accept
<1>5. ASSUME NEW m \in Message, Receive(m) PROVE UNCHANGED <<Pending, answer>>
    BY <1>5, <1>11 DEF Receive, PendingOf
<1>6. CASE Answer
    <2>1. main = "pushing" /\ main' \in {"reading", "sending"} /\ UNCHANGED <<queue, len, pc, answer>>
        BY <1>6 DEF Answer
    <2> QED BY <1>11, <2>1 DEF PendingOf
<1>7. CASE Send
    <2>1. /\ main = "sending" /\ main' = "moving" /\ answer' = queue[0]
          /\ UNCHANGED <<queue, len, pc>>
        BY <1>7 DEF Send
    <2>2. len >= 1 /\ \A u \in Thread : pc[u] # "reserved"
        BY <1>12, <2>1 DEF TypeInv
    <2>3. PICK n \in Nat : n = len - 1
        BY <1>0, <2>2
    <2>4. Pending = From(queue, 0, len) /\ Pending' = From(queue, 1, n)
        <3>1. /\ PendingOf(queue, len, pc, "sending") = From(queue, 0, len)
              /\ PendingOf(queue, len, pc, "moving") = From(queue, 1, len - 1)
            BY <1>0, <2>2, NoneReserved
        <3> QED BY <1>11, <2>1, <2>3, <3>1
    <2>5. /\ Pending \in Seq(Content) /\ Len(Pending) = len
          /\ \A i \in 1..len : Pending[i] = SlotOf(queue, i - 1 + 0)
        BY <1>0, <2>4, FromType
    <2>6. /\ Pending' \in Seq(Content) /\ Len(Pending') = n
          /\ \A i \in 1..n : Pending'[i] = SlotOf(queue, i - 1 + 1)
        BY <1>0, <2>4, FromType
    <2>7. Pending # <<>>
        BY <2>2, <2>5, EmptySeq
    <2>8. Head(Pending) = queue[0]
        <3>1. Head(Pending) = Pending[1]
            BY <2>5, <2>7
        <3>2. Pending[1] = SlotOf(queue, 0)
            BY <1>0, <2>2, <2>5
        <3> QED BY <1>0, <3>1, <3>2 DEF SlotOf
    <2>9. /\ Tail(Pending) \in Seq(Content) /\ Len(Tail(Pending)) = n
          /\ \A i \in 1..n : Tail(Pending)[i] = Pending[i + 1]
        BY <2>3, <2>5, <2>7, HeadTailProperties
    <2>10. \A i \in 1..n : Pending'[i] = Tail(Pending)[i]
        <3>1. \A i \in 1..n : i + 1 \in 1..len /\ (i + 1) - 1 + 0 = i - 1 + 1
            BY <1>0, <2>3
        <3> QED BY <2>5, <2>6, <2>9, <3>1
    <2>11. Pending' = Tail(Pending)
        BY <2>6, <2>9, <2>10, SeqEqual
    <2> QED BY <2>1, <2>7, <2>8, <2>11 DEF Fifo!Next, Fifo!Deliver
<1>8. CASE RemoveMove
    <2>1. /\ main = "moving" /\ main' = "counting"
          /\ queue' = [k \in 0..QLen-1 |->
                          IF k < len /\ k + 1 < QLen THEN queue[k + 1] ELSE queue[k]]
          /\ UNCHANGED <<len, pc, answer>>
        BY <1>8 DEF RemoveMove
    <2>2. len >= 1 /\ \A u \in Thread : pc[u] # "reserved"
        BY <1>12, <2>1 DEF TypeInv
    <2>3. PICK n \in Nat : n = len - 1 /\ n < QLen
        BY <1>0, <2>2
    <2>4. Pending = From(queue, 1, n) /\ Pending' = From(queue', 0, n)
        <3>1. PendingOf(queue, len, pc, "moving") = From(queue, 1, len - 1)
            BY <1>0, <2>2, Removing
        <3>2. PendingOf(queue', len, pc, "counting") = From(queue', 0, len - 1)
            BY <1>0, <2>2, Removing
        <3> QED BY <1>11, <2>1, <2>3, <3>1, <3>2
    <2>5. \A i \in 1..n : SlotOf(queue', i - 1 + 0) = SlotOf(queue, i - 1 + 1)
        <3>1. ASSUME NEW i \in 1..n
              PROVE  /\ i - 1 + 0 = i - 1 /\ i - 1 + 1 = i
                     /\ i - 1 \in 0..QLen-1 /\ i - 1 < len /\ (i - 1) + 1 = i /\ i < QLen
                     /\ i - 1 < QLen
            BY <1>0, <2>3
        <3>2. ASSUME NEW i \in 1..n PROVE queue'[i - 1] = queue[i]
            <4>1. queue'[i - 1] = IF i - 1 < len /\ (i - 1) + 1 < QLen
                                  THEN queue[(i - 1) + 1] ELSE queue[i - 1]
                BY <2>1, <3>1, Zenon
            <4> QED BY <3>1, <4>1
        <3> QED BY <3>1, <3>2 DEF SlotOf
    <2>6. From(queue, 1, n) = From(queue', 0, n)
        BY <2>5 DEF From
    <2> QED BY <2>1, <2>4, <2>6
<1>9. CASE RemoveCount
    <2>1. /\ main = "counting" /\ main' = "reading" /\ len' = len - 1
          /\ UNCHANGED <<queue, pc, answer>>
        BY <1>9 DEF RemoveCount
    <2>2. len >= 1 /\ \A u \in Thread : pc[u] # "reserved"
        BY <1>12, <2>1 DEF TypeInv
    <2>3. PICK n \in Nat : n = len - 1
        BY <1>0, <2>2
    <2>4. Pending = From(queue, 0, n) /\ Pending' = From(queue, 0, n)
        <3>1. PendingOf(queue, len, pc, "counting") = From(queue, 0, len - 1)
            BY <1>0, <2>2, Removing
        <3>2. PendingOf(queue, n, pc, "reading") = From(queue, 0, n)
            BY <1>0, <2>2, NoneReserved
        <3> QED BY <1>11, <2>1, <2>3, <3>1, <3>2
    <2> QED BY <2>1, <2>4
<1>10. CASE UNCHANGED vars
    BY <1>10, <1>11 DEF vars
<1> QED BY <1>1, <1>2, <1>3, <1>4, <1>5, <1>6, <1>7, <1>8, <1>9, <1>10 DEF Next, Push, MainStep

(* The queue implements CommandFifo for as long as no two threads have been *)
(* in it at a time: it sends every command that it has accepted once, and   *)
(* in order, however many threads there are, whatever they push and however *)
(* the main thread's own polls come between.                                *)
THEOREM ImplementsFifo == Spec => FifoUnlessRaced
<1>1. Init => Alone
    BY QueueAssumption DEF Init, Alone, Busy, Thread
<1>2. Init => Fifo!Init
    <2> SUFFICES ASSUME Init PROVE Fifo!Init
        OBVIOUS
    <2>1. Pending = PendingOf(queue, 0, pc, main) /\ answer = Nothing
        BY PendingIs DEF Init
    <2>2. PendingOf(queue, 0, pc, main) = From(queue, 0, 0)
        <3>1. main = "reading" /\ \A u \in Thread : pc[u] # "reserved"
            BY DEF Init
        <3> QED BY <3>1, NoneReserved
    <2>3. From(queue, 0, 0) = <<>>
        <3>1. 1..0 = {}
            OBVIOUS
        <3> QED BY <3>1 DEF From
    <2> QED BY <2>1, <2>2, <2>3 DEF Fifo!Init
<1> QED BY <1>1, <1>2, AloneStep, FifoStep, TypeInvHolds, PTL DEF Spec, FifoUnlessRaced
=============================================================================
