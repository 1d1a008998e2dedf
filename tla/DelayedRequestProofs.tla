------------------------- MODULE DelayedRequestProofs -------------------------
(* What DelayedRequest promises for any types of request, delays and number *)
(* of requests, proved.                                                     *)
EXTENDS DelayedRequest, SequenceTheorems, TLAPS

Number == {-1} \cup 1..Requests
Kind == Type \cup {"NO_ACTION"}

(* A write of one of the two threads, and the record that it goes to.       *)
TypedWrite ==
    [field : {"type"}, val : Kind]
    \cup [field : {"value", "id"}, val : Number]
    \cup [field : {"due"}, val : 0..(Delay + Extra)]

Record == [type : Kind, value : Number, id : Number, due : 0..(Delay + Extra)]

(* The inductive form of TypeOK.                                            *)
TypeInv ==
    /\ unactioned \in Record
    /\ net \in Seq(TypedWrite) /\ Len(net) <= 5
    /\ clears \in Seq(TypedWrite) /\ Len(clears) <= 8
    /\ main \in {"watching", "acting", "applying", "clearing"}
    /\ main = "clearing" => clears # <<>>
    /\ seen \in Kind
    /\ lightOn \in BOOLEAN /\ unitsKnown \in BOOLEAN /\ raced \in BOOLEAN
    /\ made \in Seq(Request) /\ Len(made) <= Requests
    /\ acted \in [type : Kind, value : Number, id : Number]
    /\ quiet \in 0..Delay
    /\ followUp \in 0..Requests

(* The types that are proved are those of the module.                       *)
LEMMA TypeInvImplies == TypeInv => TypeOK
BY RequestAssumption DEF TypeInv, TypeOK, Record, Number, Kind

(* A write changes its field and no other.                                  *)
LEMMA AssignOne ==
    ASSUME unactioned \in Record, NEW w \in TypedWrite, Assign(w)
    PROVE  /\ unactioned' \in Record
           /\ \A f \in Field : unactioned'[f] = IF f = w.field THEN w.val ELSE unactioned[f]
<1>1. CASE w \in [field : {"type"}, val : Kind]
    BY <1>1 DEF Assign, Record, Field
<1>2. CASE w \in [field : {"value", "id"}, val : Number]
    BY <1>2 DEF Assign, Record, Field
<1>3. CASE w \in [field : {"due"}, val : 0..(Delay + Extra)]
    BY <1>3 DEF Assign, Record, Field
<1> QED BY <1>1, <1>2, <1>3 DEF TypedWrite

(* The writes of the two functions, as sequences.                           *)
LEMMA TypedSets ==
    /\ \A k \in Kind : Set("type", k) \in TypedWrite
    /\ \A n \in Number : Set("value", n) \in TypedWrite /\ Set("id", n) \in TypedWrite
    /\ \A d \in 0..(Delay + Extra) : Set("due", d) \in TypedWrite
BY DEF Set, TypedWrite

(* The writes of a request for a light.                                     *)
LEMMA LightWritesType ==
    ASSUME NEW n \in Number, NEW due \in 0..(Delay + Extra)
    PROVE  LightWrites(n, due) \in Seq(TypedWrite) /\ Len(LightWrites(n, due)) = 4
<1>1. /\ Set("due", due) \in TypedWrite /\ Set("value", n) \in TypedWrite
      /\ Set("type", "LIGHT") \in TypedWrite /\ Set("id", n) \in TypedWrite
    BY TypedSets DEF Kind, Type
<1> QED BY <1>1 DEF LightWrites

(* The writes of a request for a value.                                     *)
LEMMA ValueWritesType ==
    ASSUME NEW n \in Number, NEW r \in Request
    PROVE  ValueWrites(n, r) \in Seq(TypedWrite) /\ Len(ValueWrites(n, r)) <= 4
<1> DEFINE due == IF r.mqtt THEN Delay ELSE 0
<1>1. r.type \in Kind /\ due \in 0..(Delay + Extra)
    BY RequestAssumption DEF Request, Kind
<1>2. /\ Set("due", due) \in TypedWrite /\ Set("value", n) \in TypedWrite
      /\ Set("type", r.type) \in TypedWrite /\ Set("id", n) \in TypedWrite
    BY <1>1, TypedSets
<1> HIDE DEF due
<1>3. ValueWrites(n, r) =
          (IF r.type = "VSPROGRAM" THEN <<>> ELSE <<Set("value", n)>>)
              \o <<Set("type", r.type), Set("id", n), Set("due", due)>>
    BY DEF ValueWrites, due
<1> QED BY <1>2, <1>3

(* The writes of the main thread's own request.                             *)
LEMMA FollowUpType ==
    ASSUME NEW n \in Number, NEW r \in Request
    PROVE  FollowUp(n, r) \in Seq(TypedWrite) /\ Len(FollowUp(n, r)) <= 4
<1>1. Delay + Extra \in 0..(Delay + Extra)
    BY RequestAssumption
<1>2. <<>> \in Seq(TypedWrite) /\ Len(<<>>) = 0
    BY EmptySeq
<1>3. /\ LightWrites(n, Delay + Extra) \in Seq(TypedWrite)
      /\ Len(LightWrites(n, Delay + Extra)) = 4
    BY <1>1, LightWritesType
<1> QED BY <1>2, <1>3 DEF FollowUp

(* The write that comes before its request.                                 *)
LEMMA EarlyWritesType ==
    ASSUME NEW n \in Number, NEW r \in Request, NEW early \in EarlyWrites(n, r)
    PROVE  early \in Seq(TypedWrite) /\ Len(early) <= 1
<1>1. <<>> \in Seq(TypedWrite) /\ Len(<<>>) = 0
    BY EmptySeq
<1>2. <<Set("value", n)>> \in Seq(TypedWrite) /\ Len(<<Set("value", n)>>) = 1
    BY TypedSets
<1>3. early = <<>> \/ early = <<Set("value", n)>>
    BY Zenon DEF EarlyWrites
<1>4. CASE early = <<>>
    BY <1>1, <1>4
<1>5. CASE early = <<Set("value", n)>>
    <2>1. Len(early) = 1
        BY <1>2, <1>5
    <2> QED BY <1>2, <1>5, <2>1
<1> QED BY <1>3, <1>4, <1>5

(* At the end of action_delayed_request.                                    *)
Reset == <<Set("type", "NO_ACTION"), Set("value", -1), Set("id", -1), Set("due", 0)>>

(* The writes of a reset.                                                   *)
LEMMA ResetType == Reset \in Seq(TypedWrite) /\ Len(Reset) = 4
<1>1. /\ Set("type", "NO_ACTION") \in TypedWrite /\ Set("value", -1) \in TypedWrite
      /\ Set("id", -1) \in TypedWrite /\ Set("due", 0) \in TypedWrite
    BY RequestAssumption, TypedSets DEF Kind, Number
<1> QED BY <1>1 DEF Reset

(* Every step keeps the types, and the main thread has writes left for as   *)
(* long as it resets the record.                                            *)
LEMMA TypeStep == TypeInv /\ [Next]_vars => TypeInv'
<1> SUFFICES ASSUME TypeInv, [Next]_vars PROVE TypeInv'
    OBVIOUS
<1>1. ASSUME NEW r \in Request, Receive(r) PROVE TypeInv'
    <2> DEFINE n == Len(made) + 1
               direct == r.type = "LIGHT" /\ ~r.mqtt
    <2>1. n \in Nat /\ n <= Requests /\ n \in Number /\ n \in 0..Requests
        <3>1. Len(made) \in Nat
            BY LenProperties DEF TypeInv
        <3> QED BY <1>1, <3>1, RequestAssumption DEF Receive, Number
    <2>2. PICK early \in EarlyWrites(n, r) :
             net' = CASE direct -> FollowUp(n, r)
                      [] r.type = "LIGHT" /\ r.mqtt -> LightWrites(n, Delay)
                      [] OTHER -> early \o ValueWrites(n, r)
        BY <1>1 DEF Receive
    <2>3. net' \in Seq(TypedWrite) /\ Len(net') <= 5
        <3>1. Delay \in 0..(Delay + Extra)
            BY RequestAssumption
        <3>2. CASE direct
            BY <2>1, <2>2, <3>2, FollowUpType
        <3>3. CASE r.type = "LIGHT" /\ r.mqtt
            <4>1. net' = LightWrites(n, Delay)
                BY <2>2, <3>3
            <4>2. /\ LightWrites(n, Delay) \in Seq(TypedWrite)
                  /\ Len(LightWrites(n, Delay)) = 4
                BY <2>1, <3>1, LightWritesType, Zenon
            <4>3. net' \in Seq(TypedWrite) /\ Len(net') = 4
                BY <4>1, <4>2, Zenon
            <4> QED BY <4>3
        <3>4. CASE ~(r.type = "LIGHT" /\ r.mqtt) /\ ~direct
            <4>1. net' = early \o ValueWrites(n, r)
                BY <2>2, <3>4
            <4>2. early \in Seq(TypedWrite) /\ Len(early) <= 1
                BY <2>1, EarlyWritesType
            <4>3. ValueWrites(n, r) \in Seq(TypedWrite) /\ Len(ValueWrites(n, r)) <= 4
                BY <2>1, ValueWritesType
            <4> QED BY <4>1, <4>2, <4>3, ConcatProperties, LenProperties
        <3> QED BY <3>2, <3>3, <3>4
    <2>4. made' \in Seq(Request) /\ Len(made') <= Requests
        BY <1>1, <2>1, AppendProperties DEF Receive, TypeInv
    <2>5. acted' \in [type : Kind, value : Number, id : Number]
        BY <1>1, <2>1 DEF Receive, TypeInv, Kind, Type
    <2>6. quiet' \in 0..Delay /\ followUp' \in 0..Requests
        BY <1>1, <2>1, RequestAssumption DEF Receive, TypeInv
    <2> QED BY <1>1, <2>3, <2>4, <2>5, <2>6 DEF Receive, Notice, TypeInv
<1>2. CASE NetWrite
    <2>1. Head(net) \in TypedWrite /\ Tail(net) \in Seq(TypedWrite) /\ Len(Tail(net)) <= 5
        BY <1>2, HeadTailProperties, LenProperties DEF NetWrite, TypeInv
    <2>2. unactioned' \in Record
        BY <1>2, <2>1, AssignOne DEF NetWrite, TypeInv
    <2> QED BY <1>2, <2>1, <2>2 DEF NetWrite, Notice, TypeInv
<1>3. CASE NoticeDue
    BY <1>3 DEF NoticeDue, Notice, TypeInv
<1>4. CASE Choose
    BY <1>4 DEF Choose, Notice, TypeInv, Record
<1>5. CASE Apply
    <2> DEFINE n == unactioned.value
               follows == seen = "LIGHT" /\ n \in DOMAIN made /\ NeedsFollowUp(made[n])
               first == IF follows THEN FollowUp(n, made[n]) ELSE <<>>
    <2>1. /\ main' = "clearing" /\ clears' = first \o Reset
          /\ acted' = [type |-> seen, value |-> n, id |-> unactioned.id]
          /\ followUp' = IF follows THEN n ELSE IF seen = "LIGHT" THEN 0 ELSE followUp
          /\ UNCHANGED <<unactioned, net, seen, lightOn, unitsKnown, made, quiet>>
          /\ Notice
        BY <1>5 DEF Apply, Reset
    <2>2. n \in Number /\ unactioned.id \in Number
        BY DEF TypeInv, Record
    <2>3. n \in DOMAIN made => made[n] \in Request /\ n \in 0..Requests
        <3>1. DOMAIN made = 1..Len(made) /\ Len(made) \in Nat
            BY LenProperties DEF TypeInv
        <3> QED BY <3>1, ElementOfSeq, RequestAssumption DEF TypeInv
    <2>4. first \in Seq(TypedWrite) /\ Len(first) <= 4
        BY <2>2, <2>3, FollowUpType, EmptySeq
    <2> HIDE DEF first
    <2>5. clears' \in Seq(TypedWrite) /\ Len(clears') <= 8 /\ clears' # <<>>
        <3>1. /\ first \o Reset \in Seq(TypedWrite)
              /\ Len(first \o Reset) = Len(first) + Len(Reset)
            BY <2>4, ResetType, ConcatProperties
        <3>2. Len(first) \in Nat
            BY <2>4, LenProperties
        <3>3. Len(first \o Reset) <= 8 /\ Len(first \o Reset) # 0
            BY <2>4, <3>1, <3>2, ResetType
        <3> QED BY <2>1, <3>1, <3>3, EmptySeq
    <2>6. acted' \in [type : Kind, value : Number, id : Number]
        BY <2>1, <2>2 DEF TypeInv
    <2>7. followUp' \in 0..Requests
        BY <2>1, <2>3, RequestAssumption DEF TypeInv
    <2> QED BY <2>1, <2>5, <2>6, <2>7 DEF TypeInv, Notice
<1>6. CASE Clear
    <2>1. Head(clears) \in TypedWrite /\ Tail(clears) \in Seq(TypedWrite)
          /\ Len(Tail(clears)) <= 8
        BY <1>6, HeadTailProperties, LenProperties DEF Clear, TypeInv
    <2>2. unactioned' \in Record
        BY <1>6, <2>1, AssignOne DEF Clear, TypeInv
    <2> QED BY <1>6, <2>1, <2>2 DEF Clear, Notice, TypeInv
<1>7. CASE Tick
    <2>1. unactioned' \in Record
        <3>1. unactioned.due \in 0..(Delay + Extra) /\ unactioned \in Record
            BY DEF TypeInv, Record
        <3>2. (IF unactioned.due > 0 THEN unactioned.due - 1 ELSE 0) \in 0..(Delay + Extra)
            BY <3>1, RequestAssumption
        <3> QED BY <1>7, <3>1, <3>2 DEF Tick, Record
    <2>2. quiet' \in 0..Delay
        BY <1>7, RequestAssumption DEF Tick, TypeInv
    <2> QED BY <1>7, <2>1, <2>2 DEF Tick, TypeInv
<1>8. CASE SetUnits \/ LightChanges
    BY <1>8 DEF SetUnits, LightChanges, TypeInv
<1>9. CASE UNCHANGED vars
    BY <1>9 DEF vars, TypeInv
<1> QED BY <1>1, <1>2, <1>3, <1>4, <1>5, <1>6, <1>7, <1>8, <1>9 DEF Next, MainStep

(* The types hold throughout.                                               *)
LEMMA TypeInvHolds == Spec => []TypeInv
<1>1. Init => TypeInv
    <2>1. NoAction \in Record
        BY RequestAssumption DEF NoAction, Record, Kind, Number
    <2>2. <<>> \in Seq(TypedWrite) /\ <<>> \in Seq(Request) /\ Len(<<>>) = 0
        BY EmptySeq
    <2>3. 0 \in 0..Delay /\ 0 \in 0..Requests /\ 0 <= Requests /\ 0 <= 5 /\ 0 <= 8
        BY RequestAssumption
    <2>4. Init => acted \in [type : Kind, value : Number, id : Number]
        BY DEF Init, Kind, Number
    <2> QED BY <2>1, <2>2, <2>3, <2>4 DEF Init, TypeInv, Kind
<1> QED BY <1>1, TypeStep, PTL DEF Spec

(* The variables keep their types: the lists of writes stay short and the   *)
(* age of a request is never more than the longest delay, for any number of *)
(* requests.                                                                *)
THEOREM TypeCorrect == Spec => []TypeOK
BY TypeInvHolds, TypeInvImplies, PTL

-----------------------------------------------------------------------------
(* The inductive form of WholeRequest and QuietBeforeAction.  As long as    *)
(* the threads have not been in the record at a time, one of them at most   *)
(* has writes left, and there is a v that the record will be when they are  *)
(* done: one request, whose delay is not over before it has been quiet for  *)
(* as long, or none while the main thread resets.                           *)
Key == {"type", "value", "id"}

LastWrite(ws, i) == \A j \in (i + 1)..Len(ws) : ws[j].field # ws[i].field

Ends(u, ws, v) ==
    \A f \in Key :
        \/ v[f] = u[f] /\ \A i \in 1..Len(ws) : ws[i].field # f
        \/ \E i \in 1..Len(ws) : ws[i].field = f /\ ws[i].val = v[f] /\ LastWrite(ws, i)

Whole(v) ==
    v.type # "NO_ACTION" =>
        /\ v.id \in DOMAIN made
        /\ made[v.id].type = v.type
        /\ v.type # "VSPROGRAM" => v.value = v.id

Timely(v) ==
    v.type # "NO_ACTION" /\ made[v.id].mqtt =>
        \/ quiet + unactioned.due >= Delay /\ \A i \in 1..Len(net) : net[i].field # "due"
        \/ \E i \in 1..Len(net) :
              net[i].field = "due" /\ net[i].val >= Delay /\ LastWrite(net, i)

Final == [type : Kind, value : Number, id : Number]

RequestInv ==
    /\ WholeRequest
    /\ ~raced =>
          /\ net = <<>> \/ main = "watching"
          /\ main \in {"acting", "applying"} =>
                unactioned.due = 0 /\ unactioned.type # "NO_ACTION"
          /\ main = "applying" => seen = unactioned.type
          /\ IF main = "clearing"
             THEN \E v \in Final : Ends(unactioned, clears, v) /\ v.type = "NO_ACTION"
             ELSE \E v \in Final : Ends(unactioned, net, v) /\ Whole(v) /\ Timely(v)

(* After a write, what is left of the writes ends in the same.              *)
LEMMA EndsStep ==
    ASSUME NEW ws \in Seq(TypedWrite), ws # <<>>, NEW u, NEW x, NEW v, Ends(u, ws, v),
           \A f \in Key : x[f] = IF f = Head(ws).field THEN Head(ws).val ELSE u[f]
    PROVE  Ends(x, Tail(ws), v)
<1> DEFINE r == Tail(ws)
<1>1. /\ Len(ws) \in Nat /\ Len(ws) > 0 /\ Head(ws) = ws[1]
      /\ Len(r) = Len(ws) - 1 /\ \A i \in 1..Len(r) : r[i] = ws[i + 1]
    BY HeadTailProperties, LenProperties, EmptySeq
<1> HIDE DEF r
<1> SUFFICES ASSUME NEW f \in Key
             PROVE  \/ x[f] = v[f] /\ \A i \in 1..Len(r) : r[i].field # f
                    \/ \E i \in 1..Len(r) : r[i].field = f /\ r[i].val = v[f] /\ LastWrite(r, i)
    BY DEF Ends, r
<1>2. CASE v[f] = u[f] /\ \A i \in 1..Len(ws) : ws[i].field # f
    <2>1. x[f] = u[f]
        BY <1>1, <1>2
    <2>2. ASSUME NEW i \in 1..Len(r) PROVE r[i].field # f
        <3>1. i + 1 \in 1..Len(ws)
            BY <1>1
        <3> QED BY <1>1, <1>2, <3>1
    <2> QED BY <1>2, <2>1, <2>2
<1>3. ASSUME NEW i \in 1..Len(ws), ws[i].field = f, ws[i].val = v[f], LastWrite(ws, i)
      PROVE  \/ x[f] = v[f] /\ \A k \in 1..Len(r) : r[k].field # f
             \/ \E k \in 1..Len(r) : r[k].field = f /\ r[k].val = v[f] /\ LastWrite(r, k)
    <2>1. CASE i = 1
        <3>1. x[f] = v[f]
            BY <1>1, <1>3, <2>1
        <3>2. ASSUME NEW k \in 1..Len(r) PROVE r[k].field # f
            <4>1. k + 1 \in (1 + 1)..Len(ws)
                BY <1>1
            <4> QED BY <1>1, <1>3, <2>1, <4>1 DEF LastWrite
        <3> QED BY <3>1, <3>2
    <2>2. CASE i # 1
        <3>1. i - 1 \in 1..Len(r) /\ (i - 1) + 1 = i
            BY <1>1, <2>2
        <3>2. r[i - 1] = ws[i]
            BY <1>1, <3>1
        <3>3. ASSUME NEW j \in ((i - 1) + 1)..Len(r) PROVE r[j].field # f
            <4>1. j \in 1..Len(r) /\ j + 1 \in (i + 1)..Len(ws)
                BY <1>1
            <4> QED BY <1>1, <1>3, <4>1 DEF LastWrite
        <3> QED BY <1>3, <3>1, <3>2, <3>3 DEF LastWrite
    <2> QED BY <2>1, <2>2
<1> QED BY <1>2, <1>3 DEF Ends

(* Without writes left the record is what it ends in.                       *)
LEMMA EndsDone ==
    ASSUME NEW u, NEW v, Ends(u, <<>>, v)
    PROVE  v.type = u.type /\ v.value = u.value /\ v.id = u.id
BY DEF Ends, Key

(* Where the second of two sequences is found when they are put together.   *)
LEMMA Behind ==
    ASSUME NEW S, NEW s \in Seq(S), NEW t \in Seq(S)
    PROVE  /\ Len(s \o t) = Len(s) + Len(t)
           /\ \A k \in 1..Len(t) : (s \o t)[Len(s) + k] = t[k]
<1> DEFINE m == Len(s)
<1>1. m \in Nat /\ Len(t) \in Nat
    BY LenProperties
<1>2. /\ Len(s \o t) = m + Len(t)
      /\ \A i \in 1..(m + Len(t)) : (s \o t)[i] = IF i <= m THEN s[i] ELSE t[i - m]
    BY ConcatProperties
<1>3. ASSUME NEW k \in 1..Len(t)
      PROVE  m + k \in 1..(m + Len(t)) /\ ~(m + k <= m) /\ (m + k) - m = k
    BY <1>1
<1> QED BY <1>2, <1>3

(* What the sequences of writes end in.                                     *)
LEMMA LightEnds ==
    ASSUME NEW u, NEW n, NEW due
    PROVE  Ends(u, LightWrites(n, due), [type |-> "LIGHT", value |-> n, id |-> n])
<1> DEFINE ws == LightWrites(n, due)
           v == [type |-> "LIGHT", value |-> n, id |-> n]
<1>1. /\ Len(ws) = 4
      /\ ws[1].field = "due" /\ ws[2] = Set("value", n)
      /\ ws[3] = Set("type", "LIGHT") /\ ws[4] = Set("id", n)
    BY DEF LightWrites, Set
<1> HIDE DEF ws
<1>2. LastWrite(ws, 2) /\ LastWrite(ws, 3) /\ LastWrite(ws, 4)
    BY <1>1 DEF LastWrite, Set
<1>3. ASSUME NEW f \in Key
      PROVE  \E i \in 1..Len(ws) : ws[i].field = f /\ ws[i].val = v[f] /\ LastWrite(ws, i)
    <2>1. CASE f = "type"
        BY <1>1, <1>2, <2>1 DEF Set
    <2>2. CASE f = "value"
        BY <1>1, <1>2, <2>2 DEF Set
    <2>3. CASE f = "id"
        BY <1>1, <1>2, <2>3 DEF Set
    <2> QED BY <2>1, <2>2, <2>3 DEF Key
<1> QED BY <1>3 DEF Ends, ws

(* Whatever is written before it, a reset ends in no request.               *)
LEMMA ResetEnds ==
    ASSUME NEW u, NEW first \in Seq(TypedWrite)
    PROVE  Ends(u, first \o Reset, [type |-> "NO_ACTION", value |-> -1, id |-> -1])
<1> DEFINE ws == first \o Reset
           v == [type |-> "NO_ACTION", value |-> -1, id |-> -1]
           m == Len(first)
<1>1. m \in Nat
    BY LenProperties
<1>2. /\ Reset[1] = Set("type", "NO_ACTION") /\ Reset[2] = Set("value", -1)
      /\ Reset[3] = Set("id", -1) /\ Reset[4] = Set("due", 0)
    BY DEF Reset
<1>3. Len(ws) = m + 4 /\ \A k \in 1..4 : ws[m + k] = Reset[k]
    <2>1. Reset \in Seq(TypedWrite) /\ Len(Reset) = 4
        BY ResetType
    <2>2. /\ Len(first \o Reset) = m + Len(Reset)
          /\ \A k \in 1..Len(Reset) : (first \o Reset)[m + k] = Reset[k]
        <3>1. \A t \in Seq(TypedWrite) :
                 /\ Len(first \o t) = Len(first) + Len(t)
                 /\ \A k \in 1..Len(t) : (first \o t)[Len(first) + k] = t[k]
            BY Behind
        <3> QED BY <2>1, <3>1, Zenon
    <2> QED BY <2>1, <2>2, Zenon
<1> HIDE DEF ws, m
<1>4. /\ ws[m + 1] = Set("type", "NO_ACTION") /\ ws[m + 2] = Set("value", -1)
      /\ ws[m + 3] = Set("id", -1) /\ ws[m + 4] = Set("due", 0)
    BY <1>2, <1>3
<1>6. LastWrite(ws, m + 1) /\ LastWrite(ws, m + 2) /\ LastWrite(ws, m + 3)
    <2>1. /\ ws[m + 1].field = "type" /\ ws[m + 2].field = "value"
          /\ ws[m + 3].field = "id" /\ ws[m + 4].field = "due"
        BY <1>4 DEF Set
    <2>2. ASSUME NEW j \in (m + 1 + 1)..Len(ws) PROVE j \in {m + 2, m + 3, m + 4}
        BY <1>1, <1>3
    <2>3. ASSUME NEW j \in (m + 2 + 1)..Len(ws) PROVE j \in {m + 3, m + 4}
        BY <1>1, <1>3
    <2>4. ASSUME NEW j \in (m + 3 + 1)..Len(ws) PROVE j = m + 4
        BY <1>1, <1>3
    <2> QED BY <2>1, <2>2, <2>3, <2>4 DEF LastWrite
<1>7. ASSUME NEW f \in Key
      PROVE  \E i \in 1..Len(ws) : ws[i].field = f /\ ws[i].val = v[f] /\ LastWrite(ws, i)
    <2>1. m + 1 \in 1..Len(ws) /\ m + 2 \in 1..Len(ws) /\ m + 3 \in 1..Len(ws)
        BY <1>1, <1>3
    <2>2. CASE f = "type"
        BY <1>4, <1>6, <2>1, <2>2 DEF Set
    <2>3. CASE f = "value"
        BY <1>4, <1>6, <2>1, <2>3 DEF Set
    <2>4. CASE f = "id"
        BY <1>4, <1>6, <2>1, <2>4 DEF Set
    <2> QED BY <2>2, <2>3, <2>4 DEF Key
<1> QED BY <1>7 DEF Ends, ws

ValueEnd(u, n, r) ==
    [type |-> r.type, value |-> IF r.type = "VSPROGRAM" THEN u.value ELSE n, id |-> n]

(* The writes of a request for a value end in that request, and set the     *)
(* delay.                                                                   *)
LEMMA ValueEnds ==
    ASSUME NEW u, NEW n, NEW r, NEW early \in EarlyWrites(n, r)
    PROVE  LET ws == early \o ValueWrites(n, r)
           IN  /\ Ends(u, ws, ValueEnd(u, n, r))
               /\ \E i \in 1..Len(ws) : /\ ws[i] = Set("due", IF r.mqtt THEN Delay ELSE 0)
                                        /\ LastWrite(ws, i)
<1> DEFINE due == IF r.mqtt THEN Delay ELSE 0
           value == Set("value", n)
           three == <<Set("type", r.type), Set("id", n), Set("due", due)>>
           S == {value, three[1], three[2], three[3]}
           writes == ValueWrites(n, r)
           ws == early \o writes
           v == ValueEnd(u, n, r)
<1>1. /\ early = <<>> \/ (early = <<value>> /\ r.type = "SWG")
      /\ writes = (IF r.type = "VSPROGRAM" THEN <<>> ELSE <<value>>) \o three
    BY Zenon DEF EarlyWrites, ValueWrites
<1>2. /\ Len(three) = 3 /\ three[1] = Set("type", r.type) /\ three[2] = Set("id", n)
      /\ three[3] = Set("due", due)
    OBVIOUS
<1> HIDE DEF due, value
<1>3. three \in Seq(S)
    OBVIOUS
<1> HIDE DEF three
<1>4. <<>> \in Seq(S) /\ Len(<<>>) = 0 /\ <<value>> \in Seq(S) /\ Len(<<value>>) = 1
      /\ <<value>>[1] = value
    OBVIOUS
<1>5. early \in Seq(S)
    BY <1>1, <1>4
<1>6. Len(early) \in {0, 1}
    BY <1>1, <1>4
<1> HIDE DEF S, writes, ws
<1>7. CASE r.type = "VSPROGRAM"
    <2>1. ws = three
        <3>1. early = <<>>
            BY <1>1, <1>7
        <3>2. writes = <<>> \o three
            BY <1>1, <1>7
        <3> QED BY <1>3, <3>1, <3>2, ConcatEmptySeq DEF ws
    <2>0. /\ Len(ws) = 3
          /\ ws[1].field = "type" /\ ws[2].field = "id" /\ ws[3].field = "due"
        <3>1. /\ Len(three) = 3 /\ three[1].field = "type" /\ three[2].field = "id"
              /\ three[3].field = "due"
            BY <1>2 DEF Set
        <3> QED BY <2>1, <3>1, Zenon
    <2>2. LastWrite(ws, 1) /\ LastWrite(ws, 2) /\ LastWrite(ws, 3)
        BY <2>0 DEF LastWrite
    <2>3. v.value = u.value /\ \A i \in 1..Len(ws) : ws[i].field # "value"
        BY <2>0, <1>7 DEF ValueEnd
    <2>4. \E i \in 1..Len(ws) : ws[i].field = "type" /\ ws[i].val = v.type /\ LastWrite(ws, i)
        BY <1>2, <2>1, <2>2 DEF Set, ValueEnd
    <2>5. \E i \in 1..Len(ws) : ws[i].field = "id" /\ ws[i].val = v.id /\ LastWrite(ws, i)
        BY <1>2, <2>1, <2>2 DEF Set, ValueEnd
    <2>6. Ends(u, ws, v)
        BY <2>3, <2>4, <2>5 DEF Ends, Key
    <2> QED BY <1>2, <2>1, <2>2, <2>6 DEF ws, due, writes
<1>8. CASE r.type # "VSPROGRAM"
    <2>1. writes = <<value>> \o three
        BY <1>1, <1>8
    <2>2. writes \in Seq(S)
        BY <1>3, <1>4, <2>1, ConcatProperties
    <2>3. Len(writes) = 4 /\ \A k \in 1..3 : writes[1 + k] = three[k]
        <3>1. Len(writes) = 1 + Len(three) /\ \A k \in 1..Len(three) : writes[1 + k] = three[k]
            BY <1>3, <1>4, <2>1, Behind
        <3> QED BY <1>2, <3>1
    <2>4. writes[1] = value
        BY <1>3, <1>4, <1>2, <2>1, ConcatProperties
    <2>5. PICK m \in {0, 1} :
             Len(ws) = m + Len(writes) /\ \A k \in 1..Len(writes) : ws[m + k] = writes[k]
        <3>1. Len(early) \in Nat
            BY <1>6
        <3>2. /\ Len(early \o writes) = Len(early) + Len(writes)
              /\ \A k \in 1..Len(writes) : (early \o writes)[Len(early) + k] = writes[k]
            BY <1>5, <2>2, Behind, Zenon
        <3> QED BY <1>6, <3>2, Zenon DEF ws
    <2>6. Len(ws) = m + 4
        BY <2>3, <2>5
    <2>7. ws[m + 1] = value /\ ws[m + 2] = writes[2] /\ ws[m + 3] = writes[3]
          /\ ws[m + 4] = writes[4]
        BY <2>3, <2>4, <2>5
    <2>8. writes[2] = three[1] /\ writes[3] = three[2] /\ writes[4] = three[3]
        BY <2>3
    <2>9. /\ ws[m + 1].field = "value" /\ ws[m + 1].val = n
          /\ ws[m + 2].field = "type" /\ ws[m + 2].val = r.type
          /\ ws[m + 3].field = "id" /\ ws[m + 3].val = n
          /\ ws[m + 4] = Set("due", due)
        BY <1>2, <2>7, <2>8 DEF Set, value
    <2>10. ws[m + 4].field = "due"
        BY <2>9 DEF Set
    <2>11. LastWrite(ws, m + 1) /\ LastWrite(ws, m + 2) /\ LastWrite(ws, m + 3)
           /\ LastWrite(ws, m + 4)
        BY <2>6, <2>9, <2>10 DEF LastWrite
    <2>12. m + 1 \in 1..Len(ws) /\ m + 2 \in 1..Len(ws) /\ m + 3 \in 1..Len(ws)
           /\ m + 4 \in 1..Len(ws)
        BY <2>6
    <2>13. v.type = r.type /\ v.value = n /\ v.id = n
        BY <1>8 DEF ValueEnd
    <2>14. Ends(u, ws, v)
        BY <2>9, <2>11, <2>12, <2>13 DEF Ends, Key
    <2> QED BY <2>9, <2>11, <2>12, <2>14 DEF ws, due, writes
<1> QED BY <1>7, <1>8

(* A request that has been made stays as it was made.                       *)
LEMMA MadeStays ==
    ASSUME TypeInv, NEW r \in Request, made' = Append(made, r)
    PROVE  /\ Len(made') = Len(made) + 1 /\ made'[Len(made) + 1] = r
           /\ Len(made) + 1 \in DOMAIN made'
           /\ \A i \in DOMAIN made : i \in DOMAIN made' /\ made'[i] = made[i]
<1>1. made \in Seq(Request) /\ Len(made) \in Nat
    BY LenProperties DEF TypeInv
<1>2. /\ Len(made') = Len(made) + 1 /\ made'[Len(made) + 1] = r
      /\ \A i \in 1..Len(made) : made'[i] = made[i]
      /\ made' \in Seq(Request)
    BY <1>1, AppendProperties
<1>3. DOMAIN made = 1..Len(made) /\ DOMAIN made' = 1..Len(made')
    BY <1>1, <1>2, LenProperties
<1> QED BY <1>1, <1>2, <1>3

(* What a new request writes ends in that request, in time.                 *)
LEMMA ReceiveEnds ==
    ASSUME TypeInv, NEW r \in Request, Receive(r), net' # <<>>
    PROVE  \E v \in Final : Ends(unactioned', net', v) /\ Whole(v)' /\ Timely(v)'
<1>0. PICK n : n = Len(made) + 1
    OBVIOUS
<1> DEFINE due == IF r.mqtt THEN Delay ELSE 0
           light == [type |-> "LIGHT", value |-> n, id |-> n]
<1>1. /\ n \in Number /\ r.type \in Kind /\ unactioned.value \in Number
      /\ r.mqtt \in BOOLEAN /\ "LIGHT" \in Kind
    <2>1. Len(made) \in Nat
        BY LenProperties DEF TypeInv
    <2> QED BY <1>0, <2>1, RequestAssumption DEF Receive, TypeInv, Number, Kind, Type, Record, Request
<1>2. /\ n \in DOMAIN made' /\ made'[n] = r
      /\ unactioned' = unactioned
    BY <1>0, MadeStays DEF Receive
<1>3. PICK early \in EarlyWrites(n, r) :
         net' = CASE r.type = "LIGHT" /\ ~r.mqtt -> FollowUp(n, r)
                  [] r.type = "LIGHT" /\ r.mqtt -> LightWrites(n, Delay)
                  [] OTHER -> early \o ValueWrites(n, r)
    BY <1>0 DEF Receive
<1>4. ASSUME NEW wait \in Nat, wait >= Delay, net' = LightWrites(n, wait), r.type = "LIGHT"
      PROVE  \E v \in Final : Ends(unactioned', net', v) /\ Whole(v)' /\ Timely(v)'
    <2>1. light \in Final
        BY <1>1 DEF Final
    <2>2. Ends(unactioned', net', light)
        BY <1>2, <1>4, LightEnds
    <2>3. Whole(light)'
        <3>1. light.type = "LIGHT" /\ light.value = n /\ light.id = n
            OBVIOUS
        <3>2. made'[n].type = "LIGHT"
            BY <1>2, <1>4
        <3> HIDE DEF light
        <3> QED BY <1>2, <3>1, <3>2, Zenon DEF Whole
    <2>4. /\ Len(net') = 4 /\ net'[1] = Set("due", wait) /\ net'[2].field = "value"
          /\ net'[3].field = "type" /\ net'[4].field = "id"
        BY <1>4 DEF LightWrites, Set
    <2>5. LastWrite(net', 1) /\ net'[1].field = "due" /\ net'[1].val >= Delay
        BY <1>4, <2>4 DEF LastWrite, Set
    <2>6. 1 \in 1..Len(net')
        BY <2>4
    <2>7. Timely(light)'
        BY <2>5, <2>6 DEF Timely, LastWrite
    <2> QED BY <2>1, <2>2, <2>3, <2>7
<1>5. CASE r.type = "LIGHT" /\ ~r.mqtt
    <2>1. net' = FollowUp(n, r)
        BY <1>3, <1>5
    <2>2. net' = LightWrites(n, Delay + Extra)
        BY <2>1 DEF FollowUp
    <2>3. Delay + Extra \in Nat /\ Delay + Extra >= Delay
        BY RequestAssumption
    <2> QED BY <1>4, <1>5, <2>2, <2>3
<1>6. CASE r.type = "LIGHT" /\ r.mqtt
    <2>1. net' = LightWrites(n, Delay)
        BY <1>3, <1>6
    <2>2. Delay \in Nat /\ Delay >= Delay
        BY RequestAssumption
    <2> QED BY <1>4, <1>6, <2>1, <2>2
<1>7. CASE r.type # "LIGHT"
    <2>0. PICK v : v = ValueEnd(unactioned', n, r)
        OBVIOUS
    <2>1. net' = early \o ValueWrites(n, r)
        BY <1>3, <1>7
    <2>2. v \in Final
        BY <1>1, <1>2, <2>0 DEF ValueEnd, Final
    <2>3. /\ Ends(unactioned', net', v)
          /\ \E i \in 1..Len(net') : net'[i] = Set("due", due) /\ LastWrite(net', i)
        BY <2>0, <2>1, ValueEnds
    <2>4. v.type = r.type /\ v.id = n /\ (r.type # "VSPROGRAM" => v.value = n)
        BY <2>0 DEF ValueEnd
    <2>5. Whole(v)'
        BY <1>2, <2>4 DEF Whole
    <2>6. Timely(v)'
        <3>1. CASE r.mqtt
            <4>1. due >= Delay
                BY <3>1, RequestAssumption
            <4>2. PICK i \in 1..Len(net') : net'[i] = Set("due", due) /\ LastWrite(net', i)
                BY <2>3
            <4>3. net'[i].field = "due" /\ net'[i].val >= Delay
                BY <4>1, <4>2 DEF Set
            <4> QED BY <4>2, <4>3 DEF Timely, LastWrite
        <3>2. CASE ~r.mqtt
            BY <1>2, <2>4, <3>2 DEF Timely
        <3> QED BY <3>1, <3>2
    <2> QED BY <2>2, <2>3, <2>5, <2>6
<1> QED BY <1>5, <1>6, <1>7

(* The delay is still kept after a write of the network thread.             *)
LEMMA TimelyStep ==
    ASSUME TypeInv, NetWrite, NEW v, Timely(v)
    PROVE  Timely(v)'
<1> DEFINE r == Tail(net)
<1>1. /\ net \in Seq(TypedWrite) /\ Len(net) \in Nat /\ Len(net) > 0 /\ Head(net) = net[1]
      /\ Len(r) = Len(net) - 1 /\ \A i \in 1..Len(r) : r[i] = net[i + 1]
      /\ Head(net) \in TypedWrite
    BY HeadTailProperties, LenProperties, EmptySeq DEF TypeInv, NetWrite
<1>2. net' = r /\ quiet' = quiet /\ made' = made
    BY DEF NetWrite
<1>3. unactioned'.due = IF net[1].field = "due" THEN net[1].val ELSE unactioned.due
    BY <1>1, AssignOne DEF NetWrite, TypeInv, Field
<1> HIDE DEF r
<1> SUFFICES ASSUME v.type # "NO_ACTION", made[v.id].mqtt
             PROVE  \/ /\ quiet' + unactioned'.due >= Delay
                       /\ \A i \in 1..Len(net') : net'[i].field # "due"
                    \/ \E i \in 1..Len(net') :
                          net'[i].field = "due" /\ net'[i].val >= Delay /\ LastWrite(net', i)
    BY <1>2 DEF Timely, LastWrite
<1>4. CASE quiet + unactioned.due >= Delay /\ \A i \in 1..Len(net) : net[i].field # "due"
    <2>1. unactioned'.due = unactioned.due
        BY <1>1, <1>3, <1>4
    <2>2. ASSUME NEW i \in 1..Len(r) PROVE r[i].field # "due"
        <3>1. i + 1 \in 1..Len(net)
            BY <1>1
        <3> QED BY <1>1, <1>4, <3>1
    <2> QED BY <1>2, <1>4, <2>1, <2>2
<1>5. ASSUME NEW i \in 1..Len(net),
             net[i].field = "due", net[i].val >= Delay, LastWrite(net, i)
      PROVE  \/ /\ quiet' + unactioned'.due >= Delay
                /\ \A k \in 1..Len(net') : net'[k].field # "due"
             \/ \E k \in 1..Len(net') :
                   net'[k].field = "due" /\ net'[k].val >= Delay /\ LastWrite(net', k)
    <2>1. CASE i = 1
        <3>1. net[1] \in [field : {"due"}, val : 0..(Delay + Extra)]
            BY <1>1, <1>5, <2>1 DEF TypedWrite
        <3>2. net[1].val \in Nat /\ unactioned'.due = net[1].val /\ net[1].val >= Delay
            BY <1>3, <1>5, <2>1, <3>1, RequestAssumption
        <3>3. quiet \in Nat /\ Delay \in Nat
            BY RequestAssumption DEF TypeInv
        <3>4. quiet' + unactioned'.due >= Delay
            BY <1>2, <3>2, <3>3
        <3>5. ASSUME NEW k \in 1..Len(r) PROVE r[k].field # "due"
            <4>1. k + 1 \in (1 + 1)..Len(net)
                BY <1>1
            <4> QED BY <1>1, <1>5, <2>1, <4>1 DEF LastWrite
        <3> QED BY <1>2, <3>4, <3>5
    <2>2. CASE i # 1
        <3>1. i - 1 \in 1..Len(r) /\ (i - 1) + 1 = i
            BY <1>1, <2>2
        <3>2. r[i - 1] = net[i]
            BY <1>1, <3>1
        <3>3. ASSUME NEW j \in ((i - 1) + 1)..Len(r) PROVE r[j].field # "due"
            <4>1. j \in 1..Len(r) /\ j + 1 \in (i + 1)..Len(net)
                BY <1>1
            <4> QED BY <1>1, <1>5, <4>1 DEF LastWrite
        <3> QED BY <1>2, <1>5, <3>1, <3>2, <3>3 DEF LastWrite
    <2> QED BY <2>1, <2>2
<1> QED BY <1>4, <1>5 DEF Timely

(* The part of RequestInv that speaks of what will be in the record.        *)
Outcome ==
    IF main = "clearing"
    THEN \E v \in Final : Ends(unactioned, clears, v) /\ v.type = "NO_ACTION"
    ELSE \E v \in Final : Ends(unactioned, net, v) /\ Whole(v) /\ Timely(v)

(* With no write left, what is in the record is one request, and it is time.*)
LEMMA AllWritten ==
    ASSUME RequestInv, ~raced, main \in {"acting", "applying"}
    PROVE  /\ net = <<>> /\ unactioned.due = 0 /\ unactioned.type # "NO_ACTION"
           /\ unactioned.id \in DOMAIN made
           /\ made[unactioned.id].type = unactioned.type
           /\ unactioned.type # "VSPROGRAM" => unactioned.value = unactioned.id
           /\ made[unactioned.id].mqtt => quiet + unactioned.due >= Delay
<1>1. net = <<>> /\ unactioned.due = 0 /\ unactioned.type # "NO_ACTION"
    BY DEF RequestInv
<1>2. PICK v \in Final : Ends(unactioned, net, v) /\ Whole(v) /\ Timely(v)
    BY DEF RequestInv
<1>3. v.type = unactioned.type /\ v.value = unactioned.value /\ v.id = unactioned.id
    BY <1>1, <1>2, EndsDone
<1>4. \A i \in 1..Len(net) : FALSE
    BY <1>1, EmptySeq
<1> QED BY <1>1, <1>2, <1>3, <1>4 DEF Whole, Timely

(* The record outside of the delay is as it was: so is what it ends in.     *)
LEMMA EndsSame ==
    ASSUME NEW u, NEW x, NEW ws, NEW v, Ends(u, ws, v), \A f \in Key : x[f] = u[f]
    PROVE  Ends(x, ws, v)
BY DEF Ends

(* Unless the threads meet in the record, it will end in one whole request  *)
(* after every step, if it would before.                                    *)
LEMMA OutcomeStep == TypeInv /\ RequestInv /\ [Next]_vars /\ ~raced' => ~raced /\ Outcome'
<1> SUFFICES ASSUME TypeInv, RequestInv, [Next]_vars, ~raced' PROVE ~raced /\ Outcome'
    OBVIOUS
<1>0. ~raced
    BY DEF Next, MainStep, Receive, NetWrite, NoticeDue, Choose, Apply, Clear, Tick, SetUnits,
           LightChanges, Notice, vars
<1>9. Outcome /\ (net = <<>> \/ main = "watching")
    BY <1>0 DEF RequestInv, Outcome
<1> SUFFICES Outcome'
    BY <1>0
<1>1. ASSUME NEW r \in Request, Receive(r) PROVE Outcome'
    <2>1. main' = main /\ unactioned' = unactioned /\ clears' = clears /\ net = <<>>
        BY <1>1 DEF Receive
    <2>2. net' = <<>> \/ main = "watching"
        BY <1>0, <1>1 DEF Receive, Notice
    <2>3. CASE main = "clearing"
        BY <1>9, <2>1, <2>3 DEF Outcome
    <2>4. CASE main # "clearing" /\ net' = <<>>
        <3>1. PICK v \in Final : Ends(unactioned, net, v) /\ Whole(v) /\ Timely(v)
            BY <1>9, <2>4 DEF Outcome
        <3>2. quiet' = quiet /\ net' = net
            BY <1>1, <2>1, <2>4 DEF Receive
        <3>3. \A i \in DOMAIN made : i \in DOMAIN made' /\ made'[i] = made[i]
            BY <1>1, MadeStays DEF Receive
        <3>4. Whole(v)'
            BY <3>1, <3>3 DEF Whole
        <3>5. Timely(v)'
            BY <2>1, <3>1, <3>2, <3>3 DEF Timely, Whole, LastWrite
        <3> QED BY <2>1, <2>4, <3>1, <3>2, <3>4, <3>5 DEF Outcome
    <2>5. CASE main # "clearing" /\ net' # <<>>
        <3>1. PICK v \in Final : Ends(unactioned', net', v) /\ Whole(v)' /\ Timely(v)'
            BY <1>1, <2>5, ReceiveEnds
        <3> QED BY <2>1, <2>5, <3>1 DEF Outcome
    <2> QED BY <2>3, <2>4, <2>5
<1>2. CASE NetWrite
    <2>1. main = "watching" /\ main' = main /\ net # <<>> /\ made' = made /\ net' = Tail(net)
        BY <1>2, <1>9 DEF NetWrite
    <2>2. PICK v \in Final : Ends(unactioned, net, v) /\ Whole(v) /\ Timely(v)
        BY <1>9, <2>1 DEF Outcome
    <2>3. Timely(v)'
        BY <1>2, <2>2, TimelyStep
    <2>4. net \in Seq(TypedWrite) /\ Head(net) \in TypedWrite
        BY <2>1, HeadTailProperties DEF TypeInv
    <2>5. \A f \in Key :
             unactioned'[f] = IF f = Head(net).field THEN Head(net).val ELSE unactioned[f]
        BY <1>2, <2>4, AssignOne DEF NetWrite, TypeInv, Key, Field
    <2>6. Ends(unactioned', Tail(net), v)
        BY <2>1, <2>2, <2>4, <2>5, EndsStep
    <2>7. Whole(v)'
        BY <2>1, <2>2 DEF Whole
    <2>8. Ends(unactioned', net', v) /\ main' # "clearing"
        BY <2>1, <2>6
    <2> QED BY <2>2, <2>3, <2>7, <2>8, Zenon DEF Outcome
<1>3. CASE NoticeDue \/ Choose
    <2>1. /\ main # "clearing" /\ main' # "clearing"
          /\ UNCHANGED <<unactioned, net, made, quiet>>
        BY <1>3 DEF NoticeDue, Choose
    <2> QED BY <1>9, <2>1 DEF Outcome, Whole, Timely, LastWrite
<1>4. CASE Apply
    <2> DEFINE n == unactioned.value
               follows == seen = "LIGHT" /\ n \in DOMAIN made /\ NeedsFollowUp(made[n])
               first == IF follows THEN FollowUp(n, made[n]) ELSE <<>>
               v == [type |-> "NO_ACTION", value |-> -1, id |-> -1]
    <2>1. main' = "clearing" /\ clears' = first \o Reset /\ unactioned' = unactioned
        BY <1>4 DEF Apply, Reset
    <2>2. n \in Number
        BY DEF TypeInv, Record
    <2>3. n \in DOMAIN made => made[n] \in Request
        <3>1. DOMAIN made = 1..Len(made) /\ Len(made) \in Nat
            BY LenProperties DEF TypeInv
        <3> QED BY <3>1, ElementOfSeq DEF TypeInv
    <2>4. first \in Seq(TypedWrite)
        BY <2>2, <2>3, FollowUpType, EmptySeq
    <2> HIDE DEF first
    <2>5. Ends(unactioned', clears', v)
        BY <2>1, <2>4, ResetEnds
    <2>6. v \in Final /\ v.type = "NO_ACTION"
        BY DEF Final, Number, Kind
    <2> HIDE DEF v
    <2> QED BY <2>1, <2>5, <2>6, Zenon DEF Outcome
<1>5. CASE Clear
    <2>1. main = "clearing" /\ clears # <<>> /\ clears' = Tail(clears)
          /\ net' = net /\ net = <<>>
          /\ main' = IF clears' = <<>> THEN "watching" ELSE "clearing"
        BY <1>5, <1>9 DEF Clear, TypeInv
    <2>2. PICK v \in Final : Ends(unactioned, clears, v) /\ v.type = "NO_ACTION"
        BY <1>9, <2>1 DEF Outcome
    <2>3. clears \in Seq(TypedWrite) /\ Head(clears) \in TypedWrite
        BY <2>1, HeadTailProperties DEF TypeInv
    <2>4. \A f \in Key :
             unactioned'[f] = IF f = Head(clears).field THEN Head(clears).val ELSE unactioned[f]
        BY <1>5, <2>3, AssignOne DEF Clear, TypeInv, Key, Field
    <2>5. Ends(unactioned', clears', v)
        BY <2>1, <2>2, <2>3, <2>4, EndsStep
    <2>6. Whole(v)' /\ Timely(v)'
        BY <2>2 DEF Whole, Timely
    <2>7. CASE clears' = <<>>
        <3>1. main' # "clearing"
            BY <2>1, <2>7
        <3>2. Ends(unactioned', net', v)
            BY <2>1, <2>5, <2>7
        <3> QED BY <2>2, <2>6, <3>1, <3>2, Zenon DEF Outcome
    <2>8. CASE clears' # <<>>
        <3>1. main' = "clearing"
            BY <2>1, <2>8
        <3> QED BY <2>2, <2>5, <3>1, Zenon DEF Outcome
    <2> QED BY <2>7, <2>8
<1>6. CASE Tick
    <2>1. UNCHANGED <<net, main, clears, made>>
        BY <1>6 DEF Tick
    <2>2. \A f \in Key : unactioned'[f] = unactioned[f]
        BY <1>6 DEF Tick, TypeInv, Record, Key
    <2>3. quiet + unactioned.due >= Delay => quiet' + unactioned'.due >= Delay
        <3>1. unactioned'.due = IF unactioned.due > 0 THEN unactioned.due - 1 ELSE 0
            BY <1>6 DEF Tick, TypeInv, Record
        <3>2. unactioned.due \in Nat /\ quiet \in 0..Delay /\ Delay \in Nat
            BY RequestAssumption DEF TypeInv, Record
        <3>3. quiet' = IF quiet < Delay THEN quiet + 1 ELSE quiet
            BY <1>6 DEF Tick
        <3> QED BY <3>1, <3>2, <3>3
    <2>4. CASE main = "clearing"
        <3>1. PICK v \in Final : Ends(unactioned, clears, v) /\ v.type = "NO_ACTION"
            BY <1>9, <2>4 DEF Outcome
        <3>2. Ends(unactioned', clears, v)
            BY <2>2, <3>1, EndsSame
        <3>3. Ends(unactioned', clears', v) /\ main' = "clearing"
            BY <2>1, <2>4, <3>2
        <3> QED BY <3>1, <3>3, Zenon DEF Outcome
    <2>5. CASE main # "clearing"
        <3>1. PICK v \in Final : Ends(unactioned, net, v) /\ Whole(v) /\ Timely(v)
            BY <1>9, <2>5 DEF Outcome
        <3>2. Ends(unactioned', net, v)
            BY <2>2, <3>1, EndsSame
        <3>3. Whole(v)' /\ Timely(v)'
            BY <2>1, <2>3, <3>1 DEF Whole, Timely, LastWrite
        <3>4. Ends(unactioned', net', v)
            BY <2>1, <3>2
        <3>5. main' # "clearing"
            BY <2>1, <2>5
        <3> QED BY <3>1, <3>3, <3>4, <3>5, Zenon DEF Outcome
    <2> QED BY <2>4, <2>5
<1>7. CASE SetUnits \/ LightChanges \/ UNCHANGED vars
    <2>1. UNCHANGED <<unactioned, net, main, clears, made, quiet>>
        BY <1>7 DEF SetUnits, LightChanges, vars
    <2> QED BY <1>9, <2>1 DEF Outcome, Ends, Whole, Timely, LastWrite
<1> QED BY <1>0, <1>1, <1>2, <1>3, <1>4, <1>5, <1>6, <1>7 DEF Next, MainStep

(* Every step keeps WholeRequest.                                           *)
LEMMA WholeStep == TypeInv /\ RequestInv /\ [Next]_vars => WholeRequest'
<1> SUFFICES ASSUME TypeInv, RequestInv, [Next]_vars, ~raced' PROVE WholeRequest'
    BY DEF WholeRequest
<1>1. ~raced /\ WholeRequest
    BY OutcomeStep DEF RequestInv
<1>2. ASSUME NEW r \in Request, Receive(r) PROVE WholeRequest'
    <2>1. /\ Len(made) + 1 \in DOMAIN made' /\ made'[Len(made) + 1] = r
          /\ \A i \in DOMAIN made : i \in DOMAIN made' /\ made'[i] = made[i]
        BY <1>2, MadeStays DEF Receive
    <2>2. CASE r.type = "LIGHT" /\ ~r.mqtt
        <3>1. acted' = [type |-> "LIGHT", value |-> Len(made) + 1, id |-> Len(made) + 1]
            BY <1>2, <2>2 DEF Receive
        <3> QED BY <2>1, <2>2, <3>1 DEF WholeRequest
    <2>3. CASE ~(r.type = "LIGHT" /\ ~r.mqtt)
        <3>1. acted' = acted
            BY <1>2, <2>3 DEF Receive
        <3> QED BY <1>1, <2>1, <3>1 DEF WholeRequest
    <2> QED BY <2>2, <2>3
<1>3. CASE Apply
    <2>1. /\ main = "applying" /\ made' = made
          /\ acted' = [type |-> seen, value |-> unactioned.value, id |-> unactioned.id]
        BY <1>3 DEF Apply
    <2>2. seen = unactioned.type
        BY <1>1, <2>1 DEF RequestInv
    <2>3. /\ unactioned.id \in DOMAIN made
          /\ made[unactioned.id].type = unactioned.type
          /\ unactioned.type # "VSPROGRAM" => unactioned.value = unactioned.id
        BY <1>1, <2>1, AllWritten
    <2> QED BY <2>1, <2>2, <2>3 DEF WholeRequest
<1>4. CASE NetWrite \/ NoticeDue \/ Choose \/ Clear \/ Tick \/ SetUnits \/ LightChanges
           \/ UNCHANGED vars
    <2>1. acted' = acted /\ made' = made
        BY <1>4 DEF NetWrite, NoticeDue, Choose, Clear, Tick, SetUnits, LightChanges, vars
    <2> QED BY <1>1, <2>1 DEF WholeRequest
<1> QED BY <1>2, <1>3, <1>4 DEF Next, MainStep

(* Every step keeps the invariant of the record.                            *)
LEMMA RequestStep == TypeInv /\ RequestInv /\ [Next]_vars => RequestInv'
<1> SUFFICES ASSUME TypeInv, RequestInv, [Next]_vars, ~raced'
             PROVE  /\ net' = <<>> \/ main' = "watching"
                    /\ main' \in {"acting", "applying"} =>
                          unactioned'.due = 0 /\ unactioned'.type # "NO_ACTION"
                    /\ main' = "applying" => seen' = unactioned'.type
    BY OutcomeStep, WholeStep, Zenon DEF RequestInv, Outcome
<1>0. /\ ~raced
      /\ net = <<>> \/ main = "watching"
      /\ main \in {"acting", "applying"} =>
            unactioned.due = 0 /\ unactioned.type # "NO_ACTION"
      /\ main = "applying" => seen = unactioned.type
    BY OutcomeStep DEF RequestInv
<1>1. ASSUME NEW r \in Request, Receive(r)
      PROVE  (net' = <<>> \/ main' = "watching") /\ UNCHANGED <<unactioned, main, seen>>
    BY <1>1 DEF Receive, Notice
<1>2. CASE NetWrite
    <2>1. main = "watching" /\ main' = "watching"
        BY <1>0, <1>2 DEF NetWrite
    <2> QED BY <2>1
<1>3. CASE NoticeDue
    BY <1>3 DEF NoticeDue, Notice
<1>4. CASE Choose
    BY <1>0, <1>4 DEF Choose
<1>5. CASE Apply
    BY <1>0, <1>5 DEF Apply
<1>6. CASE Clear
    BY <1>0, <1>6 DEF Clear
<1>7. CASE Tick
    <2>1. UNCHANGED <<net, main, seen>>
        BY <1>7 DEF Tick
    <2>2. unactioned'.type = unactioned.type
        BY <1>7 DEF Tick, TypeInv, Record
    <2>3. unactioned.due = 0 => unactioned'.due = 0
        BY <1>7 DEF Tick, TypeInv, Record
    <2> QED BY <1>0, <2>1, <2>2, <2>3
<1>8. CASE SetUnits \/ LightChanges \/ UNCHANGED vars
    <2>1. UNCHANGED <<unactioned, net, main, seen>>
        BY <1>8 DEF SetUnits, LightChanges, vars
    <2> QED BY <1>0, <2>1
<1> QED BY <1>0, <1>1, <1>2, <1>3, <1>4, <1>5, <1>6, <1>7, <1>8 DEF Next, MainStep

(* The invariant of the record holds throughout.                            *)
LEMMA RequestInvHolds == Spec => [](TypeInv /\ RequestInv)
<1>1. Init => RequestInv
    <2> SUFFICES ASSUME Init PROVE RequestInv
        OBVIOUS
    <2>1. PICK v : v = [type |-> "NO_ACTION", value |-> -1, id |-> -1]
        OBVIOUS
    <2>2. v \in Final /\ v.type = "NO_ACTION"
        BY <2>1 DEF Final, Number, Kind
    <2>3. \A f \in Key : v[f] = unactioned[f]
        BY <2>1 DEF Init, NoAction, Key
    <2>4. \A i \in 1..Len(net) : FALSE
        BY EmptySeq DEF Init
    <2>5. Ends(unactioned, net, v)
        BY <2>3, <2>4 DEF Ends
    <2>6. Whole(v) /\ Timely(v)
        BY <2>2 DEF Whole, Timely
    <2>7. WholeRequest
        BY DEF Init, WholeRequest
    <2>8. main = "watching" /\ net = <<>>
        BY DEF Init
    <2> QED BY <2>2, <2>5, <2>6, <2>7, <2>8 DEF RequestInv
<1>2. TypeInv /\ RequestInv /\ [Next]_vars => RequestInv'
    BY RequestStep
<1> QED BY <1>1, <1>2, TypeInvHolds, PTL DEF Spec

(* As long as the two threads do not meet in the record, what the main      *)
(* thread acts on is one request that has been made: its type, its value    *)
(* and its id are those of the same call of panel_device_request.           *)
THEOREM ActsOnOneRequest == Spec => []WholeRequest
<1>1. RequestInv => WholeRequest
    BY DEF RequestInv
<1> QED BY <1>1, RequestInvHolds, PTL

(* One step does not act on a request from MQTT before the delay is over    *)
(* without another request.                                                 *)
LEMMA QuietStep ==
    TypeInv /\ RequestInv /\ [Next]_vars =>
        (acted' # acted /\ ~raced' /\ ByMQTT(acted'.id) => quiet >= Delay)
<1> SUFFICES ASSUME TypeInv, RequestInv, [Next]_vars,
                    acted' # acted, ~raced', ByMQTT(acted'.id)
             PROVE  quiet >= Delay
    OBVIOUS
<1>1. ~raced
    BY OutcomeStep
<1>2. ASSUME NEW r \in Request, Receive(r) PROVE FALSE
    <2>1. r.type = "LIGHT" /\ ~r.mqtt
        BY <1>2 DEF Receive
    <2>2. acted' = [type |-> "LIGHT", value |-> Len(made) + 1, id |-> Len(made) + 1]
        BY <1>2, <2>1 DEF Receive
    <2>3. made'[Len(made) + 1] = r
        BY <1>2, MadeStays DEF Receive
    <2> QED BY <2>1, <2>2, <2>3 DEF ByMQTT
<1>3. ASSUME Apply PROVE quiet >= Delay
    <2>1. /\ main = "applying" /\ made' = made
          /\ acted' = [type |-> seen, value |-> unactioned.value, id |-> unactioned.id]
        BY <1>3 DEF Apply
    <2>2. made[unactioned.id].mqtt
        BY <2>1 DEF ByMQTT
    <2>3. quiet + unactioned.due >= Delay /\ unactioned.due = 0
        BY <1>1, <2>1, <2>2, AllWritten
    <2>4. quiet \in Nat
        BY RequestAssumption DEF TypeInv
    <2> QED BY <2>3, <2>4
<1>4. ASSUME NetWrite \/ NoticeDue \/ Choose \/ Clear \/ Tick \/ SetUnits \/ LightChanges
             \/ UNCHANGED vars
      PROVE  acted' = acted
    BY <1>4 DEF NetWrite, NoticeDue, Choose, Clear, Tick, SetUnits, LightChanges, vars
<1> QED BY <1>2, <1>3, <1>4 DEF Next, MainStep

(* A request from MQTT is acted on only when no other has been put off for  *)
(* the whole delay, so of a burst only the last is acted on, whatever its   *)
(* requests are, as long as the two threads do not meet in the record.      *)
THEOREM ActsAfterTheDelay == Spec => QuietBeforeAction
<1>1. TypeInv /\ RequestInv /\ [Next]_vars =>
          [acted' # acted /\ ~raced' /\ ByMQTT(acted'.id) => quiet >= Delay]_vars
    BY QuietStep
<1> QED BY <1>1, RequestInvHolds, PTL DEF Spec, QuietBeforeAction
=============================================================================
