-------------------------- MODULE AllButtonProofs --------------------------
(* Proofs about the programs of the AllButton remote: undisturbed, those    *)
(* that set a number and those that read pages end as they were asked to.   *)
EXTENDS Programs, SequenceTheorems, TLAPS

-----------------------------------------------------------------------------
(* The steps that are left, one by one.                                     *)
Ops == {"menu", "menuFound", "sub", "seek", "orCancel", "orTry", "field", "adjust",
        "key", "empty", "wait", "parked", "tell", "until", "end"}
Items == {"PROMPT", "REVIEW", "SET_TEMP", "SET_AQUAPURE", "SYSTEM_SETUP",
          "AUX_LABELS", "TEMP_SET", "FRZ_PROTECT", "SET_POOL_TEMP", "SET_SPA_TEMP", "SET_TEMP1",
          "SET_POOL_SP", "SET_SPA_SP", "DIAGNOSTICS", "TEMP_SETTING"}
Numbers == {"POOL", "SPA", "TEMP1", "POOL_SP", "SPA_SP", "FRZ"}
Keys == {"menu", "right", "left", "enter", "cancel"}
Args == Items \union Numbers \union Keys
        \union {"", "NULL", "SET_AQUARITE", "IS_SET_TO", "MUST_BE_SET", "MAINTAIN_TEMP_IS",
                "FREEZE_PROTECTION_IS_SET_TO"}
Steps == [op : Ops, arg : Args, val : Int, n : Int]
Cons(a, T) == <<a>> \o T

LEMMA StepIs ==
    ASSUME NEW o \in Ops, NEW a \in Args, NEW v \in Int, NEW n \in Int
    PROVE  /\ Step(o, a, v, n) \in Steps
           /\ Step(o, a, v, n).op = o /\ Step(o, a, v, n).arg = a
           /\ Step(o, a, v, n).val = v /\ Step(o, a, v, n).n = n
BY DEF Steps, Step

LEMMA ConsIs ==
    ASSUME NEW S, NEW a \in S, NEW T \in Seq(S)
    PROVE  /\ Cons(a, T) \in Seq(S) /\ Cons(a, T) # <<>>
           /\ Head(Cons(a, T)) = a /\ Tail(Cons(a, T)) = T
BY DEF Cons

LEMMA PairIs ==
    ASSUME NEW S, NEW x \in S, NEW y \in S
    PROVE  <<x>> \o <<y>> = <<x, y>> /\ <<x>> \in Seq(S) /\ <<x, y>> \in Seq(S)
<1>1. PICK v, w : v = <<x, y>> /\ w = <<x>> \o <<y>>
    OBVIOUS
<1>2. v \in Seq(S) /\ Len(v) = 2 /\ v[1] = x /\ v[2] = y
    BY <1>1
<1>3. w \in Seq(S) /\ Len(w) = 2 /\ w[1] = x /\ w[2] = y
    BY <1>1
<1>4. v = w
    BY <1>2, <1>3, SeqEqual
<1>5. <<x>> \in Seq(S)
    OBVIOUS
<1> QED BY <1>1, <1>2, <1>4, <1>5

LEMMA ConsOfTwo ==
    ASSUME NEW S, NEW T \in Seq(S), NEW a \in S, NEW b \in S
    PROVE  <<a, b>> \o T = Cons(a, Cons(b, T))
<1>1. <<a>> \o <<b>> = <<a, b>> /\ <<a>> \in Seq(S) /\ <<b>> \in Seq(S)
    BY PairIs
<1>2. <<a>> \o (<<b>> \o T) = (<<a>> \o <<b>>) \o T
    BY <1>1, ConcatAssociative
<1> QED BY <1>1, <1>2 DEF Cons

LEMMA ConsOfThree ==
    ASSUME NEW S, NEW T \in Seq(S), NEW a \in S, NEW b \in S, NEW c \in S
    PROVE  <<a, b, c>> \o T = Cons(a, Cons(b, Cons(c, T)))
<1>1. PICK u, v, w : u = <<b, c>> /\ v = <<a, b, c>> /\ w = <<a>> \o u
    OBVIOUS
<1>2. u \in Seq(S) /\ Len(u) = 2 /\ u[1] = b /\ u[2] = c
    BY <1>1
<1>3. v \in Seq(S) /\ Len(v) = 3 /\ v[1] = a /\ v[2] = b /\ v[3] = c
    BY <1>1
<1>4. w \in Seq(S) /\ Len(w) = 3 /\ w[1] = a /\ w[2] = b /\ w[3] = c
    BY <1>1, <1>2
<1>5. v = w
    BY <1>3, <1>4, SeqEqual
<1>6. u \o T = Cons(b, Cons(c, T))
    BY <1>1, ConsOfTwo
<1>7. <<a>> \in Seq(S)
    OBVIOUS
<1>8. <<a>> \o (u \o T) = (<<a>> \o u) \o T
    BY <1>2, <1>7, ConcatAssociative
<1> QED BY <1>1, <1>5, <1>6, <1>8 DEF Cons

LEMMA ConsOfFour ==
    ASSUME NEW S, NEW T \in Seq(S), NEW a \in S, NEW b \in S, NEW c \in S, NEW d \in S
    PROVE  <<a, b, c, d>> \o T = Cons(a, Cons(b, Cons(c, Cons(d, T))))
<1>1. PICK u, v, w : u = <<b, c, d>> /\ v = <<a, b, c, d>> /\ w = <<a>> \o u
    OBVIOUS
<1>2. u \in Seq(S) /\ Len(u) = 3 /\ u[1] = b /\ u[2] = c /\ u[3] = d
    BY <1>1
<1>3. v \in Seq(S) /\ Len(v) = 4 /\ v[1] = a /\ v[2] = b /\ v[3] = c /\ v[4] = d
    BY <1>1
<1>4. w \in Seq(S) /\ Len(w) = 4 /\ w[1] = a /\ w[2] = b /\ w[3] = c /\ w[4] = d
    BY <1>1, <1>2
<1>5. v = w
    BY <1>3, <1>4, SeqEqual
<1>6. u \o T = Cons(b, Cons(c, Cons(d, T)))
    BY <1>1, ConsOfThree
<1>7. <<a>> \in Seq(S)
    OBVIOUS
<1>8. <<a>> \o (u \o T) = (<<a>> \o u) \o T
    BY <1>2, <1>7, ConcatAssociative
<1> QED BY <1>1, <1>5, <1>6, <1>8 DEF Cons

(* The thread is at the step a, and T is what follows.                      *)
Front(a, T) == a \in Steps /\ T \in Seq(Steps) /\ todo = Cons(a, T)

LEMMA FrontIs ==
    ASSUME NEW a, NEW T, Front(a, T)
    PROVE  AllButton!Working /\ AllButton!Now = a /\ Tail(todo) = T
BY ConsIs DEF Front, AllButton!Working, AllButton!Now

LEMMA DoIs ==
    ASSUME NEW a, NEW T, Front(a, T), NEW b \in Steps, NEW c \in Steps, NEW d \in Steps, NEW e \in Steps
    PROVE  /\ AllButton!Do(<<>>) => todo' = T
           /\ AllButton!Do(<<b>>) => Front(b, T)'
           /\ AllButton!Do(<<b, c>>) => Front(b, Cons(c, T))'
           /\ AllButton!Do(<<b, c, d>>) => Front(b, Cons(c, Cons(d, T)))'
           /\ AllButton!Do(<<b, c, d, e>>) => Front(b, Cons(c, Cons(d, Cons(e, T))))'
<1>1. Tail(todo) = T /\ T \in Seq(Steps)
    BY FrontIs DEF Front
<1>2. /\ Cons(e, T) \in Seq(Steps) /\ Cons(d, T) \in Seq(Steps) /\ Cons(c, T) \in Seq(Steps)
    BY <1>1, ConsIs
<1>3. Cons(d, Cons(e, T)) \in Seq(Steps) /\ Cons(c, Cons(d, T)) \in Seq(Steps)
    BY <1>2, ConsIs
<1>4. Cons(c, Cons(d, Cons(e, T))) \in Seq(Steps)
    BY <1>3, ConsIs
<1>5. <<>> \o T = T /\ <<b>> \o T = Cons(b, T)
    BY <1>1 DEF Cons
<1>6. <<b, c>> \o T = Cons(b, Cons(c, T))
    BY <1>1, ConsOfTwo
<1>7. <<b, c, d>> \o T = Cons(b, Cons(c, Cons(d, T)))
    BY <1>1, ConsOfThree
<1>8. <<b, c, d, e>> \o T = Cons(b, Cons(c, Cons(d, Cons(e, T))))
    BY <1>1, ConsOfFour
<1> QED BY <1>1, <1>2, <1>3, <1>4, <1>5, <1>6, <1>7, <1>8 DEF Front, AllButton!Do

-----------------------------------------------------------------------------
(* The bus, undisturbed.                                                    *)
Numeric == {"AQ_SET_POOL_HEATER_TEMP", "AQ_SET_SPA_HEATER_TEMP", "TEMP1_HEATER_TEMP",
            "AQ_SET_FRZ_PROTECTION_TEMP", "AQ_SET_SWG_PERCENT", "SPA_SWG_PERCENT"}
Reading == {"AQ_GET_AUX_LABELS", "AQ_GET_DIAGNOSTICS_MODEL", "AQ_GET_POOL_SPA_HEATER_TEMPS",
            "AQ_GET_FREEZE_PROTECT_TEMP"}
OfAllButton == emulation = "allbutton" /\ prog \in Numeric \union Reading /\ want \in Values

PanelOk(p) ==
    /\ p = [page |-> p.page, line |-> p.line, value |-> p.value, on |-> p.on,
            program |-> p.program, stored |-> p.stored]
    /\ p.stored \in [AllButton!Settings -> Values]
ShownOk(sh) == sh = [text |-> sh.text, val |-> sh.val, led |-> sh.led]
OutOk == (out = <<>> /\ expect = 0) \/ (out = <<"message">> /\ expect \in {0, 1})
Calm == OfAllButton /\ mishaps = {} /\ stack = <<>> /\ OutOk

(* The panel fetches a key, and shows what it has to show.                  *)
Fetches ==
    /\ out = <<>> /\ AllButton!Asleep
    /\ panel' = AllButton!Press(panel, IF todo # <<>> THEN key ELSE AllButton!NoKey)
    /\ key' = IF todo # <<>> THEN AllButton!NoKey ELSE key
    /\ shown' = [shown EXCEPT !.led = panel.on]
    /\ out' = <<"message">> /\ expect' \in {0, 1}
    /\ UNCHANGED <<emulation, prog, want, todo, found, failed, told, stack>>
Hears ==
    /\ out # <<>> /\ AllButton!Asleep
    /\ shown' = AllButton!Display(shown, panel)
    /\ panel' = AllButton!AfterDisplay(panel)
    /\ AllButton!KickThread(shown')
    /\ out' = <<>> /\ expect' = 0
    /\ UNCHANGED <<emulation, prog, want, failed, told, key, stack>>
Thinks ==
    /\ AllButton!ThreadStep
    /\ mishaps' = {}

LEMMA NotAMishap ==
    ASSUME mishaps = {}, mishaps' = {}, NEW w, AllButton!Goes(w)
    PROVE  FALSE
BY DEF AllButton!Goes

LEMMA ItsStep ==
    ASSUME emulation = "allbutton", Next
    PROVE  AllButton!ThreadStep \/ AllButton!StatusPoll \/ AllButton!MessagePoll \/ AllButton!UserKey
<1>1. ~OneTouch!Next /\ ~IaqTouch!Next /\ ~Pda!Next
    BY DEF OneTouch!Next, IaqTouch!Next, Pda!Next
<1> QED BY <1>1 DEF Next, AllButton!Next

LEMMA QuietStep ==
    ASSUME Calm, Next, mishaps' = {}
    PROVE  Thinks \/ Fetches \/ Hears
<1>1. CASE AllButton!ThreadStep
    BY <1>1 DEF Thinks
<1>2. CASE AllButton!StatusPoll
    <2>1. PICK c : c = AllButton!pop_allb_cmd
        OBVIOUS
    <2>2. c = IF todo # <<>> THEN key ELSE AllButton!NoKey
        BY <2>1 DEF AllButton!pop_allb_cmd, Calm, OutOk, AllButton!Working
    <2>3. ~(expect > 3)
        BY DEF Calm, OutOk
    <2>4. out = <<>> /\ AllButton!Turn /\ panel' = AllButton!Press(panel, c)
        <3>1. \/ out = <<>> /\ AllButton!Turn /\ panel' = AllButton!Press(panel, c)
              \/ AllButton!Goes("lost")
              \/ "slow" \in mishaps
              \/ AllButton!Goes("slow")
            BY <1>2, <2>1 DEF AllButton!StatusPoll
        <3> QED BY <3>1, NotAMishap DEF Calm
    <2>5. AllButton!Asleep
        BY <2>4, NotAMishap DEF AllButton!Turn, Calm
    <2>6. /\ key' = IF todo # <<>> THEN AllButton!NoKey ELSE key
          /\ stack' = stack
        BY <1>2, <2>3 DEF AllButton!StatusPoll, Calm, AllButton!Working
    <2>7. expect' \in {0, 1}
        BY <1>2, <2>3, <2>4 DEF AllButton!StatusPoll, Calm, OutOk
    <2>8. UNCHANGED <<todo, found>>
        BY <1>2 DEF AllButton!StatusPoll, Calm, OfAllButton, Numeric, Reading
    <2>9. /\ shown' = [shown EXCEPT !.led = panel.on] /\ out' = <<"message">>
          /\ UNCHANGED <<emulation, prog, want, failed, told>>
        BY <1>2 DEF AllButton!StatusPoll
    <2> QED BY <2>2, <2>4, <2>5, <2>6, <2>7, <2>8, <2>9 DEF Fetches
<1>3. CASE AllButton!MessagePoll
    <2>1. AllButton!Turn /\ shown' = AllButton!Display(shown, panel) /\ panel' = AllButton!AfterDisplay(panel)
        BY <1>3, NotAMishap DEF AllButton!MessagePoll, Calm
    <2>2. AllButton!Asleep
        BY <2>1, NotAMishap DEF AllButton!Turn, Calm
    <2> QED BY <1>3, <2>1, <2>2 DEF AllButton!MessagePoll, Hears
<1>4. CASE AllButton!UserKey
    BY <1>4, NotAMishap DEF AllButton!UserKey, Calm
<1> QED BY <1>1, <1>2, <1>3, <1>4, ItsStep DEF Calm, OfAllButton

(* What a step of the thread is, by the step that it is at.                 *)
LEMMA ThoughtIs ==
    ASSUME Calm, Thinks, NEW a, NEW T, Front(a, T)
    PROVE  /\ a.op = "key" => AllButton!SendKey
           /\ a.op = "empty" => AllButton!QueueEmpty /\ key = AllButton!NoKey
           /\ a.op = "tell" => AllButton!TellClients
           /\ a.op = "end" => AllButton!EndProgram /\ key = AllButton!NoKey
           /\ a.op = "wait" => AllButton!waitForMessage
           /\ a.op = "menu" => AllButton!SelectMenu
           /\ a.op = "menuFound" => AllButton!MenuFound
           /\ a.op = "sub" => AllButton!SelectSub
           /\ a.op = "seek" => AllButton!Seek
           /\ a.op = "orCancel" => AllButton!GiveUpOrGoOn
           /\ a.op = "orTry" => AllButton!TryOther
           /\ a.op = "field" => AllButton!FieldWait
           /\ a.op = "adjust" => AllButton!Adjust
           /\ a.op = "until" => AllButton!TextGone
           /\ a.op # "parked"
<1>1. AllButton!Now = a
    BY FrontIs
<1>2. \A op : AllButton!At(op) => a.op = op
    BY <1>1 DEF AllButton!At
<1>3. a.op \in Ops
    BY DEF Front, Steps
<1>4. /\ AllButton!SendKey => a.op = "key"
      /\ AllButton!QueueEmpty => a.op = "empty"
      /\ AllButton!DelayOver => a.op = "delay"
      /\ AllButton!TellClients => a.op = "tell"
      /\ AllButton!EndProgram => a.op = "end"
      /\ ~AllButton!SendKeyLate(AllButton!Now.arg)
    BY <1>2, NotAMishap DEF AllButton!SendKey, AllButton!QueueEmpty, AllButton!DelayOver, AllButton!TellClients,
       AllButton!EndProgram, AllButton!SendKeyLate, Thinks, Calm
<1>5. /\ AllButton!waitForMessage => a.op = "wait"
      /\ AllButton!SelectMenu => a.op = "menu"
      /\ AllButton!MenuFound => a.op = "menuFound"
      /\ AllButton!SelectSub => a.op = "sub"
      /\ AllButton!Seek => a.op = "seek"
      /\ AllButton!GiveUpOrGoOn => a.op = "orCancel"
      /\ AllButton!FieldWait => a.op = "field"
      /\ AllButton!Adjust => a.op = "adjust"
      /\ AllButton!TryOther => a.op = "orTry"
      /\ AllButton!TextGone => a.op = "until"
    BY <1>2 DEF AllButton!waitForMessage, AllButton!SelectMenu, AllButton!MenuFound, AllButton!SelectSub,
       AllButton!Seek, AllButton!GiveUpOrGoOn, AllButton!FieldWait, AllButton!Adjust, AllButton!TryOther,
       AllButton!TextGone
<1>6. /\ AllButton!LightOff => a.op = "lightOff"
      /\ AllButton!LightMode => a.op = "mode"
      /\ AllButton!ModeShown => a.op = "modeShown"
      /\ AllButton!BoostStop => a.op = "stop"
      /\ AllButton!StopShown => a.op = "stopShown"
      /\ AllButton!PulseLight => a.op = "pulse"
      /\ AllButton!LightForgets => a.op = "reset"
      /\ AllButton!EndOrGoOn => a.op = "orEnd"
      /\ AllButton!EnterOrCancel => a.op = "enterOrCancel"
    BY <1>2 DEF AllButton!LightOff, AllButton!LightMode, AllButton!ModeShown, AllButton!BoostStop,
       AllButton!StopShown, AllButton!PulseLight, AllButton!LightForgets, AllButton!EndOrGoOn, AllButton!EnterOrCancel
<1>7. /\ AllButton!QueueEmpty => key = AllButton!NoKey
      /\ AllButton!EndProgram => key = AllButton!NoKey
    BY NotAMishap DEF AllButton!QueueEmpty, AllButton!EndProgram, Thinks, Calm
<1> QED BY <1>3, <1>4, <1>5, <1>6, <1>7
        DEF Thinks, AllButton!ThreadStep, AllButton!CommonStep, AllButton!Deciders, Ops

(* What no step changes; a step of the thread leaves the packets alone.     *)
Kept == UNCHANGED <<emulation, prog, want, stack>>
Quiets == Kept /\ UNCHANGED <<out, expect, shown>>

LEMMA ThoughtKeeps ==
    ASSUME Thinks
    PROVE  Quiets
<1>1. CASE AllButton!CommonStep /\ UNCHANGED AllButton!allbuttonVars
    BY <1>1 DEF AllButton!CommonStep, AllButton!SendKey, AllButton!QueueEmpty, AllButton!DelayOver,
       AllButton!TellClients, AllButton!EndProgram, AllButton!Deciding, AllButton!busVars,
       AllButton!allbuttonVars, Quiets, Kept
<1>2. CASE AllButton!SendKeyLate(AllButton!Now.arg) /\ UNCHANGED AllButton!allbuttonVars
    BY <1>2 DEF AllButton!SendKeyLate, AllButton!allbuttonVars, Quiets, Kept
<1>3. CASE AllButton!waitForMessage \/ AllButton!LightForgets
    BY <1>3 DEF AllButton!waitForMessage, AllButton!LightForgets, AllButton!Deciding, AllButton!busVars,
       AllButton!allbuttonVars, Quiets, Kept
<1>4. \A x : AllButton!Only(x) => AllButton!Unmoved
    BY DEF AllButton!Only
<1>5. AllButton!Unmoved => Quiets
    BY DEF AllButton!Unmoved, AllButton!Deciding, AllButton!busVars, Quiets, Kept
<1>6. CASE AllButton!SelectMenu \/ AllButton!MenuFound \/ AllButton!SelectSub \/ AllButton!Seek
           \/ AllButton!GiveUpOrGoOn \/ AllButton!FieldWait \/ AllButton!Adjust
    BY <1>4, <1>5, <1>6 DEF AllButton!SelectMenu, AllButton!MenuFound, AllButton!SelectSub, AllButton!Seek,
       AllButton!GiveUpOrGoOn, AllButton!FieldWait, AllButton!Adjust
<1>7. CASE AllButton!LightOff \/ AllButton!LightMode \/ AllButton!ModeShown \/ AllButton!BoostStop
           \/ AllButton!StopShown \/ AllButton!PulseLight
    BY <1>4, <1>5, <1>7 DEF AllButton!LightOff, AllButton!LightMode, AllButton!ModeShown, AllButton!BoostStop,
       AllButton!StopShown, AllButton!PulseLight
<1>8. CASE AllButton!TryOther \/ AllButton!TextGone \/ AllButton!EndOrGoOn \/ AllButton!EnterOrCancel
    BY <1>4, <1>5, <1>8 DEF AllButton!TryOther, AllButton!TextGone, AllButton!EndOrGoOn, AllButton!EnterOrCancel
<1> QED BY <1>1, <1>2, <1>3, <1>6, <1>7, <1>8 DEF Thinks, AllButton!ThreadStep, AllButton!Deciders

LEMMA CalmNext ==
    ASSUME Calm, Next, mishaps' = {}
    PROVE  Calm' /\ Kept
<1>1. CASE Thinks
    BY <1>1, ThoughtKeeps DEF Calm, OfAllButton, OutOk, Quiets, Kept
<1>2. CASE Fetches
    BY <1>2 DEF Fetches, Calm, OfAllButton, OutOk, Kept
<1>3. CASE Hears
    BY <1>3 DEF Hears, Calm, OfAllButton, OutOk, Kept
<1> QED BY <1>1, <1>2, <1>3, QuietStep

-----------------------------------------------------------------------------
(* The panel.                                                               *)
LEMMA OnPageIs ==
    ASSUME NEW p, PanelOk(p), NEW pg, NEW q, q = AllButton!OnPage(p, pg)
    PROVE  /\ PanelOk(q) /\ q.page = pg /\ q.line = 1
           /\ q.value = p.value /\ q.stored = p.stored
BY DEF PanelOk, AllButton!OnPage

LEMMA OpenIs ==
    ASSUME NEW p, PanelOk(p), NEW pg, pg # "boost", NEW q, q = AllButton!Open(p, pg)
    PROVE  /\ PanelOk(q) /\ q.page = pg /\ q.line = 1 /\ q.stored = p.stored
           /\ pg \in AllButton!Fields => q.value = p.stored[pg]
<1>1. PICK r : r = AllButton!OnPage(p, pg)
    OBVIOUS
<1>2. /\ PanelOk(r) /\ r.page = pg /\ r.line = 1 /\ r.stored = p.stored
    BY <1>1, OnPageIs
<1>3. CASE pg \in AllButton!Fields
    <2>1. q = [r EXCEPT !.value = p.stored[pg]]
        BY <1>1, <1>3 DEF AllButton!Open
    <2> QED BY <1>2, <1>3, <2>1 DEF PanelOk
<1>4. CASE pg \notin AllButton!Fields
    <2>1. q = r
        BY <1>1, <1>4 DEF AllButton!Open
    <2> QED BY <1>2, <1>4, <2>1
<1> QED BY <1>3, <1>4

LEMMA StoreIs ==
    ASSUME NEW p, PanelOk(p), NEW s \in AllButton!Settings, NEW v \in Values,
           NEW q, q = AllButton!Store(p, s, v)
    PROVE  /\ PanelOk(q) /\ q.page = p.page /\ q.line = p.line /\ q.value = p.value
           /\ q.stored[s] = v
<1>1. q = [p EXCEPT !.stored[s] = v]
    BY DEF AllButton!Store
<1>2. q.stored = [p.stored EXCEPT ![s] = v]
    BY <1>1 DEF PanelOk
<1>3. q.stored \in [AllButton!Settings -> Values] /\ q.stored[s] = v
    BY <1>2 DEF PanelOk
<1>4. /\ q.page = p.page /\ q.line = p.line /\ q.value = p.value
      /\ q = [page |-> q.page, line |-> q.line, value |-> q.value, on |-> q.on,
              program |-> q.program, stored |-> q.stored]
    BY <1>1 DEF PanelOk
<1> QED BY <1>3, <1>4 DEF PanelOk

(* Which page each item of a page leads to; no other item there has its     *)
(* name.                                                                    *)
Leads(pg, i, to, at) ==
    /\ pg \in {"menu", "review", "temp", "aquapure", "setup", "freeze"}
    /\ i \in Items /\ to \notin {"boost", "OFF", "IS_SET_TO", "TURNS_ON"}
    /\ Len(AllButton!Pages[pg]) \in 1..7 /\ at \in 1..Len(AllButton!Pages[pg])
    /\ AllButton!Pages[pg][at].to = to /\ AllButton!Pages[pg][at].text = i
    /\ \A l \in 1..Len(AllButton!Pages[pg]) :
           l # at => /\ AllButton!Pages[pg][l].text # i
                     /\ <<AllButton!Pages[pg][l].text, i>> \notin AllButton!Includes

LEMMA MenuLeads ==
    /\ Leads("menu", "REVIEW", "review", 2)
    /\ Leads("menu", "SET_TEMP", "temp", 3)
    /\ Leads("menu", "SET_AQUAPURE", "aquapure", 5)
    /\ Leads("menu", "SYSTEM_SETUP", "setup", 7)
<1>1. PICK m : m = AllButton!Pages["menu"]
    OBVIOUS
<1>2. m = <<AllButton!Item("PROMPT", "menu"), AllButton!Item("REVIEW", "review"),
            AllButton!Item("SET_TEMP", "temp"), AllButton!Item("SET_TIME", "YEAR"),
            AllButton!Item("SET_AQUAPURE", "aquapure"), AllButton!Item("BOOST_POOL", "boost"),
            AllButton!Item("SYSTEM_SETUP", "setup")>>
    BY <1>1 DEF AllButton!Pages
<1>3. /\ m[1].text = "PROMPT" /\ m[2].text = "REVIEW" /\ m[3].text = "SET_TEMP" /\ m[4].text = "SET_TIME"
      /\ m[5].text = "SET_AQUAPURE" /\ m[6].text = "BOOST_POOL" /\ m[7].text = "SYSTEM_SETUP"
    BY <1>2 DEF AllButton!Item
<1>4. /\ m[2].to = "review" /\ m[3].to = "temp" /\ m[5].to = "aquapure" /\ m[7].to = "setup"
    BY <1>2 DEF AllButton!Item
<1>5. Len(m) = 7 /\ 1..Len(m) = {1, 2, 3, 4, 5, 6, 7}
    BY <1>2
<1> QED BY <1>1, <1>3, <1>4, <1>5 DEF Leads, Items, AllButton!Includes

LEMMA ReviewLeads ==
    /\ Leads("review", "AUX_LABELS", "LABELS", 1)
    /\ Leads("review", "TEMP_SET", "MAINTAIN_TEMP_IS", 2)
    /\ Leads("review", "FRZ_PROTECT", "FREEZE_PROTECTION_IS_SET_TO", 3)
<1>1. PICK m : m = AllButton!Pages["review"]
    OBVIOUS
<1>2. m = <<AllButton!Item("AUX_LABELS", "LABELS"), AllButton!Item("TEMP_SET", "MAINTAIN_TEMP_IS"),
            AllButton!Item("FRZ_PROTECT", "FREEZE_PROTECTION_IS_SET_TO"),
            AllButton!Item("PROGRAMS", "SELECT_DEVICE")>>
    BY <1>1 DEF AllButton!Pages
<1>3. /\ m[1].text = "AUX_LABELS" /\ m[2].text = "TEMP_SET" /\ m[3].text = "FRZ_PROTECT" /\ m[4].text = "PROGRAMS"
      /\ m[1].to = "LABELS" /\ m[2].to = "MAINTAIN_TEMP_IS" /\ m[3].to = "FREEZE_PROTECTION_IS_SET_TO"
    BY <1>2 DEF AllButton!Item
<1>4. Len(m) = 4 /\ 1..Len(m) = {1, 2, 3, 4}
    BY <1>2
<1> QED BY <1>1, <1>3, <1>4 DEF Leads, Items, AllButton!Includes

LEMMA TempLeads ==
    /\ Leads("temp", "SET_POOL_TEMP", "POOL", 1)
    /\ Leads("temp", "SET_SPA_TEMP", "SPA", 2)
    /\ Leads("temp", "SET_TEMP1", "MUST_BE_SET", 3)
<1>1. PICK m : m = AllButton!Pages["temp"]
    OBVIOUS
<1>2. m = <<AllButton!Item("SET_POOL_TEMP", "POOL"), AllButton!Item("SET_SPA_TEMP", "SPA"),
            AllButton!Item("SET_TEMP1", "MUST_BE_SET")>>
    BY <1>1 DEF AllButton!Pages
<1>3. /\ m[1].text = "SET_POOL_TEMP" /\ m[2].text = "SET_SPA_TEMP" /\ m[3].text = "SET_TEMP1"
      /\ m[1].to = "POOL" /\ m[2].to = "SPA" /\ m[3].to = "MUST_BE_SET"
    BY <1>2 DEF AllButton!Item
<1>4. Len(m) = 3 /\ 1..Len(m) = {1, 2, 3}
    BY <1>2
<1> QED BY <1>1, <1>3, <1>4 DEF Leads, Items, AllButton!Includes

LEMMA OthersLead ==
    /\ Leads("aquapure", "SET_POOL_SP", "POOL_SP", 1)
    /\ Leads("aquapure", "SET_SPA_SP", "SPA_SP", 2)
    /\ Leads("setup", "FRZ_PROTECT", "freeze", 1)
    /\ Leads("setup", "DIAGNOSTICS", "DIAGNOSTICS", 2)
    /\ Leads("freeze", "TEMP_SETTING", "FRZ", 1)
<1>1. PICK m, s, f :
        m = AllButton!Pages["aquapure"] /\ s = AllButton!Pages["setup"] /\ f = AllButton!Pages["freeze"]
    OBVIOUS
<1>2. /\ m = <<AllButton!Item("SET_POOL_SP", "POOL_SP"), AllButton!Item("SET_SPA_SP", "SPA_SP")>>
      /\ s = <<AllButton!Item("FRZ_PROTECT", "freeze"), AllButton!Item("DIAGNOSTICS", "DIAGNOSTICS")>>
      /\ f = <<AllButton!Item("TEMP_SETTING", "FRZ")>>
    BY <1>1 DEF AllButton!Pages
<1>3. /\ m[1].text = "SET_POOL_SP" /\ m[2].text = "SET_SPA_SP" /\ m[1].to = "POOL_SP" /\ m[2].to = "SPA_SP"
      /\ Len(m) = 2 /\ 1..Len(m) = {1, 2}
    BY <1>2 DEF AllButton!Item
<1>4. /\ s[1].text = "FRZ_PROTECT" /\ s[2].text = "DIAGNOSTICS" /\ s[1].to = "freeze" /\ s[2].to = "DIAGNOSTICS"
      /\ Len(s) = 2 /\ 1..Len(s) = {1, 2}
    BY <1>2 DEF AllButton!Item
<1>5. f[1].text = "TEMP_SETTING" /\ f[1].to = "FRZ" /\ Len(f) = 1 /\ 1..Len(f) = {1}
    BY <1>2 DEF AllButton!Item
<1>6. Leads("aquapure", "SET_POOL_SP", "POOL_SP", 1) /\ Leads("aquapure", "SET_SPA_SP", "SPA_SP", 2)
    BY <1>1, <1>3 DEF Leads, Items, AllButton!Includes
<1>7. Leads("setup", "FRZ_PROTECT", "freeze", 1) /\ Leads("setup", "DIAGNOSTICS", "DIAGNOSTICS", 2)
    BY <1>1, <1>4 DEF Leads, Items, AllButton!Includes
<1>8. Leads("freeze", "TEMP_SETTING", "FRZ", 1)
    BY <1>1, <1>5 DEF Leads, Items, AllButton!Includes
<1> QED BY <1>6, <1>7, <1>8

-----------------------------------------------------------------------------
(* One step of the bus or of the thread.                                    *)

(* The message that shows where the panel is.                               *)
Sees(sh, p) ==
    /\ sh.text = IF p.page \in DOMAIN AllButton!Pages THEN AllButton!Pages[p.page][p.line].text ELSE p.page
    /\ sh.val = IF p.page \in AllButton!Fields THEN p.value ELSE -1

None == AllButton!NoKey
Coming == <<"message">>
Doing(a, T, k, o) ==
    /\ Front(a, T) /\ key = k /\ out = o
    /\ PanelOk(panel) /\ ShownOk(shown) /\ ~failed
Awake(a) == a.op \notin {"parked", "until"} /\ (a.op \in {"key", "empty", "end"} => key = None)
Quiet == Calm /\ Next /\ mishaps' = {}

LEMMA AwakeStep ==
    ASSUME Quiet, NEW a, NEW T, Front(a, T), Awake(a)
    PROVE  Thinks
<1>1. AllButton!Working /\ AllButton!Now = a /\ a.op \in Ops
    BY FrontIs DEF Front, Steps
<1>2. ~AllButton!Asleep
    BY <1>1 DEF AllButton!Asleep, Awake, Ops, None
<1> QED BY <1>2, QuietStep DEF Quiet, Fetches, Hears

LEMMA ParkedStep ==
    ASSUME Quiet, NEW a, NEW T, Front(a, T), a.op = "parked" \/ (a.op \in {"empty", "end"} /\ key # None)
    PROVE  (out = <<>> => Fetches) /\ (out # <<>> => Hears)
<1>1. ~Thinks
    BY ThoughtIs DEF Quiet, None
<1> QED BY <1>1, QuietStep DEF Quiet, Fetches, Hears

(* A key is put into the slot.                                              *)
LEMMA KeySent ==
    ASSUME Quiet, NEW k \in Keys, NEW b \in Steps, NEW T \in Seq(Steps), NEW o,
           Doing(Step("key", k, -1, 0), Cons(b, T), None, o)
    PROVE  Doing(b, T, k, o)' /\ UNCHANGED <<panel, shown, found, told>>
<1>1. PICK a : a = Step("key", k, -1, 0)
    OBVIOUS
<1>2. a \in Steps /\ a.op = "key" /\ a.arg = k
    <2>1. k \in Args
        BY Zenon DEF Args
    <2>2. "key" \in Ops /\ -1 \in Int /\ 0 \in Int
        BY DEF Ops
    <2> QED BY <1>1, <2>1, <2>2, StepIs
<1>3. Front(a, Cons(b, T)) /\ AllButton!Now = a
    BY <1>1, FrontIs DEF Doing
<1>4. Thinks
    BY <1>2, <1>3, AwakeStep DEF Awake, Doing
<1>5. AllButton!SendKey
    BY <1>2, <1>3, <1>4, ThoughtIs DEF Quiet
<1>6. key' = k /\ AllButton!Do(<<>>) /\ UNCHANGED <<found, failed, told, out, shown, panel>>
    BY <1>2, <1>3, <1>5 DEF AllButton!SendKey
<1>7. todo' = Cons(b, T)
    BY <1>2, <1>3, <1>6, DoIs
<1> QED BY <1>6, <1>7 DEF Doing, Front

(* waitForMessage.                                                          *)
LEMMA Waited ==
    ASSUME Quiet, NEW x \in Args, NEW v \in Int, NEW n \in Int, NEW T, NEW k, NEW o,
           Doing(Step("wait", x, v, n), T, k, o)
    PROVE  /\ UNCHANGED <<panel, shown, key, out, told>> /\ ~failed'
           /\ found' = AllButton!Occurs(shown, Step("wait", x, v, n))
           /\ IF AllButton!Matches(shown, Step("wait", x, v, n)) THEN todo' = T
              ELSE Doing(Step("parked", x, v, n), T, k, o)'
<1>1. PICK a : a = Step("wait", x, v, n)
    OBVIOUS
<1>2. a \in Steps /\ a.op = "wait"
    BY <1>1, StepIs DEF Ops
<1>3. Front(a, T) /\ AllButton!Now = a
    BY <1>1, FrontIs DEF Doing
<1>4. Thinks
    BY <1>2, <1>3, AwakeStep DEF Awake
<1>5. AllButton!waitForMessage
    BY <1>2, <1>3, <1>4, ThoughtIs DEF Quiet
<1>6. PICK c : c = Step("parked", x, v, n)
    OBVIOUS
<1>7. c \in Steps /\ [a EXCEPT !.op = "parked"] = c
    BY <1>1, <1>6, StepIs DEF Ops, Step
<1>8. /\ UNCHANGED <<panel, shown, key, out, told, failed>>
      /\ found' = AllButton!Occurs(shown, a)
      /\ AllButton!Do(IF AllButton!Matches(shown, a) THEN <<>> ELSE <<c>>)
    BY <1>3, <1>5, <1>7 DEF AllButton!waitForMessage, AllButton!Deciding, AllButton!busVars
<1>9. IF AllButton!Matches(shown, a) THEN todo' = T ELSE Front(c, T)'
    <2>1. CASE AllButton!Matches(shown, a)
        <3>1. AllButton!Do(<<>>)
            BY <1>8, <2>1
        <3> QED BY <1>2, <1>3, <2>1, <3>1, DoIs
    <2>2. CASE ~AllButton!Matches(shown, a)
        <3>1. AllButton!Do(<<c>>)
            BY <1>8, <2>2
        <3> QED BY <1>3, <1>7, <2>2, <3>1, DoIs
    <2> QED BY <2>1, <2>2
<1> QED BY <1>1, <1>6, <1>8, <1>9 DEF Doing

(* The panel fetches the key while the thread sleeps.                       *)
LEMMA Fetched ==
    ASSUME Quiet, NEW a, NEW T, NEW k, Doing(a, T, k, <<>>),
           a.op = "parked" \/ (a.op \in {"empty", "end"} /\ k # None)
    PROVE  /\ Front(a, T)' /\ key' = None /\ out' = Coming /\ ~failed'
           /\ panel' = AllButton!Press(panel, k) /\ UNCHANGED <<found, told>>
           /\ ShownOk(shown') /\ shown'.text = shown.text /\ shown'.val = shown.val
<1>1. Fetches
    BY ParkedStep DEF Doing
<1>2. todo # <<>>
    BY FrontIs DEF Doing, AllButton!Working
<1>3. shown' = [shown EXCEPT !.led = panel.on] /\ ShownOk(shown)
    BY <1>1 DEF Fetches, Doing
<1>4. ShownOk(shown') /\ shown'.text = shown.text /\ shown'.val = shown.val
    BY <1>3 DEF ShownOk
<1> QED BY <1>1, <1>2, <1>4 DEF Fetches, Doing, Front, Coming, None

(* What is shown after a message.                                           *)
LEMMA DisplayIs ==
    ASSUME NEW sh, ShownOk(sh), NEW p, NEW d, d = AllButton!Display(sh, p)
    PROVE  ShownOk(d) /\ Sees(d, p)
BY DEF ShownOk, Sees, AllButton!Display, AllButton!Nothing

(* The panel shows it while the thread is parked.                           *)
LEMMA Heard ==
    ASSUME Quiet, NEW x \in Args, NEW v \in Int, NEW n \in Int, NEW T, NEW k, NEW a,
           a = Step("parked", x, v, n), Doing(a, T, k, Coming)
    PROVE  /\ ShownOk(shown') /\ Sees(shown', panel) /\ panel' = AllButton!AfterDisplay(panel)
           /\ key' = k /\ out' = <<>> /\ ~failed' /\ told' = told
           /\ IF n = 1 THEN todo' = T /\ found' = found
              ELSE /\ found' = AllButton!Occurs(shown', a)
                   /\ IF AllButton!Matches(shown', a) THEN todo' = T
                      ELSE Front(Step("parked", x, v, n - 1), T)'
<1>1. a \in Steps /\ a.op = "parked" /\ a.n = n
    BY StepIs DEF Ops
<1>2. Front(a, T) /\ AllButton!Now = a /\ AllButton!Working
    BY FrontIs DEF Doing
<1>3. Hears
    BY <1>1, <1>2, ParkedStep DEF Doing, Coming
<1>4. ShownOk(shown') /\ Sees(shown', panel)
    BY <1>3, DisplayIs DEF Hears, Doing
<1>5. PICK sh : sh = shown'
    OBVIOUS
<1>6. AllButton!KickThread(sh) /\ AllButton!At("parked")
    BY <1>1, <1>2, <1>3, <1>5 DEF Hears, AllButton!At
<1>7. PICK c : c = Step("parked", x, v, n - 1)
    OBVIOUS
<1>8. c \in Steps /\ AllButton!Count(a) = c
    BY <1>7, StepIs DEF Ops, Step, AllButton!Count
<1>9. CASE n = 1
    <2>1. AllButton!Do(<<>>) /\ found' = found
        BY <1>1, <1>2, <1>6, <1>9 DEF AllButton!KickThread
    <2>2. todo' = T
        BY <1>1, <1>2, <2>1, DoIs
    <2> QED BY <1>3, <1>4, <1>9, <2>1, <2>2 DEF Hears, Doing
<1>10. CASE n # 1
    <2>1. /\ found' = AllButton!Occurs(sh, a)
          /\ AllButton!Do(IF AllButton!Matches(sh, a) THEN <<>> ELSE <<c>>)
        BY <1>1, <1>2, <1>6, <1>8, <1>10 DEF AllButton!KickThread
    <2>2. IF AllButton!Matches(sh, a) THEN todo' = T ELSE Front(c, T)'
        <3>1. CASE AllButton!Matches(sh, a)
            <4>1. AllButton!Do(<<>>)
                BY <2>1, <3>1
            <4> QED BY <1>1, <1>2, <3>1, <4>1, DoIs
        <3>2. CASE ~AllButton!Matches(sh, a)
            <4>1. AllButton!Do(<<c>>)
                BY <2>1, <3>2
            <4> QED BY <1>2, <1>8, <3>2, <4>1, DoIs
        <3> QED BY <3>1, <3>2
    <2> QED BY <1>3, <1>4, <1>5, <1>7, <1>10, <2>1, <2>2 DEF Hears, Doing
<1> QED BY <1>9, <1>10

(* Whether the text of a step without a value occurs in a message.          *)
LEMMA TextOccurs ==
    ASSUME NEW sh, NEW o \in Ops, NEW x \in Args, NEW n \in Int, NEW s, s = Step(o, x, -1, n)
    PROVE  /\ AllButton!Occurs(sh, s) <=>
                 (x = "NULL" \/ sh.text = x \/ <<sh.text, x>> \in AllButton!Includes)
           /\ AllButton!Matches(sh, s) <=> (x # "NULL" /\ AllButton!Occurs(sh, s))
<1>1. s.arg = x /\ s.val = -1
    BY StepIs
<1>2. -1 \notin Values
    BY ProgramAssumption
<1> QED BY <1>1, <1>2 DEF AllButton!Occurs, AllButton!Matches, AllButton!AtStart

(* A key is pressed and nothing else happens to the display.                *)
LEMMA NothingPressed ==
    ASSUME NEW p
    PROVE  AllButton!Press(p, None) = p
BY DEF AllButton!Press, None, AllButton!NoKey

-----------------------------------------------------------------------------
(* A page is open, the thread goes on with T.                               *)
Opened(pg, T) ==
    /\ todo = T /\ T \in Seq(Steps) /\ key = None /\ out = <<>> /\ ~failed /\ found
    /\ PanelOk(panel) /\ ShownOk(shown) /\ Sees(shown, panel)
    /\ panel.page = pg /\ panel.line = 1
    /\ pg \in AllButton!Fields => panel.value = panel.stored[pg]

(* _select_menu_item.                                                       *)
Prompt(op) == Step(op, "PROMPT", -1, 5)
ItsMenu(op, i) == Step(op, i, -1, 4)
Behind == shown.text \in {"home", "LABELS"}
Selecting(i, T) ==
    LET F == ItsMenu("menuFound", i)
    IN  \/ Doing(ItsMenu("menu", i), T, None, <<>>) /\ Behind
        \/ Doing(Step("key", "menu", -1, 0), Cons(Prompt("wait"), Cons(F, T)), None, <<>>) /\ Behind
        \/ Doing(Prompt("wait"), Cons(F, T), "menu", <<>>) /\ Behind
        \/ Doing(Prompt("parked"), Cons(F, T), "menu", <<>>)
        \/ Doing(Prompt("parked"), Cons(F, T), None, Coming) /\ panel.page = "menu" /\ panel.line = 1
        \/ /\ Doing(F, T, None, <<>>) /\ panel.page = "menu" /\ panel.line = 1
           /\ found /\ Sees(shown, panel)

LEMMA SelectingNext ==
    ASSUME Quiet, NEW i \in Items, NEW T \in Seq(Steps), Selecting(i, T), SeekMax \in Int
    PROVE  Selecting(i, T)' \/ Opened("menu", Cons(Step("sub", i, -1, SeekMax), T))'
<1>1. PICK M, K, W, P, F, S :
        /\ M = ItsMenu("menu", i) /\ K = Step("key", "menu", -1, 0) /\ W = Prompt("wait")
        /\ P = Prompt("parked") /\ F = ItsMenu("menuFound", i) /\ S = Step("sub", i, -1, SeekMax)
    OBVIOUS
<1>2. i \in Args /\ "menu" \in Args /\ "PROMPT" \in Args /\ "menu" \in Keys
    BY Zenon DEF Args, Items, Keys
<1>3. /\ M \in Steps /\ K \in Steps /\ W \in Steps /\ P \in Steps /\ F \in Steps /\ S \in Steps
      /\ M.op = "menu" /\ M.arg = i /\ F.op = "menuFound" /\ F.arg = i /\ P.op = "parked"
    BY <1>1, <1>2, StepIs DEF Ops, Prompt, ItsMenu
<1>4. Cons(F, T) \in Seq(Steps)
    BY <1>3, ConsIs
<1>5. CASE Doing(M, T, None, <<>>) /\ Behind
    <2>1. Front(M, T) /\ AllButton!Now = M
        BY <1>5, FrontIs DEF Doing
    <2>2. Thinks
        BY <1>3, <2>1, AwakeStep DEF Awake
    <2>3. AllButton!SelectMenu
        BY <1>3, <2>1, <2>2, ThoughtIs DEF Quiet
    <2>4. AllButton!Key("menu") = K /\ AllButton!Wait("PROMPT", 5) = W /\ [M EXCEPT !.op = "menuFound"] = F
        BY <1>1 DEF Step, AllButton!Key, AllButton!Wait, AllButton!Step, AllButton!Nothing, Prompt, ItsMenu
    <2>5. AllButton!Do(<<K, W, F>>) /\ UNCHANGED <<key, out, shown, panel, failed>>
        BY <2>1, <2>3, <2>4 DEF AllButton!SelectMenu, AllButton!Only, AllButton!Unmoved, AllButton!Deciding,
           AllButton!busVars
    <2>6. Front(K, Cons(W, Cons(F, T)))'
        BY <1>3, <2>1, <2>5, DoIs
    <2>7. Doing(K, Cons(W, Cons(F, T)), None, <<>>)' /\ Behind'
        BY <1>5, <2>5, <2>6 DEF Doing, Behind
    <2> QED BY <1>1, <2>7 DEF Selecting
<1>6. CASE Doing(K, Cons(W, Cons(F, T)), None, <<>>) /\ Behind
    <2>1. Doing(W, Cons(F, T), "menu", <<>>)' /\ Behind'
        BY <1>1, <1>2, <1>3, <1>4, <1>6, KeySent DEF Behind
    <2> QED BY <1>1, <2>1 DEF Selecting
<1>7. CASE Doing(W, Cons(F, T), "menu", <<>>) /\ Behind
    <2>1. ~AllButton!Matches(shown, W)
        <3>1. shown.text \in {"home", "LABELS"}
            BY <1>7 DEF Behind
        <3> QED BY <1>1, <1>2, <3>1, TextOccurs DEF Ops, Prompt, AllButton!Includes
    <2>2. Doing(P, Cons(F, T), "menu", <<>>)'
        BY <1>1, <1>2, <1>7, <2>1, Waited DEF Prompt
    <2> QED BY <1>1, <2>2 DEF Selecting
<1>8. CASE Doing(P, Cons(F, T), "menu", <<>>)
    <2>1. /\ Front(P, Cons(F, T))' /\ key' = None /\ out' = Coming /\ ~failed'
          /\ panel' = AllButton!Press(panel, "menu") /\ ShownOk(shown')
        BY <1>3, <1>8, Fetched
    <2>2. panel' = AllButton!OnPage(panel, "menu")
        BY <2>1 DEF AllButton!Press
    <2>3. PanelOk(panel') /\ panel'.page = "menu" /\ panel'.line = 1
        BY <1>8, <2>2, OnPageIs DEF Doing
    <2>4. Doing(P, Cons(F, T), None, Coming)'
        BY <2>1, <2>3 DEF Doing
    <2> QED BY <1>1, <2>3, <2>4 DEF Selecting
<1>9. CASE Doing(P, Cons(F, T), None, Coming) /\ panel.page = "menu" /\ panel.line = 1
    <2>1. /\ ShownOk(shown') /\ Sees(shown', panel) /\ panel' = AllButton!AfterDisplay(panel)
          /\ key' = None /\ out' = <<>> /\ ~failed'
          /\ found' = AllButton!Occurs(shown', P)
          /\ AllButton!Matches(shown', P) => todo' = Cons(F, T)
        BY <1>1, <1>2, <1>9, Heard DEF Prompt
    <2>2. panel' = panel
        BY <1>9, <2>1 DEF AllButton!AfterDisplay
    <2>3. shown'.text = "PROMPT"
        <3>1. "menu" \in DOMAIN AllButton!Pages /\ AllButton!Pages["menu"][1].text = "PROMPT"
            BY DEF AllButton!Pages, AllButton!Item
        <3> QED BY <1>9, <2>1, <3>1 DEF Sees
    <2>4. AllButton!Occurs(shown', P) /\ AllButton!Matches(shown', P)
        <3>1. PICK sh : sh = shown'
            OBVIOUS
        <3>2. AllButton!Occurs(sh, P) /\ AllButton!Matches(sh, P)
            <4>1. sh.text = "PROMPT" /\ "parked" \in Ops
                BY <2>3, <3>1 DEF Ops
            <4>2. P = Step("parked", "PROMPT", -1, 5) /\ 5 \in Int /\ "PROMPT" # "NULL" /\ "PROMPT" \in Args
                BY <1>1, <1>2 DEF Prompt
            <4>3. AllButton!Occurs(sh, P)
                BY <4>1, <4>2, TextOccurs
            <4>4. AllButton!Matches(sh, P)
                BY <4>1, <4>2, <4>3, TextOccurs
            <4> QED BY <4>3, <4>4
        <3> QED BY <3>1, <3>2
    <2>5. Front(F, T)'
        BY <1>3, <2>1, <2>4 DEF Front
    <2>6. Doing(F, T, None, <<>>)' /\ found' /\ Sees(shown', panel') /\ panel'.page = "menu" /\ panel'.line = 1
        BY <1>9, <2>1, <2>2, <2>4, <2>5 DEF Doing
    <2> QED BY <1>1, <2>6 DEF Selecting
<1>10. CASE Doing(F, T, None, <<>>) /\ panel.page = "menu" /\ panel.line = 1 /\ found /\ Sees(shown, panel)
    <2>1. Front(F, T) /\ AllButton!Now = F
        BY <1>10, FrontIs DEF Doing
    <2>2. Thinks
        BY <1>3, <2>1, AwakeStep DEF Awake
    <2>3. AllButton!MenuFound
        BY <1>3, <2>1, <2>2, ThoughtIs DEF Quiet
    <2>4. AllButton!Sub(F.arg, AllButton!Nothing) = S
        BY <1>1, <1>3 DEF Step, AllButton!Sub, AllButton!Step, AllButton!Nothing
    <2>5. AllButton!Do(<<S>>) /\ UNCHANGED <<key, out, shown, panel, failed, found>>
        BY <1>10, <2>1, <2>3, <2>4 DEF AllButton!MenuFound, AllButton!Only, AllButton!Unmoved, AllButton!Deciding,
           AllButton!busVars
    <2>6. todo' = Cons(S, T) /\ Cons(S, T) \in Seq(Steps)
        BY <1>3, <2>1, <2>5, DoIs, ConsIs DEF Front
    <2>7. "menu" \notin AllButton!Fields
        BY DEF AllButton!Fields, AllButton!Rings
    <2>8. Opened("menu", Cons(S, T))'
        BY <1>10, <2>5, <2>6, <2>7 DEF Opened, Doing
    <2> QED BY <1>1, <2>8
<1> QED BY <1>1, <1>5, <1>6, <1>7, <1>8, <1>9, <1>10 DEF Selecting

-----------------------------------------------------------------------------
(* The pages of items.                                                      *)
On(pg, l) == panel.page = pg /\ panel.line = l
Shown(pg, l) == shown.text = AllButton!Pages[pg][l].text

LEMMA PagesOfItems ==
    ASSUME NEW pg \in {"menu", "review", "temp", "aquapure", "setup", "freeze"}
    PROVE  /\ pg \in DOMAIN AllButton!Pages /\ pg # "boosting" /\ pg # "START"
           /\ pg \notin AllButton!Fields /\ pg \notin DOMAIN AllButton!Following
           /\ pg \notin {"OFF", "IS_SET_TO", "TURNS_ON"}
BY DEF AllButton!Pages, AllButton!Fields, AllButton!Rings, AllButton!Following

LEMMA RightIs ==
    ASSUME NEW i, NEW pg, NEW to, NEW at, Leads(pg, i, to, at), NEW l \in 1..at, l # at,
           NEW p, PanelOk(p), p.page = pg, p.line = l
    PROVE  /\ PanelOk(AllButton!Press(p, "right"))
           /\ AllButton!Press(p, "right").page = pg /\ AllButton!Press(p, "right").line = l + 1
<1>1. PICK n, q : n = Len(AllButton!Pages[pg]) /\ q = AllButton!Press(p, "right")
    OBVIOUS
<1>2. n \in 1..7 /\ at \in 1..n /\ l \in 1..n /\ l < n
    BY <1>1 DEF Leads
<1>3. pg \in DOMAIN AllButton!Pages /\ pg \notin AllButton!Fields /\ pg \notin AllButton!Rings
    BY PagesOfItems DEF Leads, AllButton!Fields
<1>4. q = [p EXCEPT !.line = (l % n) + 1]
    <2>1. q = AllButton!Right(p)
        BY <1>1 DEF AllButton!Press
    <2>2. AllButton!Right(p) = [p EXCEPT !.line = (@ % n) + 1]
        BY <1>1, <1>3 DEF AllButton!Right
    <2> QED BY <2>1, <2>2
<1>5. l % n = l
    BY <1>2
<1>6. PanelOk(q) /\ q.page = pg /\ q.line = l + 1
    BY <1>4, <1>5 DEF PanelOk
<1> QED BY <1>1, <1>6

LEMMA EnterIs ==
    ASSUME NEW i, NEW pg, NEW to, NEW at, Leads(pg, i, to, at),
           NEW p, PanelOk(p), p.page = pg, p.line = at
    PROVE  /\ PanelOk(AllButton!Press(p, "enter"))
           /\ AllButton!Press(p, "enter").page = to /\ AllButton!Press(p, "enter").line = 1
           /\ to \in AllButton!Fields =>
                 AllButton!Press(p, "enter").value = AllButton!Press(p, "enter").stored[to]
<1>1. /\ pg \in DOMAIN AllButton!Pages \ {"boosting"} /\ pg # "START"
      /\ pg \notin AllButton!Fields /\ pg \notin DOMAIN AllButton!Following
    BY PagesOfItems DEF Leads
<1>2. AllButton!Pages[pg][at].to = to /\ to # "boost"
    BY DEF Leads
<1>3. PICK q : q = AllButton!Press(p, "enter")
    OBVIOUS
<1>4. q = AllButton!Open(p, to)
    BY <1>1, <1>2, <1>3 DEF AllButton!Press, AllButton!Enter
<1>5. /\ PanelOk(q) /\ q.page = to /\ q.line = 1 /\ q.stored = p.stored
      /\ to \in AllButton!Fields => q.value = p.stored[to]
    BY <1>2, <1>4, OpenIs
<1> QED BY <1>3, <1>5

(* _select_sub_menu_item.                                                   *)
Sought(i, n) == Step("seek", i, -1, n)
Emptied == Step("empty", "", -1, 0)
Any(op) == Step(op, "NULL", -1, 1)
ItsItem(op, i) == Step(op, i, -1, 1)
Looking(i, pg, l, T) ==
    Doing(Sought(i, SeekMax - (l - 1)), T, None, <<>>) /\ On(pg, l) /\ Shown(pg, l)
Passing(i, pg, l, T) ==
    LET W == ItsItem("wait", i)
        U == Cons(Sought(i, SeekMax - l), T)
    IN  \/ /\ Doing(Step("key", "right", -1, 0), Cons(Emptied, Cons(W, U)), None, <<>>)
           /\ On(pg, l) /\ Shown(pg, l)
        \/ Doing(Emptied, Cons(W, U), "right", <<>>) /\ On(pg, l) /\ Shown(pg, l)
        \/ Doing(Emptied, Cons(W, U), None, Coming) /\ On(pg, l + 1) /\ Shown(pg, l)
        \/ Doing(W, U, None, Coming) /\ On(pg, l + 1) /\ Shown(pg, l)
        \/ Doing(ItsItem("parked", i), U, None, Coming) /\ On(pg, l + 1)
Entering(pg, at, to, T) ==
    \/ Doing(Step("key", "enter", -1, 0), Cons(Any("wait"), T), None, <<>>) /\ On(pg, at)
    \/ Doing(Any("wait"), T, "enter", <<>>) /\ On(pg, at)
    \/ Doing(Any("parked"), T, "enter", <<>>) /\ On(pg, at) /\ found
    \/ /\ Doing(Any("parked"), T, None, Coming) /\ On(to, 1) /\ found
       /\ to \in AllButton!Fields => panel.value = panel.stored[to]
Seeking(i, pg, at, to, T) ==
    \/ Opened(pg, Cons(Step("sub", i, -1, SeekMax), T))
    \/ Doing(Emptied, Cons(Sought(i, SeekMax), T), None, <<>>) /\ On(pg, 1) /\ Shown(pg, 1)
    \/ \E l \in 1..at : Looking(i, pg, l, T)
    \/ \E l \in 1..at : l # at /\ Passing(i, pg, l, T)
    \/ Entering(pg, at, to, T)

(* The item is found on the line where it is, and on no other.              *)
LEMMA FoundThere ==
    ASSUME NEW i, NEW pg, NEW to, NEW at, Leads(pg, i, to, at), NEW l \in 1..at, Shown(pg, l),
           NEW o \in Ops, NEW n \in Int, NEW s, s = Step(o, i, -1, n)
    PROVE  AllButton!Occurs(shown, s) <=> l = at
<1>1. i \in Args /\ i # "NULL"
    <2>1. i \in Items
        BY DEF Leads
    <2> QED BY <2>1 DEF Args, Items
<1>2. at \in Int /\ l \in 1..Len(AllButton!Pages[pg])
    BY DEF Leads
<1>3. l # at => shown.text # i /\ <<shown.text, i>> \notin AllButton!Includes
    BY <1>2 DEF Leads, Shown
<1>4. l = at => shown.text = i
    BY DEF Leads, Shown
<1>5. AllButton!Occurs(shown, s) <=> (i = "NULL" \/ shown.text = i \/ <<shown.text, i>> \in AllButton!Includes)
    BY <1>1, TextOccurs
<1> QED BY <1>1, <1>3, <1>4, <1>5

(* What follows a message on a page that is not left by it.                 *)
LEMMA PageStays ==
    ASSUME NEW p, p.page \notin {"OFF", "IS_SET_TO", "TURNS_ON"}
    PROVE  AllButton!AfterDisplay(p) = p
BY DEF AllButton!AfterDisplay

LEMMA LookingNext ==
    ASSUME Quiet, NEW i, NEW pg, NEW at, NEW to, Leads(pg, i, to, at), NEW T \in Seq(Steps),
           NEW l \in 1..at, Looking(i, pg, l, T), SeekMax \in Int, SeekMax >= 7
    PROVE  (l # at /\ Passing(i, pg, l, T)') \/ Entering(pg, at, to, T)'
<1>1. PICK n \in Int : n = SeekMax - (l - 1)
    BY DEF Leads
<1>2. /\ i \in Items /\ at \in 1..7 /\ l \in 1..7 /\ (l # at => n > 0)
    BY <1>1, SMTT(30) DEF Leads
<1>3. i \in Args
    BY <1>2, Zenon DEF Args
<1>4. PICK A, W, N, KR, E, KE, Y :
        /\ A = Sought(i, n) /\ W = ItsItem("wait", i) /\ N = Sought(i, n - 1)
        /\ KR = Step("key", "right", -1, 0) /\ E = Emptied /\ KE = Step("key", "enter", -1, 0)
        /\ Y = Any("wait")
    OBVIOUS
<1>5. "right" \in Args /\ "enter" \in Args /\ "" \in Args /\ "NULL" \in Args
    BY Zenon DEF Args, Keys
<1>6. n - 1 \in Int /\ n - 1 = SeekMax - l
    BY <1>1, <1>2
<1>7. /\ A \in Steps /\ A.op = "seek" /\ A.arg = i /\ A.n = n
      /\ W \in Steps /\ N \in Steps /\ KR \in Steps /\ E \in Steps /\ KE \in Steps /\ Y \in Steps
    <2>1. "seek" \in Ops /\ "wait" \in Ops /\ "key" \in Ops /\ "empty" \in Ops /\ -1 \in Int /\ 0 \in Int /\ 1 \in Int
        BY DEF Ops
    <2>2. A \in Steps /\ A.op = "seek" /\ A.arg = i /\ A.n = n /\ N \in Steps
        BY <1>3, <1>4, <1>6, <2>1, StepIs DEF Sought
    <2>3. W \in Steps /\ Y \in Steps
        BY <1>3, <1>4, <1>5, <2>1, StepIs DEF ItsItem, Any
    <2>4. KR \in Steps /\ KE \in Steps /\ E \in Steps
        BY <1>4, <1>5, <2>1, StepIs DEF Emptied
    <2> QED BY <2>2, <2>3, <2>4
<1>8. Doing(A, T, None, <<>>) /\ On(pg, l) /\ Shown(pg, l)
    BY <1>1, <1>4 DEF Looking
<1>9. Front(A, T) /\ AllButton!Now = A
    BY <1>8, FrontIs DEF Doing
<1>10. AllButton!Seek
    <2>1. Thinks
        BY <1>7, <1>9, AwakeStep DEF Awake
    <2> QED BY <1>7, <1>9, <2>1, ThoughtIs DEF Quiet
<1>11. AllButton!Shows(A) <=> l = at
    BY <1>1, <1>4, <1>8, FoundThere DEF AllButton!Shows, Ops, Sought
<1>12. /\ AllButton!Key("enter") = KE /\ AllButton!WaitAny(1) = Y /\ AllButton!Key("right") = KR
       /\ AllButton!Empty = E /\ [A EXCEPT !.op = "wait", !.n = 1] = W
       /\ AllButton!Count(A) = N
    <2>1. /\ AllButton!Key("enter") = KE /\ AllButton!WaitAny(1) = Y /\ AllButton!Key("right") = KR
          /\ AllButton!Empty = E
        BY <1>4 DEF Step, AllButton!Key, AllButton!WaitAny, AllButton!Wait, AllButton!Empty, AllButton!Step,
           AllButton!Nothing, Emptied, Any
    <2>2. [A EXCEPT !.op = "wait", !.n = 1] = W
        <3>1. A = [op |-> "seek", arg |-> i, val |-> -1, n |-> n]
            BY <1>4 DEF Step, Sought
        <3>2. W = [op |-> "wait", arg |-> i, val |-> -1, n |-> 1]
            BY <1>4 DEF Step, ItsItem
        <3>3. PICK B : B = [A EXCEPT !.op = "wait"]
            OBVIOUS
        <3>4. B = [op |-> "wait", arg |-> i, val |-> -1, n |-> n]
            BY <3>1, <3>3
        <3>5. [B EXCEPT !.n = 1] = W
            BY <3>2, <3>4
        <3> QED BY <3>3, <3>5
    <2>3. AllButton!Count(A) = N
        BY <1>4 DEF Step, AllButton!Count, Sought
    <2> QED BY <2>1, <2>2, <2>3
<1>13. /\ found' = AllButton!Shows(A)
       /\ AllButton!Do(IF AllButton!Shows(A) THEN <<KE, Y>> ELSE IF n > 0 THEN <<KR, E, W, N>> ELSE <<>>)
       /\ UNCHANGED <<key, out, shown, panel, failed>>
    BY <1>7, <1>9, <1>10, <1>12 DEF AllButton!Seek, AllButton!Only, AllButton!Unmoved, AllButton!Deciding,
       AllButton!busVars
<1>14. CASE l = at
    <2>1. AllButton!Do(<<KE, Y>>)
        BY <1>11, <1>13, <1>14
    <2>2. Front(KE, Cons(Y, T))'
        BY <1>7, <1>9, <2>1, DoIs
    <2>3. Doing(KE, Cons(Y, T), None, <<>>)' /\ On(pg, at)'
        BY <1>8, <1>13, <1>14, <2>2 DEF Doing, On
    <2> QED BY <1>4, <2>3 DEF Entering
<1>15. CASE l # at
    <2>1. AllButton!Do(<<KR, E, W, N>>)
        BY <1>2, <1>11, <1>13, <1>15
    <2>2. Front(KR, Cons(E, Cons(W, Cons(N, T))))'
        BY <1>7, <1>9, <2>1, DoIs
    <2>3. Doing(KR, Cons(E, Cons(W, Cons(N, T))), None, <<>>)' /\ On(pg, l)' /\ Shown(pg, l)'
        BY <1>8, <1>13, <2>2 DEF Doing, On, Shown
    <2> QED BY <1>4, <1>6, <1>15, <2>3 DEF Passing
<1> QED BY <1>14, <1>15

LEMMA PassingNext ==
    ASSUME Quiet, NEW i, NEW pg, NEW at, NEW to, Leads(pg, i, to, at), NEW T \in Seq(Steps),
           NEW l \in 1..at, l # at, Passing(i, pg, l, T), SeekMax \in Int
    PROVE  Passing(i, pg, l, T)' \/ (l + 1 \in 1..at /\ Looking(i, pg, l + 1, T)')
<1>1. i \in Items /\ at \in 1..7 /\ l \in 1..7 /\ l + 1 \in 1..at /\ SeekMax - l \in Int
      /\ (l + 1) - 1 = l
    <2>1. PICK m \in Int : m = Len(AllButton!Pages[pg])
        BY DEF Leads
    <2>2. i \in Items /\ m \in 1..7 /\ at \in 1..m
        BY <2>1 DEF Leads
    <2>3. at \in 1..7 /\ l \in 1..7 /\ l + 1 \in 1..at
        BY <2>2
    <2>4. l \in Int /\ SeekMax - l \in Int /\ (l + 1) - 1 = l
        BY <2>3
    <2> QED BY <2>2, <2>3, <2>4
<1>2. i \in Args /\ "right" \in Args /\ "" \in Args /\ "right" \in Keys
    BY <1>1, Zenon DEF Args, Keys
<1>3. PICK W, U, N, KR, E, P :
        /\ W = ItsItem("wait", i) /\ N = Sought(i, SeekMax - l) /\ U = Cons(N, T)
        /\ KR = Step("key", "right", -1, 0) /\ E = Emptied /\ P = ItsItem("parked", i)
    OBVIOUS
<1>4. /\ W \in Steps /\ N \in Steps /\ KR \in Steps /\ E \in Steps /\ P \in Steps
      /\ E.op = "empty" /\ P.op = "parked"
    <2>1. "seek" \in Ops /\ "wait" \in Ops /\ "key" \in Ops /\ "empty" \in Ops /\ "parked" \in Ops
          /\ -1 \in Int /\ 0 \in Int /\ 1 \in Int
        BY DEF Ops
    <2>2. W \in Steps
        BY <1>2, <1>3, <2>1, StepIs DEF ItsItem
    <2>5. P \in Steps /\ P.op = "parked"
        BY <1>2, <1>3, <2>1 DEF ItsItem, Steps, Step
    <2>3. N \in Steps
        BY <1>1, <1>2, <1>3, <2>1, StepIs DEF Sought
    <2>4. KR \in Steps
        BY <1>2, <1>3, <2>1, StepIs
    <2>6. E \in Steps /\ E.op = "empty"
        BY <1>2, <1>3, <2>1 DEF Emptied, Steps, Step
    <2> QED BY <2>2, <2>3, <2>4, <2>5, <2>6
<1>5. U \in Seq(Steps)
    BY <1>3, <1>4, ConsIs
<1>6. Cons(W, U) \in Seq(Steps)
    BY <1>4, <1>5, ConsIs
<1>7. CASE Doing(KR, Cons(E, Cons(W, U)), None, <<>>) /\ On(pg, l) /\ Shown(pg, l)
    <2>1. Doing(E, Cons(W, U), "right", <<>>)' /\ UNCHANGED <<panel, shown>>
        BY <1>2, <1>3, <1>4, <1>6, <1>7, KeySent
    <2>2. On(pg, l)' /\ Shown(pg, l)'
        BY <1>7, <2>1 DEF On, Shown
    <2> QED BY <1>3, <2>1, <2>2 DEF Passing
<1>8. CASE Doing(E, Cons(W, U), "right", <<>>) /\ On(pg, l) /\ Shown(pg, l)
    <2>1. "right" # None
        BY DEF None, AllButton!NoKey
    <2>2. /\ Front(E, Cons(W, U))' /\ key' = None /\ out' = Coming /\ ~failed'
          /\ panel' = AllButton!Press(panel, "right")
          /\ ShownOk(shown') /\ shown'.text = shown.text
        BY <1>4, <1>8, <2>1, Fetched
    <2>3. PanelOk(panel') /\ panel'.page = pg /\ panel'.line = l + 1
        <3>1. PanelOk(panel) /\ panel.page = pg /\ panel.line = l
            BY <1>8 DEF Doing, On
        <3> QED BY <2>2, <3>1, RightIs
    <2>4. Doing(E, Cons(W, U), None, Coming)' /\ On(pg, l + 1)' /\ Shown(pg, l)'
        BY <1>8, <2>2, <2>3 DEF Doing, On, Shown
    <2> QED BY <1>3, <2>4 DEF Passing
<1>9. CASE Doing(E, Cons(W, U), None, Coming) /\ On(pg, l + 1) /\ Shown(pg, l)
    <2>1. Front(E, Cons(W, U)) /\ AllButton!Now = E
        BY <1>9, FrontIs DEF Doing
    <2>2. Thinks
        BY <1>4, <1>9, <2>1, AwakeStep DEF Awake, Doing
    <2>3. AllButton!QueueEmpty
        BY <1>4, <2>1, <2>2, ThoughtIs DEF Quiet
    <2>4. AllButton!Do(<<>>) /\ UNCHANGED <<key, out, shown, panel, failed>>
        BY <2>3 DEF AllButton!QueueEmpty
    <2>5. Front(W, U)'
        BY <1>4, <1>5, <2>1, <2>4, DoIs DEF Front
    <2>6. Doing(W, U, None, Coming)' /\ On(pg, l + 1)' /\ Shown(pg, l)'
        BY <1>9, <2>4, <2>5 DEF Doing, On, Shown
    <2> QED BY <1>3, <2>6 DEF Passing
<1>10. CASE Doing(W, U, None, Coming) /\ On(pg, l + 1) /\ Shown(pg, l)
    <2>1. W = Step("wait", i, -1, 1) /\ P = Step("parked", i, -1, 1)
        BY <1>3 DEF ItsItem
    <2>2. ~AllButton!Matches(shown, W)
        <3>1. ~AllButton!Occurs(shown, W)
            BY <1>10, <2>1, FoundThere DEF Ops
        <3> QED BY <3>1 DEF AllButton!Matches
    <2>3. Doing(P, U, None, Coming)' /\ panel' = panel
        <3>1. -1 \in Int /\ 1 \in Int
            OBVIOUS
        <3> QED BY <1>2, <1>10, <2>1, <2>2, <3>1, Waited
    <2>4. On(pg, l + 1)'
        BY <1>10, <2>3 DEF On
    <2> QED BY <1>3, <2>3, <2>4 DEF Passing
<1>11. CASE Doing(P, U, None, Coming) /\ On(pg, l + 1)
    <2>1. P = Step("parked", i, -1, 1)
        BY <1>3 DEF ItsItem
    <2>2. /\ ShownOk(shown') /\ Sees(shown', panel) /\ panel' = AllButton!AfterDisplay(panel)
          /\ key' = None /\ out' = <<>> /\ ~failed' /\ todo' = U
        <3>1. -1 \in Int /\ 1 \in Int
            OBVIOUS
        <3> QED BY <1>2, <1>11, <2>1, <3>1, Heard
    <2>3. pg \in DOMAIN AllButton!Pages /\ pg \notin {"OFF", "IS_SET_TO", "TURNS_ON"}
        BY PagesOfItems DEF Leads
    <2>4. panel' = panel
        BY <1>11, <2>2, <2>3, PageStays DEF On
    <2>5. Shown(pg, l + 1)'
        BY <1>11, <2>2, <2>3 DEF Shown, On, Sees
    <2>6. Doing(N, T, None, <<>>)' /\ On(pg, l + 1)'
        BY <1>3, <1>4, <1>11, <2>2, <2>4 DEF Doing, On, Front
    <2> QED BY <1>1, <1>3, <2>5, <2>6 DEF Looking
<1> QED BY <1>3, <1>7, <1>8, <1>9, <1>10, <1>11 DEF Passing

LEMMA EnteringNext ==
    ASSUME Quiet, NEW i, NEW pg, NEW at, NEW to, Leads(pg, i, to, at), NEW T \in Seq(Steps),
           Entering(pg, at, to, T)
    PROVE  Entering(pg, at, to, T)' \/ Opened(to, T)'
<1>1. "enter" \in Args /\ "NULL" \in Args /\ "enter" \in Keys
    BY Zenon DEF Args, Keys
<1>2. PICK K, W, P : K = Step("key", "enter", -1, 0) /\ W = Any("wait") /\ P = Any("parked")
    OBVIOUS
<1>3. W = Step("wait", "NULL", -1, 1) /\ P = Step("parked", "NULL", -1, 1) /\ -1 \in Int /\ 1 \in Int
    BY <1>2 DEF Any
<1>4. W \in Steps
    BY <1>1, <1>3 DEF Steps, Step, Ops
<1>5. P \in Steps /\ P.op = "parked"
    BY <1>1, <1>3 DEF Steps, Step, Ops
<1>6. to \notin {"OFF", "IS_SET_TO", "TURNS_ON"}
    BY DEF Leads
<1>7. CASE Doing(K, Cons(W, T), None, <<>>) /\ On(pg, at)
    <2>1. Doing(W, T, "enter", <<>>)' /\ panel' = panel
        BY <1>1, <1>2, <1>4, <1>7, KeySent
    <2>2. On(pg, at)'
        BY <1>7, <2>1 DEF On
    <2> QED BY <1>2, <2>1, <2>2 DEF Entering
<1>8. CASE Doing(W, T, "enter", <<>>) /\ On(pg, at)
    <2>1. AllButton!Occurs(shown, W) /\ ~AllButton!Matches(shown, W)
        <3>1. W.arg = "NULL"
            BY <1>3 DEF Step
        <3> QED BY <3>1 DEF AllButton!Occurs, AllButton!Matches
    <2>2. Doing(P, T, "enter", <<>>)' /\ panel' = panel /\ found'
        BY <1>1, <1>3, <1>8, <2>1, Waited
    <2>3. On(pg, at)'
        BY <1>8, <2>2 DEF On
    <2> QED BY <1>2, <2>2, <2>3 DEF Entering
<1>9. CASE Doing(P, T, "enter", <<>>) /\ On(pg, at) /\ found
    <2>1. /\ Front(P, T)' /\ key' = None /\ out' = Coming /\ ~failed' /\ found' = found
          /\ panel' = AllButton!Press(panel, "enter") /\ ShownOk(shown')
        BY <1>5, <1>9, Fetched
    <2>2. PanelOk(panel) /\ panel.page = pg /\ panel.line = at
        BY <1>9 DEF Doing, On
    <2>3. /\ PanelOk(panel') /\ panel'.page = to /\ panel'.line = 1
          /\ to \in AllButton!Fields => panel'.value = panel'.stored[to]
        BY <2>1, <2>2, EnterIs
    <2>4. Doing(P, T, None, Coming)' /\ On(to, 1)' /\ found'
        BY <1>9, <2>1, <2>3 DEF Doing, On
    <2> QED BY <1>2, <2>3, <2>4 DEF Entering
<1>10. CASE /\ Doing(P, T, None, Coming) /\ On(to, 1) /\ found
            /\ to \in AllButton!Fields => panel.value = panel.stored[to]
    <2>1. /\ ShownOk(shown') /\ Sees(shown', panel) /\ panel' = AllButton!AfterDisplay(panel)
          /\ key' = None /\ out' = <<>> /\ ~failed' /\ todo' = T /\ found' = found
        BY <1>1, <1>3, <1>10, Heard
    <2>2. panel' = panel
        BY <1>6, <1>10, <2>1, PageStays DEF On
    <2>3. Opened(to, T)'
        BY <1>10, <2>1, <2>2 DEF Opened, Doing, On
    <2> QED BY <2>3
<1> QED BY <1>2, <1>7, <1>8, <1>9, <1>10 DEF Entering

LEMMA SeekingNext ==
    ASSUME Quiet, NEW i, NEW pg, NEW at, NEW to, Leads(pg, i, to, at), NEW T \in Seq(Steps),
           Seeking(i, pg, at, to, T), SeekMax \in Int, SeekMax >= 7
    PROVE  Seeking(i, pg, at, to, T)' \/ Opened(to, T)'
<1>1. i \in Items /\ pg \in DOMAIN AllButton!Pages /\ 1 \in 1..at
    <2>1. PICK m \in Int : m = Len(AllButton!Pages[pg])
        BY DEF Leads
    <2>2. m \in 1..7 /\ at \in 1..m
        BY <2>1 DEF Leads
    <2> QED BY <2>2, PagesOfItems DEF Leads
<1>2. i \in Args /\ "" \in Args
    BY <1>1, Zenon DEF Args
<1>13. -1 \in Int /\ 0 \in Int
    OBVIOUS
<1>3. PICK B, E, S : B = Step("sub", i, -1, SeekMax) /\ E = Emptied /\ S = Sought(i, SeekMax)
    OBVIOUS
<1>4. B \in Steps /\ B.op = "sub"
    BY <1>2, <1>3, <1>13 DEF Steps, Step, Ops
<1>5. E \in Steps /\ E.op = "empty"
    BY <1>2, <1>3, <1>13 DEF Steps, Step, Ops, Emptied
<1>6. S \in Steps
    BY <1>2, <1>3, <1>13 DEF Steps, Step, Ops, Sought
<1>7. Cons(S, T) \in Seq(Steps)
    BY <1>6, ConsIs
<1>8. CASE Opened(pg, Cons(B, T))
    <2>1. Front(B, T) /\ AllButton!Now = B
        BY <1>4, <1>8, FrontIs DEF Opened, Front
    <2>2. Thinks
        BY <1>4, <2>1, AwakeStep DEF Awake
    <2>3. AllButton!SelectSub
        BY <1>4, <2>1, <2>2, ThoughtIs DEF Quiet
    <2>4. AllButton!Empty = E
        BY <1>3 DEF Step, AllButton!Empty, AllButton!Step, AllButton!Nothing, Emptied
    <2>5. [B EXCEPT !.op = "seek"] = S
        BY <1>3 DEF Step, Sought
    <2>6. AllButton!Do(<<E, S>>) /\ UNCHANGED <<key, out, shown, panel, failed>>
        BY <2>1, <2>3, <2>4, <2>5 DEF AllButton!SelectSub, AllButton!Only, AllButton!Unmoved, AllButton!Deciding,
           AllButton!busVars
    <2>7. Front(E, Cons(S, T))'
        BY <1>5, <1>6, <2>1, <2>6, DoIs
    <2>8. shown.text = AllButton!Pages[pg][1].text
        BY <1>1, <1>8 DEF Opened, Sees
    <2>9. Doing(E, Cons(S, T), None, <<>>)' /\ On(pg, 1)' /\ Shown(pg, 1)'
        BY <1>8, <2>6, <2>7, <2>8 DEF Doing, Opened, On, Shown
    <2> QED BY <1>3, <2>9 DEF Seeking
<1>9. CASE Doing(E, Cons(S, T), None, <<>>) /\ On(pg, 1) /\ Shown(pg, 1)
    <2>1. Front(E, Cons(S, T)) /\ AllButton!Now = E
        BY <1>9, FrontIs DEF Doing
    <2>2. Thinks
        BY <1>5, <1>9, <2>1, AwakeStep DEF Awake, Doing
    <2>3. AllButton!QueueEmpty
        BY <1>5, <2>1, <2>2, ThoughtIs DEF Quiet
    <2>4. AllButton!Do(<<>>) /\ UNCHANGED <<key, out, shown, panel, failed>>
        BY <2>3 DEF AllButton!QueueEmpty
    <2>5. Front(S, T)'
        BY <1>5, <1>6, <2>1, <2>4, DoIs DEF Front
    <2>6. SeekMax - (1 - 1) = SeekMax
        OBVIOUS
    <2>7. Looking(i, pg, 1, T)'
        BY <1>3, <1>9, <2>4, <2>5, <2>6 DEF Looking, Doing, On, Shown
    <2> QED BY <1>1, <2>7 DEF Seeking
<1>10. ASSUME NEW l \in 1..at, Looking(i, pg, l, T)
       PROVE  Seeking(i, pg, at, to, T)'
    BY <1>10, LookingNext DEF Seeking
<1>11. ASSUME NEW l \in 1..at, l # at, Passing(i, pg, l, T)
       PROVE  Seeking(i, pg, at, to, T)'
    BY <1>11, PassingNext DEF Seeking
<1>12. ASSUME Entering(pg, at, to, T)
       PROVE  Seeking(i, pg, at, to, T)' \/ Opened(to, T)'
    BY <1>12, EnteringNext DEF Seeking
<1> QED BY <1>3, <1>8, <1>9, <1>10, <1>11, <1>12 DEF Seeking

(* The program goes on after a menu that it has found, and does not look    *)
(* for it by another name.                                                  *)
OrCancel == Step("orCancel", "", -1, 0)
OrTry == Step("orTry", "SET_AQUARITE", -1, 0)
LEMMA GoesOn ==
    ASSUME Quiet, NEW pg, NEW a \in {OrCancel, OrTry}, NEW T \in Seq(Steps), Opened(pg, Cons(a, T))
    PROVE  Opened(pg, T)'
<1>1. "" \in Args /\ "SET_AQUARITE" \in Args
    BY Zenon DEF Args
<1>9. -1 \in Int /\ 0 \in Int
    OBVIOUS
<1>2. a \in Steps /\ a.op \in {"orCancel", "orTry"}
    <2>1. "orCancel" \in Ops /\ "orTry" \in Ops
        BY DEF Ops
    <2>2. CASE a = OrCancel
        BY <1>1, <1>9, <2>1, <2>2 DEF OrCancel, Steps, Step
    <2>3. CASE a = OrTry
        BY <1>1, <1>9, <2>1, <2>3 DEF OrTry, Steps, Step
    <2> QED BY <2>2, <2>3
<1>3. Front(a, T) /\ AllButton!Now = a
    BY <1>2, FrontIs DEF Opened, Front
<1>4. Thinks
    BY <1>2, <1>3, AwakeStep DEF Awake
<1>5. AllButton!GiveUpOrGoOn \/ AllButton!TryOther
    BY <1>2, <1>3, <1>4, ThoughtIs DEF Quiet
<1>6. found /\ ~failed
    BY DEF Opened
<1>7. AllButton!Do(<<>>) /\ ~failed' /\ UNCHANGED <<found, key, out, shown, panel>>
    <2>1. CASE AllButton!GiveUpOrGoOn
        <3>1. /\ failed' = (failed \/ ~found) /\ AllButton!Unmoved /\ found' = found
              /\ IF found THEN AllButton!Do(<<>>) ELSE AllButton!Leave(<<AllButton!Key("cancel"), AllButton!End>>)
            BY <2>1 DEF AllButton!GiveUpOrGoOn, AllButton!Only
        <3>2. ~failed' /\ AllButton!Do(<<>>)
            BY <1>6, <3>1, Zenon
        <3> QED BY <3>1, <3>2 DEF AllButton!Unmoved, AllButton!Deciding, AllButton!busVars
    <2>2. CASE AllButton!TryOther
        BY <1>6, <2>2 DEF AllButton!TryOther, AllButton!Only, AllButton!Unmoved, AllButton!Deciding,
           AllButton!busVars
    <2> QED BY <1>5, <2>1, <2>2
<1>8. todo' = T
    BY <1>2, <1>3, <1>7, DoIs
<1> QED BY <1>7, <1>8 DEF Opened

-----------------------------------------------------------------------------
(* A numeric field.                                                         *)

(* The values are the numbers from 0 on, and fewer than the presses that    *)
(* the field takes; a search has more presses than a page has items.        *)
LEMMA TopIs ==
    ASSUME RangesFit
    PROVE  \A v \in Values : v <= AllButton!Top /\ v \in Nat
<1>1. PICK n \in Nat : Values = 0..n
    BY DEF RangesFit
<1>2. n \in Values /\ \A w \in Values : w <= n
    BY <1>1
<1>3. PICK t : t = AllButton!Top
    OBVIOUS
<1>4. t \in Values /\ \A w \in Values : w <= t
    BY <1>2, <1>3 DEF AllButton!Top
<1> QED BY <1>1, <1>3, <1>4

LEMMA NumbersAre ==
    ASSUME NEW f \in Numbers
    PROVE  /\ f \in AllButton!Fields /\ f \in AllButton!Settings /\ f \in Args
           /\ f \notin DOMAIN AllButton!Pages /\ f \notin AllButton!Rings
           /\ f \notin DOMAIN AllButton!Following
           /\ f \notin {"MUST_BE_SET", "OFF", "IS_SET_TO", "TURNS_ON", "boost", "START", "boosting", "NULL"}
           /\ <<f, "IS_SET_TO">> \notin AllButton!Includes
<1>1. f \in {"POOL", "SPA", "TEMP1", "POOL_SP", "SPA_SP", "FRZ"}
    BY DEF Numbers
<1>2. f \in AllButton!Fields /\ f \in AllButton!Settings
    BY <1>1 DEF AllButton!Fields, AllButton!Settings
<1>3. f \in Args
    BY Zenon DEF Args
<1>4. f \notin DOMAIN AllButton!Pages /\ f \notin DOMAIN AllButton!Following
    BY <1>1 DEF AllButton!Pages, AllButton!Following
<1>5. f \notin AllButton!Rings
    BY <1>1 DEF AllButton!Rings
<1>6. <<f, "IS_SET_TO">> \notin AllButton!Includes
    BY <1>1 DEF AllButton!Includes
<1> QED BY <1>1, <1>2, <1>3, <1>4, <1>5, <1>6

(* The key that brings the value v nearer to the one that is asked for, and *)
(* what it becomes.                                                         *)
Moves(v, w, k) ==
    \/ want > v /\ w = v + 1 /\ k = "right"
    \/ want < v /\ w = v - 1 /\ k = "left"

LEMMA MovesIs ==
    ASSUME RangesFit, want \in Values, NEW v \in Values, NEW w, NEW k, Moves(v, w, k)
    PROVE  w \in Values /\ w # v /\ k \in {"right", "left"} /\ k \in Keys /\ k # None
<1>1. PICK n \in Nat : Values = 0..n
    BY DEF RangesFit
<1>2. w \in Values /\ w # v
    BY <1>1 DEF Moves
<1>3. k \in {"right", "left"}
    BY DEF Moves
<1> QED BY <1>2, <1>3 DEF Keys, None, AllButton!NoKey

LEMMA KeyMoves ==
    ASSUME RangesFit, want \in Values, NEW f \in Numbers, NEW v \in Values, NEW w, NEW k, Moves(v, w, k),
           NEW p, PanelOk(p), p.page = f, p.value = v
    PROVE  /\ PanelOk(AllButton!Press(p, k))
           /\ AllButton!Press(p, k).page = f /\ AllButton!Press(p, k).value = w
<1>1. PICK q : q = AllButton!Press(p, k)
    OBVIOUS
<1>2. v \in Nat /\ want \in Nat /\ want <= AllButton!Top /\ AllButton!Top \in Int
    <2>1. AllButton!Top \in Int
        <3>1. PICK n \in Nat : Values = 0..n
            BY DEF RangesFit
        <3>2. n \in Values /\ \A x \in Values : x <= n
            BY <3>1
        <3>3. AllButton!Top \in Values
            BY <3>2 DEF AllButton!Top
        <3> QED BY <3>1, <3>3
    <2> QED BY <2>1, TopIs
<1>3. CASE want > v /\ w = v + 1 /\ k = "right"
    <2>1. q = AllButton!Right(p)
        BY <1>1, <1>3 DEF AllButton!Press
    <2>2. p.value < AllButton!Top
        BY <1>2, <1>3
    <2>3. AllButton!Right(p) = [p EXCEPT !.value = @ + 1]
        BY <2>2, NumbersAre DEF AllButton!Right
    <2>4. PanelOk(q) /\ q.page = f /\ q.value = w
        BY <1>3, <2>1, <2>3 DEF PanelOk
    <2> QED BY <1>1, <2>4
<1>4. CASE want < v /\ w = v - 1 /\ k = "left"
    <2>1. q = AllButton!Left(p)
        BY <1>1, <1>4 DEF AllButton!Press
    <2>2. p.value > 0
        BY <1>2, <1>4
    <2>3. AllButton!Left(p) = [p EXCEPT !.value = @ - 1]
        BY <2>2, NumbersAre DEF AllButton!Left
    <2>4. PanelOk(q) /\ q.page = f /\ q.value = w
        BY <1>4, <2>1, <2>3 DEF PanelOk
    <2> QED BY <1>1, <2>4
<1> QED BY <1>3, <1>4 DEF Moves

LEMMA EnterStores ==
    ASSUME NEW f \in Numbers, NEW p, PanelOk(p), p.page = f, p.value \in Values
    PROVE  /\ PanelOk(AllButton!Press(p, "enter"))
           /\ AllButton!Press(p, "enter").page = "IS_SET_TO"
           /\ AllButton!Press(p, "enter").stored[f] = p.value
<1>1. PICK q, r : q = AllButton!Press(p, "enter") /\ r = AllButton!Store(p, f, p.value)
    OBVIOUS
<1>2. q = AllButton!OnPage(r, "IS_SET_TO")
    BY <1>1, NumbersAre DEF AllButton!Press, AllButton!Enter
<1>3. PanelOk(r) /\ r.stored[f] = p.value
    <2>1. f \in AllButton!Settings
        BY NumbersAre
    <2>2. PICK v \in Values : v = p.value
        OBVIOUS
    <2>3. r = AllButton!Store(p, f, v)
        BY <1>1, <2>2
    <2> QED BY <2>1, <2>2, <2>3, StoreIs
<1>4. PanelOk(q) /\ q.page = "IS_SET_TO" /\ q.stored = r.stored
    BY <1>2, <1>3, OnPageIs
<1> QED BY <1>1, <1>3, <1>4

(* The value on the display.  n keys were pressed, and the rest of them is  *)
(* not too many.                                                            *)
Reads(f, v) == panel.page = f /\ panel.value = v /\ v \in Values /\ shown.text = f /\ shown.val = v
Close(n, v) == n \in Nat /\ n + (want - v) < FieldMax /\ n + (v - want) < FieldMax
InField(op, f, x, n) == Step(op, f, x, n)

LEMMA InFieldIs ==
    ASSUME NEW o \in Ops, NEW f \in Numbers, NEW x \in Int, NEW n \in Int, NEW s, s = InField(o, f, x, n)
    PROVE  s \in Steps /\ s.op = o /\ s.arg = f /\ s.val = x /\ s.n = n
<1>1. f \in Args
    BY NumbersAre
<1> QED BY <1>1 DEF InField, Steps, Step

LEMMA FieldOccurs ==
    ASSUME NEW sh, NEW o \in Ops, NEW f \in Numbers, NEW x \in Int, NEW n \in Int, NEW s,
           s = InField(o, f, x, n), sh.text = f
    PROVE  /\ AllButton!Occurs(sh, s) <=> (x \in Values => x = sh.val)
           /\ AllButton!Matches(sh, s) <=> (x \in Values => x = sh.val)
<1>4. s.arg = f /\ s.val = x
    BY InFieldIs
<1>1. s.arg = f /\ s.val = x /\ f # "NULL"
    BY <1>4 DEF Numbers
<1>2. AllButton!Occurs(sh, s) <=> (x \in Values => x = sh.val)
    BY <1>1 DEF AllButton!Occurs
<1>3. AllButton!Matches(sh, s) <=> AllButton!Occurs(sh, s)
    BY <1>1 DEF AllButton!Matches
<1> QED BY <1>2, <1>3

LEMMA FieldWaits ==
    ASSUME Quiet, NEW f \in Numbers, NEW x \in Int, NEW n \in Int, NEW T \in Seq(Steps), NEW k, NEW o,
           Doing(InField("field", f, x, n), T, k, o)
    PROVE  /\ Doing(InField("wait", f, x, 4), Cons(InField("adjust", f, x, n), T), k, o)'
           /\ UNCHANGED <<panel, shown>>
<1>1. PICK F, W, A :
        F = InField("field", f, x, n) /\ W = InField("wait", f, x, 4) /\ A = InField("adjust", f, x, n)
    OBVIOUS
<1>2. "field" \in Ops /\ "wait" \in Ops /\ "adjust" \in Ops /\ 4 \in Int
    BY DEF Ops
<1>3. F \in Steps /\ F.op = "field"
    BY <1>1, <1>2, InFieldIs
<1>4. W \in Steps /\ A \in Steps
    BY <1>1, <1>2, InFieldIs
<1>5. Front(F, T) /\ AllButton!Now = F
    BY <1>1, FrontIs DEF Doing
<1>6. Thinks
    BY <1>3, <1>5, AwakeStep DEF Awake
<1>7. AllButton!FieldWait
    BY <1>3, <1>5, <1>6, ThoughtIs DEF Quiet
<1>8. [F EXCEPT !.op = "wait", !.n = 4] = W
    <2>1. F = [op |-> "field", arg |-> f, val |-> x, n |-> n] /\ W = [op |-> "wait", arg |-> f, val |-> x, n |-> 4]
        BY <1>1 DEF Step, InField
    <2>2. PICK B : B = [F EXCEPT !.op = "wait"]
        OBVIOUS
    <2>3. B = [op |-> "wait", arg |-> f, val |-> x, n |-> n]
        BY <2>1, <2>2
    <2>4. [B EXCEPT !.n = 4] = W
        BY <2>1, <2>3
    <2> QED BY <2>2, <2>4
<1>9. [F EXCEPT !.op = "adjust"] = A
    BY <1>1 DEF Step, InField
<1>10. AllButton!Do(<<W, A>>) /\ UNCHANGED <<key, out, shown, panel, failed>>
    BY <1>5, <1>7, <1>8, <1>9 DEF AllButton!FieldWait, AllButton!Only, AllButton!Unmoved, AllButton!Deciding,
       AllButton!busVars
<1>11. Front(W, Cons(A, T))'
    BY <1>4, <1>5, <1>10, DoIs
<1> QED BY <1>1, <1>10, <1>11 DEF Doing

(* The value is asked for: ENTER.  Otherwise it is changed by one.          *)
LEMMA FieldTurns ==
    ASSUME RangesFit, Quiet, NEW f \in Numbers, NEW x \in Int, NEW n \in Nat, NEW T \in Seq(Steps), NEW o,
           Doing(InField("adjust", f, x, n), T, None, o), found,
           NEW v \in Values, Reads(f, v), Close(n, v)
    PROVE  \/ v = want /\ Doing(Step("key", "enter", -1, 0), T, None, o)' /\ Reads(f, want)'
           \/ \E w \in Values, k \in Keys :
                 /\ Moves(v, w, k) /\ Moves(v, w, k)' /\ Close(n + 1, w)'
                 /\ Doing(Step("key", k, -1, 0), Cons(InField("field", f, w, n + 1), T), None, o)'
                 /\ Reads(f, v)'
<1>1. PICK A : A = InField("adjust", f, x, n)
    OBVIOUS
<1>2. "adjust" \in Ops /\ "field" \in Ops /\ "key" \in Ops /\ n \in Int
    BY DEF Ops
<1>3. A \in Steps /\ A.op = "adjust" /\ A.n = n
    BY <1>1, <1>2, InFieldIs
<1>4. Front(A, T) /\ AllButton!Now = A
    BY <1>1, FrontIs DEF Doing
<1>5. Thinks
    BY <1>3, <1>4, AwakeStep DEF Awake
<1>6. AllButton!Adjust
    BY <1>3, <1>4, <1>5, ThoughtIs DEF Quiet
<1>7. v \in Nat /\ want \in Values /\ want \in Nat /\ want' = want /\ FieldMax \in Nat
    <2>1. want \in Values /\ want' = want
        BY CalmNext DEF Quiet, Calm, OfAllButton, Kept
    <2> QED BY <2>1, TopIs DEF RangesFit
<1>8. n < FieldMax
    BY <1>7 DEF Close
<1>9. shown.val = v /\ v # -1 /\ ~failed
    BY <1>7 DEF Reads, Doing
<1>10. PICK w, k :
        /\ w = IF want > v THEN v + 1 ELSE IF want < v THEN v - 1 ELSE v
        /\ k = IF want > v THEN "right" ELSE IF want < v THEN "left" ELSE "enter"
    OBVIOUS
<1>11. PICK K, F : K = Step("key", k, -1, 0) /\ F = InField("field", f, w, n + 1)
    OBVIOUS
<1>12. AllButton!Key(k) = K
    BY <1>11 DEF Step, AllButton!Key, AllButton!Step, AllButton!Nothing
<1>13. [A EXCEPT !.op = "field", !.val = w, !.n = @ + 1] = F
    <2>1. A = [op |-> "adjust", arg |-> f, val |-> x, n |-> n] /\ F = [op |-> "field", arg |-> f, val |-> w, n |-> n + 1]
        BY <1>1, <1>11 DEF Step, InField
    <2>2. PICK B : B = [A EXCEPT !.op = "field"]
        OBVIOUS
    <2>3. B = [op |-> "field", arg |-> f, val |-> x, n |-> n]
        BY <2>1, <2>2
    <2>4. PICK C : C = [B EXCEPT !.val = w]
        OBVIOUS
    <2>5. C = [op |-> "field", arg |-> f, val |-> w, n |-> n]
        BY <2>3, <2>4
    <2>6. [C EXCEPT !.n = @ + 1] = F
        BY <2>1, <2>5
    <2> QED BY <2>2, <2>4, <2>6
<1>14. /\ failed' = (failed \/ ~found \/ (n >= FieldMax /\ v # want))
       /\ AllButton!Do(IF ~found THEN <<AllButton!Key("cancel")>>
                       ELSE IF n >= FieldMax THEN <<K, AllButton!Key("enter")>>
                       ELSE IF v = want THEN <<K>> ELSE <<K, F>>)
       /\ UNCHANGED <<found, key, out, shown, panel>>
    BY <1>3, <1>4, <1>6, <1>9, <1>10, <1>12, <1>13 DEF AllButton!Adjust, AllButton!Only, AllButton!Unmoved,
       AllButton!Deciding, AllButton!busVars, AllButton!Nothing
<1>15. ~failed'
    <2>1. ~(n >= FieldMax)
        BY <1>7, <1>8
    <2>2. ~(failed \/ ~found \/ (n >= FieldMax /\ v # want))
        BY <1>9, <2>1
    <2> QED BY <1>14, <2>2, Zenon
<1>16. AllButton!Do(IF v = want THEN <<K>> ELSE <<K, F>>)
    BY <1>7, <1>8, <1>14
<1>17. Reads(f, v)'
    BY <1>14 DEF Reads
<1>18. CASE v = want
    <2>1. k = "enter"
        BY <1>7, <1>10, <1>18
    <2>2. K \in Steps
        <3>1. "enter" \in Args
            BY Zenon DEF Args, Keys
        <3> QED BY <1>2, <1>11, <2>1, <3>1 DEF Steps, Step
    <2>3. AllButton!Do(<<K>>)
        BY <1>16, <1>18
    <2>4. Front(K, T)'
        BY <1>4, <2>2, <2>3, DoIs
    <2>5. Doing(K, T, None, o)'
        BY <1>14, <1>15, <2>4 DEF Doing
    <2>6. Reads(f, want)'
        BY <1>7, <1>17, <1>18
    <2> QED BY <1>11, <1>18, <2>1, <2>5, <2>6
<1>19. CASE v # want
    <2>1. Moves(v, w, k) /\ want' = want
        BY <1>7, <1>10, <1>19 DEF Moves
    <2>2. w \in Values /\ k \in Keys
        BY <1>7, <2>1, MovesIs
    <2>3. K \in Steps
        <3>1. k \in Args
            BY <2>2, Zenon DEF Args
        <3> QED BY <1>2, <1>11, <3>1 DEF Steps, Step
    <2>4. F \in Steps
        <3>1. w \in Int /\ n + 1 \in Int
            BY <2>2, TopIs
        <3> QED BY <1>2, <1>11, <3>1, InFieldIs
    <2>5. AllButton!Do(<<K, F>>)
        BY <1>16, <1>19
    <2>6. Front(K, Cons(F, T))'
        BY <1>4, <2>3, <2>4, <2>5, DoIs
    <2>7. Doing(K, Cons(F, T), None, o)'
        BY <1>14, <1>15, <2>6 DEF Doing
    <2>8. Moves(v, w, k)'
        BY <2>1 DEF Moves
    <2>9. Close(n + 1, w)
        BY <1>7, <2>1 DEF Moves, Close
    <2>10. Close(n + 1, w)'
        BY <1>7, <2>9 DEF Close
    <2> QED BY <1>11, <1>17, <2>1, <2>2, <2>7, <2>8, <2>10
<1> QED BY <1>18, <1>19

(* The key is pressed and the value becomes w.  A message that the panel    *)
(* owed before it fetched the key shows the value again.                    *)
Changing(f, v, w, k, n, T, o) ==
    LET F == InField("field", f, w, n)
        U == Cons(InField("adjust", f, w, n), T)
    IN  \/ Doing(Step("key", k, -1, 0), Cons(F, T), None, o) /\ Reads(f, v)
        \/ Doing(F, T, k, o) /\ Reads(f, v)
        \/ Doing(InField("wait", f, w, 4), U, k, o) /\ Reads(f, v)
        \/ Doing(InField("parked", f, w, 4), U, k, o) /\ Reads(f, v)
        \/ Doing(InField("parked", f, w, 3), U, k, <<>>) /\ Reads(f, v)
        \/ \E m \in {3, 4} :
              Doing(InField("parked", f, w, m), U, None, Coming) /\ panel.page = f /\ panel.value = w
(* It is read, and is what is asked for or must be changed.                 *)
Judging(f, T, o) ==
    \E v \in Values, x \in Int, n \in Nat :
        Doing(InField("adjust", f, x, n), T, None, o) /\ found /\ Reads(f, v) /\ Close(n, v)

LEMMA ChangingNext ==
    ASSUME RangesFit, Quiet, NEW f \in Numbers, NEW v \in Values, NEW w, NEW k, Moves(v, w, k),
           NEW n \in Nat, NEW T \in Seq(Steps), NEW o \in {<<>>, Coming}, Close(n, w), Changing(f, v, w, k, n, T, o)
    PROVE  (Moves(v, w, k)' /\ Close(n, w)' /\ Changing(f, v, w, k, n, T, o)') \/ Judging(f, T, <<>>)'
<1>1. want' = want /\ want \in Values
    BY CalmNext DEF Quiet, Calm, OfAllButton, Kept
<1>2. Moves(v, w, k)' /\ Close(n, w)'
    BY <1>1 DEF Moves, Close
<1>3. w \in Values /\ w # v /\ k \in Keys /\ k # None /\ w \in Int /\ n \in Int
    BY <1>1, MovesIs, TopIs
<1>4. PICK K, F, W, P, Q, A, U :
        /\ K = Step("key", k, -1, 0) /\ F = InField("field", f, w, n) /\ W = InField("wait", f, w, 4)
        /\ P = InField("parked", f, w, 4) /\ Q = InField("parked", f, w, 3)
        /\ A = InField("adjust", f, w, n) /\ U = Cons(A, T)
    OBVIOUS
<1>5. "field" \in Ops /\ "wait" \in Ops /\ "parked" \in Ops /\ "adjust" \in Ops /\ 4 \in Int /\ 3 \in Int
    BY DEF Ops
<1>6. F \in Steps
    BY <1>3, <1>4, <1>5, InFieldIs
<1>7. P \in Steps /\ P.op = "parked"
    BY <1>3, <1>4, <1>5, InFieldIs
<1>15. Q \in Steps /\ Q.op = "parked"
    BY <1>3, <1>4, <1>5, InFieldIs
<1>8. A \in Steps
    BY <1>3, <1>4, <1>5, InFieldIs
<1>9. U \in Seq(Steps) /\ f \in Args
    BY <1>4, <1>8, ConsIs, NumbersAre
<1>16. f \in AllButton!Fields /\ f \notin DOMAIN AllButton!Pages /\ f \notin {"OFF", "IS_SET_TO", "TURNS_ON"}
    BY NumbersAre DEF Numbers
<1>10. CASE Doing(K, Cons(F, T), None, o) /\ Reads(f, v)
    <2>1. Doing(F, T, k, o)' /\ UNCHANGED <<panel, shown>>
        BY <1>3, <1>4, <1>6, <1>10, KeySent
    <2>2. Reads(f, v)'
        BY <1>10, <2>1 DEF Reads
    <2> QED BY <1>2, <1>4, <2>1, <2>2 DEF Changing
<1>11. CASE Doing(F, T, k, o) /\ Reads(f, v)
    <2>1. Doing(W, U, k, o)' /\ UNCHANGED <<panel, shown>>
        BY <1>3, <1>4, <1>11, FieldWaits
    <2>2. Reads(f, v)'
        BY <1>11, <2>1 DEF Reads
    <2> QED BY <1>2, <1>4, <2>1, <2>2 DEF Changing
<1>12. CASE Doing(W, U, k, o) /\ Reads(f, v)
    <2>1. ~AllButton!Matches(shown, W)
        BY <1>3, <1>4, <1>5, <1>12, FieldOccurs DEF Reads
    <2>2. W = Step("wait", f, w, 4) /\ P = Step("parked", f, w, 4)
        BY <1>4 DEF InField
    <2>3. Doing(P, U, k, o)' /\ UNCHANGED <<panel, shown>>
        BY <1>3, <1>5, <1>9, <1>12, <2>1, <2>2, Waited
    <2>4. Reads(f, v)'
        BY <1>12, <2>3 DEF Reads
    <2> QED BY <1>2, <1>4, <2>3, <2>4 DEF Changing
<1>13. ASSUME NEW m \in {3, 4}, NEW B, B = InField("parked", f, w, m), Doing(B, U, k, <<>>), Reads(f, v)
       PROVE  Changing(f, v, w, k, n, T, o)'
    <2>4. B \in Steps /\ B.op = "parked"
        BY <1>4, <1>7, <1>13, <1>15
    <2>1. /\ Front(B, U)' /\ key' = None /\ out' = Coming /\ ~failed'
          /\ panel' = AllButton!Press(panel, k) /\ ShownOk(shown')
        BY <1>13, <2>4, Fetched
    <2>2. PanelOk(panel') /\ panel'.page = f /\ panel'.value = w
        <3>1. PanelOk(panel) /\ panel.page = f /\ panel.value = v
            BY <1>13 DEF Doing, Reads
        <3> QED BY <1>1, <2>1, <3>1, KeyMoves
    <2>3. Doing(B, U, None, Coming)'
        BY <2>1, <2>2 DEF Doing
    <2> QED BY <1>4, <1>13, <2>2, <2>3 DEF Changing
<1>17. CASE Doing(P, U, k, Coming) /\ Reads(f, v)
    <2>1. P = Step("parked", f, w, 4) /\ Q = Step("parked", f, w, 3) /\ 4 - 1 = 3
        BY <1>4 DEF InField
    <2>2. /\ ShownOk(shown') /\ Sees(shown', panel) /\ panel' = AllButton!AfterDisplay(panel)
          /\ key' = k /\ out' = <<>> /\ ~failed'
          /\ ~AllButton!Matches(shown', P) => Front(Q, U)'
        BY <1>3, <1>5, <1>9, <1>17, <2>1, Heard
    <2>3. panel' = panel
        BY <1>16, <1>17, <2>2, PageStays DEF Reads
    <2>4. PICK sh : sh = shown'
        OBVIOUS
    <2>5. sh.text = f /\ sh.val = v
        BY <1>16, <1>17, <2>2, <2>4 DEF Sees, Reads
    <2>6. ~AllButton!Matches(sh, P)
        BY <1>3, <1>4, <1>5, <2>5, FieldOccurs
    <2>7. Doing(Q, U, k, <<>>)'
        BY <1>17, <2>2, <2>3, <2>4, <2>6 DEF Doing
    <2>8. Reads(f, v)'
        BY <1>17, <2>3, <2>4, <2>5 DEF Reads
    <2> QED BY <1>2, <1>4, <2>7, <2>8 DEF Changing
<1>14. ASSUME NEW m \in {3, 4}, NEW B, B = InField("parked", f, w, m), Doing(B, U, None, Coming),
              panel.page = f, panel.value = w
       PROVE  Judging(f, T, <<>>)'
    <2>1. B = Step("parked", f, w, m) /\ m \in Int /\ m # 1
        BY <1>14 DEF InField
    <2>2. /\ ShownOk(shown') /\ Sees(shown', panel) /\ panel' = AllButton!AfterDisplay(panel)
          /\ key' = None /\ out' = <<>> /\ ~failed'
          /\ found' = AllButton!Occurs(shown', B)
          /\ AllButton!Matches(shown', B) => todo' = U
        BY <1>3, <1>9, <1>14, <2>1, Heard
    <2>4. panel' = panel
        BY <1>14, <1>16, <2>2, PageStays
    <2>5. PICK sh : sh = shown'
        OBVIOUS
    <2>6. sh.text = f /\ sh.val = w
        BY <1>14, <1>16, <2>2, <2>5 DEF Sees
    <2>7. AllButton!Occurs(sh, B) /\ AllButton!Matches(sh, B)
        BY <1>3, <1>5, <1>14, <2>1, <2>6, FieldOccurs
    <2>8. todo' = U /\ found'
        BY <2>2, <2>5, <2>7
    <2>9. Doing(A, T, None, <<>>)'
        BY <1>4, <1>8, <1>14, <2>2, <2>4, <2>8 DEF Doing, Front
    <2>10. Reads(f, w)'
        BY <1>3, <1>14, <2>4, <2>5, <2>6 DEF Reads
    <2> QED BY <1>2, <1>3, <1>4, <2>8, <2>9, <2>10 DEF Judging
<1>18. o = <<>> \/ o = Coming
    OBVIOUS
<1>19. CASE Doing(P, U, k, o) /\ Reads(f, v)
    BY <1>2, <1>4, <1>13, <1>17, <1>18, <1>19
<1>20. CASE Doing(Q, U, k, <<>>) /\ Reads(f, v)
    BY <1>2, <1>4, <1>13, <1>20
<1>21. CASE \E m \in {3, 4} :
              Doing(InField("parked", f, w, m), U, None, Coming) /\ panel.page = f /\ panel.value = w
    BY <1>14, <1>21
<1> QED BY <1>4, <1>10, <1>11, <1>12, <1>19, <1>20, <1>21 DEF Changing

(* setAqualinkNumericField_new, on the page of the field f, until ENTER is  *)
(* in the slot.  O says whether the panel may owe a message.                *)
Setting(f, T, O) ==
    \E o \in O :
        \/ Doing(InField("field", f, -2, 0), T, None, o) /\ \E v \in Values : Reads(f, v)
        \/ /\ Doing(InField("wait", f, -2, 4), Cons(InField("adjust", f, -2, 0), T), None, o)
           /\ \E v \in Values : Reads(f, v)
        \/ Judging(f, T, o)
        \/ \E v \in Values, w \in Values, k \in Keys, n \in Nat :
              Moves(v, w, k) /\ Close(n, w) /\ Changing(f, v, w, k, n, T, o)
        \/ Doing(Step("key", "enter", -1, 0), T, None, o) /\ Reads(f, want)
(* ENTER is in the slot.                                                    *)
Accepting(f, b, U, o) == Doing(b, U, "enter", o) /\ Reads(f, want)

LEMMA SettingNext ==
    ASSUME RangesFit, Quiet, NEW f \in Numbers, NEW b \in Steps, NEW U \in Seq(Steps), NEW T, T = Cons(b, U),
           NEW O \in SUBSET {<<>>, Coming}, <<>> \in O, Setting(f, T, O)
    PROVE  Setting(f, T, O)' \/ \E o \in O : Accepting(f, b, U, o)'
<1>1. T \in Seq(Steps) /\ -2 \in Int /\ 4 \in Int /\ 0 \in Int /\ 0 \in Nat /\ f \in Args
    <2>1. T \in Seq(Steps)
        BY ConsIs
    <2>2. f \in Args
        BY NumbersAre
    <2> QED BY <2>1, <2>2
<1>2. PICK F, W, A : F = InField("field", f, -2, 0) /\ W = InField("wait", f, -2, 4) /\ A = InField("adjust", f, -2, 0)
    OBVIOUS
<1>3. "field" \in Ops /\ "wait" \in Ops /\ "adjust" \in Ops
    BY DEF Ops
<1>5. A \in Steps
    BY <1>1, <1>2, <1>3, InFieldIs
<1>6. want' = want /\ want \in Values
    BY CalmNext DEF Quiet, Calm, OfAllButton, Kept
<1>7. ASSUME NEW o \in O, Doing(F, T, None, o), NEW v \in Values, Reads(f, v)
      PROVE  Setting(f, T, O)'
    <2>2. Doing(W, Cons(A, T), None, o)' /\ UNCHANGED <<panel, shown>>
        BY <1>1, <1>2, <1>7, FieldWaits
    <2>6. Reads(f, v)'
        BY <1>7, <2>2 DEF Reads
    <2> QED BY <1>2, <2>2, <2>6 DEF Setting
<1>8. ASSUME NEW o \in O, Doing(W, Cons(A, T), None, o), NEW v \in Values, Reads(f, v)
      PROVE  Setting(f, T, O)'
    <2>2. W = Step("wait", f, -2, 4)
        BY <1>2 DEF InField
    <2>3. AllButton!Matches(shown, W) /\ AllButton!Occurs(shown, W)
        <3>1. -2 \notin Values
            BY ProgramAssumption
        <3>2. shown.text = f
            BY <1>8 DEF Reads
        <3> QED BY <1>1, <1>2, <1>3, <3>1, <3>2, FieldOccurs
    <2>4. UNCHANGED <<panel, shown, key, out>> /\ ~failed' /\ found' /\ todo' = Cons(A, T)
        BY <1>1, <1>8, <2>2, <2>3, Waited
    <2>5. Doing(A, T, None, o)'
        BY <1>1, <1>5, <1>8, <2>4 DEF Doing, Front
    <2>6. Reads(f, v)'
        BY <1>8, <2>4 DEF Reads
    <2>7. Close(0, v)'
        <3>1. Close(0, v)
            <4>1. PICK n \in Nat : Values = 0..n /\ n < FieldMax
                BY DEF RangesFit
            <4>2. FieldMax \in Nat
                BY DEF RangesFit
            <4> QED BY <1>6, <4>1, <4>2 DEF Close
        <3> QED BY <1>6, <3>1 DEF Close
    <2>8. Judging(f, T, o)'
        BY <1>1, <1>2, <2>4, <2>5, <2>6, <2>7 DEF Judging
    <2> QED BY <2>8 DEF Setting
<1>9. ASSUME NEW o \in O, Judging(f, T, o)
      PROVE  Setting(f, T, O)'
    <2>1. PICK v \in Values, x \in Int, n \in Nat :
            Doing(InField("adjust", f, x, n), T, None, o) /\ found /\ Reads(f, v) /\ Close(n, v)
        BY <1>9 DEF Judging
    <2>2. CASE v = want /\ Doing(Step("key", "enter", -1, 0), T, None, o)' /\ Reads(f, want)'
        BY <2>2 DEF Setting
    <2>3. ASSUME NEW w \in Values, NEW k \in Keys, Moves(v, w, k)', Close(n + 1, w)',
                 Doing(Step("key", k, -1, 0), Cons(InField("field", f, w, n + 1), T), None, o)',
                 Reads(f, v)'
          PROVE  Setting(f, T, O)'
        <3>1. Changing(f, v, w, k, n + 1, T, o)'
            BY <2>3 DEF Changing
        <3>2. n + 1 \in Nat
            OBVIOUS
        <3> QED BY <2>3, <3>1, <3>2 DEF Setting
    <2> QED BY <1>1, <2>1, <2>2, <2>3, FieldTurns
<1>10. ASSUME NEW o \in O, NEW v \in Values, NEW w \in Values, NEW k \in Keys, NEW n \in Nat,
              Moves(v, w, k), Close(n, w), Changing(f, v, w, k, n, T, o)
       PROVE  Setting(f, T, O)'
    <2>1. (Moves(v, w, k)' /\ Close(n, w)' /\ Changing(f, v, w, k, n, T, o)') \/ Judging(f, T, <<>>)'
        BY <1>1, <1>10, ChangingNext
    <2> QED BY <2>1 DEF Setting
<1>11. ASSUME NEW o \in O, Doing(Step("key", "enter", -1, 0), T, None, o), Reads(f, want)
       PROVE  Accepting(f, b, U, o)'
    <2>1. "enter" \in Keys
        BY DEF Keys
    <2>2. Doing(b, U, "enter", o)' /\ UNCHANGED <<panel, shown>>
        BY <1>11, <2>1, KeySent
    <2>3. Reads(f, want)'
        BY <1>6, <1>11, <2>2 DEF Reads
    <2> QED BY <2>2, <2>3 DEF Accepting
<1> QED BY <1>2, <1>7, <1>8, <1>9, <1>10, <1>11 DEF Setting

LEMMA OpenedIsSetting ==
    ASSUME NEW f \in Numbers, NEW T \in Seq(Steps), NEW O, <<>> \in O,
           Opened(f, Cons(InField("field", f, -2, 0), T))
    PROVE  Setting(f, T, O)
<1>1. PICK F : F = InField("field", f, -2, 0)
    OBVIOUS
<1>2. F \in Steps
    <2>1. "field" \in Ops /\ -2 \in Int /\ 0 \in Int
        BY DEF Ops
    <2> QED BY <1>1, <2>1, InFieldIs
<1>3. Doing(F, T, None, <<>>)
    BY <1>1, <1>2 DEF Opened, Doing, Front
<1>4. f \in AllButton!Fields /\ f \notin DOMAIN AllButton!Pages /\ f \in AllButton!Settings
    BY NumbersAre
<1>5. PICK v \in Values : v = panel.stored[f]
    BY <1>4 DEF Opened, PanelOk
<1>6. Reads(f, v)
    BY <1>4, <1>5 DEF Opened, Sees, Reads
<1> QED BY <1>1, <1>3, <1>6 DEF Setting

-----------------------------------------------------------------------------
(* The end of a program.                                                    *)

(* The panel has what was asked for, and the thread only waits.             *)
Waits == {s \in Steps : s.op \in {"wait", "parked", "end"}}
Stored(p) == \A s \in AllButton!Target(prog) \ {"HOUR"} : p.stored[s] = want
Waiting == todo \in Seq(Waits) /\ key = None /\ ~failed /\ PanelOk(panel) /\ Stored(panel)

LEMMA WaitsAreSteps ==
    ASSUME NEW T \in Seq(Waits)
    PROVE  T \in Seq(Steps)
<1>1. Waits \subseteq Steps
    BY DEF Waits
<1> QED BY <1>1

LEMMA ItWorks ==
    ASSUME AllButton!ThreadStep
    PROVE  AllButton!Working
BY DEF AllButton!ThreadStep, AllButton!CommonStep, AllButton!SendKey, AllButton!QueueEmpty, AllButton!DelayOver,
   AllButton!TellClients, AllButton!EndProgram, AllButton!SendKeyLate, AllButton!Deciders,
   AllButton!waitForMessage, AllButton!SelectMenu, AllButton!MenuFound, AllButton!SelectSub,
   AllButton!Seek, AllButton!GiveUpOrGoOn, AllButton!FieldWait, AllButton!Adjust, AllButton!TryOther,
   AllButton!TextGone, AllButton!LightOff, AllButton!LightMode, AllButton!ModeShown, AllButton!BoostStop,
   AllButton!StopShown, AllButton!PulseLight, AllButton!LightForgets, AllButton!EndOrGoOn,
   AllButton!EnterOrCancel, AllButton!At

LEMMA StoredStays ==
    ASSUME prog' = prog, want' = want, Stored(panel), panel'.stored = panel.stored
    PROVE  Stored(panel)'
BY DEF Stored

LEMMA AfterKeeps ==
    ASSUME NEW p, PanelOk(p)
    PROVE  PanelOk(AllButton!AfterDisplay(p)) /\ AllButton!AfterDisplay(p).stored = p.stored
<1>1. PICK q : q = AllButton!AfterDisplay(p)
    OBVIOUS
<1>2. q = p \/ q = AllButton!OnPage(p, "home") \/ q = AllButton!OnPage(p, "SELECT_DEVICE")
    BY <1>1 DEF AllButton!AfterDisplay
<1>3. PanelOk(q) /\ q.stored = p.stored
    BY <1>2, OnPageIs
<1> QED BY <1>1, <1>3

LEMMA WaitingNext ==
    ASSUME Quiet, Waiting
    PROVE  Waiting'
<1>1. prog' = prog /\ want' = want /\ stack = <<>>
    BY CalmNext DEF Quiet, Kept, Calm
<1>2. CASE todo = <<>>
    <2>1. ~Thinks
        BY <1>2, ItWorks DEF Thinks, AllButton!Working
    <2>2. CASE Fetches
        <3>1. panel' = AllButton!Press(panel, None) /\ key' = key /\ UNCHANGED <<todo, failed>>
            BY <1>2, <2>2 DEF Fetches, None
        <3>2. panel' = panel
            BY <3>1, NothingPressed
        <3> QED BY <1>1, <3>1, <3>2 DEF Waiting, Stored
    <2>3. CASE Hears
        <3>1. PICK sh : sh = shown'
            OBVIOUS
        <3>2. AllButton!KickThread(sh) /\ panel' = AllButton!AfterDisplay(panel) /\ UNCHANGED <<key, failed>>
            BY <2>3, <3>1 DEF Hears
        <3>3. todo' = todo
            BY <1>2, <3>2 DEF AllButton!KickThread, AllButton!At, AllButton!Working
        <3>4. PanelOk(panel') /\ panel'.stored = panel.stored
            BY <3>2, AfterKeeps DEF Waiting
        <3>5. Stored(panel)'
            BY <1>1, <3>4, StoredStays DEF Waiting
        <3> QED BY <3>2, <3>3, <3>4, <3>5 DEF Waiting
    <2> QED BY <2>1, <2>2, <2>3, QuietStep DEF Quiet
<1>3. CASE todo # <<>>
    <2>1. PICK a, T : a = Head(todo) /\ T = Tail(todo)
        OBVIOUS
    <2>2. a \in Waits /\ T \in Seq(Waits) /\ todo = Cons(a, T)
        BY <1>3, <2>1 DEF Waiting, Cons
    <2>3. Front(a, T) /\ a.op \in {"wait", "parked", "end"}
        BY <2>2, WaitsAreSteps DEF Front, Waits
    <2>4. AllButton!Now = a
        BY <2>3, FrontIs
    <2>5. CASE Thinks
        <3>1. AllButton!waitForMessage \/ AllButton!EndProgram
            BY <2>3, <2>5, ThoughtIs DEF Quiet
        <3>2. CASE AllButton!EndProgram
            <4>1. todo' = <<>> /\ UNCHANGED <<key, panel, failed>>
                BY <3>2 DEF AllButton!EndProgram, AllButton!Leave
            <4> QED BY <1>1, <4>1 DEF Waiting, Stored
        <3>3. CASE AllButton!waitForMessage
            <4>1. PICK c : c = [a EXCEPT !.op = "parked"]
                OBVIOUS
            <4>2. c \in Waits /\ c \in Steps
                BY <2>3, <4>1 DEF Waits, Steps, Front, Ops
            <4>3. /\ AllButton!Do(IF AllButton!Matches(shown, a) THEN <<>> ELSE <<c>>)
                  /\ UNCHANGED <<key, panel, failed>>
                BY <2>4, <3>3, <4>1 DEF AllButton!waitForMessage, AllButton!Deciding, AllButton!busVars
            <4>4. todo' \in Seq(Waits)
                <5>1. CASE AllButton!Matches(shown, a)
                    <6>1. AllButton!Do(<<>>)
                        BY <4>3, <5>1
                    <6>2. todo' = T
                        BY <2>3, <4>2, <6>1, DoIs
                    <6> QED BY <2>2, <6>2
                <5>2. CASE ~AllButton!Matches(shown, a)
                    <6>1. AllButton!Do(<<c>>)
                        BY <4>3, <5>2
                    <6>2. todo' = Cons(c, T)
                        BY <2>3, <4>2, <6>1, DoIs DEF Front
                    <6> QED BY <2>2, <4>2, <6>2, ConsIs
                <5> QED BY <5>1, <5>2
            <4> QED BY <1>1, <4>3, <4>4 DEF Waiting, Stored
        <3> QED BY <3>1, <3>2, <3>3
    <2>6. CASE Fetches
        <3>1. panel' = AllButton!Press(panel, None) /\ key' = None /\ UNCHANGED <<todo, failed>>
            BY <1>3, <2>6 DEF Fetches, None, Waiting
        <3>2. panel' = panel
            BY <3>1, NothingPressed
        <3> QED BY <1>1, <3>1, <3>2 DEF Waiting, Stored
    <2>7. CASE Hears
        <3>1. PICK sh : sh = shown'
            OBVIOUS
        <3>2. AllButton!KickThread(sh) /\ panel' = AllButton!AfterDisplay(panel) /\ UNCHANGED <<key, failed>>
            BY <2>7, <3>1 DEF Hears
        <3>3. todo' \in Seq(Waits)
            <4>1. PICK c : c = AllButton!Count(a)
                OBVIOUS
            <4>2. c \in Waits /\ c \in Steps
                BY <2>3, <4>1 DEF Waits, Steps, Front, AllButton!Count
            <4>3. \/ todo' = todo
                  \/ AllButton!Do(<<>>)
                  \/ AllButton!Do(IF AllButton!Matches(sh, a) THEN <<>> ELSE <<c>>)
                BY <2>4, <3>2, <4>1 DEF AllButton!KickThread
            <4>4. todo' = todo \/ AllButton!Do(<<>>) \/ AllButton!Do(<<c>>)
                <5>1. CASE AllButton!Matches(sh, a)
                    BY <4>3, <5>1
                <5>2. CASE ~AllButton!Matches(sh, a)
                    BY <4>3, <5>2
                <5> QED BY <5>1, <5>2
            <4>5. CASE todo' = todo
                BY <4>5 DEF Waiting
            <4>6. CASE AllButton!Do(<<>>)
                <5>1. todo' = T
                    BY <2>3, <4>2, <4>6, DoIs
                <5> QED BY <2>2, <5>1
            <4>7. CASE AllButton!Do(<<c>>)
                <5>1. todo' = Cons(c, T)
                    BY <2>3, <4>2, <4>7, DoIs DEF Front
                <5> QED BY <2>2, <4>2, <5>1, ConsIs
            <4> QED BY <4>4, <4>5, <4>6, <4>7
        <3>4. PanelOk(panel') /\ panel'.stored = panel.stored
            BY <3>2, AfterKeeps DEF Waiting
        <3>5. Stored(panel)'
            BY <1>1, <3>4, StoredStays DEF Waiting
        <3> QED BY <3>2, <3>3, <3>4, <3>5 DEF Waiting
    <2> QED BY <2>5, <2>6, <2>7, QuietStep DEF Quiet
<1> QED BY <1>2, <1>3

(* The new value is in the field, and ENTER stores it.                      *)
IsSetTo(op, n) == Step(op, "IS_SET_TO", -1, n)
Telling == Step("tell", "", -1, 0)
Ended == Step("end", "", -1, 0)
Storing(f, n, U, O) ==
    \/ \E o \in O : Accepting(f, Telling, Cons(IsSetTo("wait", n), U), o)
    \/ \E o \in O : Accepting(f, IsSetTo("wait", n), U, o)
    \/ \E o \in O : Accepting(f, IsSetTo("parked", n), U, o)
    \/ Accepting(f, Ended, <<>>, <<>>)

LEMMA StoringNext ==
    ASSUME Quiet, NEW f \in Numbers, NEW n \in Int, NEW U \in Seq(Waits),
           NEW O \in SUBSET {<<>>, Coming}, <<>> \in O, Coming \in O => (n = 1 /\ U = Cons(Ended, <<>>)),
           AllButton!Target(prog) = {f}, Storing(f, n, U, O)
    PROVE  Storing(f, n, U, O)' \/ Waiting'
<1>1. want' = want /\ prog' = prog
    BY CalmNext DEF Quiet, Kept
<1>2. PICK B, W, P, E : B = Telling /\ W = IsSetTo("wait", n) /\ P = IsSetTo("parked", n) /\ E = Ended
    OBVIOUS
<1>3. "" \in Args /\ "IS_SET_TO" \in Args
    BY Zenon DEF Args
<1>4. -1 \in Int /\ 0 \in Int
    OBVIOUS
<1>5. W \in Steps
    BY <1>2, <1>3, <1>4 DEF IsSetTo, Steps, Step, Ops
<1>6. P \in Steps /\ P.op = "parked" /\ P \in Waits
    BY <1>2, <1>3, <1>4 DEF IsSetTo, Steps, Step, Ops, Waits
<1>7. E \in Steps /\ E.op = "end" /\ E \in Waits
    BY <1>2, <1>3, <1>4 DEF Ended, Steps, Step, Ops, Waits
<1>8. B \in Steps /\ B.op = "tell"
    BY <1>2, <1>3, <1>4 DEF Telling, Steps, Step, Ops
<1>9. U \in Seq(Steps) /\ "enter" # None
    BY WaitsAreSteps DEF None, AllButton!NoKey
<1>10. ASSUME NEW o \in O, Accepting(f, B, Cons(W, U), o)
       PROVE  Storing(f, n, U, O)'
    <2>1. Front(B, Cons(W, U)) /\ AllButton!Now = B
        BY <1>10, FrontIs DEF Accepting, Doing
    <2>2. Thinks
        BY <1>8, <2>1, AwakeStep DEF Awake
    <2>3. AllButton!TellClients
        BY <1>8, <2>1, <2>2, ThoughtIs DEF Quiet
    <2>4. AllButton!Do(<<>>) /\ UNCHANGED <<key, out, shown, panel, failed>>
        BY <2>3 DEF AllButton!TellClients, AllButton!Deciding, AllButton!busVars
    <2>5. Front(W, U)'
        BY <1>5, <1>8, <1>9, <2>1, <2>4, DoIs DEF Front
    <2>6. Accepting(f, W, U, o)'
        BY <1>1, <1>10, <2>4, <2>5 DEF Accepting, Doing, Reads
    <2> QED BY <1>2, <2>6 DEF Storing
<1>11. ASSUME NEW o \in O, Accepting(f, W, U, o)
       PROVE  Storing(f, n, U, O)'
    <2>1. W = Step("wait", "IS_SET_TO", -1, n) /\ P = Step("parked", "IS_SET_TO", -1, n)
        BY <1>2 DEF IsSetTo
    <2>2. ~AllButton!Matches(shown, W)
        <3>1. shown.text = f /\ "wait" \in Ops
            BY <1>11 DEF Accepting, Reads, Ops
        <3>2. f # "IS_SET_TO" /\ <<f, "IS_SET_TO">> \notin AllButton!Includes /\ "IS_SET_TO" # "NULL"
            BY DEF Numbers, AllButton!Includes
        <3>3. ~AllButton!Occurs(shown, W)
            BY <1>3, <2>1, <3>1, <3>2, TextOccurs
        <3> QED BY <3>3 DEF AllButton!Matches
    <2>3. Doing(P, U, "enter", o)' /\ UNCHANGED <<panel, shown>>
        BY <1>3, <1>4, <1>11, <2>1, <2>2, Waited DEF Accepting
    <2>4. Accepting(f, P, U, o)'
        BY <1>1, <1>11, <2>3 DEF Accepting, Reads
    <2> QED BY <1>2, <2>4 DEF Storing
<1>12. ASSUME NEW a \in {P, E}, NEW S \in Seq(Waits), Accepting(f, a, S, <<>>)
       PROVE  Waiting'
    <2>1. a \in Waits /\ (a.op = "parked" \/ a.op = "end")
        BY <1>6, <1>7
    <2>2. /\ Front(a, S)' /\ key' = None /\ ~failed'
          /\ panel' = AllButton!Press(panel, "enter")
        BY <1>9, <1>12, <2>1, Fetched DEF Accepting
    <2>3. PanelOk(panel) /\ panel.page = f /\ panel.value = want /\ want \in Values
        BY <1>12 DEF Accepting, Doing, Reads
    <2>4. PanelOk(panel') /\ panel'.stored[f] = want
        BY <2>2, <2>3, EnterStores
    <2>5. Stored(panel)'
        BY <1>1, <2>4 DEF Stored
    <2>6. todo' \in Seq(Waits)
        BY <2>1, <2>2, ConsIs DEF Front
    <2> QED BY <2>2, <2>4, <2>5, <2>6 DEF Waiting
<1>13. ASSUME Coming \in O, Accepting(f, P, U, Coming)
       PROVE  Accepting(f, E, <<>>, <<>>)'
    <2>1. P = Step("parked", "IS_SET_TO", -1, n) /\ n = 1 /\ U = Cons(E, <<>>)
        BY <1>2, <1>13 DEF IsSetTo
    <2>2. /\ ShownOk(shown') /\ Sees(shown', panel) /\ panel' = AllButton!AfterDisplay(panel)
          /\ key' = "enter" /\ out' = <<>> /\ ~failed' /\ todo' = U
        BY <1>3, <1>4, <1>13, <2>1, Heard DEF Accepting
    <2>3. f \in AllButton!Fields /\ f \notin DOMAIN AllButton!Pages /\ f \notin {"OFF", "IS_SET_TO", "TURNS_ON"}
        BY NumbersAre DEF Numbers
    <2>4. panel' = panel
        BY <1>13, <2>2, <2>3, PageStays DEF Accepting, Reads
    <2>5. shown'.text = f /\ shown'.val = want
        BY <1>13, <2>2, <2>3 DEF Sees, Accepting, Reads
    <2>6. Reads(f, want)'
        BY <1>1, <1>13, <2>4, <2>5 DEF Accepting, Reads
    <2>7. Front(E, <<>>)'
        BY <1>7, <2>1, <2>2 DEF Front
    <2>8. Doing(E, <<>>, "enter", <<>>)'
        BY <1>13, <2>2, <2>4, <2>7 DEF Doing, Accepting
    <2> QED BY <2>6, <2>8 DEF Accepting
<1>14. <<>> \in Seq(Waits)
    OBVIOUS
<1>15. CASE Accepting(f, E, <<>>, <<>>)
    BY <1>12, <1>14, <1>15
<1>16. ASSUME NEW o \in O, Accepting(f, P, U, o)
       PROVE  Storing(f, n, U, O)' \/ Waiting'
    <2>1. CASE o = <<>>
        BY <1>12, <1>16, <2>1
    <2>2. CASE o = Coming
        <3>1. Accepting(f, E, <<>>, <<>>)'
            BY <1>13, <1>16, <2>2
        <3> QED BY <1>2, <3>1 DEF Storing
    <2> QED BY <1>16, <2>1, <2>2
<1> QED BY <1>2, <1>10, <1>11, <1>15, <1>16 DEF Storing

-----------------------------------------------------------------------------
(* The way to a page.                                                       *)

(* An item of the page that is open.                                        *)
Chosen(j) == Step("sub", j, -1, SeekMax)
Leg(j, pg, bt, to, T) ==
    Seeking(j, pg, bt, to, Cons(OrCancel, T)) \/ Opened(to, Cons(OrCancel, T))

LEMMA GoOnSteps == OrCancel \in Steps /\ OrTry \in Steps
<1>1. "" \in Args /\ "SET_AQUARITE" \in Args
    BY Zenon DEF Args
<1>2. -1 \in Int /\ 0 \in Int
    OBVIOUS
<1>3. OrCancel \in Steps
    BY <1>1, <1>2 DEF OrCancel, Steps, Step, Ops
<1>4. OrTry \in Steps
    BY <1>1, <1>2 DEF OrTry, Steps, Step, Ops
<1> QED BY <1>3, <1>4

LEMMA LegNext ==
    ASSUME RangesFit, Quiet, NEW pg, NEW j, NEW to, NEW bt, Leads(pg, j, to, bt), NEW T \in Seq(Steps),
           Leg(j, pg, bt, to, T)
    PROVE  Leg(j, pg, bt, to, T)' \/ Opened(to, T)'
<1>1. SeekMax \in Int /\ SeekMax >= 7
    BY DEF RangesFit
<1>2. OrCancel \in Steps
    BY GoOnSteps
<1>3. Cons(OrCancel, T) \in Seq(Steps)
    BY <1>2, ConsIs
<1>4. CASE Seeking(j, pg, bt, to, Cons(OrCancel, T))
    <2>1. Seeking(j, pg, bt, to, Cons(OrCancel, T))' \/ Opened(to, Cons(OrCancel, T))'
        BY <1>1, <1>3, <1>4, SeekingNext
    <2> QED BY <2>1 DEF Leg
<1>5. CASE Opened(to, Cons(OrCancel, T))
    BY <1>5, GoesOn
<1> QED BY <1>4, <1>5 DEF Leg

(* The menu, an item of it, and the first item that is looked for on its    *)
(* page.                                                                    *)
Trip(i, at, mid, j, bt, to, T) ==
    LET C == Cons(OrCancel, Cons(Chosen(j), Cons(OrCancel, T)))
    IN  \/ \E X \in {C, Cons(OrTry, C)} :
              Selecting(i, X) \/ Seeking(i, "menu", at, mid, X) \/ Opened(mid, X)
        \/ Leg(j, mid, bt, to, T)

LEMMA TripNext ==
    ASSUME RangesFit, Quiet, NEW i, NEW at, NEW mid, Leads("menu", i, mid, at),
           NEW j, NEW bt, NEW to, Leads(mid, j, to, bt), NEW T \in Seq(Steps), Trip(i, at, mid, j, bt, to, T)
    PROVE  Trip(i, at, mid, j, bt, to, T)' \/ Opened(to, T)'
<1>1. SeekMax \in Int /\ SeekMax >= 7
    BY DEF RangesFit
<1>2. OrCancel \in Steps
    BY GoOnSteps
<1>3. OrTry \in Steps
    BY GoOnSteps
<1>4. Chosen(j) \in Steps
    <2>1. j \in Items
        BY DEF Leads
    <2>2. j \in Args
        BY <2>1, Zenon DEF Args
    <2> QED BY <1>1, <2>2 DEF Chosen, Steps, Step, Ops
<1>5. PICK D, S, C, Y : D = Cons(OrCancel, T) /\ S = Cons(Chosen(j), D) /\ C = Cons(OrCancel, S) /\ Y = Cons(OrTry, C)
    OBVIOUS
<1>6. D \in Seq(Steps)
    BY <1>2, <1>5, ConsIs
<1>7. S \in Seq(Steps)
    BY <1>4, <1>5, <1>6, ConsIs
<1>8. C \in Seq(Steps)
    BY <1>2, <1>5, <1>7, ConsIs
<1>9. Y \in Seq(Steps)
    BY <1>3, <1>5, <1>8, ConsIs
<1>10. i \in Items
    BY DEF Leads
<1>11. ASSUME NEW X \in {C, Y}, Selecting(i, X)
       PROVE  Trip(i, at, mid, j, bt, to, T)'
    <2>1. X \in Seq(Steps)
        BY <1>8, <1>9
    <2>2. Selecting(i, X)' \/ Opened("menu", Cons(Chosen(i), X))'
        BY <1>1, <1>10, <1>11, <2>1, SelectingNext DEF Chosen
    <2>3. Selecting(i, X)' \/ Seeking(i, "menu", at, mid, X)'
        BY <2>2 DEF Seeking, Chosen
    <2> QED BY <1>5, <2>3 DEF Trip
<1>12. ASSUME NEW X \in {C, Y}, Seeking(i, "menu", at, mid, X)
       PROVE  Trip(i, at, mid, j, bt, to, T)'
    <2>1. X \in Seq(Steps)
        BY <1>8, <1>9
    <2>2. Seeking(i, "menu", at, mid, X)' \/ Opened(mid, X)'
        BY <1>1, <1>12, <2>1, SeekingNext
    <2> QED BY <1>5, <2>2 DEF Trip
<1>13. CASE Opened(mid, Y)
    <2>1. Opened(mid, C)'
        BY <1>5, <1>8, <1>13, GoesOn
    <2> QED BY <1>5, <2>1 DEF Trip
<1>14. CASE Opened(mid, C)
    <2>1. Opened(mid, S)'
        BY <1>5, <1>7, <1>14, GoesOn
    <2>2. Leg(j, mid, bt, to, T)'
        BY <1>5, <2>1 DEF Leg, Seeking, Chosen
    <2> QED BY <2>2 DEF Trip
<1>15. CASE Leg(j, mid, bt, to, T)
    <2>1. Leg(j, mid, bt, to, T)' \/ Opened(to, T)'
        BY <1>15, LegNext
    <2> QED BY <2>1 DEF Trip
<1> QED BY <1>5, <1>11, <1>12, <1>13, <1>14, <1>15 DEF Trip

(* A panel for one body of water says first which temperature must be       *)
(* higher, and the program waits until that is gone.                        *)
MustBe(op, n) == Step(op, "MUST_BE_SET", -1, n)
Higher(F) ==
    LET G == MustBe("until", 0)
        L == Step("key", "left", -1, 0)
    IN  \/ Opened("MUST_BE_SET", Cons(MustBe("wait", 5), Cons(L, Cons(G, F))))
        \/ Doing(L, Cons(G, F), None, <<>>) /\ panel.page = "MUST_BE_SET" /\ shown.text = "MUST_BE_SET"
        \/ Doing(G, F, "left", <<>>) /\ panel.page = "MUST_BE_SET" /\ shown.text = "MUST_BE_SET"
        \/ /\ Doing(G, F, None, Coming)
           /\ panel.page = "TEMP1" /\ panel.value \in Values /\ shown.text = "MUST_BE_SET"
        \/ \E o \in {<<>>, Coming}, v \in Values : Doing(G, F, None, o) /\ Reads("TEMP1", v)

LEMMA HigherNext ==
    ASSUME Quiet, NEW T \in Seq(Steps), NEW F, F = Cons(InField("field", "TEMP1", -2, 0), T), Higher(F)
    PROVE  Higher(F)' \/ Setting("TEMP1", T, {<<>>, Coming})'
<1>1. PICK W, L, G, A :
        /\ W = MustBe("wait", 5) /\ L = Step("key", "left", -1, 0) /\ G = MustBe("until", 0)
        /\ A = InField("field", "TEMP1", -2, 0)
    OBVIOUS
<1>2. "MUST_BE_SET" \in Args /\ "left" \in Args /\ "TEMP1" \in Args
    BY Zenon DEF Args, Keys, Numbers
<1>3. -1 \in Int /\ 0 \in Int /\ 5 \in Int /\ -2 \in Int /\ "left" \in Keys /\ "left" # None
    BY DEF Keys, None, AllButton!NoKey
<1>4. W \in Steps
    BY <1>1, <1>2, <1>3 DEF MustBe, Steps, Step, Ops
<1>5. L \in Steps
    BY <1>1, <1>2, <1>3 DEF Steps, Step, Ops
<1>6. G \in Steps /\ G.op = "until" /\ G.arg = "MUST_BE_SET"
    BY <1>1, <1>2, <1>3 DEF MustBe, Steps, Step, Ops
<1>7. A \in Steps
    BY <1>1, <1>2, <1>3 DEF InField, Steps, Step, Ops
<1>8. F \in Seq(Steps)
    BY <1>1, <1>7, ConsIs
<1>9. Cons(G, F) \in Seq(Steps)
    BY <1>6, <1>8, ConsIs
<1>10. Cons(L, Cons(G, F)) \in Seq(Steps)
    BY <1>5, <1>9, ConsIs
<1>11. /\ "TEMP1" \in AllButton!Fields /\ "TEMP1" \in AllButton!Settings /\ "TEMP1" \notin DOMAIN AllButton!Pages
       /\ "TEMP1" \notin {"OFF", "IS_SET_TO", "TURNS_ON"}
    <2>1. "TEMP1" \in Numbers
        BY DEF Numbers
    <2> QED BY <2>1, NumbersAre
<1>12. /\ "MUST_BE_SET" \notin DOMAIN AllButton!Pages /\ "MUST_BE_SET" \notin AllButton!Fields
       /\ "MUST_BE_SET" # "NULL"
    BY DEF AllButton!Pages, AllButton!Fields, AllButton!Rings
<1>13. ASSUME NEW o, NEW k, Doing(G, F, k, o), Thinks
       PROVE  shown.text # "MUST_BE_SET" /\ Doing(A, T, k, o)' /\ UNCHANGED <<panel, shown>>
    <2>1. Front(G, F) /\ AllButton!Now = G
        BY <1>13, FrontIs DEF Doing
    <2>2. AllButton!TextGone
        BY <1>6, <1>13, <2>1, ThoughtIs DEF Quiet
    <2>3. shown.text # "MUST_BE_SET" /\ AllButton!Do(<<>>) /\ UNCHANGED <<key, out, shown, panel, failed>>
        BY <1>6, <2>1, <2>2 DEF AllButton!TextGone, AllButton!Only, AllButton!Unmoved, AllButton!Deciding,
           AllButton!busVars
    <2>4. todo' = F
        BY <1>6, <2>1, <2>3, DoIs
    <2>5. Front(A, T)'
        BY <1>1, <1>7, <2>4 DEF Front
    <2> QED BY <1>13, <2>3, <2>5 DEF Doing
<1>14. ASSUME NEW k, Doing(G, F, k, <<>>), ~Thinks
       PROVE  /\ Front(G, F)' /\ key' = None /\ out' = Coming /\ ~failed'
              /\ panel' = AllButton!Press(panel, k)
              /\ ShownOk(shown') /\ shown'.text = shown.text /\ shown'.val = shown.val
    <2>1. Fetches
        BY <1>14, QuietStep DEF Quiet, Hears, Doing
    <2>2. todo # <<>>
        BY <1>14, FrontIs DEF Doing, AllButton!Working
    <2>3. shown' = [shown EXCEPT !.led = panel.on] /\ ShownOk(shown)
        BY <1>14, <2>1 DEF Fetches, Doing
    <2>4. ShownOk(shown') /\ shown'.text = shown.text /\ shown'.val = shown.val
        BY <2>3 DEF ShownOk
    <2> QED BY <1>14, <2>1, <2>2, <2>4 DEF Fetches, Doing, Front, Coming, None
<1>15. ASSUME Doing(G, F, None, Coming), ~Thinks, panel.page = "TEMP1", NEW v \in Values, panel.value = v
       PROVE  Doing(G, F, None, <<>>)' /\ Reads("TEMP1", v)'
    <2>1. Hears
        BY <1>15, QuietStep DEF Quiet, Fetches, Doing, Coming
    <2>2. PICK sh : sh = shown'
        OBVIOUS
    <2>3. ShownOk(sh) /\ Sees(sh, panel)
        BY <1>15, <2>1, <2>2, DisplayIs DEF Hears, Doing
    <2>4. AllButton!KickThread(sh) /\ ~AllButton!At("parked")
        BY <1>6, <1>15, <2>1, <2>2, FrontIs DEF Hears, Doing, AllButton!At
    <2>5. todo' = todo
        BY <2>4 DEF AllButton!KickThread
    <2>6. panel' = panel
        BY <1>11, <1>15, <2>1, PageStays DEF Hears
    <2>7. Reads("TEMP1", v)'
        BY <1>11, <1>15, <2>2, <2>3, <2>6 DEF Reads, Sees
    <2> QED BY <1>15, <2>1, <2>2, <2>3, <2>5, <2>6, <2>7 DEF Hears, Doing, Front
<1>16. CASE Opened("MUST_BE_SET", Cons(W, Cons(L, Cons(G, F))))
    <2>1. Doing(W, Cons(L, Cons(G, F)), None, <<>>) /\ shown.text = "MUST_BE_SET" /\ panel.page = "MUST_BE_SET"
        BY <1>4, <1>10, <1>12, <1>16 DEF Opened, Doing, Front, Sees
    <2>2. W = Step("wait", "MUST_BE_SET", -1, 5)
        BY <1>1 DEF MustBe
    <2>3. AllButton!Occurs(shown, W) /\ AllButton!Matches(shown, W)
        <3>1. "wait" \in Ops
            BY DEF Ops
        <3>2. AllButton!Occurs(shown, W)
            BY <1>2, <1>3, <2>1, <2>2, <3>1, TextOccurs
        <3> QED BY <1>2, <1>3, <1>12, <2>2, <3>1, <3>2, TextOccurs
    <2>4. UNCHANGED <<panel, shown, key, out>> /\ ~failed' /\ todo' = Cons(L, Cons(G, F))
        BY <1>2, <1>3, <2>1, <2>2, <2>3, Waited
    <2>5. Doing(L, Cons(G, F), None, <<>>)' /\ (panel.page = "MUST_BE_SET" /\ shown.text = "MUST_BE_SET")'
        BY <1>5, <1>9, <2>1, <2>4 DEF Doing, Front
    <2> QED BY <1>1, <2>5 DEF Higher
<1>17. CASE Doing(L, Cons(G, F), None, <<>>) /\ panel.page = "MUST_BE_SET" /\ shown.text = "MUST_BE_SET"
    <2>1. Doing(G, F, "left", <<>>)' /\ UNCHANGED <<panel, shown>>
        BY <1>1, <1>3, <1>6, <1>8, <1>17, KeySent
    <2> QED BY <1>1, <1>17, <2>1 DEF Higher
<1>18. CASE Doing(G, F, "left", <<>>) /\ panel.page = "MUST_BE_SET" /\ shown.text = "MUST_BE_SET"
    <2>1. ~Thinks
        BY <1>13, <1>18
    <2>2. /\ Front(G, F)' /\ key' = None /\ out' = Coming /\ ~failed'
          /\ panel' = AllButton!Press(panel, "left") /\ ShownOk(shown') /\ shown'.text = "MUST_BE_SET"
        BY <1>14, <1>18, <2>1
    <2>3. panel' = AllButton!Open(panel, "TEMP1")
        <3>1. AllButton!Left(panel) = AllButton!Open(panel, "TEMP1")
            BY <1>12, <1>18 DEF AllButton!Left
        <3>2. AllButton!Press(panel, "left") = AllButton!Left(panel)
            BY DEF AllButton!Press
        <3> QED BY <2>2, <3>1, <3>2
    <2>4. PanelOk(panel') /\ panel'.page = "TEMP1" /\ panel'.value = panel.stored["TEMP1"]
        BY <1>11, <1>18, <2>3, OpenIs DEF Doing
    <2>5. panel'.value \in Values
        BY <1>11, <1>18, <2>4 DEF Doing, PanelOk
    <2>6. Doing(G, F, None, Coming)'
        BY <2>2, <2>4 DEF Doing
    <2> QED BY <1>1, <2>2, <2>4, <2>5, <2>6 DEF Higher
<1>19. CASE /\ Doing(G, F, None, Coming)
            /\ panel.page = "TEMP1" /\ panel.value \in Values /\ shown.text = "MUST_BE_SET"
    <2>1. ~Thinks
        BY <1>13, <1>19
    <2>2. PICK v \in Values : v = panel.value
        BY <1>19
    <2>3. Doing(G, F, None, <<>>)' /\ Reads("TEMP1", v)'
        BY <1>15, <1>19, <2>1, <2>2
    <2> QED BY <1>1, <2>3 DEF Higher
<1>20. ASSUME NEW o \in {<<>>, Coming}, NEW v \in Values, Doing(G, F, None, o), Reads("TEMP1", v)
       PROVE  Higher(F)' \/ Setting("TEMP1", T, {<<>>, Coming})'
    <2>1. CASE Thinks
        <3>1. Doing(A, T, None, o)' /\ UNCHANGED <<panel, shown>>
            BY <1>13, <1>20, <2>1
        <3>2. Reads("TEMP1", v)'
            BY <1>20, <3>1 DEF Reads
        <3> QED BY <1>1, <3>1, <3>2 DEF Setting
    <2>2. CASE ~Thinks /\ o = <<>>
        <3>1. /\ Front(G, F)' /\ key' = None /\ out' = Coming /\ ~failed'
              /\ panel' = AllButton!Press(panel, None)
              /\ ShownOk(shown') /\ shown'.text = shown.text /\ shown'.val = shown.val
            BY <1>14, <1>20, <2>2
        <3>2. panel' = panel
            BY <3>1, NothingPressed
        <3>3. Doing(G, F, None, Coming)'
            BY <1>20, <3>1, <3>2 DEF Doing
        <3>4. Reads("TEMP1", v)'
            BY <1>20, <3>1, <3>2 DEF Reads
        <3> QED BY <1>1, <3>3, <3>4 DEF Higher
    <2>3. CASE ~Thinks /\ o = Coming
        <3>1. Doing(G, F, None, <<>>)' /\ Reads("TEMP1", v)'
            BY <1>15, <1>20, <2>3 DEF Reads
        <3> QED BY <1>1, <3>1 DEF Higher
    <2> QED BY <1>20, <2>1, <2>2, <2>3
<1> QED BY <1>1, <1>16, <1>17, <1>18, <1>19, <1>20 DEF Higher

-----------------------------------------------------------------------------
(* A program that is on its way has steps left, and stays where it is when  *)
(* nothing happens.                                                         *)
Still == UNCHANGED vars

LEMMA DoingStays ==
    ASSUME NEW a, NEW T, NEW k, NEW o, Doing(a, T, k, o)
    PROVE  todo # <<>> /\ (Still => Doing(a, T, k, o)')
<1>1. todo # <<>>
    BY FrontIs DEF Doing, AllButton!Working
<1>2. Still => Doing(a, T, k, o)'
    BY DEF Doing, Front, Still, vars, threadVars, busVars
<1> QED BY <1>1, <1>2

LEMMA OpenedStays ==
    ASSUME NEW pg, NEW a \in Steps, NEW T \in Seq(Steps), Opened(pg, Cons(a, T))
    PROVE  todo # <<>> /\ (Still => Opened(pg, Cons(a, T))')
<1>1. todo # <<>>
    BY ConsIs DEF Opened
<1>2. Still => Opened(pg, Cons(a, T))'
    BY DEF Opened, Still, vars, threadVars, busVars
<1> QED BY <1>1, <1>2

LEMMA OnStays ==
    ASSUME Still
    PROVE  /\ panel' = panel /\ shown' = shown /\ found' = found /\ want' = want
           /\ \A pg, l : On(pg, l) <=> On(pg, l)'
           /\ \A pg, l : Shown(pg, l) <=> Shown(pg, l)'
           /\ \A f, v : Reads(f, v) <=> Reads(f, v)'
           /\ Behind <=> Behind'
           /\ \A v, w, k : Moves(v, w, k) <=> Moves(v, w, k)'
           /\ \A n, v : Close(n, v) <=> Close(n, v)'
BY DEF On, Shown, Reads, Behind, Moves, Close, Still, vars, threadVars, busVars

LEMMA SelectingStays ==
    ASSUME NEW i, NEW T, Selecting(i, T)
    PROVE  todo # <<>> /\ (Still => Selecting(i, T)')
<1>1. todo # <<>>
    BY DoingStays DEF Selecting
<1>2. ASSUME Still PROVE Selecting(i, T)'
    BY <1>2, DoingStays, OnStays DEF Selecting
<1> QED BY <1>1, <1>2

LEMMA SeekingStays ==
    ASSUME RangesFit, NEW i \in Items, NEW pg, NEW at, NEW to, NEW T \in Seq(Steps), Seeking(i, pg, at, to, T)
    PROVE  todo # <<>> /\ (Still => Seeking(i, pg, at, to, T)')
<1>1. Chosen(i) \in Steps
    <2>1. i \in Args /\ SeekMax \in Int
        <3>1. i \in Args
            BY Zenon DEF Args
        <3> QED BY <3>1 DEF RangesFit
    <2> QED BY <2>1 DEF Chosen, Steps, Step, Ops
<1>2. CASE Opened(pg, Cons(Chosen(i), T))
    BY <1>1, <1>2, OpenedStays DEF Seeking, Chosen
<1>3. CASE Doing(Emptied, Cons(Sought(i, SeekMax), T), None, <<>>) /\ On(pg, 1) /\ Shown(pg, 1)
    BY <1>3, DoingStays, OnStays DEF Seeking
<1>4. ASSUME NEW l \in 1..at, Looking(i, pg, l, T)
      PROVE  todo # <<>> /\ (Still => Seeking(i, pg, at, to, T)')
    <2>1. todo # <<>> /\ (Still => Looking(i, pg, l, T)')
        BY <1>4, DoingStays, OnStays DEF Looking
    <2> QED BY <2>1 DEF Seeking
<1>5. ASSUME NEW l \in 1..at, l # at, Passing(i, pg, l, T)
      PROVE  todo # <<>> /\ (Still => Seeking(i, pg, at, to, T)')
    <2>1. todo # <<>>
        BY <1>5, DoingStays DEF Passing
    <2>2. Still => Passing(i, pg, l, T)'
        BY <1>5, DoingStays, OnStays DEF Passing
    <2> QED BY <1>5, <2>1, <2>2 DEF Seeking
<1>6. ASSUME Entering(pg, at, to, T)
      PROVE  todo # <<>> /\ (Still => Seeking(i, pg, at, to, T)')
    <2>1. todo # <<>>
        BY <1>6, DoingStays DEF Entering
    <2>2. Still => Entering(pg, at, to, T)'
        BY <1>6, DoingStays, OnStays DEF Entering
    <2> QED BY <2>1, <2>2 DEF Seeking
<1> QED BY <1>2, <1>3, <1>4, <1>5, <1>6 DEF Seeking, Chosen

LEMMA LegStays ==
    ASSUME RangesFit, NEW j \in Items, NEW pg, NEW bt, NEW to, NEW T \in Seq(Steps), Leg(j, pg, bt, to, T)
    PROVE  todo # <<>> /\ (Still => Leg(j, pg, bt, to, T)')
<1>1. OrCancel \in Steps /\ Cons(OrCancel, T) \in Seq(Steps)
    BY GoOnSteps, ConsIs
<1>2. CASE Seeking(j, pg, bt, to, Cons(OrCancel, T))
    BY <1>1, <1>2, SeekingStays DEF Leg
<1>3. CASE Opened(to, Cons(OrCancel, T))
    BY <1>1, <1>3, OpenedStays DEF Leg
<1> QED BY <1>2, <1>3 DEF Leg

LEMMA TripStays ==
    ASSUME RangesFit, NEW i \in Items, NEW at, NEW mid, NEW j \in Items, NEW bt, NEW to, NEW T \in Seq(Steps),
           Trip(i, at, mid, j, bt, to, T)
    PROVE  todo # <<>> /\ (Still => Trip(i, at, mid, j, bt, to, T)')
<1>1. PICK C, Y : C = Cons(OrCancel, Cons(Chosen(j), Cons(OrCancel, T))) /\ Y = Cons(OrTry, C)
    OBVIOUS
<1>2. Chosen(j) \in Steps /\ OrCancel \in Steps /\ OrTry \in Steps
    <2>1. j \in Args /\ SeekMax \in Int
        <3>1. j \in Args
            BY Zenon DEF Args
        <3> QED BY <3>1 DEF RangesFit
    <2>2. Chosen(j) \in Steps
        BY <2>1 DEF Chosen, Steps, Step, Ops
    <2> QED BY <2>2, GoOnSteps
<1>3. Cons(Chosen(j), Cons(OrCancel, T)) \in Seq(Steps)
    <2>1. Cons(OrCancel, T) \in Seq(Steps)
        BY <1>2, ConsIs
    <2> QED BY <1>2, <2>1, ConsIs
<1>4. C \in Seq(Steps)
    BY <1>1, <1>2, <1>3, ConsIs
<1>5. Y \in Seq(Steps)
    BY <1>1, <1>2, <1>4, ConsIs
<1>6. ASSUME NEW X \in {C, Y}, Selecting(i, X)
      PROVE  todo # <<>> /\ (Still => Trip(i, at, mid, j, bt, to, T)')
    <2>1. todo # <<>> /\ (Still => Selecting(i, X)')
        BY <1>6, SelectingStays
    <2> QED BY <1>1, <2>1 DEF Trip
<1>7. ASSUME NEW X \in {C, Y}, Seeking(i, "menu", at, mid, X)
      PROVE  todo # <<>> /\ (Still => Trip(i, at, mid, j, bt, to, T)')
    <2>1. todo # <<>> /\ (Still => Seeking(i, "menu", at, mid, X)')
        BY <1>4, <1>5, <1>7, SeekingStays
    <2> QED BY <1>1, <2>1 DEF Trip
<1>8. ASSUME NEW X \in {C, Y}, Opened(mid, X)
      PROVE  todo # <<>> /\ (Still => Trip(i, at, mid, j, bt, to, T)')
    <2>1. todo # <<>> /\ (Still => Opened(mid, X)')
        BY <1>1, <1>2, <1>3, <1>4, <1>8, OpenedStays
    <2> QED BY <1>1, <2>1 DEF Trip
<1>9. CASE Leg(j, mid, bt, to, T)
    <2>1. todo # <<>> /\ (Still => Leg(j, mid, bt, to, T)')
        BY <1>9, LegStays
    <2> QED BY <2>1 DEF Trip
<1> QED BY <1>1, <1>6, <1>7, <1>8, <1>9 DEF Trip

LEMMA HigherStays ==
    ASSUME NEW F \in Seq(Steps), Higher(F)
    PROVE  todo # <<>> /\ (Still => Higher(F)')
<1>1. PICK W, L, G : W = MustBe("wait", 5) /\ L = Step("key", "left", -1, 0) /\ G = MustBe("until", 0)
    OBVIOUS
<1>2. "MUST_BE_SET" \in Args /\ "left" \in Args
    BY Zenon DEF Args, Keys
<1>3. -1 \in Int /\ 0 \in Int /\ 5 \in Int
    OBVIOUS
<1>4. W \in Steps
    BY <1>1, <1>2, <1>3 DEF MustBe, Steps, Step, Ops
<1>5. L \in Steps
    BY <1>1, <1>2, <1>3 DEF Steps, Step, Ops
<1>6. G \in Steps
    BY <1>1, <1>2, <1>3 DEF MustBe, Steps, Step, Ops
<1>7. Cons(L, Cons(G, F)) \in Seq(Steps)
    <2>1. Cons(G, F) \in Seq(Steps)
        BY <1>6, ConsIs
    <2> QED BY <1>5, <2>1, ConsIs
<1>8. CASE Opened("MUST_BE_SET", Cons(W, Cons(L, Cons(G, F))))
    BY <1>1, <1>4, <1>7, <1>8, OpenedStays DEF Higher
<1>9. CASE ~Opened("MUST_BE_SET", Cons(W, Cons(L, Cons(G, F))))
    <2>1. todo # <<>>
        BY <1>1, <1>9, DoingStays DEF Higher
    <2>2. Still => Higher(F)'
        BY <1>1, <1>9, DoingStays, OnStays DEF Higher
    <2> QED BY <2>1, <2>2
<1> QED BY <1>8, <1>9

LEMMA SettingStays ==
    ASSUME NEW f, NEW T, NEW O, Setting(f, T, O)
    PROVE  todo # <<>> /\ (Still => Setting(f, T, O)')
<1>1. PICK o \in O :
        \/ Doing(InField("field", f, -2, 0), T, None, o) /\ \E v \in Values : Reads(f, v)
        \/ /\ Doing(InField("wait", f, -2, 4), Cons(InField("adjust", f, -2, 0), T), None, o)
           /\ \E v \in Values : Reads(f, v)
        \/ Judging(f, T, o)
        \/ \E v \in Values, w \in Values, k \in Keys, n \in Nat :
              Moves(v, w, k) /\ Close(n, w) /\ Changing(f, v, w, k, n, T, o)
        \/ Doing(Step("key", "enter", -1, 0), T, None, o) /\ Reads(f, want)
    BY DEF Setting
<1>2. CASE Doing(InField("field", f, -2, 0), T, None, o) /\ \E v \in Values : Reads(f, v)
    BY <1>2, DoingStays, OnStays DEF Setting
<1>3. CASE /\ Doing(InField("wait", f, -2, 4), Cons(InField("adjust", f, -2, 0), T), None, o)
           /\ \E v \in Values : Reads(f, v)
    BY <1>3, DoingStays, OnStays DEF Setting
<1>4. CASE Judging(f, T, o)
    <2>1. todo # <<>>
        BY <1>4, DoingStays DEF Judging
    <2>2. Still => Judging(f, T, o)'
        BY <1>4, DoingStays, OnStays DEF Judging
    <2> QED BY <2>1, <2>2 DEF Setting
<1>5. ASSUME NEW v \in Values, NEW w \in Values, NEW k \in Keys, NEW n \in Nat,
             Moves(v, w, k), Close(n, w), Changing(f, v, w, k, n, T, o)
      PROVE  todo # <<>> /\ (Still => Setting(f, T, O)')
    <2>1. todo # <<>>
        BY <1>5, DoingStays DEF Changing
    <2>2. Still => Changing(f, v, w, k, n, T, o)'
        BY <1>5, DoingStays, OnStays DEF Changing
    <2>3. Still => Moves(v, w, k)' /\ Close(n, w)'
        BY <1>5, OnStays
    <2> QED BY <2>1, <2>2, <2>3 DEF Setting
<1>6. CASE Doing(Step("key", "enter", -1, 0), T, None, o) /\ Reads(f, want)
    <2>1. Still => Reads(f, want)'
        BY <1>6, OnStays DEF Reads
    <2>2. todo # <<>> /\ (Still => Doing(Step("key", "enter", -1, 0), T, None, o)')
        BY <1>6, DoingStays
    <2> QED BY <2>1, <2>2 DEF Setting
<1> QED BY <1>1, <1>2, <1>3, <1>4, <1>5, <1>6

LEMMA StoringStays ==
    ASSUME NEW f, NEW n, NEW U, NEW O, Storing(f, n, U, O)
    PROVE  todo # <<>> /\ (Still => Storing(f, n, U, O)')
<1>1. ASSUME NEW b, NEW S, NEW o, Accepting(f, b, S, o)
      PROVE  todo # <<>> /\ (Still => Accepting(f, b, S, o)')
    <2>1. Still => Reads(f, want)'
        BY <1>1, OnStays DEF Reads, Accepting
    <2>2. todo # <<>> /\ (Still => Doing(b, S, "enter", o)')
        BY <1>1, DoingStays DEF Accepting
    <2> QED BY <2>1, <2>2 DEF Accepting
<1> QED BY <1>1 DEF Storing

LEMMA WaitingStays ==
    ASSUME Waiting, Still
    PROVE  Waiting'
BY DEF Waiting, Stored, Still, vars, threadVars, busVars

-----------------------------------------------------------------------------
(* The programs.                                                            *)
Rest(x, n) == Cons(Step("wait", x, -1, n), Cons(Ended, <<>>))
ToSet(f, T) == Cons(InField("field", f, -2, 0), T)
Sets(f, T, n, U, O) ==
    \/ Opened(f, ToSet(f, T))
    \/ Setting(f, T, O)
    \/ Storing(f, n, U, O)
    \/ Waiting

LEMMA RestIs ==
    /\ Ended \in Waits /\ Cons(Ended, <<>>) \in Seq(Waits)
    /\ \A x \in Args, n \in Int : Rest(x, n) \in Seq(Waits)
<1>1. Ended \in Waits
    <2>1. "" \in Args
        BY Zenon DEF Args
    <2>2. -1 \in Int /\ 0 \in Int
        OBVIOUS
    <2> QED BY <2>1, <2>2 DEF Ended, Waits, Steps, Step, Ops
<1>2. Cons(Ended, <<>>) \in Seq(Waits)
    <2>1. <<>> \in Seq(Waits)
        OBVIOUS
    <2> QED BY <1>1, <2>1, ConsIs
<1>3. ASSUME NEW x \in Args, NEW n \in Int PROVE Rest(x, n) \in Seq(Waits)
    <2>1. -1 \in Int
        OBVIOUS
    <2>2. Step("wait", x, -1, n) \in Waits
        BY <2>1 DEF Waits, Steps, Step, Ops
    <2> QED BY <1>2, <2>2, ConsIs DEF Rest
<1> QED BY <1>1, <1>2, <1>3

LEMMA InOrderIs ==
    /\ \A n \in Int : IsSetTo("wait", n) \in Steps
    /\ Telling \in Steps
    /\ \A f \in Numbers, T \in Seq(Steps) : InField("field", f, -2, 0) \in Steps /\ ToSet(f, T) \in Seq(Steps)
<1>1. "" \in Args /\ "IS_SET_TO" \in Args
    BY Zenon DEF Args
<1>2. -1 \in Int /\ 0 \in Int /\ -2 \in Int
    OBVIOUS
<1>3. \A n \in Int : IsSetTo("wait", n) \in Steps
    BY <1>1, <1>2 DEF IsSetTo, Steps, Step, Ops
<1>4. Telling \in Steps
    BY <1>1, <1>2 DEF Telling, Steps, Step, Ops
<1>5. ASSUME NEW f \in Numbers, NEW T \in Seq(Steps)
      PROVE  InField("field", f, -2, 0) \in Steps /\ ToSet(f, T) \in Seq(Steps)
    <2>1. "field" \in Ops
        BY DEF Ops
    <2>2. PICK F : F = InField("field", f, -2, 0)
        OBVIOUS
    <2>3. F \in Steps
        BY <1>2, <2>1, <2>2, InFieldIs
    <2> QED BY <2>2, <2>3, ConsIs DEF ToSet
<1> QED BY <1>3, <1>4, <1>5

LEMMA SetsNext ==
    ASSUME RangesFit, Quiet, NEW f \in Numbers, AllButton!Target(prog) = {f},
           NEW n \in Int, NEW U \in Seq(Waits),
           NEW O \in SUBSET {<<>>, Coming}, <<>> \in O, Coming \in O => (n = 1 /\ U = Cons(Ended, <<>>)),
           NEW T \in {Cons(IsSetTo("wait", n), U), Cons(Telling, Cons(IsSetTo("wait", n), U))},
           Sets(f, T, n, U, O)
    PROVE  Sets(f, T, n, U, O)'
<1>1. PICK W, V : W = IsSetTo("wait", n) /\ V = Cons(W, U)
    OBVIOUS
<1>2. W \in Steps /\ Telling \in Steps /\ U \in Seq(Steps)
    BY <1>1, InOrderIs, WaitsAreSteps
<1>3. V \in Seq(Steps)
    BY <1>1, <1>2, ConsIs
<1>4. T \in Seq(Steps)
    <2>1. Cons(Telling, V) \in Seq(Steps)
        BY <1>2, <1>3, ConsIs
    <2> QED BY <1>1, <1>3, <2>1
<1>5. ASSUME Setting(f, T, O) PROVE Sets(f, T, n, U, O)'
    <2>1. CASE T = V
        <3>1. Setting(f, T, O)' \/ \E o \in O : Accepting(f, W, U, o)'
            BY <1>1, <1>2, <1>5, <2>1, SettingNext
        <3> QED BY <1>1, <3>1 DEF Sets, Storing
    <2>2. CASE T = Cons(Telling, V)
        <3>1. Setting(f, T, O)' \/ \E o \in O : Accepting(f, Telling, V, o)'
            BY <1>2, <1>3, <1>5, <2>2, SettingNext
        <3> QED BY <1>1, <3>1 DEF Sets, Storing
    <2> QED BY <1>1, <2>1, <2>2
<1>6. CASE Opened(f, ToSet(f, T))
    <2>1. Setting(f, T, O)
        BY <1>4, <1>6, OpenedIsSetting DEF ToSet
    <2> QED BY <1>5, <2>1
<1>7. CASE Storing(f, n, U, O)
    BY <1>7, StoringNext DEF Sets
<1>8. CASE Waiting
    BY <1>8, WaitingNext DEF Sets
<1> QED BY <1>5, <1>6, <1>7, <1>8 DEF Sets

LEMMA SetsStays ==
    ASSUME NEW f \in Numbers, NEW T \in Seq(Steps), NEW n, NEW U, NEW O, Sets(f, T, n, U, O)
    PROVE  (todo # <<>> \/ Waiting) /\ (Still => Sets(f, T, n, U, O)')
<1>1. CASE Opened(f, ToSet(f, T))
    <2>1. todo # <<>> /\ (Still => Opened(f, ToSet(f, T))')
        BY <1>1, InOrderIs, OpenedStays DEF ToSet
    <2> QED BY <2>1 DEF Sets
<1>2. CASE Setting(f, T, O)
    <2>1. todo # <<>> /\ (Still => Setting(f, T, O)')
        BY <1>2, SettingStays
    <2> QED BY <2>1 DEF Sets
<1>3. CASE Storing(f, n, U, O)
    <2>1. todo # <<>> /\ (Still => Storing(f, n, U, O)')
        BY <1>3, StoringStays
    <2> QED BY <2>1 DEF Sets
<1>4. CASE Waiting
    BY <1>4, WaitingStays DEF Sets
<1> QED BY <1>1, <1>2, <1>3, <1>4 DEF Sets

(* What the programs are asked for.                                         *)
LEMMA TargetIs ==
    /\ AllButton!Target("AQ_SET_SWG_PERCENT") = {"POOL_SP"}
    /\ AllButton!Target("SPA_SWG_PERCENT") = {"SPA_SP"}
    /\ AllButton!Target("AQ_SET_POOL_HEATER_TEMP") = {"POOL"}
    /\ AllButton!Target("TEMP1_HEATER_TEMP") = {"TEMP1"}
    /\ AllButton!Target("AQ_SET_SPA_HEATER_TEMP") = {"SPA"}
    /\ AllButton!Target("AQ_SET_FRZ_PROTECTION_TEMP") = {"FRZ"}
    /\ \A p \in Reading : AllButton!Target(p) = {}
BY DEF AllButton!Target, Reading

(* A program that reads a page is on its way to it, or waits for what it    *)
(* shows.                                                                   *)
Gets(i, at, mid, j, bt, to, T) == Trip(i, at, mid, j, bt, to, T) \/ Waiting

LEMMA GetsNext ==
    ASSUME RangesFit, Quiet, NEW i, NEW at, NEW mid, Leads("menu", i, mid, at),
           NEW j, NEW bt, NEW to, Leads(mid, j, to, bt), NEW T \in Seq(Waits), prog \in Reading,
           Gets(i, at, mid, j, bt, to, T)
    PROVE  Gets(i, at, mid, j, bt, to, T)'
<1>1. T \in Seq(Steps) /\ prog' \in Reading
    BY WaitsAreSteps, CalmNext DEF Quiet, Kept
<1>2. CASE Trip(i, at, mid, j, bt, to, T)
    <2>1. Trip(i, at, mid, j, bt, to, T)' \/ Opened(to, T)'
        BY <1>1, <1>2, TripNext
    <2>2. CASE Opened(to, T)'
        <3>1. todo' = T /\ key' = None /\ ~failed' /\ PanelOk(panel')
            BY <2>2 DEF Opened
        <3>2. AllButton!Target(prog)' = {}
            BY <1>1, TargetIs
        <3> QED BY <3>1, <3>2 DEF Gets, Waiting, Stored
    <2> QED BY <2>1, <2>2 DEF Gets
<1>3. CASE Waiting
    BY <1>3, WaitingNext DEF Gets
<1> QED BY <1>2, <1>3 DEF Gets

LEMMA GetsStays ==
    ASSUME RangesFit, NEW i \in Items, NEW at, NEW mid, NEW j \in Items, NEW bt, NEW to, NEW T \in Seq(Waits),
           Gets(i, at, mid, j, bt, to, T)
    PROVE  (todo # <<>> \/ Waiting) /\ (Still => Gets(i, at, mid, j, bt, to, T)')
<1>1. T \in Seq(Steps)
    BY WaitsAreSteps
<1>2. CASE Trip(i, at, mid, j, bt, to, T)
    BY <1>1, <1>2, TripStays DEF Gets
<1>3. CASE Waiting
    BY <1>3, WaitingStays DEF Gets
<1> QED BY <1>2, <1>3 DEF Gets

(* A program that sets a number is on its way to the field, or sets it.     *)
Puts(i, at, mid, j, bt, f, T, n, U) ==
    Trip(i, at, mid, j, bt, f, ToSet(f, T)) \/ Sets(f, T, n, U, {<<>>})

LEMMA PutsNext ==
    ASSUME RangesFit, Quiet, NEW i, NEW at, NEW mid, Leads("menu", i, mid, at),
           NEW f \in Numbers, AllButton!Target(prog) = {f}, NEW j, NEW bt, Leads(mid, j, f, bt),
           NEW n \in Int, NEW U \in Seq(Waits),
           NEW T \in {Cons(IsSetTo("wait", n), U), Cons(Telling, Cons(IsSetTo("wait", n), U))},
           Puts(i, at, mid, j, bt, f, T, n, U)
    PROVE  Puts(i, at, mid, j, bt, f, T, n, U)'
<1>1. ToSet(f, T) \in Seq(Steps)
    <2>1. IsSetTo("wait", n) \in Steps /\ Telling \in Steps /\ U \in Seq(Steps)
        BY InOrderIs, WaitsAreSteps
    <2>2. PICK V : V = Cons(IsSetTo("wait", n), U)
        OBVIOUS
    <2>3. V \in Seq(Steps)
        BY <2>1, <2>2, ConsIs
    <2>4. Cons(Telling, V) \in Seq(Steps)
        BY <2>1, <2>3, ConsIs
    <2>5. T \in Seq(Steps)
        BY <2>2, <2>3, <2>4
    <2> QED BY <2>5, InOrderIs
<1>2. CASE Trip(i, at, mid, j, bt, f, ToSet(f, T))
    <2>1. Trip(i, at, mid, j, bt, f, ToSet(f, T))' \/ Opened(f, ToSet(f, T))'
        BY <1>1, <1>2, TripNext
    <2> QED BY <2>1 DEF Puts, Sets
<1>3. CASE Sets(f, T, n, U, {<<>>})
    <2>1. {<<>>} \in SUBSET {<<>>, Coming} /\ <<>> \in {<<>>} /\ Coming \notin {<<>>}
        BY DEF Coming
    <2>2. PICK O : O = {<<>>}
        OBVIOUS
    <2>3. Sets(f, T, n, U, O)'
        BY <1>3, <2>1, <2>2, SetsNext
    <2> QED BY <2>2, <2>3 DEF Puts
<1> QED BY <1>2, <1>3 DEF Puts

LEMMA PutsStays ==
    ASSUME RangesFit, NEW i \in Items, NEW at, NEW mid, NEW f \in Numbers, NEW j \in Items, NEW bt,
           NEW T \in Seq(Steps), NEW n, NEW U, Puts(i, at, mid, j, bt, f, T, n, U)
    PROVE  (todo # <<>> \/ Waiting) /\ (Still => Puts(i, at, mid, j, bt, f, T, n, U)')
<1>1. ToSet(f, T) \in Seq(Steps)
    BY InOrderIs
<1>2. CASE Trip(i, at, mid, j, bt, f, ToSet(f, T))
    <2>1. todo # <<>> /\ (Still => Trip(i, at, mid, j, bt, f, ToSet(f, T))')
        BY <1>1, <1>2, TripStays
    <2> QED BY <2>1 DEF Puts
<1>3. CASE Sets(f, T, n, U, {<<>>})
    <2>1. (todo # <<>> \/ Waiting) /\ (Still => Sets(f, T, n, U, {<<>>})')
        BY <1>3, SetsStays
    <2> QED BY <2>1 DEF Puts
<1> QED BY <1>2, <1>3 DEF Puts

(* The temperature of a panel for one body of water.                        *)
Temp1 == ToSet("TEMP1", Rest("IS_SET_TO", 1))
MustFirst == Cons(MustBe("wait", 5), Cons(Step("key", "left", -1, 0), Cons(MustBe("until", 0), Temp1)))
PutsTemp1 ==
    \/ Trip("SET_TEMP", 3, "temp", "SET_TEMP1", 3, "MUST_BE_SET", MustFirst)
    \/ Higher(Temp1)
    \/ Sets("TEMP1", Rest("IS_SET_TO", 1), 1, Cons(Ended, <<>>), {<<>>, Coming})
(* The temperature of the freeze protection is one page further.            *)
Freeze == ToSet("FRZ", Rest("IS_SET_TO", 3))
PutsFreeze ==
    \/ Trip("SYSTEM_SETUP", 7, "setup", "FRZ_PROTECT", 1, "freeze",
            Cons(Chosen("TEMP_SETTING"), Cons(OrCancel, Freeze)))
    \/ Leg("TEMP_SETTING", "freeze", 1, "FRZ", Freeze)
    \/ Sets("FRZ", Rest("IS_SET_TO", 3), 3, Cons(Ended, <<>>), {<<>>})

LEMMA ExtraSteps ==
    ASSUME RangesFit
    PROVE  /\ Rest("IS_SET_TO", 1) \in Seq(Steps) /\ Rest("IS_SET_TO", 3) \in Seq(Steps)
           /\ Temp1 \in Seq(Steps) /\ MustFirst \in Seq(Steps)
           /\ Freeze \in Seq(Steps) /\ Cons(Chosen("TEMP_SETTING"), Cons(OrCancel, Freeze)) \in Seq(Steps)
<1>1. Rest("IS_SET_TO", 1) \in Seq(Steps) /\ Rest("IS_SET_TO", 3) \in Seq(Steps)
    <2>1. "IS_SET_TO" \in Args
        BY Zenon DEF Args
    <2> QED BY <2>1, RestIs, WaitsAreSteps
<1>2. "TEMP1" \in Numbers /\ "FRZ" \in Numbers
    BY DEF Numbers
<1>3. Temp1 \in Seq(Steps) /\ Freeze \in Seq(Steps)
    BY <1>1, <1>2, InOrderIs DEF Temp1, Freeze
<1>4. MustFirst \in Seq(Steps)
    <2>1. "MUST_BE_SET" \in Args /\ "left" \in Args
        BY Zenon DEF Args, Keys
    <2>2. -1 \in Int /\ 0 \in Int /\ 5 \in Int
        OBVIOUS
    <2>3. PICK W, L, G : W = MustBe("wait", 5) /\ L = Step("key", "left", -1, 0) /\ G = MustBe("until", 0)
        OBVIOUS
    <2>4. W \in Steps
        BY <2>1, <2>2, <2>3 DEF MustBe, Steps, Step, Ops
    <2>5. L \in Steps
        BY <2>1, <2>2, <2>3 DEF Steps, Step, Ops
    <2>6. G \in Steps
        BY <2>1, <2>2, <2>3 DEF MustBe, Steps, Step, Ops
    <2>7. Cons(G, Temp1) \in Seq(Steps)
        BY <1>3, <2>6, ConsIs
    <2>8. Cons(L, Cons(G, Temp1)) \in Seq(Steps)
        BY <2>5, <2>7, ConsIs
    <2> QED BY <2>3, <2>4, <2>8, ConsIs DEF MustFirst
<1>5. Chosen("TEMP_SETTING") \in Steps
    <2>1. "TEMP_SETTING" \in Items
        BY DEF Items
    <2>2. "TEMP_SETTING" \in Args /\ SeekMax \in Int
        <3>1. "TEMP_SETTING" \in Args
            BY <2>1, Zenon DEF Args
        <3> QED BY <3>1 DEF RangesFit
    <2> QED BY <2>2 DEF Chosen, Steps, Step, Ops
<1>6. Cons(OrCancel, Freeze) \in Seq(Steps)
    BY <1>3, GoOnSteps, ConsIs
<1>7. Cons(Chosen("TEMP_SETTING"), Cons(OrCancel, Freeze)) \in Seq(Steps)
    BY <1>5, <1>6, ConsIs
<1> QED BY <1>1, <1>3, <1>4, <1>7

LEMMA Temp1Next ==
    ASSUME RangesFit, Quiet, prog = "TEMP1_HEATER_TEMP", PutsTemp1
    PROVE  PutsTemp1'
<1>1. PICK T, U, O : T = Rest("IS_SET_TO", 1) /\ U = Cons(Ended, <<>>) /\ O = {<<>>, Coming}
    OBVIOUS
<1>2. T \in Seq(Steps) /\ MustFirst \in Seq(Steps) /\ U \in Seq(Waits) /\ "TEMP1" \in Numbers
      /\ Temp1 = Cons(InField("field", "TEMP1", -2, 0), T)
    <2>1. T \in Seq(Steps) /\ MustFirst \in Seq(Steps)
        BY <1>1, ExtraSteps
    <2>2. U \in Seq(Waits)
        BY <1>1, RestIs
    <2> QED BY <1>1, <2>1, <2>2 DEF Numbers, Temp1, ToSet
<1>3. CASE Trip("SET_TEMP", 3, "temp", "SET_TEMP1", 3, "MUST_BE_SET", MustFirst)
    <2>1. \/ Trip("SET_TEMP", 3, "temp", "SET_TEMP1", 3, "MUST_BE_SET", MustFirst)'
          \/ Opened("MUST_BE_SET", MustFirst)'
        BY <1>2, <1>3, MenuLeads, TempLeads, TripNext
    <2> QED BY <2>1 DEF PutsTemp1, Higher, MustFirst
<1>4. CASE Higher(Temp1)
    <2>1. Higher(Temp1)' \/ Setting("TEMP1", T, O)'
        BY <1>1, <1>2, <1>4, HigherNext
    <2> QED BY <1>1, <2>1 DEF PutsTemp1, Sets
<1>5. CASE Sets("TEMP1", T, 1, U, O)
    <2>1. T = Cons(IsSetTo("wait", 1), U) /\ 1 \in Int /\ O \in SUBSET {<<>>, Coming} /\ <<>> \in O
        BY <1>1 DEF Rest, IsSetTo
    <2>2. AllButton!Target(prog) = {"TEMP1"}
        BY TargetIs
    <2>3. Sets("TEMP1", T, 1, U, O)'
        BY <1>1, <1>2, <1>5, <2>1, <2>2, SetsNext
    <2> QED BY <1>1, <2>3 DEF PutsTemp1
<1> QED BY <1>1, <1>3, <1>4, <1>5 DEF PutsTemp1

LEMMA Temp1Stays ==
    ASSUME RangesFit, PutsTemp1
    PROVE  (todo # <<>> \/ Waiting) /\ (Still => PutsTemp1')
<1>1. "SET_TEMP" \in Items /\ "SET_TEMP1" \in Items /\ "TEMP1" \in Numbers
    BY DEF Items, Numbers
<1>2. CASE Trip("SET_TEMP", 3, "temp", "SET_TEMP1", 3, "MUST_BE_SET", MustFirst)
    <2>1. MustFirst \in Seq(Steps)
        BY ExtraSteps
    <2>2. todo # <<>> /\ (Still => Trip("SET_TEMP", 3, "temp", "SET_TEMP1", 3, "MUST_BE_SET", MustFirst)')
        BY <1>1, <1>2, <2>1, TripStays
    <2> QED BY <2>2 DEF PutsTemp1
<1>3. CASE Higher(Temp1)
    BY <1>3, ExtraSteps, HigherStays DEF PutsTemp1
<1>4. CASE Sets("TEMP1", Rest("IS_SET_TO", 1), 1, Cons(Ended, <<>>), {<<>>, Coming})
    BY <1>1, <1>4, ExtraSteps, SetsStays DEF PutsTemp1
<1> QED BY <1>2, <1>3, <1>4 DEF PutsTemp1

LEMMA FreezeNext ==
    ASSUME RangesFit, Quiet, prog = "AQ_SET_FRZ_PROTECTION_TEMP", PutsFreeze
    PROVE  PutsFreeze'
<1>1. PICK T, U, O, X :
        /\ T = Rest("IS_SET_TO", 3) /\ U = Cons(Ended, <<>>) /\ O = {<<>>}
        /\ X = Cons(Chosen("TEMP_SETTING"), Cons(OrCancel, Freeze))
    OBVIOUS
<1>2. Freeze \in Seq(Steps) /\ X \in Seq(Steps) /\ U \in Seq(Waits) /\ "FRZ" \in Numbers /\ Freeze = ToSet("FRZ", T)
    <2>1. Freeze \in Seq(Steps) /\ X \in Seq(Steps)
        BY <1>1, ExtraSteps
    <2>2. U \in Seq(Waits)
        BY <1>1, RestIs
    <2> QED BY <1>1, <2>1, <2>2 DEF Numbers, Freeze
<1>3. CASE Trip("SYSTEM_SETUP", 7, "setup", "FRZ_PROTECT", 1, "freeze", X)
    <2>1. \/ Trip("SYSTEM_SETUP", 7, "setup", "FRZ_PROTECT", 1, "freeze", X)'
          \/ Opened("freeze", X)'
        BY <1>2, <1>3, MenuLeads, OthersLead, TripNext
    <2> QED BY <1>1, <2>1 DEF PutsFreeze, Leg, Seeking, Chosen
<1>4. CASE Leg("TEMP_SETTING", "freeze", 1, "FRZ", Freeze)
    <2>1. Leg("TEMP_SETTING", "freeze", 1, "FRZ", Freeze)' \/ Opened("FRZ", Freeze)'
        BY <1>2, <1>4, OthersLead, LegNext
    <2> QED BY <1>1, <1>2, <2>1 DEF PutsFreeze, Sets
<1>5. CASE Sets("FRZ", T, 3, U, O)
    <2>1. T = Cons(IsSetTo("wait", 3), U) /\ 3 \in Int /\ O \in SUBSET {<<>>, Coming} /\ <<>> \in O /\ Coming \notin O
        BY <1>1 DEF Rest, IsSetTo, Coming
    <2>2. AllButton!Target(prog) = {"FRZ"}
        BY TargetIs
    <2>3. Sets("FRZ", T, 3, U, O)'
        BY <1>1, <1>2, <1>5, <2>1, <2>2, SetsNext
    <2> QED BY <1>1, <2>3 DEF PutsFreeze
<1> QED BY <1>1, <1>3, <1>4, <1>5 DEF PutsFreeze

LEMMA FreezeStays ==
    ASSUME RangesFit, PutsFreeze
    PROVE  (todo # <<>> \/ Waiting) /\ (Still => PutsFreeze')
<1>1. "SYSTEM_SETUP" \in Items /\ "FRZ_PROTECT" \in Items /\ "TEMP_SETTING" \in Items /\ "FRZ" \in Numbers
    BY DEF Items, Numbers
<1>2. PICK X : X = Cons(Chosen("TEMP_SETTING"), Cons(OrCancel, Freeze))
    OBVIOUS
<1>3. CASE Trip("SYSTEM_SETUP", 7, "setup", "FRZ_PROTECT", 1, "freeze", X)
    <2>1. X \in Seq(Steps)
        BY <1>2, ExtraSteps
    <2>2. todo # <<>> /\ (Still => Trip("SYSTEM_SETUP", 7, "setup", "FRZ_PROTECT", 1, "freeze", X)')
        BY <1>1, <1>3, <2>1, TripStays
    <2> QED BY <1>2, <2>2 DEF PutsFreeze
<1>4. CASE Leg("TEMP_SETTING", "freeze", 1, "FRZ", Freeze)
    <2>1. todo # <<>> /\ (Still => Leg("TEMP_SETTING", "freeze", 1, "FRZ", Freeze)')
        BY <1>1, <1>4, ExtraSteps, LegStays
    <2> QED BY <2>1 DEF PutsFreeze
<1>5. CASE Sets("FRZ", Rest("IS_SET_TO", 3), 3, Cons(Ended, <<>>), {<<>>})
    BY <1>1, <1>5, ExtraSteps, SetsStays DEF PutsFreeze
<1> QED BY <1>2, <1>3, <1>4, <1>5 DEF PutsFreeze

-----------------------------------------------------------------------------
(* Where a program is.                                                      *)
GetsLabels == Gets("REVIEW", 2, "review", "AUX_LABELS", 1, "LABELS", Rest("NULL", 5))
GetsModel == Gets("SYSTEM_SETUP", 7, "setup", "DIAGNOSTICS", 2, "DIAGNOSTICS", Rest("NULL", 8))
GetsTemps ==
    Gets("REVIEW", 2, "review", "TEMP_SET", 2, "MAINTAIN_TEMP_IS", Rest("MAINTAIN_TEMP_IS", 5))
GetsFreeze ==
    Gets("REVIEW", 2, "review", "FRZ_PROTECT", 3, "FREEZE_PROTECTION_IS_SET_TO",
         Rest("FREEZE_PROTECTION_IS_SET_TO", 6))
PutsPool ==
    Puts("SET_TEMP", 3, "temp", "SET_POOL_TEMP", 1, "POOL", Rest("IS_SET_TO", 1), 1, Cons(Ended, <<>>))
PutsSpa ==
    Puts("SET_TEMP", 3, "temp", "SET_SPA_TEMP", 2, "SPA", Rest("IS_SET_TO", 1), 1, Cons(Ended, <<>>))
Percent == Cons(Telling, Cons(IsSetTo("wait", 1), Rest("NULL", 1)))
PutsPoolPercent == Puts("SET_AQUAPURE", 5, "aquapure", "SET_POOL_SP", 1, "POOL_SP", Percent, 1, Rest("NULL", 1))
PutsSpaPercent == Puts("SET_AQUAPURE", 5, "aquapure", "SET_SPA_SP", 2, "SPA_SP", Percent, 1, Rest("NULL", 1))

Phase ==
    \/ prog = "AQ_GET_AUX_LABELS" /\ GetsLabels
    \/ prog = "AQ_GET_DIAGNOSTICS_MODEL" /\ GetsModel
    \/ prog = "AQ_GET_POOL_SPA_HEATER_TEMPS" /\ GetsTemps
    \/ prog = "AQ_GET_FREEZE_PROTECT_TEMP" /\ GetsFreeze
    \/ prog = "AQ_SET_POOL_HEATER_TEMP" /\ PutsPool
    \/ prog = "AQ_SET_SPA_HEATER_TEMP" /\ PutsSpa
    \/ prog = "TEMP1_HEATER_TEMP" /\ PutsTemp1
    \/ prog = "AQ_SET_FRZ_PROTECTION_TEMP" /\ PutsFreeze
    \/ prog = "AQ_SET_SWG_PERCENT" /\ PutsPoolPercent
    \/ prog = "SPA_SWG_PERCENT" /\ PutsSpaPercent

LEMMA RestsAre ==
    /\ Rest("NULL", 1) \in Seq(Waits) /\ Rest("NULL", 5) \in Seq(Waits) /\ Rest("NULL", 8) \in Seq(Waits)
    /\ Rest("MAINTAIN_TEMP_IS", 5) \in Seq(Waits) /\ Rest("FREEZE_PROTECTION_IS_SET_TO", 6) \in Seq(Waits)
    /\ Rest("IS_SET_TO", 1) \in Seq(Steps) /\ Rest("IS_SET_TO", 1) = Cons(IsSetTo("wait", 1), Cons(Ended, <<>>))
    /\ Percent \in Seq(Steps)
<1>1. /\ "NULL" \in Args /\ "MAINTAIN_TEMP_IS" \in Args /\ "FREEZE_PROTECTION_IS_SET_TO" \in Args
      /\ "IS_SET_TO" \in Args
    BY Zenon DEF Args
<1>2. 1 \in Int /\ 5 \in Int /\ 6 \in Int /\ 8 \in Int
    OBVIOUS
<1>3. /\ Rest("NULL", 1) \in Seq(Waits) /\ Rest("NULL", 5) \in Seq(Waits) /\ Rest("NULL", 8) \in Seq(Waits)
      /\ Rest("MAINTAIN_TEMP_IS", 5) \in Seq(Waits) /\ Rest("FREEZE_PROTECTION_IS_SET_TO", 6) \in Seq(Waits)
    BY <1>1, <1>2, RestIs
<1>4. Rest("IS_SET_TO", 1) \in Seq(Steps)
    <2>1. Rest("IS_SET_TO", 1) \in Seq(Waits)
        BY <1>1, <1>2, RestIs
    <2> QED BY <2>1, WaitsAreSteps
<1>5. Rest("IS_SET_TO", 1) = Cons(IsSetTo("wait", 1), Cons(Ended, <<>>))
    BY DEF Rest, IsSetTo
<1>6. Percent \in Seq(Steps)
    <2>1. PICK V : V = Cons(IsSetTo("wait", 1), Rest("NULL", 1))
        OBVIOUS
    <2>2. Rest("NULL", 1) \in Seq(Steps) /\ IsSetTo("wait", 1) \in Steps /\ Telling \in Steps
        BY <1>2, <1>3, WaitsAreSteps, InOrderIs
    <2>3. V \in Seq(Steps)
        BY <2>1, <2>2, ConsIs
    <2> QED BY <2>1, <2>2, <2>3, ConsIs DEF Percent
<1> QED BY <1>3, <1>4, <1>5, <1>6

LEMMA PhaseNext ==
    ASSUME RangesFit, Quiet, Phase
    PROVE  Phase'
<1>1. prog' = prog
    BY CalmNext DEF Quiet, Kept
<1>2. "POOL" \in Numbers /\ "SPA" \in Numbers /\ "POOL_SP" \in Numbers /\ "SPA_SP" \in Numbers /\ 1 \in Int
    BY DEF Numbers
<1>3. CASE prog = "AQ_GET_AUX_LABELS" /\ GetsLabels
    <2>1. prog \in Reading
        BY <1>3 DEF Reading
    <2>2. GetsLabels'
        BY <1>3, <2>1, MenuLeads, ReviewLeads, RestsAre, GetsNext DEF GetsLabels
    <2> QED BY <1>1, <1>3, <2>2 DEF Phase
<1>4. CASE prog = "AQ_GET_DIAGNOSTICS_MODEL" /\ GetsModel
    <2>1. prog \in Reading
        BY <1>4 DEF Reading
    <2>2. GetsModel'
        BY <1>4, <2>1, MenuLeads, OthersLead, RestsAre, GetsNext DEF GetsModel
    <2> QED BY <1>1, <1>4, <2>2 DEF Phase
<1>5. CASE prog = "AQ_GET_POOL_SPA_HEATER_TEMPS" /\ GetsTemps
    <2>1. prog \in Reading
        BY <1>5 DEF Reading
    <2>2. GetsTemps'
        BY <1>5, <2>1, MenuLeads, ReviewLeads, RestsAre, GetsNext DEF GetsTemps
    <2> QED BY <1>1, <1>5, <2>2 DEF Phase
<1>6. CASE prog = "AQ_GET_FREEZE_PROTECT_TEMP" /\ GetsFreeze
    <2>1. prog \in Reading
        BY <1>6 DEF Reading
    <2>2. GetsFreeze'
        BY <1>6, <2>1, MenuLeads, ReviewLeads, RestsAre, GetsNext DEF GetsFreeze
    <2> QED BY <1>1, <1>6, <2>2 DEF Phase
<1>7. CASE prog = "AQ_SET_POOL_HEATER_TEMP" /\ PutsPool
    <2>1. AllButton!Target(prog) = {"POOL"} /\ Cons(Ended, <<>>) \in Seq(Waits)
        BY <1>7, TargetIs, RestIs
    <2>2. PutsPool'
        BY <1>2, <1>7, <2>1, MenuLeads, TempLeads, RestsAre, PutsNext DEF PutsPool
    <2> QED BY <1>1, <1>7, <2>2 DEF Phase
<1>8. CASE prog = "AQ_SET_SPA_HEATER_TEMP" /\ PutsSpa
    <2>1. AllButton!Target(prog) = {"SPA"} /\ Cons(Ended, <<>>) \in Seq(Waits)
        BY <1>8, TargetIs, RestIs
    <2>2. PutsSpa'
        BY <1>2, <1>8, <2>1, MenuLeads, TempLeads, RestsAre, PutsNext DEF PutsSpa
    <2> QED BY <1>1, <1>8, <2>2 DEF Phase
<1>9. CASE prog = "TEMP1_HEATER_TEMP" /\ PutsTemp1
    BY <1>1, <1>9, Temp1Next DEF Phase
<1>10. CASE prog = "AQ_SET_FRZ_PROTECTION_TEMP" /\ PutsFreeze
    BY <1>1, <1>10, FreezeNext DEF Phase
<1>11. CASE prog = "AQ_SET_SWG_PERCENT" /\ PutsPoolPercent
    <2>1. AllButton!Target(prog) = {"POOL_SP"}
        BY <1>11, TargetIs
    <2>2. PutsPoolPercent'
        BY <1>2, <1>11, <2>1, MenuLeads, OthersLead, RestsAre, PutsNext DEF PutsPoolPercent, Percent
    <2> QED BY <1>1, <1>11, <2>2 DEF Phase
<1>12. CASE prog = "SPA_SWG_PERCENT" /\ PutsSpaPercent
    <2>1. AllButton!Target(prog) = {"SPA_SP"}
        BY <1>12, TargetIs
    <2>2. PutsSpaPercent'
        BY <1>2, <1>12, <2>1, MenuLeads, OthersLead, RestsAre, PutsNext DEF PutsSpaPercent, Percent
    <2> QED BY <1>1, <1>12, <2>2 DEF Phase
<1> QED BY <1>3, <1>4, <1>5, <1>6, <1>7, <1>8, <1>9, <1>10, <1>11, <1>12 DEF Phase

LEMMA PhaseStays ==
    ASSUME RangesFit, Phase
    PROVE  (todo # <<>> \/ Waiting) /\ (Still => Phase')
<1>1. Still => prog' = prog
    BY DEF Still, vars, threadVars
<1>2. /\ "POOL" \in Numbers /\ "SPA" \in Numbers /\ "POOL_SP" \in Numbers /\ "SPA_SP" \in Numbers
      /\ {"REVIEW", "SYSTEM_SETUP", "SET_TEMP", "SET_AQUAPURE", "AUX_LABELS", "DIAGNOSTICS", "TEMP_SET",
          "FRZ_PROTECT", "SET_POOL_TEMP", "SET_SPA_TEMP", "SET_POOL_SP", "SET_SPA_SP"} \subseteq Items
    BY DEF Numbers, Items
<1>3. ASSUME GetsLabels PROVE (todo # <<>> \/ Waiting) /\ (Still => GetsLabels')
    BY <1>2, <1>3, RestsAre, GetsStays DEF GetsLabels
<1>4. ASSUME GetsModel PROVE (todo # <<>> \/ Waiting) /\ (Still => GetsModel')
    BY <1>2, <1>4, RestsAre, GetsStays DEF GetsModel
<1>5. ASSUME GetsTemps PROVE (todo # <<>> \/ Waiting) /\ (Still => GetsTemps')
    BY <1>2, <1>5, RestsAre, GetsStays DEF GetsTemps
<1>6. ASSUME GetsFreeze PROVE (todo # <<>> \/ Waiting) /\ (Still => GetsFreeze')
    BY <1>2, <1>6, RestsAre, GetsStays DEF GetsFreeze
<1>7. ASSUME PutsPool PROVE (todo # <<>> \/ Waiting) /\ (Still => PutsPool')
    BY <1>2, <1>7, RestsAre, PutsStays DEF PutsPool
<1>8. ASSUME PutsSpa PROVE (todo # <<>> \/ Waiting) /\ (Still => PutsSpa')
    BY <1>2, <1>8, RestsAre, PutsStays DEF PutsSpa
<1>9. ASSUME PutsPoolPercent PROVE (todo # <<>> \/ Waiting) /\ (Still => PutsPoolPercent')
    BY <1>2, <1>9, RestsAre, PutsStays DEF PutsPoolPercent
<1>10. ASSUME PutsSpaPercent PROVE (todo # <<>> \/ Waiting) /\ (Still => PutsSpaPercent')
    BY <1>2, <1>10, RestsAre, PutsStays DEF PutsSpaPercent
<1>11. todo # <<>> \/ Waiting
    BY <1>3, <1>4, <1>5, <1>6, <1>7, <1>8, <1>9, <1>10, Temp1Stays, FreezeStays DEF Phase
<1>12. Still => Phase'
    BY <1>1, <1>3, <1>4, <1>5, <1>6, <1>7, <1>8, <1>9, <1>10, Temp1Stays, FreezeStays DEF Phase
<1> QED BY <1>11, <1>12

-----------------------------------------------------------------------------
(* Where they start.                                                        *)
LEMMA PrependIs ==
    ASSUME NEW S, NEW a \in S, NEW u \in Seq(S), NEW w, w = <<a>> \o u
    PROVE  w \in Seq(S) /\ Len(w) = Len(u) + 1 /\ w[1] = a /\ \A k \in 1..Len(u) : w[k + 1] = u[k]
<1>1. PICK p : p = <<a>>
    OBVIOUS
<1>2. p \in Seq(S)
    BY <1>1
<1>3. Len(p) = 1 /\ p[1] = a /\ Len(u) \in Nat
    BY <1>1
<1>4. /\ w \in Seq(S) /\ Len(w) = 1 + Len(u)
      /\ \A i \in 1..1 + Len(u) : w[i] = IF i <= 1 THEN p[i] ELSE u[i - 1]
    BY <1>1, <1>2, <1>3, ConcatProperties
<1>5. \A k \in 1..Len(u) : w[k + 1] = u[k]
    BY <1>3, <1>4
<1> QED BY <1>3, <1>4, <1>5

LEMMA ConsOfFive ==
    ASSUME NEW S, NEW a \in S, NEW b \in S, NEW c \in S, NEW d \in S, NEW e \in S
    PROVE  <<a, b, c, d, e>> = Cons(a, Cons(b, Cons(c, Cons(d, Cons(e, <<>>)))))
<1>1. PICK v, u : v = <<a, b, c, d, e>> /\ u = <<b, c, d, e>>
    OBVIOUS
<1>2. u = Cons(b, Cons(c, Cons(d, Cons(e, <<>>))))
    <2>1. <<>> \in Seq(S) /\ u \in Seq(S)
        BY <1>1
    <2>2. u \o <<>> = u
        BY <2>1
    <2>3. <<b, c, d, e>> \o <<>> = Cons(b, Cons(c, Cons(d, Cons(e, <<>>))))
        <3>1. PICK z \in Seq(S) : z = <<>>
            BY <2>1
        <3>2. <<b, c, d, e>> \o z = Cons(b, Cons(c, Cons(d, Cons(e, z))))
            BY ConsOfFour
        <3> QED BY <3>1, <3>2
    <2> QED BY <1>1, <2>2, <2>3
<1>3. PICK w : w = <<a>> \o u
    OBVIOUS
<1>4. v \in Seq(S) /\ Len(v) = 5 /\ v[1] = a /\ v[2] = b /\ v[3] = c /\ v[4] = d /\ v[5] = e
    BY <1>1
<1>5. u \in Seq(S) /\ Len(u) = 4 /\ u[1] = b /\ u[2] = c /\ u[3] = d /\ u[4] = e
    BY <1>1
<1>6. w \in Seq(S) /\ Len(w) = 5 /\ w[1] = a /\ w[2] = b /\ w[3] = c /\ w[4] = d /\ w[5] = e
    <2>4. u \in Seq(S)
        BY <1>5
    <2>5. w \in Seq(S) /\ Len(w) = Len(u) + 1 /\ w[1] = a /\ \A k \in 1..Len(u) : w[k + 1] = u[k]
        BY <1>3, <2>4, PrependIs
    <2>1. w \in Seq(S) /\ Len(w) = 5 /\ w[1] = a
        BY <1>5, <2>5
    <2>2. \A k \in 1..4 : w[k + 1] = u[k]
        BY <1>5, <2>5
    <2>3. w[2] = u[1] /\ w[3] = u[2] /\ w[4] = u[3] /\ w[5] = u[4]
        <3>1. w[1 + 1] = u[1] /\ w[2 + 1] = u[2] /\ w[3 + 1] = u[3] /\ w[4 + 1] = u[4]
            BY <2>2
        <3> QED BY <3>1
    <2> QED BY <1>5, <2>1, <2>3
<1>7. v = w
    BY <1>4, <1>6, SeqEqual
<1> QED BY <1>1, <1>2, <1>3, <1>7 DEF Cons

LEMMA ConsOfSix ==
    ASSUME NEW S, NEW a \in S, NEW b \in S, NEW c \in S, NEW d \in S, NEW e \in S, NEW f \in S
    PROVE  <<a, b, c, d, e, f>> = Cons(a, Cons(b, Cons(c, Cons(d, Cons(e, Cons(f, <<>>))))))
<1>1. PICK v, u : v = <<a, b, c, d, e, f>> /\ u = <<b, c, d, e, f>>
    OBVIOUS
<1>2. u = Cons(b, Cons(c, Cons(d, Cons(e, Cons(f, <<>>)))))
    BY <1>1, ConsOfFive
<1>3. PICK w : w = <<a>> \o u
    OBVIOUS
<1>4. v \in Seq(S) /\ Len(v) = 6 /\ v[1] = a /\ v[2] = b /\ v[3] = c /\ v[4] = d /\ v[5] = e /\ v[6] = f
    BY <1>1
<1>5. u \in Seq(S) /\ Len(u) = 5 /\ u[1] = b /\ u[2] = c /\ u[3] = d /\ u[4] = e /\ u[5] = f
    BY <1>1
<1>6. w \in Seq(S) /\ Len(w) = 6 /\ w[1] = a /\ w[2] = b /\ w[3] = c /\ w[4] = d /\ w[5] = e /\ w[6] = f
    <2>4. u \in Seq(S)
        BY <1>5
    <2>5. w \in Seq(S) /\ Len(w) = Len(u) + 1 /\ w[1] = a /\ \A k \in 1..Len(u) : w[k + 1] = u[k]
        BY <1>3, <2>4, PrependIs
    <2>1. w \in Seq(S) /\ Len(w) = 6 /\ w[1] = a
        BY <1>5, <2>5
    <2>2. \A k \in 1..5 : w[k + 1] = u[k]
        BY <1>5, <2>5
    <2>3. w[2] = u[1] /\ w[3] = u[2] /\ w[4] = u[3] /\ w[5] = u[4] /\ w[6] = u[5]
        <3>1. w[1 + 1] = u[1] /\ w[2 + 1] = u[2] /\ w[3 + 1] = u[3] /\ w[4 + 1] = u[4] /\ w[5 + 1] = u[5]
            BY <2>2
        <3> QED BY <3>1
    <2> QED BY <1>5, <2>1, <2>3
<1>7. v = w
    BY <1>4, <1>6, SeqEqual
<1> QED BY <1>1, <1>2, <1>3, <1>7 DEF Cons

LEMMA ConsOfFew ==
    ASSUME NEW S, NEW a \in S, NEW b \in S, NEW c \in S
    PROVE  <<a, b>> = Cons(a, Cons(b, <<>>)) /\ <<a, b, c>> = Cons(a, Cons(b, Cons(c, <<>>)))
<1>1. <<>> \in Seq(S) /\ <<a, b>> \in Seq(S) /\ <<a, b, c>> \in Seq(S)
    OBVIOUS
<1>2. PICK v, w : v = <<a, b>> /\ w = <<a, b, c>>
    OBVIOUS
<1>3. v \o <<>> = v /\ w \o <<>> = w
    BY <1>1, <1>2
<1>4. v \o <<>> = Cons(a, Cons(b, <<>>))
    BY <1>1, <1>2, ConsOfTwo
<1>5. w \o <<>> = Cons(a, Cons(b, Cons(c, <<>>)))
    <2>1. PICK z \in Seq(S) : z = <<>>
        BY <1>1
    <2>2. <<a, b, c>> \o z = Cons(a, Cons(b, Cons(c, z)))
        BY ConsOfThree
    <2> QED BY <1>2, <2>1, <2>2
<1> QED BY <1>2, <1>3, <1>4, <1>5

(* The way of a program to its menu, and on to an item of it.               *)
LEMMA SelectIs ==
    ASSUME NEW i \in Items, NEW T \in Seq(Steps)
    PROVE  /\ ItsMenu("menu", i) \in Steps /\ OrCancel \in Steps
           /\ AllButton!Select(i) = <<ItsMenu("menu", i), OrCancel>>
           /\ AllButton!Select(i) \o T = Cons(ItsMenu("menu", i), Cons(OrCancel, T))
<1>1. i \in Args /\ -1 \in Int /\ 4 \in Int
    <2>1. i \in Args
        BY Zenon DEF Args
    <2> QED BY <2>1
<1>2. ItsMenu("menu", i) \in Steps
    BY <1>1 DEF ItsMenu, Steps, Step, Ops
<1>3. OrCancel \in Steps
    BY GoOnSteps
<1>4. AllButton!Select(i) = <<ItsMenu("menu", i), OrCancel>>
    BY DEF AllButton!Select, AllButton!Menu, AllButton!OrCancel, AllButton!Step, AllButton!Nothing, ItsMenu,
       OrCancel, Step
<1> QED BY <1>2, <1>3, <1>4, ConsOfTwo

LEMMA GoIs ==
    ASSUME RangesFit, NEW j \in Items, NEW T \in Seq(Steps), NEW X \in Seq(Steps)
    PROVE  /\ Cons(Chosen(j), Cons(OrCancel, T)) \in Seq(Steps) /\ AllButton!Go(j) \in Seq(Steps)
           /\ (X \o AllButton!Go(j)) \o T = X \o Cons(Chosen(j), Cons(OrCancel, T))
<1>1. Chosen(j) \in Steps
    <2>1. j \in Args /\ SeekMax \in Int
        <3>1. j \in Args
            BY Zenon DEF Args
        <3> QED BY <3>1 DEF RangesFit
    <2> QED BY <2>1 DEF Chosen, Steps, Step, Ops
<1>2. OrCancel \in Steps
    BY GoOnSteps
<1>3. Cons(OrCancel, T) \in Seq(Steps)
    BY <1>2, ConsIs
<1>4. Cons(Chosen(j), Cons(OrCancel, T)) \in Seq(Steps)
    BY <1>1, <1>3, ConsIs
<1>5. PICK g : g = <<Chosen(j), OrCancel>>
    OBVIOUS
<1>6. AllButton!Go(j) = g
    BY <1>5 DEF AllButton!Go, AllButton!Sub, AllButton!OrCancel, AllButton!Step, AllButton!Nothing, Chosen, OrCancel,
       Step
<1>7. g \in Seq(Steps) /\ g \o T = Cons(Chosen(j), Cons(OrCancel, T))
    BY <1>1, <1>2, <1>5, ConsOfTwo
<1>8. (X \o g) \o T = X \o (g \o T)
    <2>1. g \in Seq(Steps)
        BY <1>7
    <2> QED BY <2>1, ConcatAssociative
<1> QED BY <1>4, <1>6, <1>7, <1>8

(* The script of a program whose menu is tried by one name.                 *)
LEMMA ScriptIs ==
    ASSUME RangesFit, NEW i \in Items, NEW j \in Items, NEW T \in Seq(Steps)
    PROVE  (AllButton!Select(i) \o AllButton!Go(j)) \o T =
           Cons(ItsMenu("menu", i), Cons(OrCancel, Cons(Chosen(j), Cons(OrCancel, T))))
<1>1. AllButton!Select(i) \in Seq(Steps)
    <2>1. PICK T0 \in Seq(Steps) : T0 = T
        OBVIOUS
    <2>2. ItsMenu("menu", i) \in Steps /\ OrCancel \in Steps
          /\ AllButton!Select(i) = <<ItsMenu("menu", i), OrCancel>>
        BY <2>1, SelectIs
    <2> QED BY <2>2, PairIs
<1>2. PICK S : S = Cons(Chosen(j), Cons(OrCancel, T))
    OBVIOUS
<1>3. S \in Seq(Steps) /\ (AllButton!Select(i) \o AllButton!Go(j)) \o T = AllButton!Select(i) \o S
    BY <1>1, <1>2, GoIs
<1> QED BY <1>2, <1>3, SelectIs

(* A program that has just been given the slot.                             *)
Fresh ==
    /\ key = None /\ out = <<>> /\ ~failed /\ Behind
    /\ PanelOk(panel) /\ ShownOk(shown) /\ todo = AllButton!Scripts(want)[prog]

LEMMA FreshTrip ==
    ASSUME RangesFit, Fresh, NEW i \in Items, NEW at, NEW mid, NEW j \in Items, NEW bt, NEW to,
           NEW T \in Seq(Steps),
           todo = Cons(ItsMenu("menu", i), Cons(OrCancel, Cons(Chosen(j), Cons(OrCancel, T))))
    PROVE  Trip(i, at, mid, j, bt, to, T)
<1>1. PICK S, X : S = Cons(Chosen(j), Cons(OrCancel, T)) /\ X = Cons(OrCancel, S)
    OBVIOUS
<1>2. S \in Seq(Steps)
    <2>1. <<>> \in Seq(Steps)
        OBVIOUS
    <2> QED BY <1>1, <2>1, GoIs
<1>3. X \in Seq(Steps) /\ ItsMenu("menu", i) \in Steps
    BY <1>1, <1>2, SelectIs, ConsIs
<1>4. Doing(ItsMenu("menu", i), X, None, <<>>) /\ Behind
    BY <1>1, <1>3 DEF Fresh, Doing, Front
<1>5. Selecting(i, X)
    BY <1>4 DEF Selecting
<1> QED BY <1>1, <1>5 DEF Trip

LEMMA RestIsThere ==
    ASSUME NEW x \in Args, NEW n \in Int
    PROVE  <<AllButton!Wait(x, n), AllButton!End>> = Rest(x, n)
<1>1. Step("wait", x, -1, n) \in Steps /\ Ended \in Steps
    <2>1. -1 \in Int
        OBVIOUS
    <2> QED BY <2>1, RestIs DEF Waits, Steps, Step, Ops
<1>2. AllButton!Wait(x, n) = Step("wait", x, -1, n) /\ AllButton!End = Ended
    BY DEF AllButton!Wait, AllButton!End, AllButton!Step, AllButton!Nothing, Step, Ended
<1> QED BY <1>1, <1>2, ConsOfFew DEF Rest

LEMMA FreshGets ==
    ASSUME RangesFit, Fresh, prog \in Reading
    PROVE  Phase
<1>1. /\ "NULL" \in Args /\ "MAINTAIN_TEMP_IS" \in Args /\ "FREEZE_PROTECTION_IS_SET_TO" \in Args
    BY Zenon DEF Args
<1>2. 5 \in Int /\ 6 \in Int /\ 8 \in Int
    OBVIOUS
<1>3. /\ Rest("NULL", 5) \in Seq(Steps) /\ Rest("NULL", 8) \in Seq(Steps)
      /\ Rest("MAINTAIN_TEMP_IS", 5) \in Seq(Steps) /\ Rest("FREEZE_PROTECTION_IS_SET_TO", 6) \in Seq(Steps)
    BY RestsAre, WaitsAreSteps
<1>4. {"REVIEW", "SYSTEM_SETUP", "AUX_LABELS", "DIAGNOSTICS", "TEMP_SET", "FRZ_PROTECT"} \subseteq Items
    BY DEF Items
<1>5. AllButton!WaitAny(5) = AllButton!Wait("NULL", 5) /\ AllButton!WaitAny(8) = AllButton!Wait("NULL", 8)
    BY DEF AllButton!WaitAny
<1>6. CASE prog = "AQ_GET_AUX_LABELS"
    <2>1. todo = (AllButton!Select("REVIEW") \o AllButton!Go("AUX_LABELS")) \o Rest("NULL", 5)
        BY <1>1, <1>2, <1>5, <1>6, RestIsThere DEF Fresh, AllButton!Scripts, AllButton!get_allbutton_aux_labels
    <2>2. PICK T \in Seq(Steps) : T = Rest("NULL", 5)
        BY <1>3
    <2>3. todo = Cons(ItsMenu("menu", "REVIEW"), Cons(OrCancel, Cons(Chosen("AUX_LABELS"), Cons(OrCancel, T))))
        BY <1>4, <2>1, <2>2, ScriptIs
    <2>4. Trip("REVIEW", 2, "review", "AUX_LABELS", 1, "LABELS", T)
        BY <1>4, <2>3, FreshTrip
    <2>5. GetsLabels
        BY <2>2, <2>4 DEF GetsLabels, Gets
    <2> QED BY <1>6, <2>5 DEF Phase
<1>7. CASE prog = "AQ_GET_DIAGNOSTICS_MODEL"
    <2>1. todo = (AllButton!Select("SYSTEM_SETUP") \o AllButton!Go("DIAGNOSTICS")) \o Rest("NULL", 8)
        BY <1>1, <1>2, <1>5, <1>7, RestIsThere DEF Fresh, AllButton!Scripts, AllButton!get_allbutton_diag_model
    <2>2. PICK T \in Seq(Steps) : T = Rest("NULL", 8)
        BY <1>3
    <2>3. todo = Cons(ItsMenu("menu", "SYSTEM_SETUP"), Cons(OrCancel, Cons(Chosen("DIAGNOSTICS"), Cons(OrCancel, T))))
        BY <1>4, <2>1, <2>2, ScriptIs
    <2>4. Trip("SYSTEM_SETUP", 7, "setup", "DIAGNOSTICS", 2, "DIAGNOSTICS", T)
        BY <1>4, <2>3, FreshTrip
    <2>5. GetsModel
        BY <2>2, <2>4 DEF GetsModel, Gets
    <2> QED BY <1>7, <2>5 DEF Phase
<1>8. CASE prog = "AQ_GET_POOL_SPA_HEATER_TEMPS"
    <2>1. todo = (AllButton!Select("REVIEW") \o AllButton!Go("TEMP_SET")) \o Rest("MAINTAIN_TEMP_IS", 5)
        BY <1>1, <1>2, <1>8, RestIsThere
           DEF Fresh, AllButton!Scripts, AllButton!get_allbutton_pool_spa_heater_temps
    <2>2. PICK T \in Seq(Steps) : T = Rest("MAINTAIN_TEMP_IS", 5)
        BY <1>3
    <2>3. todo = Cons(ItsMenu("menu", "REVIEW"), Cons(OrCancel, Cons(Chosen("TEMP_SET"), Cons(OrCancel, T))))
        BY <1>4, <2>1, <2>2, ScriptIs
    <2>4. Trip("REVIEW", 2, "review", "TEMP_SET", 2, "MAINTAIN_TEMP_IS", T)
        BY <1>4, <2>3, FreshTrip
    <2>5. GetsTemps
        BY <2>2, <2>4 DEF GetsTemps, Gets
    <2> QED BY <1>8, <2>5 DEF Phase
<1>9. CASE prog = "AQ_GET_FREEZE_PROTECT_TEMP"
    <2>1. todo = (AllButton!Select("REVIEW") \o AllButton!Go("FRZ_PROTECT"))
                 \o Rest("FREEZE_PROTECTION_IS_SET_TO", 6)
        BY <1>1, <1>2, <1>9, RestIsThere
           DEF Fresh, AllButton!Scripts, AllButton!get_allbutton_freeze_protect_temp
    <2>2. PICK T \in Seq(Steps) : T = Rest("FREEZE_PROTECTION_IS_SET_TO", 6)
        BY <1>3
    <2>3. todo = Cons(ItsMenu("menu", "REVIEW"), Cons(OrCancel, Cons(Chosen("FRZ_PROTECT"), Cons(OrCancel, T))))
        BY <1>4, <2>1, <2>2, ScriptIs
    <2>4. Trip("REVIEW", 2, "review", "FRZ_PROTECT", 3, "FREEZE_PROTECTION_IS_SET_TO", T)
        BY <1>4, <2>3, FreshTrip
    <2>5. GetsFreeze
        BY <2>2, <2>4 DEF GetsFreeze, Gets
    <2> QED BY <1>9, <2>5 DEF Phase
<1> QED BY <1>6, <1>7, <1>8, <1>9 DEF Reading

LEMMA FreshTripOr ==
    ASSUME RangesFit, Fresh, NEW i \in Items, NEW at, NEW mid, NEW j \in Items, NEW bt, NEW to,
           NEW T \in Seq(Steps),
           todo = Cons(ItsMenu("menu", i), Cons(OrTry, Cons(OrCancel, Cons(Chosen(j), Cons(OrCancel, T)))))
    PROVE  Trip(i, at, mid, j, bt, to, T)
<1>1. PICK S, C, X : S = Cons(Chosen(j), Cons(OrCancel, T)) /\ C = Cons(OrCancel, S) /\ X = Cons(OrTry, C)
    OBVIOUS
<1>2. S \in Seq(Steps)
    <2>1. <<>> \in Seq(Steps)
        OBVIOUS
    <2> QED BY <1>1, <2>1, GoIs
<1>3. C \in Seq(Steps) /\ ItsMenu("menu", i) \in Steps
    BY <1>1, <1>2, SelectIs, ConsIs
<1>4. X \in Seq(Steps)
    BY <1>1, <1>3, GoOnSteps, ConsIs
<1>5. Doing(ItsMenu("menu", i), X, None, <<>>) /\ Behind
    BY <1>1, <1>3, <1>4 DEF Fresh, Doing, Front
<1>6. Selecting(i, X)
    BY <1>5 DEF Selecting
<1> QED BY <1>1, <1>6 DEF Trip

(* The end of the programs that set a number.                               *)
LEMMA ToSetIs ==
    ASSUME NEW f \in Numbers
    PROVE  /\ \A n \in Int : <<AllButton!Field(f), AllButton!Wait("IS_SET_TO", n), AllButton!End>>
                             = ToSet(f, Rest("IS_SET_TO", n))
           /\ <<AllButton!Field(f), AllButton!Tell, AllButton!Wait("IS_SET_TO", 1), AllButton!WaitAny(1),
                AllButton!End>> = ToSet(f, Percent)
           /\ ToSet(f, Percent) \in Seq(Steps) /\ ToSet(f, Rest("IS_SET_TO", 1)) \in Seq(Steps)
<1>1. AllButton!Field(f) = InField("field", f, -2, 0) /\ AllButton!End = Ended /\ AllButton!Tell = Telling
    BY DEF AllButton!Field, AllButton!AtStart, AllButton!End, AllButton!Tell, AllButton!Step, AllButton!Nothing,
       Step, InField, Ended, Telling
<1>2. \A n : /\ AllButton!Wait("IS_SET_TO", n) = IsSetTo("wait", n)
             /\ IsSetTo("wait", n) = Step("wait", "IS_SET_TO", -1, n)
    BY DEF AllButton!Wait, AllButton!Step, AllButton!Nothing, Step, IsSetTo
<1>3. AllButton!WaitAny(1) = Step("wait", "NULL", -1, 1)
    BY DEF AllButton!WaitAny, AllButton!Wait, AllButton!Step, AllButton!Nothing, Step
<1>4. InField("field", f, -2, 0) \in Steps /\ Telling \in Steps
    <2>1. <<>> \in Seq(Steps)
        OBVIOUS
    <2> QED BY <2>1, InOrderIs
<1>5. Ended \in Steps
    BY RestIs DEF Waits
<1>6. \A n \in Int : IsSetTo("wait", n) \in Steps
    BY InOrderIs
<1>7. ASSUME NEW n \in Int
      PROVE  <<AllButton!Field(f), AllButton!Wait("IS_SET_TO", n), AllButton!End>> = ToSet(f, Rest("IS_SET_TO", n))
    <2>1. IsSetTo("wait", n) \in Steps
        BY <1>6
    <2>2. <<InField("field", f, -2, 0), IsSetTo("wait", n), Ended>>
          = Cons(InField("field", f, -2, 0), Cons(IsSetTo("wait", n), Cons(Ended, <<>>)))
        BY <1>4, <1>5, <2>1, ConsOfFew
    <2> QED BY <1>1, <1>2, <2>2 DEF ToSet, Rest
<1>8. Step("wait", "NULL", -1, 1) \in Steps
    <2>1. "NULL" \in Args
        BY Zenon DEF Args
    <2>2. -1 \in Int /\ 1 \in Int
        OBVIOUS
    <2> QED BY <2>1, <2>2 DEF Steps, Step, Ops
<1>9. <<AllButton!Field(f), AllButton!Tell, AllButton!Wait("IS_SET_TO", 1), AllButton!WaitAny(1), AllButton!End>>
      = ToSet(f, Percent)
    <2>1. IsSetTo("wait", 1) \in Steps
        BY <1>6
    <2>2. <<InField("field", f, -2, 0), Telling, IsSetTo("wait", 1), Step("wait", "NULL", -1, 1), Ended>>
          = Cons(InField("field", f, -2, 0), Cons(Telling, Cons(IsSetTo("wait", 1),
                 Cons(Step("wait", "NULL", -1, 1), Cons(Ended, <<>>)))))
        BY <1>4, <1>5, <1>8, <2>1, ConsOfFive
    <2> QED BY <1>1, <1>2, <1>3, <2>2 DEF ToSet, Percent, Rest
<1>10. Percent \in Seq(Steps) /\ Rest("IS_SET_TO", 1) \in Seq(Steps)
    BY RestsAre
<1>11. ToSet(f, Percent) \in Seq(Steps)
    BY <1>10, InOrderIs
<1>12. ToSet(f, Rest("IS_SET_TO", 1)) \in Seq(Steps)
    BY <1>10, InOrderIs
<1> QED BY <1>7, <1>9, <1>11, <1>12

LEMMA FreshTemps ==
    ASSUME RangesFit, Fresh, prog \in {"AQ_SET_POOL_HEATER_TEMP", "AQ_SET_SPA_HEATER_TEMP"}
    PROVE  Phase
<1>1. "POOL" \in Numbers /\ "SPA" \in Numbers /\ 1 \in Int
    BY DEF Numbers
<1>2. "SET_TEMP" \in Items /\ "SET_POOL_TEMP" \in Items /\ "SET_SPA_TEMP" \in Items
    BY DEF Items
<1>3. PICK P, S : P = ToSet("POOL", Rest("IS_SET_TO", 1)) /\ S = ToSet("SPA", Rest("IS_SET_TO", 1))
    OBVIOUS
<1>4. P \in Seq(Steps) /\ P = <<AllButton!Field("POOL"), AllButton!Wait("IS_SET_TO", 1), AllButton!End>>
    BY <1>1, <1>3, ToSetIs
<1>5. S \in Seq(Steps) /\ S = <<AllButton!Field("SPA"), AllButton!Wait("IS_SET_TO", 1), AllButton!End>>
    BY <1>1, <1>3, ToSetIs
<1>6. CASE prog = "AQ_SET_POOL_HEATER_TEMP"
    <2>1. todo = (AllButton!Select("SET_TEMP") \o AllButton!Go("SET_POOL_TEMP")) \o P
        BY <1>4, <1>6 DEF Fresh, AllButton!Scripts, AllButton!set_allbutton_pool_heater_temps
    <2>2. Trip("SET_TEMP", 3, "temp", "SET_POOL_TEMP", 1, "POOL", P)
        BY <1>2, <1>4, <2>1, ScriptIs, FreshTrip
    <2> QED BY <1>3, <1>6, <2>2 DEF Phase, PutsPool, Puts
<1>7. CASE prog = "AQ_SET_SPA_HEATER_TEMP"
    <2>1. todo = (AllButton!Select("SET_TEMP") \o AllButton!Go("SET_SPA_TEMP")) \o S
        BY <1>5, <1>7 DEF Fresh, AllButton!Scripts, AllButton!set_allbutton_spa_heater_temps
    <2>2. Trip("SET_TEMP", 3, "temp", "SET_SPA_TEMP", 2, "SPA", S)
        BY <1>2, <1>5, <2>1, ScriptIs, FreshTrip
    <2> QED BY <1>3, <1>7, <2>2 DEF Phase, PutsSpa, Puts
<1> QED BY <1>6, <1>7

LEMMA FreshTemp1 ==
    ASSUME RangesFit, Fresh, prog = "TEMP1_HEATER_TEMP"
    PROVE  Phase
<1>1. "SET_TEMP" \in Items /\ "SET_TEMP1" \in Items
    BY DEF Items
<1>2. MustFirst \in Seq(Steps)
    BY ExtraSteps
<1>3. PICK F : F = <<AllButton!Wait("MUST_BE_SET", 5), AllButton!Key("left"), AllButton!Until("MUST_BE_SET"),
                     AllButton!Field("TEMP1"), AllButton!Wait("IS_SET_TO", 1), AllButton!End>>
    OBVIOUS
<1>4. F = MustFirst
    <2>1. /\ AllButton!Wait("MUST_BE_SET", 5) = MustBe("wait", 5)
          /\ AllButton!Key("left") = Step("key", "left", -1, 0)
          /\ AllButton!Until("MUST_BE_SET") = MustBe("until", 0)
          /\ AllButton!Field("TEMP1") = InField("field", "TEMP1", -2, 0)
          /\ AllButton!Wait("IS_SET_TO", 1) = IsSetTo("wait", 1) /\ AllButton!End = Ended
        BY DEF AllButton!Wait, AllButton!Key, AllButton!Until, AllButton!Field, AllButton!AtStart, AllButton!End,
           AllButton!Step, AllButton!Nothing, Step, MustBe, InField, IsSetTo, Ended
    <2>2. "MUST_BE_SET" \in Args /\ "left" \in Args
        BY Zenon DEF Args, Keys
    <2>3. -1 \in Int /\ 0 \in Int /\ 5 \in Int /\ 1 \in Int
        OBVIOUS
    <2>4. MustBe("wait", 5) \in Steps /\ MustBe("until", 0) \in Steps
        BY <2>2, <2>3 DEF MustBe, Steps, Step, Ops
    <2>5. Step("key", "left", -1, 0) \in Steps
        BY <2>2, <2>3 DEF Steps, Step, Ops
    <2>6. InField("field", "TEMP1", -2, 0) \in Steps
        <3>1. <<>> \in Seq(Steps) /\ "TEMP1" \in Numbers
            BY DEF Numbers
        <3> QED BY <3>1, InOrderIs
    <2>7. IsSetTo("wait", 1) \in Steps
        BY <2>3, InOrderIs
    <2>8. Ended \in Steps
        BY RestIs DEF Waits
    <2>9. <<MustBe("wait", 5), Step("key", "left", -1, 0), MustBe("until", 0), InField("field", "TEMP1", -2, 0),
            IsSetTo("wait", 1), Ended>>
          = Cons(MustBe("wait", 5), Cons(Step("key", "left", -1, 0), Cons(MustBe("until", 0),
                 Cons(InField("field", "TEMP1", -2, 0), Cons(IsSetTo("wait", 1), Cons(Ended, <<>>))))))
        BY <2>4, <2>5, <2>6, <2>7, <2>8, ConsOfSix, SMTT(30)
    <2>10. IsSetTo("wait", 1) = Step("wait", "IS_SET_TO", -1, 1)
        BY DEF IsSetTo
    <2> QED BY <1>3, <2>1, <2>9, <2>10 DEF MustFirst, Temp1, ToSet, Rest
<1>5. todo = (AllButton!Select("SET_TEMP") \o AllButton!Go("SET_TEMP1")) \o F
    BY <1>3 DEF Fresh, AllButton!Scripts, AllButton!set_allbutton_temp1
<1>6. Trip("SET_TEMP", 3, "temp", "SET_TEMP1", 3, "MUST_BE_SET", MustFirst)
    BY <1>1, <1>2, <1>4, <1>5, ScriptIs, FreshTrip
<1> QED BY <1>6 DEF Phase, PutsTemp1

LEMMA FreshFreeze ==
    ASSUME RangesFit, Fresh, prog = "AQ_SET_FRZ_PROTECTION_TEMP"
    PROVE  Phase
<1>1. "SYSTEM_SETUP" \in Items /\ "FRZ_PROTECT" \in Items /\ "TEMP_SETTING" \in Items
    BY DEF Items
<1>2. PICK T : T = Cons(Chosen("TEMP_SETTING"), Cons(OrCancel, Freeze))
    OBVIOUS
<1>3. Freeze \in Seq(Steps) /\ T \in Seq(Steps)
    BY <1>2, ExtraSteps
<1>4. Freeze = <<AllButton!Field("FRZ"), AllButton!Wait("IS_SET_TO", 3), AllButton!End>>
    <2>1. "FRZ" \in Numbers /\ 3 \in Int
        BY DEF Numbers
    <2> QED BY <2>1, ToSetIs DEF Freeze
<1>5. PICK X : X = AllButton!Select("SYSTEM_SETUP") \o AllButton!Go("FRZ_PROTECT")
    OBVIOUS
<1>6. todo = (X \o AllButton!Go("TEMP_SETTING")) \o Freeze
    BY <1>4, <1>5 DEF Fresh, AllButton!Scripts, AllButton!set_allbutton_freeze_heater_temps
<1>7. X \in Seq(Steps)
    <2>1. <<>> \in Seq(Steps)
        OBVIOUS
    <2>2. AllButton!Go("FRZ_PROTECT") \in Seq(Steps)
        BY <1>1, <2>1, GoIs
    <2>3. /\ ItsMenu("menu", "SYSTEM_SETUP") \in Steps /\ OrCancel \in Steps
          /\ AllButton!Select("SYSTEM_SETUP") = <<ItsMenu("menu", "SYSTEM_SETUP"), OrCancel>>
        BY <1>1, <2>1, SelectIs
    <2>4. AllButton!Select("SYSTEM_SETUP") \in Seq(Steps)
        BY <2>3, PairIs
    <2> QED BY <1>5, <2>2, <2>4
<1>8. todo = X \o T
    BY <1>1, <1>2, <1>3, <1>6, <1>7, GoIs
<1>9. Trip("SYSTEM_SETUP", 7, "setup", "FRZ_PROTECT", 1, "freeze", T)
    BY <1>1, <1>3, <1>5, <1>8, ScriptIs, FreshTrip
<1> QED BY <1>2, <1>9 DEF Phase, PutsFreeze

LEMMA SwgIs ==
    ASSUME RangesFit, NEW j \in Items, NEW f \in Numbers
    PROVE  AllButton!set_allbutton_SWG(j, f)
           = Cons(ItsMenu("menu", "SET_AQUAPURE"), Cons(OrTry, Cons(OrCancel,
                  Cons(Chosen(j), Cons(OrCancel, ToSet(f, Percent))))))
<1>1. PICK M, T, S : /\ M = ItsMenu("menu", "SET_AQUAPURE") /\ T = ToSet(f, Percent)
                     /\ S = Cons(Chosen(j), Cons(OrCancel, T))
    OBVIOUS
<1>2. T \in Seq(Steps)
    BY <1>1, ToSetIs
<1>3. M \in Steps
    <2>1. "SET_AQUAPURE" \in Items
        BY DEF Items
    <2> QED BY <1>1, <1>2, <2>1, SelectIs
<1>4. OrTry \in Steps /\ OrCancel \in Steps
    BY GoOnSteps
<1>5. PICK X : X = <<M, OrTry, OrCancel>>
    OBVIOUS
<1>6. X = <<AllButton!Menu("SET_AQUAPURE"), AllButton!Step("orTry", "SET_AQUARITE", AllButton!Nothing, 0),
            AllButton!OrCancel>>
    BY <1>1, <1>5 DEF AllButton!Menu, AllButton!OrCancel, AllButton!Step, AllButton!Nothing, ItsMenu, OrTry,
       OrCancel, Step
<1>7. X \in Seq(Steps)
    BY <1>3, <1>4, <1>5
<1>8. AllButton!set_allbutton_SWG(j, f) = (X \o AllButton!Go(j)) \o T
    BY <1>1, <1>6, ToSetIs DEF AllButton!set_allbutton_SWG
<1>9. AllButton!set_allbutton_SWG(j, f) = X \o S /\ S \in Seq(Steps)
    BY <1>1, <1>2, <1>7, <1>8, GoIs
<1>10. X \o S = Cons(M, Cons(OrTry, Cons(OrCancel, S)))
    BY <1>3, <1>4, <1>5, <1>9, ConsOfThree
<1> QED BY <1>1, <1>9, <1>10

LEMMA FreshPercent ==
    ASSUME RangesFit, Fresh, prog \in {"AQ_SET_SWG_PERCENT", "SPA_SWG_PERCENT"}
    PROVE  Phase
<1>1. "POOL_SP" \in Numbers /\ "SPA_SP" \in Numbers
    BY DEF Numbers
<1>2. "SET_AQUAPURE" \in Items /\ "SET_POOL_SP" \in Items /\ "SET_SPA_SP" \in Items
    BY DEF Items
<1>3. CASE prog = "AQ_SET_SWG_PERCENT"
    <2>1. todo = AllButton!set_allbutton_SWG("SET_POOL_SP", "POOL_SP")
        BY <1>3 DEF Fresh, AllButton!Scripts
    <2>2. PICK T : T = ToSet("POOL_SP", Percent)
        OBVIOUS
    <2>3. T \in Seq(Steps)
        BY <1>1, <2>2, ToSetIs
    <2>4. Trip("SET_AQUAPURE", 5, "aquapure", "SET_POOL_SP", 1, "POOL_SP", T)
        BY <1>1, <1>2, <2>1, <2>2, <2>3, SwgIs, FreshTripOr
    <2> QED BY <1>3, <2>2, <2>4 DEF Phase, PutsPoolPercent, Puts
<1>4. CASE prog = "SPA_SWG_PERCENT"
    <2>1. todo = AllButton!set_allbutton_SWG("SET_SPA_SP", "SPA_SP")
        BY <1>4 DEF Fresh, AllButton!Scripts
    <2>2. PICK T : T = ToSet("SPA_SP", Percent)
        OBVIOUS
    <2>3. T \in Seq(Steps)
        BY <1>1, <2>2, ToSetIs
    <2>4. Trip("SET_AQUAPURE", 5, "aquapure", "SET_SPA_SP", 2, "SPA_SP", T)
        BY <1>1, <1>2, <2>1, <2>2, <2>3, SwgIs, FreshTripOr
    <2> QED BY <1>4, <2>2, <2>4 DEF Phase, PutsSpaPercent, Puts
<1> QED BY <1>3, <1>4

LEMMA FreshPuts ==
    ASSUME RangesFit, Fresh, prog \in Numeric
    PROVE  Phase
BY FreshTemps, FreshTemp1, FreshFreeze, FreshPercent DEF Numeric

LEMMA AtFirst ==
    ASSUME RangesFit, Init, emulation = "allbutton", prog \in Numeric \union Reading
    PROVE  mishaps = {} /\ Calm /\ Fresh
<1>1. ~OneTouch!Init /\ ~IaqTouch!Init /\ ~Pda!Init
    <2>1. OneTouch!Init => emulation = "onetouch"
        BY Zenon DEF OneTouch!Init
    <2>2. IaqTouch!Init => emulation = "iaqtouch"
        BY ZenonT(40) DEF IaqTouch!Init
    <2>3. Pda!Init => emulation = "pda"
        BY ZenonT(40) DEF Pda!Init
    <2> QED BY <2>1, <2>2, <2>3
<1>2. AllButton!Init /\ out = <<>> /\ mishaps = {} /\ failed = FALSE
    BY <1>1, Zenon DEF Init
<1>3. PICK v \in Values, p \in DOMAIN AllButton!Scripts(0), page \in AllButton!LeftBehind :
        /\ emulation = "allbutton"
        /\ p = "AQ_SET_BOOST" => v <= 1
        /\ prog = p /\ want = v
        /\ todo = AllButton!Scripts(v)[p]
        /\ \E old \in AllButton!OldsOf(p, {"AQ_SET_BOOST"}),
              lit \in IF p \in AllButton!Lights THEN BOOLEAN ELSE {FALSE} :
              /\ panel = [page |-> page, line |-> 1, value |-> 0, on |-> lit, program |-> IF lit THEN 1 ELSE 0,
                          stored |-> [s \in AllButton!Settings |-> IF s = "BOOST" /\ old > 1 THEN 1 ELSE old]]
              /\ shown = [text |-> page, val |-> AllButton!Nothing, led |-> lit]
        /\ told = IF panel.on THEN panel.program ELSE AllButton!Nothing
        /\ key = AllButton!NoKey /\ expect = 0 /\ lastSent = AllButton!NoKey /\ stack = <<>>
        /\ current = AllButton!Nothing
    BY <1>2, Zenon DEF AllButton!Init
<1>4. PICK old, lit :
        /\ old \in AllButton!OldsOf(prog, {"AQ_SET_BOOST"})
        /\ panel = [page |-> page, line |-> 1, value |-> 0, on |-> lit, program |-> IF lit THEN 1 ELSE 0,
                    stored |-> [s \in AllButton!Settings |-> IF s = "BOOST" /\ old > 1 THEN 1 ELSE old]]
        /\ shown = [text |-> page, val |-> AllButton!Nothing, led |-> lit]
    BY <1>3
<1>5. old \in Values
    <2>1. prog # "AQ_SET_BOOST"
        BY DEF Numeric, Reading
    <2> QED BY <1>4, <2>1, ProgramAssumption DEF AllButton!OldsOf
<1>6. old > 1 => 1 \in Values
    BY <1>5 DEF RangesFit
<1>7. panel.stored \in [AllButton!Settings -> Values]
    BY <1>4, <1>5, <1>6
<1>8. PanelOk(panel) /\ ShownOk(shown)
    BY <1>4, <1>7 DEF PanelOk, ShownOk
<1>9. Behind
    BY <1>3, <1>4 DEF Behind, AllButton!LeftBehind
<1>10. Calm
    BY <1>2, <1>3 DEF Calm, OfAllButton, OutOk
<1>11. todo = AllButton!Scripts(want)[prog] /\ key = None
    BY <1>3 DEF None
<1> QED BY <1>2, <1>8, <1>9, <1>10, <1>11 DEF Fresh

(* Where the programs are on an undisturbed bus; no panel crashes in what   *)
(* can go wrong with an AllButton remote.                                   *)
Inv ==
    /\ emulation = "allbutton" /\ prog \in Numeric \union Reading /\ "crash" \notin mishaps
    /\ mishaps = {} => Calm /\ Phase

LEMMA InvAtFirst ==
    ASSUME RangesFit, Init, emulation = "allbutton", prog \in Numeric \union Reading
    PROVE  Inv
<1>1. mishaps = {} /\ Calm /\ Fresh
    BY AtFirst
<1>2. Phase
    BY <1>1, FreshGets, FreshPuts
<1> QED BY <1>1, <1>2 DEF Inv

LEMMA AllButtonKeeps ==
    ASSUME emulation = "allbutton", Next
    PROVE  /\ emulation' = emulation /\ prog' = prog
           /\ mishaps \subseteq mishaps' /\ ("crash" \in mishaps' => "crash" \in mishaps)
<1>1. \A w : AllButton!Goes(w) => mishaps' = mishaps \union {w}
    BY Zenon DEF AllButton!Goes
<1>2. AllButton!Fine => mishaps' = mishaps
    BY DEF AllButton!Fine
<1>3. CASE AllButton!StatusPoll
    BY <1>1, <1>2, <1>3 DEF AllButton!StatusPoll, AllButton!Turn
<1>4. CASE AllButton!MessagePoll
    BY <1>1, <1>2, <1>4 DEF AllButton!MessagePoll, AllButton!Turn
<1>5. CASE AllButton!UserKey
    BY <1>1, <1>5 DEF AllButton!UserKey
<1>6. CASE AllButton!ThreadStep
    <2>1. CASE AllButton!CommonStep
        BY <1>1, <1>2, <2>1 DEF AllButton!CommonStep, AllButton!SendKey, AllButton!QueueEmpty, AllButton!DelayOver,
           AllButton!TellClients, AllButton!EndProgram, AllButton!Deciding, AllButton!busVars
    <2>2. CASE AllButton!SendKeyLate(AllButton!Now.arg)
        BY <1>1, <2>2 DEF AllButton!SendKeyLate
    <2>3. CASE AllButton!Deciders
        <3>1. CASE AllButton!LightForgets
            BY <1>1, <1>2, <3>1 DEF AllButton!LightForgets
        <3>2. CASE AllButton!waitForMessage
            BY <3>2 DEF AllButton!waitForMessage, AllButton!Deciding, AllButton!busVars
        <3>3. CASE AllButton!Unmoved
            BY <3>3 DEF AllButton!Unmoved, AllButton!Deciding, AllButton!busVars
        <3>4. \A x : AllButton!Only(x) => AllButton!Unmoved
            BY DEF AllButton!Only
        <3>5. AllButton!LightForgets \/ AllButton!waitForMessage \/ AllButton!Unmoved
            BY <2>3, <3>4 DEF AllButton!Deciders, AllButton!SelectMenu, AllButton!MenuFound, AllButton!SelectSub,
               AllButton!Seek, AllButton!GiveUpOrGoOn, AllButton!FieldWait, AllButton!Adjust, AllButton!LightOff,
               AllButton!LightMode, AllButton!ModeShown, AllButton!BoostStop, AllButton!StopShown,
               AllButton!PulseLight, AllButton!TryOther, AllButton!TextGone, AllButton!EndOrGoOn,
               AllButton!EnterOrCancel, AllButton!Only
        <3> QED BY <3>1, <3>2, <3>3, <3>5
    <2> QED BY <1>6, <2>1, <2>2, <2>3 DEF AllButton!ThreadStep
<1> QED BY <1>3, <1>4, <1>5, <1>6, ItsStep

LEMMA InvNext ==
    ASSUME RangesFit, Inv, [Next]_vars
    PROVE  Inv'
<1>1. CASE Next
    <2>1. /\ emulation' = emulation /\ prog' = prog
          /\ mishaps \subseteq mishaps' /\ ("crash" \in mishaps' => "crash" \in mishaps)
        BY <1>1, AllButtonKeeps DEF Inv
    <2>2. ASSUME mishaps' = {} PROVE Calm' /\ Phase'
        <3>1. mishaps = {}
            BY <2>1, <2>2
        <3>2. Quiet /\ Phase
            BY <1>1, <2>2, <3>1 DEF Quiet, Inv
        <3> QED BY <3>2, PhaseNext, CalmNext DEF Quiet
    <2> QED BY <2>1, <2>2 DEF Inv
<1>2. CASE Still
    <2>1. ASSUME mishaps' = {} PROVE Calm' /\ Phase'
        <3>1. Calm /\ Phase
            BY <1>2, <2>1 DEF Still, vars, busVars, Inv
        <3>2. Phase'
            BY <1>2, <3>1, PhaseStays
        <3>3. Calm'
            BY <1>2, <3>1 DEF Still, vars, threadVars, busVars, allbuttonVars, Calm, OfAllButton, OutOk
        <3> QED BY <3>2, <3>3
    <2>2. UNCHANGED <<emulation, prog, mishaps>>
        BY <1>2 DEF Still, vars, threadVars, busVars
    <2> QED BY <2>1, <2>2 DEF Inv
<1> QED BY <1>1, <1>2 DEF Still

LEMMA InvIsEnough ==
    ASSUME RangesFit, Inv
    PROVE  SetIsStored /\ ToldIsTrue
<1>1. SUFFICES ASSUME ~Working, Undisturbed PROVE ~failed /\ Asked(panel)
    BY DEF SetIsStored, ToldIsTrue
<1>2. mishaps = {}
    BY <1>1 DEF Inv, Undisturbed
<1>3. Waiting
    BY <1>1, <1>2, PhaseStays DEF Inv, Working
<1>4. ~failed /\ Stored(panel)
    BY <1>3 DEF Waiting
<1>5. prog \notin AllButton!Lights
    BY DEF Inv, Numeric, Reading, AllButton!Lights
<1>6. AllButton!Asked(panel)
    <2>1. prog \notin {"AQ_SET_LIGHTPROGRAM_MODE", "ADVANCE_LIGHTPROGRAM"}
        BY <1>5 DEF AllButton!Lights
    <2>2. \A s \in AllButton!Target(prog) \ {"HOUR"} : panel.stored[s] = want
        BY <1>4 DEF Stored
    <2> QED BY <1>5, <2>1, <2>2, Zenon DEF AllButton!Asked
<1>7. Asked(panel)
    BY <1>6 DEF Asked, Inv
<1> QED BY <1>4, <1>7

(* A program that reads a page of an AllButton remote, or sets a            *)
(* temperature or a percentage with it, ends with no error and with the     *)
(* value stored when the bus does not disturb it, for every range of values *)
(* that its limits allow, whatever the panel has stored and whichever page  *)
(* was left behind (waitForMessage, select_menu_item,                       *)
(* select_sub_menu_item, setAqualinkNumericField_new).                      *)
THEOREM AllButtonSets ==
    ASSUME RangesFit
    PROVE  Spec /\ emulation = "allbutton" /\ prog \in Numeric \union Reading => [](SetIsStored /\ ToldIsTrue)
<1>1. Init /\ emulation = "allbutton" /\ prog \in Numeric \union Reading => Inv
    BY InvAtFirst
<1>2. Inv /\ [Next]_vars => Inv'
    BY InvNext
<1>3. Inv => SetIsStored /\ ToldIsTrue
    BY InvIsEnough
<1> QED BY <1>1, <1>2, <1>3, PTL DEF Spec

-----------------------------------------------------------------------------
(* What is stored on the way.                                               *)

(* Only ENTER stores anything, and on the page of a field it stores what    *)
(* the field shows.                                                         *)
LEMMA OpenKeeps ==
    ASSUME NEW p, PanelOk(p), NEW pg
    PROVE  AllButton!Open(p, pg).stored = p.stored
<1>1. CASE pg = "boost"
    <2>1. PICK x : x = IF p.stored["BOOST"] = 0 THEN "START" ELSE "boosting"
        OBVIOUS
    <2>2. AllButton!Open(p, pg) = AllButton!OnPage(p, x)
        BY <1>1, <2>1 DEF AllButton!Open, AllButton!Fields, AllButton!Rings
    <2> QED BY <2>2, OnPageIs
<1>2. CASE pg # "boost"
    BY <1>2, OpenIs
<1> QED BY <1>1, <1>2

LEMMA OthersKeep ==
    ASSUME NEW p, PanelOk(p), NEW k, k # "enter"
    PROVE  AllButton!Press(p, k).stored = p.stored
<1>1. CASE k \in {"menu", "cancel", "device"}
    <2>1. AllButton!Press(p, k) = p \/ \E x : AllButton!Press(p, k) = AllButton!OnPage(p, x)
        BY <1>1 DEF AllButton!Press
    <2> QED BY <2>1, OnPageIs
<1>2. CASE k = "right"
    <2>1. AllButton!Press(p, k) = AllButton!Right(p)
        BY <1>2 DEF AllButton!Press
    <2>2. PICK x, y : x = (p.line % Len(AllButton!Pages[p.page])) + 1 /\ y = p.value + 1
        OBVIOUS
    <2>3. AllButton!Right(p) \in {p, [p EXCEPT !.line = x], [p EXCEPT !.value = y], [p EXCEPT !.value = 0]}
        BY <2>2 DEF AllButton!Right
    <2> QED BY <2>1, <2>3 DEF PanelOk
<1>3. CASE k = "left"
    <2>1. AllButton!Press(p, k) = AllButton!Left(p)
        BY <1>3 DEF AllButton!Press
    <2>2. PICK y : y = p.value - 1
        OBVIOUS
    <2>3. AllButton!Left(p) \in {p, AllButton!Open(p, "TEMP1"), [p EXCEPT !.value = y]}
        BY <2>2 DEF AllButton!Left
    <2>4. AllButton!Open(p, "TEMP1").stored = p.stored
        BY OpenKeeps
    <2> QED BY <2>1, <2>3, <2>4 DEF PanelOk
<1>4. CASE k = "light"
    <2>1. AllButton!Press(p, k) = AllButton!Light(p)
        BY <1>4 DEF AllButton!Press
    <2>2. CASE p.on
        <3>1. PICK q : q = AllButton!OnPage(p, "OFF")
            OBVIOUS
        <3>2. PanelOk(q) /\ q.stored = p.stored
            BY <3>1, OnPageIs
        <3>3. AllButton!Light(p) = [q EXCEPT !.on = FALSE]
            BY <2>2, <3>1 DEF AllButton!Light
        <3> QED BY <2>1, <3>2, <3>3 DEF PanelOk
    <2>3. CASE ~p.on
        <3>1. PICK q : q = AllButton!Open(p, "MODE")
            OBVIOUS
        <3>2. PanelOk(q) /\ q.stored = p.stored
            BY <3>1, OpenIs
        <3>3. PICK x : AllButton!Light(p) = [q EXCEPT !.on = TRUE, !.program = x]
            BY <2>3, <3>1 DEF AllButton!Light
        <3> QED BY <2>1, <3>2, <3>3 DEF PanelOk
    <2> QED BY <2>2, <2>3
<1>5. CASE k \notin {"menu", "cancel", "device", "right", "left", "light"}
    BY <1>5 DEF AllButton!Press
<1> QED BY <1>1, <1>2, <1>3, <1>4, <1>5

LEMMA EnterKeeps ==
    ASSUME NEW p, PanelOk(p), p.page \in {"menu", "review", "temp", "aquapure", "setup", "freeze"}
    PROVE  AllButton!Press(p, "enter").stored = p.stored
<1>1. PICK pg : pg = p.page
    OBVIOUS
<1>2. /\ pg \in DOMAIN AllButton!Pages \ {"boosting"} /\ pg # "START"
      /\ pg \notin AllButton!Fields /\ pg \notin DOMAIN AllButton!Following
    BY <1>1, PagesOfItems
<1>3. PICK x : AllButton!Press(p, "enter") = AllButton!Open(p, x)
    BY <1>1, <1>2 DEF AllButton!Press, AllButton!Enter
<1> QED BY <1>3, OpenKeeps

LEMMA EnterStoresOne ==
    ASSUME NEW f \in Numbers, NEW p, PanelOk(p), p.page = f
    PROVE  AllButton!Press(p, "enter").stored = [p.stored EXCEPT ![f] = p.value]
<1>1. PICK r : r = AllButton!Store(p, f, p.value)
    OBVIOUS
<1>2. AllButton!Press(p, "enter") = [r EXCEPT !.page = "IS_SET_TO", !.line = 1]
    BY <1>1, NumbersAre DEF AllButton!Press, AllButton!Enter, AllButton!OnPage
<1>3. r = [p EXCEPT !.stored[f] = p.value]
    BY <1>1 DEF AllButton!Store
<1>4. r.stored = [p.stored EXCEPT ![f] = p.value]
    BY <1>3 DEF PanelOk
<1>5. r = [page |-> r.page, line |-> r.line, value |-> r.value, on |-> r.on,
           program |-> r.program, stored |-> r.stored]
    BY <1>3 DEF PanelOk
<1> QED BY <1>2, <1>4, <1>5

(* Where ENTER is in the slot of keys.                                      *)
Enters(P) == PanelOk(panel) /\ (key = "enter" => panel.page \in P)
EntersWanted(f) == PanelOk(panel) /\ (key = "enter" => panel.page = f /\ panel.value = want)

LEMMA SelectingEnters ==
    ASSUME NEW i, NEW T, Selecting(i, T)
    PROVE  Enters({})
BY DEF Selecting, Doing, Enters, None, AllButton!NoKey

LEMMA LegEnters ==
    ASSUME NEW j, NEW pg, NEW bt, NEW to, NEW T, Seeking(j, pg, bt, to, T) \/ Leg(j, pg, bt, to, T)
    PROVE  Enters({pg})
<1>1. ASSUME NEW S, NEW x, Opened(x, S) PROVE Enters({pg})
    BY <1>1 DEF Opened, Enters, None, AllButton!NoKey
<1>2. ASSUME NEW S, Seeking(j, pg, bt, to, S) PROVE Enters({pg})
    <2>1. CASE Opened(pg, Cons(Step("sub", j, -1, SeekMax), S))
        BY <1>1, <2>1
    <2>2. CASE Doing(Emptied, Cons(Sought(j, SeekMax), S), None, <<>>)
        BY <2>2 DEF Doing, Enters, None, AllButton!NoKey
    <2>3. ASSUME NEW l, Looking(j, pg, l, S) PROVE Enters({pg})
        BY <2>3 DEF Looking, Doing, Enters, None, AllButton!NoKey
    <2>4. ASSUME NEW l, Passing(j, pg, l, S) PROVE Enters({pg})
        BY <2>4 DEF Passing, Doing, Enters, None, AllButton!NoKey
    <2>5. CASE Entering(pg, bt, to, S)
        BY <2>5 DEF Entering, Doing, On, Enters, None, AllButton!NoKey
    <2> QED BY <1>2, <2>1, <2>2, <2>3, <2>4, <2>5 DEF Seeking
<1> QED BY <1>1, <1>2 DEF Leg

LEMMA TripEnters ==
    ASSUME NEW i, NEW at, NEW mid, NEW j, NEW bt, NEW to, NEW T, Trip(i, at, mid, j, bt, to, T)
    PROVE  Enters({"menu", mid})
<1>1. ASSUME NEW X, Selecting(i, X) PROVE Enters({"menu", mid})
    BY <1>1, SelectingEnters DEF Enters
<1>2. ASSUME NEW X, Seeking(i, "menu", at, mid, X) PROVE Enters({"menu", mid})
    BY <1>2, LegEnters DEF Enters
<1>3. ASSUME NEW X, Opened(mid, X) PROVE Enters({"menu", mid})
    BY <1>3 DEF Opened, Enters, None, AllButton!NoKey
<1>4. CASE Leg(j, mid, bt, to, T)
    BY <1>4, LegEnters DEF Enters
<1> QED BY <1>1, <1>2, <1>3, <1>4 DEF Trip

LEMMA HigherEnters ==
    ASSUME NEW F, Higher(F)
    PROVE  Enters({})
BY DEF Higher, Opened, Doing, Enters, None, AllButton!NoKey

LEMMA SetsEnters ==
    ASSUME NEW f, NEW T, NEW n, NEW U, NEW O, Sets(f, T, n, U, O)
    PROVE  EntersWanted(f)
<1>1. CASE Opened(f, ToSet(f, T)) \/ Waiting
    BY <1>1 DEF Opened, Waiting, EntersWanted, None, AllButton!NoKey
<1>2. ASSUME NEW a, NEW S, NEW o, Doing(a, S, None, o) PROVE EntersWanted(f)
    BY <1>2 DEF Doing, EntersWanted, None, AllButton!NoKey
<1>3. ASSUME NEW v, NEW w, NEW k, NEW m, NEW o, Moves(v, w, k), Changing(f, v, w, k, m, T, o)
      PROVE  EntersWanted(f)
    <2>1. PanelOk(panel) /\ key \in {k, None}
        BY <1>3 DEF Changing, Doing
    <2> QED BY <1>3, <2>1 DEF Moves, EntersWanted, None, AllButton!NoKey
<1>4. CASE Setting(f, T, O)
    BY <1>2, <1>3, <1>4 DEF Setting, Judging
<1>5. ASSUME NEW b, NEW S, NEW o, Accepting(f, b, S, o) PROVE EntersWanted(f)
    BY <1>5 DEF Accepting, Doing, Reads, EntersWanted
<1>6. CASE Storing(f, n, U, O)
    BY <1>5, <1>6 DEF Storing
<1> QED BY <1>1, <1>4, <1>6 DEF Sets

LEMMA PhaseEnters ==
    ASSUME Phase
    PROVE  \/ Enters({"menu", "review", "temp", "aquapure", "setup", "freeze"})
           \/ \E f \in Numbers : AllButton!Target(prog) = {f} /\ EntersWanted(f)
<1> DEFINE Menus == {"menu", "review", "temp", "aquapure", "setup", "freeze"}
<1>1. ASSUME NEW i, NEW at, NEW mid \in Menus, NEW j, NEW bt, NEW to, NEW T, Trip(i, at, mid, j, bt, to, T)
      PROVE  Enters(Menus)
    BY <1>1, TripEnters DEF Enters
<1>2. ASSUME Waiting PROVE Enters(Menus)
    BY <1>2 DEF Waiting, Enters, None, AllButton!NoKey
<1>3. CASE GetsLabels \/ GetsModel \/ GetsTemps \/ GetsFreeze
    BY <1>1, <1>2, <1>3 DEF GetsLabels, GetsModel, GetsTemps, GetsFreeze, Gets
<1>4. ASSUME NEW i, NEW at, NEW mid \in Menus, NEW j, NEW bt, NEW f \in Numbers, NEW T, NEW n, NEW U,
             AllButton!Target(prog) = {f}, Puts(i, at, mid, j, bt, f, T, n, U)
      PROVE  Enters(Menus) \/ \E g \in Numbers : AllButton!Target(prog) = {g} /\ EntersWanted(g)
    BY <1>1, <1>4, SetsEnters DEF Puts
<1>5. /\ "POOL" \in Numbers /\ "SPA" \in Numbers /\ "POOL_SP" \in Numbers /\ "SPA_SP" \in Numbers
      /\ "TEMP1" \in Numbers /\ "FRZ" \in Numbers
    BY DEF Numbers
<1>6. CASE prog = "AQ_SET_POOL_HEATER_TEMP" /\ PutsPool
    BY <1>4, <1>5, <1>6, TargetIs DEF PutsPool
<1>7. CASE prog = "AQ_SET_SPA_HEATER_TEMP" /\ PutsSpa
    BY <1>4, <1>5, <1>7, TargetIs DEF PutsSpa
<1>8. CASE prog = "AQ_SET_SWG_PERCENT" /\ PutsPoolPercent
    BY <1>4, <1>5, <1>8, TargetIs DEF PutsPoolPercent
<1>9. CASE prog = "SPA_SWG_PERCENT" /\ PutsSpaPercent
    BY <1>4, <1>5, <1>9, TargetIs DEF PutsSpaPercent
<1>10. CASE prog = "TEMP1_HEATER_TEMP" /\ PutsTemp1
    <2>1. ASSUME Higher(Temp1) PROVE Enters(Menus)
        BY <2>1, HigherEnters DEF Enters
    <2>2. ASSUME NEW T, NEW n, NEW U, NEW O, Sets("TEMP1", T, n, U, O) PROVE EntersWanted("TEMP1")
        BY <2>2, SetsEnters
    <2> QED BY <1>1, <1>5, <1>10, <2>1, <2>2, TargetIs DEF PutsTemp1
<1>11. CASE prog = "AQ_SET_FRZ_PROTECTION_TEMP" /\ PutsFreeze
    <2>1. ASSUME NEW j, NEW bt, NEW to, NEW T, Leg(j, "freeze", bt, to, T) PROVE Enters(Menus)
        BY <2>1, LegEnters DEF Enters
    <2>2. ASSUME NEW T, NEW n, NEW U, NEW O, Sets("FRZ", T, n, U, O) PROVE EntersWanted("FRZ")
        BY <2>2, SetsEnters
    <2> QED BY <1>1, <1>5, <1>11, <2>1, <2>2, TargetIs DEF PutsFreeze
<1> QED BY <1>3, <1>6, <1>7, <1>8, <1>9, <1>10, <1>11 DEF Phase

(* A step that the bus does not disturb stores only what is asked for.      *)
StoresOnlyAsked ==
    \A s \in Settings : panel'.stored[s] # panel.stored[s] => s \in Target /\ panel'.stored[s] = want

LEMMA QuietStores ==
    ASSUME RangesFit, Quiet, Phase
    PROVE  StoresOnlyAsked
<1>1. Target = AllButton!Target(prog) /\ PanelOk(panel)
    BY PhaseEnters DEF Target, Quiet, Calm, OfAllButton, Enters, EntersWanted
<1>2. ASSUME panel'.stored = panel.stored PROVE StoresOnlyAsked
    BY <1>2 DEF StoresOnlyAsked
<1>3. CASE Thinks
    <2>1. CASE AllButton!LightForgets
        <3>1. panel' = panel \/ panel' = [panel EXCEPT !.program = 0]
            BY <2>1 DEF AllButton!LightForgets
        <3> QED BY <1>1, <1>2, <3>1 DEF PanelOk
    <2>2. CASE ~AllButton!LightForgets
        <3>1. panel' = panel
            BY <1>3, <2>2 DEF Thinks, AllButton!ThreadStep, AllButton!CommonStep, AllButton!SendKey,
               AllButton!QueueEmpty, AllButton!DelayOver, AllButton!TellClients, AllButton!EndProgram,
               AllButton!SendKeyLate, AllButton!Deciders, AllButton!waitForMessage, AllButton!SelectMenu,
               AllButton!MenuFound, AllButton!SelectSub, AllButton!Seek, AllButton!GiveUpOrGoOn,
               AllButton!FieldWait, AllButton!Adjust, AllButton!LightOff, AllButton!LightMode,
               AllButton!ModeShown, AllButton!BoostStop, AllButton!StopShown, AllButton!PulseLight,
               AllButton!TryOther, AllButton!TextGone, AllButton!EndOrGoOn, AllButton!EnterOrCancel,
               AllButton!Only, AllButton!Unmoved, AllButton!Deciding, AllButton!busVars
        <3> QED BY <1>2, <3>1
    <2> QED BY <2>1, <2>2
<1>4. CASE Hears
    <2>1. panel' = AllButton!AfterDisplay(panel)
        BY <1>4 DEF Hears
    <2> QED BY <1>1, <1>2, <2>1, AfterKeeps
<1>5. CASE Fetches
    <2>1. PICK k : panel' = AllButton!Press(panel, k) /\ (k = "enter" => key = "enter")
        BY <1>5 DEF Fetches, AllButton!NoKey
    <2>2. CASE k # "enter"
        BY <1>1, <1>2, <2>1, <2>2, OthersKeep
    <2>3. CASE k = "enter" /\ Enters({"menu", "review", "temp", "aquapure", "setup", "freeze"})
        <3>1. panel.page \in {"menu", "review", "temp", "aquapure", "setup", "freeze"}
            BY <2>1, <2>3 DEF Enters
        <3> QED BY <1>1, <1>2, <2>1, <2>3, <3>1, EnterKeeps
    <2>4. ASSUME k = "enter", NEW f \in Numbers, AllButton!Target(prog) = {f}, EntersWanted(f)
          PROVE  StoresOnlyAsked
        <3>1. panel.page = f /\ panel.value = want
            BY <2>1, <2>4 DEF EntersWanted
        <3>2. panel'.stored = [panel.stored EXCEPT ![f] = want]
            BY <1>1, <2>1, <2>4, <3>1, EnterStoresOne
        <3>3. \A s \in Settings : panel'.stored[s] # panel.stored[s] => s = f /\ panel'.stored[s] = want
            BY <3>2 DEF Settings
        <3> QED BY <1>1, <2>4, <3>3 DEF StoresOnlyAsked
    <2> QED BY <2>2, <2>3, <2>4, PhaseEnters
<1> QED BY <1>3, <1>4, <1>5, QuietStep DEF Quiet

(* Nor does such a program, as long as the bus does not disturb it, make    *)
(* the panel store anything on the way but what was asked for, in the       *)
(* setting that was asked for: ENTER reaches the panel only on the pages of *)
(* menus and on the field that shows the value asked for                    *)
(* (select_sub_menu_item, setAqualinkNumericField_new).                     *)
THEOREM AllButtonStores ==
    ASSUME RangesFit
    PROVE  Spec /\ emulation = "allbutton" /\ prog \in Numeric \union Reading
           => [][mishaps' = {} => StoresOnlyAsked]_vars
<1>1. Init /\ emulation = "allbutton" /\ prog \in Numeric \union Reading => Inv
    BY InvAtFirst
<1>2. Inv /\ [Next]_vars => Inv'
    BY InvNext
<1>3. Inv /\ [Next]_vars => [mishaps' = {} => StoresOnlyAsked]_vars
    <2>1. SUFFICES ASSUME Inv, Next, mishaps' = {} PROVE StoresOnlyAsked
        OBVIOUS
    <2>2. mishaps = {}
        BY <2>1, AllButtonKeeps DEF Inv
    <2>3. Quiet /\ Phase
        BY <2>1, <2>2 DEF Inv, Quiet
    <2> QED BY <2>3, QuietStores
<1> QED BY <1>1, <1>2, <1>3, PTL DEF Spec
=============================================================================
