--------------------------- MODULE ProgramThread ---------------------------
(* A programming thread at work on one of the panel's remotes.  Its program *)
(* is a list of steps: press a key, wait for the key to be fetched, wait    *)
(* for some messages, test what was found.  What the steps are and what a   *)
(* key does is said by the module of each remote: AllButtonPrograms,        *)
(* OneTouchPrograms, IaqTouchPrograms and PdaPrograms, which share the      *)
(* state declared here.                                                     *)
EXTENDS Integers, Sequences, FiniteSets

CONSTANTS
    Faults,       \* how many things may go wrong on the bus (a bound)
    Values,       \* the values of a setting that the panel knows
    Olds          \* those among them that it may have stored at first (a bound)

ASSUME ProgramAssumption == Faults \in Nat /\ Values \subseteq Nat /\ Olds \subseteq Values /\ Olds # {}

VARIABLES
    emulation,    \* the remote that the program works with
    prog,         \* the program that has the slot, or had it
    want,         \* the value it was asked to set
    todo,         \* its steps that are left
    found,        \* what the last test or wait returned
    failed,       \* the program has met a failure that it noticed
    told,         \* the value it wrote into aqualinkdata, or Nothing
    key,          \* the key that waits to be fetched by the panel, or NoKey
    out,          \* the packets that the panel sends before it polls again
    shown,        \* what the daemon last saw on the remote's display
    panel,        \* the panel: its page, line, value and what it has stored
    mishaps       \* what has gone wrong on the bus (a history variable)

threadVars == <<emulation, prog, want, todo, found, failed, told>>
busVars == <<key, out, shown, panel, mishaps>>
NoKey == "no_key"
Nothing == -1
(* A switch is off or on at first.                                          *)
OldsOf(p, switches) == IF p \in switches THEN {0, 1} ELSE Olds
Top == CHOOSE v \in Values : \A w \in Values : w <= v

(* A step.  Each kind uses the fields it needs.                             *)
Step(op, arg, val, n) == [op |-> op, arg |-> arg, val |-> val, n |-> n]
Key(k)   == Step("key", k, Nothing, 0)
Empty    == Step("empty", "", Nothing, 0)
Delay    == Step("delay", "", Nothing, 0)
End      == Step("end", "", Nothing, 0)
Tell     == Step("tell", "", Nothing, 0)

(* A page of the panel's menus is a sequence of items; an item has a text   *)
(* and leads to a page.                                                     *)
Item(text, to) == [text |-> text, to |-> to]
OnPage(p, page) == [p EXCEPT !.page = page, !.line = 1]
Store(p, setting, v) == [p EXCEPT !.stored[setting] = v]

(* A program has the slot.                                                  *)
Working == todo # <<>>
Now == Head(todo)
At(op) == Working /\ Now.op = op

(* The thread goes on with the given steps in place of its present one; it  *)
(* leaves its present program for the given steps.                          *)
Do(steps) == todo' = steps \o Tail(todo)
Leave(steps) == todo' = steps
Count(s) == [s EXCEPT !.n = @ - 1]

(* What a step of the thread that only decides leaves alone.                *)
Deciding == UNCHANGED <<emulation, prog, want>> /\ UNCHANGED busVars

(* The thread sleeps: in a wait for messages, in a delay, or until a key is *)
(* fetched.  Its steps in between take no time next to the panel's polls.   *)
Asleep ==
    Working => \/ Now.op \in {"parked", "delay", "reset", "until", "kept"}
               \/ Now.op \in {"key", "empty", "end"} /\ key # NoKey

(* Something goes wrong, within the bound.                                  *)
Goes(wrong) ==
    /\ Cardinality(mishaps) < Faults
    /\ wrong \notin mishaps
    /\ mishaps' = mishaps \union {wrong}
Fine == UNCHANGED mishaps

(* It is a mishap when the panel's turn comes while the thread is between   *)
(* two steps.                                                               *)
Turn == IF Asleep THEN Fine ELSE Goes("late")

(* A key is put into the slot of keys when the one before it was fetched.   *)
SendKey ==
    /\ At("key") /\ key = NoKey
    /\ key' = Now.arg
    /\ Do(<<>>)
    /\ UNCHANGED <<emulation, prog, want, found, failed, told, out, shown, panel, mishaps>>

(* When the panel did not poll for two seconds the new key takes the place  *)
(* of the old one (AllButton and PDA), or it is dropped (OneTouch and       *)
(* iAqualink Touch).                                                        *)
SendKeyLate(k) ==
    /\ At("key") /\ key # NoKey
    /\ Goes("silent")
    /\ key' = k
    /\ Do(<<>>)
    /\ UNCHANGED <<emulation, prog, want, found, failed, told, out, shown, panel>>

(* The wait for the key to be fetched ends, with the key fetched or not.    *)
QueueEmpty ==
    /\ At("empty")
    /\ IF key = NoKey THEN Fine ELSE Goes("silent")
    /\ Do(<<>>)
    /\ UNCHANGED <<emulation, prog, want, found, failed, told, key, out, shown, panel>>

(* A delay is long enough for the panel to poll.                            *)
DelayOver ==
    /\ At("delay")
    /\ IF key = NoKey THEN Fine ELSE Goes("silent")
    /\ Do(<<>>)
    /\ UNCHANGED <<emulation, prog, want, found, failed, told, key, out, shown, panel>>

(* What the clients are told.                                               *)
TellClients ==
    /\ At("tell")
    /\ told' = want
    /\ Do(<<>>)
    /\ Deciding /\ UNCHANGED <<found, failed>>

(* cleanAndTerminateThread: half a second for the last key, then the slot   *)
(* is given back, with the key in its slot if the panel was silent.         *)
EndProgram ==
    /\ At("end")
    /\ IF key = NoKey THEN Fine ELSE Goes("silent")
    /\ Leave(<<>>)
    /\ UNCHANGED <<emulation, prog, want, found, failed, told, key, out, shown, panel>>

CommonStep == SendKey \/ QueueEmpty \/ DelayOver \/ TellClients \/ EndProgram
=============================================================================
