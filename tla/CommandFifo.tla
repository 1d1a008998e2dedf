----------------------------- MODULE CommandFifo -----------------------------
(* What a command queue to the panel promises: the commands it accepts are  *)
(* sent once each, in the order in which they were accepted.                *)
EXTENDS Naturals, Sequences

CONSTANTS
    Command,
    Nothing,    \* no command was sent yet
    Capacity

VARIABLES
    fifo,       \* the commands accepted and not yet sent
    sent        \* the command sent last

Init == fifo = <<>> /\ sent = Nothing

Accept(c) ==
    /\ Len(fifo) < Capacity
    /\ fifo' = Append(fifo, c)
    /\ UNCHANGED sent

Deliver ==
    /\ fifo # <<>>
    /\ sent' = Head(fifo)
    /\ fifo' = Tail(fifo)

Next == Deliver \/ \E c \in Command : Accept(c)

Spec == Init /\ [][Next]_<<fifo, sent>>
=============================================================================
