---------------------------- MODULE FrameChannel ----------------------------
(***************************************************************************)
(* What the layers below a USDO service promise it: the messages addressed *)
(* to a receiver are handed to it whole, unchanged and in order, and none  *)
(* that was not sent.  The promise ends when the stream loses its framing. *)
(***************************************************************************)
EXTENDS Sequences

CONSTANT Message

VARIABLES
    queue,          \* sent and not yet handed over
    delivered,      \* handed to the receiver, oldest first
    broken          \* the stream lost its framing

vars == <<queue, delivered, broken>>

Init == queue = <<>> /\ delivered = <<>> /\ broken = FALSE

Put(m) ==
    /\ queue' = Append(queue, m)
    /\ UNCHANGED <<delivered, broken>>

Take ==
    /\ queue # <<>>
    /\ delivered' = Append(delivered, Head(queue))
    /\ queue' = Tail(queue)
    /\ UNCHANGED broken

Break == broken' = TRUE /\ UNCHANGED <<queue, delivered>>

\* Once broken, anything may come out.
Chaos == broken /\ broken'

Next ==
    \/ ~broken /\ (Take \/ Break \/ \E m \in Message : Put(m))
    \/ Chaos

Spec == Init /\ [][Next]_vars
=============================================================================
