------------------------------ MODULE FrameFifo ------------------------------
(***************************************************************************)
(* What the image path of one slot promises: converted frames wait in a    *)
(* bounded FIFO and replace the picture on screen one at a time, oldest    *)
(* first; between two of them the previous picture stays.  Only complete   *)
(* pictures exist at this level.                                           *)
(***************************************************************************)
EXTENDS Naturals, Sequences

CONSTANTS
    Picture,    \* complete pictures a decoder may deliver
    Still,      \* pictures a slot may show without a decoder
    Capacity    \* how many delivered pictures may wait

VARIABLES
    fifo,       \* delivered, not yet on screen
    shown       \* the picture the compositor draws

vars == <<fifo, shown>>

Init == /\ fifo = <<>>
        /\ shown \in Still

\* A decoder hands over a converted picture.
Deliver == \E p \in Picture : /\ Len(fifo) < Capacity
                              /\ fifo' = Append(fifo, p)
                              /\ UNCHANGED shown

\* The compositor takes the oldest picture.
Show == /\ fifo # <<>>
        /\ shown' = Head(fifo)
        /\ fifo' = Tail(fifo)

\* The slot is given a still image.
Replace == /\ shown' \in Still
           /\ UNCHANGED fifo

Next == Deliver \/ Show \/ Replace

Spec == Init /\ [][Next]_vars
=============================================================================
