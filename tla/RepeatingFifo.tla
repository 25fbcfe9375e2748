---------------------------- MODULE RepeatingFifo ----------------------------
(***************************************************************************)
(* What an SDI output promises: accepted pictures go on air in the order   *)
(* of acceptance, each of them, and the last one is repeated exactly while *)
(* no other waits.  The card always has the same number of frames to play. *)
(***************************************************************************)
EXTENDS Naturals, Sequences

CONSTANTS
    Picture,     \* pictures that may be accepted
    White,       \* what is played before the first of them
    Depth,       \* frames the card has to play
    Capacity     \* pictures that may wait

VARIABLES
    waiting,     \* accepted, not yet handed to the card
    playing      \* handed to the card, next one first

vars == <<waiting, playing>>

Init == /\ waiting = <<>>
        /\ playing = [i \in 1..Depth |-> White]

Accept == \E p \in Picture : /\ Len(waiting) < Capacity
                             /\ waiting' = Append(waiting, p)
                             /\ UNCHANGED playing

\* The card has played a frame and is given the next picture, or the last again.
PlayNext == /\ waiting # <<>>
            /\ playing' = Append(Tail(playing), Head(waiting))
            /\ waiting' = Tail(waiting)

PlayAgain == /\ waiting = <<>>
             /\ playing' = Append(Tail(playing), playing[Len(playing)])
             /\ UNCHANGED waiting

Next == Accept \/ PlayNext \/ PlayAgain

Spec == Init /\ [][Next]_vars
=============================================================================
