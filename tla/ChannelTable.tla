---------------------------- MODULE ChannelTable ----------------------------
(***************************************************************************)
(* What the operator of the telnet console may rely on: the channels and   *)
(* still images on screen are a set of names, a command changes the one it *)
(* names and no other, and at most Capacity of them are open at a time.    *)
(***************************************************************************)
EXTENDS Naturals, FiniteSets

CONSTANTS
    Channel,    \* names of channels
    Image,      \* paths of still images
    Capacity

VARIABLES
    channels,   \* the open channels
    drawn,      \* those of them that are composed
    images      \* the still images on screen

vars == <<channels, drawn, images>>

Init == channels = {} /\ drawn = {} /\ images = {}

Room == Cardinality(channels) + Cardinality(images) < Capacity

Open == \E c \in Channel \ channels : /\ Room
                                      /\ channels' = channels \cup {c}
                                      /\ UNCHANGED <<drawn, images>>

Close == \E c \in channels : /\ channels' = channels \ {c}
                             /\ drawn' = drawn \ {c}
                             /\ UNCHANGED images

Draw == \E c \in channels : /\ drawn' \in {drawn \cup {c}, drawn \ {c}}
                            /\ UNCHANGED <<channels, images>>

Show == \E p \in Image \ images : /\ Room
                                  /\ images' = images \cup {p}
                                  /\ UNCHANGED <<channels, drawn>>

Hide == \E p \in images : /\ images' = images \ {p}
                          /\ UNCHANGED <<channels, drawn>>

Next == Open \/ Close \/ Draw \/ Show \/ Hide

Spec == Init /\ [][Next]_vars
=============================================================================
