--------------------------- MODULE ReorderBuffer ---------------------------
(***************************************************************************)
(* What a jitter buffer promises, stated without lists or wrapping         *)
(* sequence numbers: it holds a set of packets, identified by their        *)
(* position in the stream, and gives out the oldest one it holds.          *)
(***************************************************************************)
EXTENDS Integers

CONSTANT Item   \* positions of the packets of the stream

VARIABLES
    held,      \* positions of the packets in the buffer
    taken      \* position of the packet given out last, -1 before the first

rvars == <<held, taken>>

RInit == held = {} /\ taken = -1

Put(n) == /\ n \notin held
          /\ held' = held \cup {n}
          /\ UNCHANGED taken

Take(n) == /\ n \in held
           /\ \A m \in held : n <= m
           /\ held' = held \ {n}
           /\ taken' = n

Clear == held' = {} /\ UNCHANGED taken

RNext == Clear \/ \E n \in Item : Put(n) \/ Take(n)

RSpec == RInit /\ [][RNext]_rvars

=============================================================================
