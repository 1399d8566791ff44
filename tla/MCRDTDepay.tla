----------------------------- MODULE MCRDTDepay -----------------------------
(***************************************************************************)
(* The depayloader and the walk over the packets of a buffer, by which it  *)
(* finds them.  The walk keeps no state from one buffer to the next and    *)
(* shares none with the element, so that a behaviour moves one of the two, *)
(* chosen at the start, instead of exploring their product.                *)
(***************************************************************************)
EXTENDS RDTDepay

CONSTANTS Lengths, Words, MaxInBuffer   \* of the walk

(* A packet has at least the three bytes of its header's fixed part.       *)
ASSUME WalkAssumption ==
    Lengths \subseteq Nat \ (0 .. 2) /\ Words \subseteq Nat /\ MaxInBuffer \in Nat \ {0}

VARIABLES part, buffer, word, offset, length, more, count

wvars == <<buffer, word, offset, length, more, count>>

W == INSTANCE RDTPacketWalk WITH MaxPackets <- MaxInBuffer

(* From one wrap of the data packets over the next one.                    *)
MCStream == 9 .. 20

(* Lengths that keep the walk inside the buffer, and one that is too long. *)
MCLengths == {3, 5, 6}
MCWords == {0, 3, 5, 6, 20}

(* No buffer at hand.                                                      *)
NoBuffer ==
    /\ buffer = <<>> /\ word = [at3 |-> 0, at5 |-> 0]
    /\ offset = 0 /\ length = 0 /\ more = "first" /\ count = 0

MCInit ==
    /\ Init
    /\ \/ part = "element" /\ NoBuffer
       \/ part = "walk" /\ W!Init

Element == part = "element" /\ Next /\ UNCHANGED <<part, wvars>>
Walk == part = "walk" /\ W!Next /\ UNCHANGED <<part, vars>>

MCSpec == MCInit /\ [][Element \/ Walk]_<<part, vars, wvars>>

(* The walk stays in the buffer, moves on and finds every packet, see      *)
(* RDTPacketWalk.                                                          *)
VisitsEveryPacket == part = "walk" => W!TypeOK /\ W!MovesOn /\ W!VisitsEveryPacket

=============================================================================
