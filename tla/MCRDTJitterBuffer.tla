------------------------- MODULE MCRDTJitterBuffer -------------------------
(***************************************************************************)
(* The two halves of rdtjitterbuffer.c, the ordered list and the clock     *)
(* skew estimate.  They share no variable, so that a behaviour moves one   *)
(* of them, chosen at the start, instead of exploring their product.  The  *)
(* stream wraps its sequence number more than once, with sequence numbers  *)
(* of 4 bits of which 2 values are control packet types.                   *)
(***************************************************************************)
EXTENDS RDTJitterBuffer, RDTSkew

CONSTANTS
    LastPacket,             \* bound on the stream
    Unit,                   \* distance of two times
    LastRtpTime, LastTime   \* bounds on the times, in units

VARIABLE half

MCStream == 0 .. LastPacket
MCRtpTimes == {Unit * i : i \in 0 .. LastRtpTime}
MCTimes == {Unit * i : i \in 0 .. LastTime}

MCInit == half \in {"list", "skew"} /\ JInit /\ SInit

MCNext == \/ half = "list" /\ JNext /\ UNCHANGED <<skvars, half>>
          \/ half = "skew" /\ SNext /\ UNCHANGED <<jvars, half>>

MCSpec == MCInit /\ [][MCNext]_<<half, jvars, skvars>>

=============================================================================
