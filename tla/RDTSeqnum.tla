----------------------------- MODULE RDTSeqnum -----------------------------
(***************************************************************************)
(* Sequence numbers of RDT data packets (gstrdtbuffer.c, gstrdtbuffer.h).  *)
(*                                                                         *)
(* The 16 bit type field of an RDT packet doubles as the sequence number   *)
(* of a data packet: a value below 0xff00 is data, the rest are control    *)
(* packets.  A server therefore numbers its data packets modulo 0xff00,    *)
(* while gst_rdt_buffer_compare_seqnum compares them modulo 2^16.          *)
(***************************************************************************)
EXTENDS Integers

CONSTANTS
    SeqMod,     \* number of values of a guint16: 2^16
    DataTypes   \* number of data packet types: 0xff00

ASSUME SeqnumAssumption ==
    /\ SeqMod \in Nat /\ DataTypes \in Nat
    /\ 0 < DataTypes /\ DataTypes <= SeqMod
    /\ SeqMod % 2 = 0
    /\ 2 * (SeqMod - DataTypes) < SeqMod

Half == SeqMod \div 2

Seqnum == 0 .. DataTypes - 1

(* GST_RDT_IS_DATA_TYPE: the sequence number that the n-th data packet of  *)
(* a stream carries in its type field.                                     *)
seqnum(n) == n % DataTypes

(* Mutant: the difference of the two numbers is not narrowed to gint16.    *)
gint16_unwrapped(d) == d

(* The conversion of a difference of two guint16 to gint16.                *)
gint16(d) == IF d >= Half THEN d - SeqMod
             ELSE IF d < -Half THEN d + SeqMod ELSE d

compare_seqnum(seqnum1, seqnum2) == gint16(seqnum2 - seqnum1)

(* Two packets whose positions in the stream differ by less than Margin    *)
(* are ordered correctly by compare_seqnum, across the wrap as well.       *)
Margin == Half - (SeqMod - DataTypes)

=============================================================================
