---------------------------- MODULE RDTPacketWalk ----------------------------
(***************************************************************************)
(* The walk over the RDT packets of a buffer (gstrdtbuffer.c), which       *)
(* rdtmanager.c and rdtdepay.c do for every buffer they get.               *)
(*                                                                         *)
(* A buffer is the sequence of packets its sender put there.  Where the    *)
(* length of a packet stands depends on its type and flags (its layout),   *)
(* and the code reads it at that distance from the start of the buffer,    *)
(* not of the packet.                                                      *)
(***************************************************************************)
EXTENDS Integers, Sequences

CONSTANTS
    Lengths,    \* lengths of the packets, of 3 bytes at least
    MaxPackets, \* bound: packets in a buffer
    Words       \* what a length may be taken for

VARIABLES
    buffer,             \* the packets of the sender
    word,               \* what stands at bytes 3 and 5 of the buffer
    offset, length,     \* of the packet at hand
    more,               \* "first", then the result of the last call
    count               \* packets found: gst_rdt_buffer_get_packet_count

vars == <<buffer, word, offset, length, more, count>>

(* A length that stands at byte 3 or 5, one that follows from type and     *)
(* flags, and a packet without length, which takes the rest.               *)
Layouts == {"at3", "at5", "fixed", "rest"}
Packet == [layout : Layouts, len : Lengths]

(* Where each packet of buffer b starts; one past the last one, its size.  *)
Starts(b) ==
    LET from[i \in 1 .. Len(b) + 1] == IF i = 1 THEN 0 ELSE from[i - 1] + b[i - 1].len
    IN from

start == Starts(buffer)
size == start[Len(buffer) + 1]

(* Only the last packet goes without a length, and if the first packet has *)
(* its length at byte 3 or 5, this is what stands there.                   *)
WellFormed(b, w) ==
    /\ \A i \in 1 .. Len(b) - 1 : b[i].layout # "rest"
    /\ b[1].layout = "at3" => w.at3 = b[1].len
    /\ b[1].layout = "at5" => w.at5 = b[1].len

Init ==
    /\ buffer \in UNION {[1 .. k -> Packet] : k \in 1 .. MaxPackets}
    /\ word \in [at3 : Words, at5 : Words]
    /\ WellFormed(buffer, word)
    /\ offset = 0 /\ length = 0 /\ more = "first" /\ count = 0

-----------------------------------------------------------------------------
(* What the header of the bytes at offset o says: off the start of a       *)
(* packet this is anything, also no packet at all.                         *)
Headers(o) ==
    IF \E i \in DOMAIN buffer : start[i] = o
    THEN {buffer[i] : i \in {i \in DOMAIN buffer : start[i] = o}}
    ELSE Packet \cup {[layout |-> "unknown", len |-> 0]}

(* Mutant: the remainder of the buffer is taken to be all of it.           *)
remainder_is_size(h, o) ==
    CASE h.layout \in {"at3", "at5"} -> word[h.layout]
      [] h.layout = "fixed" -> h.len
      [] OTHER -> size

(* The length of a packet with header h at offset o.                       *)
packet_length(h, o) ==
    CASE h.layout \in {"at3", "at5"} -> word[h.layout]
      [] h.layout = "fixed" -> h.len
      [] OTHER -> size - o

(* The length should be smaller than the remaining size.                   *)
Fits(l, o) == l + o <= size

(* read_packet_header at offset o.                                         *)
read_packet_header(o) ==
    \/ /\ o + 3 > size
       /\ more' = "FALSE" /\ UNCHANGED <<length, count>>
    \/ /\ o + 3 <= size
       /\ \E h \in Headers(o) :
             LET l == packet_length(h, o) IN
             \/ /\ h.layout # "unknown" /\ Fits(l, o)
                /\ length' = l /\ count' = count + 1
                /\ more' = "TRUE"
             \/ /\ h.layout # "unknown" /\ ~Fits(l, o)
                /\ more' = "FALSE" /\ length' = 0 /\ UNCHANGED count
             \/ /\ h.layout = "unknown"
                /\ more' = "FALSE" /\ UNCHANGED <<length, count>>

gst_rdt_buffer_get_first_packet ==
    /\ more = "first"
    /\ read_packet_header(0)
    /\ UNCHANGED <<buffer, word, offset>>

(* Bounded: the walk does not count past twice the packets there are.      *)
gst_rdt_packet_move_to_next ==
    /\ more = "TRUE" /\ count < 2 * MaxPackets
    /\ offset' = offset + length
    /\ read_packet_header(offset')
    /\ UNCHANGED <<buffer, word>>

Next == gst_rdt_buffer_get_first_packet \/ gst_rdt_packet_move_to_next

Spec == Init /\ [][Next]_vars

-----------------------------------------------------------------------------
TypeOK ==
    /\ offset \in 0 .. size /\ length \in Nat /\ count \in Nat
    /\ more \in {"first", "TRUE", "FALSE"}

(* Every packet that has its length in the header has the same one: the    *)
(* only buffers that the walk understands.                                 *)
Uniform ==
    \A i \in DOMAIN buffer :
        buffer[i].layout \in {"at3", "at5"} => word[buffer[i].layout] = buffer[i].len

(* Every step moves on, so that the walk ends, unless a length in a header *)
(* is taken for 0.                                                         *)
MovesOn == more = "TRUE" /\ word.at3 # 0 /\ word.at5 # 0 => length > 0

(* If the lengths in the headers agree, the walk goes from packet to       *)
(* packet, finds each with its own length, and ends behind the last one:   *)
(* packets of a fixed length and one that takes the rest may be mixed in.  *)
VisitsEveryPacket ==
    Uniform =>
        /\ more = "TRUE" => offset = start[count] /\ length = buffer[count].len
        /\ more = "FALSE" => count = Len(buffer)

=============================================================================
