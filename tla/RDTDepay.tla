------------------------------ MODULE RDTDepay ------------------------------
(***************************************************************************)
(* The RDT depayloader (rdtdepay.c): finds gaps in the sequence numbers,   *)
(* drops what it has seen, and turns the rest into RealMedia packets, with *)
(* the file header of the caps and a segment of its own in front.          *)
(*                                                                         *)
(* A packet is its position in the stream of the sender, as in             *)
(* RDTJitterBuffer.  One thread, upstream's, does everything here; state   *)
(* changes come when it is not streaming.                                  *)
(***************************************************************************)
EXTENDS RDTSeqnum, Sequences

CONSTANTS
    Stream,     \* positions of the packets that may arrive
    MaxOld,     \* packets older than this come from a restarted sender: 100
    MaxPackets  \* bound: packets in one buffer

None == -1

ASSUME DepayAssumption ==
    /\ Stream \subseteq Nat
    /\ MaxOld \in Nat \ {0} /\ MaxOld <= Margin
    /\ MaxPackets \in Nat

VARIABLES
    next_seqnum, discont, need_newsegment,  \* fields of the depayloader
    header,     \* the header of the caps is to be sent
    at,         \* where the element is
    todo,       \* packets left of the buffer at hand
    downSeg,    \* history: downstream has a segment
    last,       \* history: the last packet handed downstream since a start or a flush
    out         \* history: what was said of it; its turn changes with every packet

dvars == <<next_seqnum, discont, need_newsegment, header>>
vars == <<dvars, at, todo, downSeg, last, out>>

NoOut == [marked |-> TRUE, after |-> None, segment |-> TRUE, turn |-> FALSE]

TypeOK ==
    /\ next_seqnum \in Seqnum \cup {-1}
    /\ discont \in BOOLEAN /\ need_newsegment \in BOOLEAN /\ header \in BOOLEAN
    /\ at \in {"ready", "idle", "header", "data"}
    /\ todo \in Seq(Stream)
    /\ downSeg \in BOOLEAN
    /\ last \in Stream \cup {None}
    /\ out \in [marked : BOOLEAN, after : Stream \cup {None}, segment : BOOLEAN,
               turn : BOOLEAN]

Init ==
    /\ next_seqnum = 0 /\ discont = FALSE /\ need_newsegment = FALSE /\ header = FALSE
    /\ at = "ready" /\ todo = <<>>
    /\ downSeg = FALSE /\ last = None /\ out = NoOut

-----------------------------------------------------------------------------
(* READY to PAUSED and back.  The discont mark survives.                   *)
Start ==
    /\ at = "ready"
    /\ at' = "idle"
    /\ next_seqnum' = -1 /\ need_newsegment' = TRUE
    /\ downSeg' = FALSE /\ last' = None
    /\ UNCHANGED <<discont, header, todo, out>>

Stop ==
    /\ at = "idle"
    /\ at' = "ready"
    /\ header' = FALSE
    /\ UNCHANGED <<next_seqnum, discont, need_newsegment, todo, downSeg, last, out>>

(* Caps that bring a header; others are refused.                           *)
gst_rdt_depay_setcaps ==
    /\ at = "idle"
    /\ header' = TRUE
    /\ UNCHANGED <<next_seqnum, discont, need_newsegment, at, todo, downSeg, last, out>>

(* FLUSH_STOP, of which downstream loses its segment.                      *)
FlushStop ==
    /\ at = "idle"
    /\ next_seqnum' = -1 /\ need_newsegment' = TRUE
    /\ downSeg' = FALSE /\ last' = None
    /\ UNCHANGED <<discont, header, at, todo, out>>

(* gst_rdt_depay_chain takes a buffer of data packets; flag says whether   *)
(* it is marked as discontinuous.                                          *)
gst_rdt_depay_chain(buffer, flag) ==
    /\ at = "idle"
    /\ discont' = (discont \/ flag)
    /\ todo' = buffer
    /\ at' = IF header THEN "header" ELSE "data"
    /\ UNCHANGED <<next_seqnum, need_newsegment, header, downSeg, last, out>>

(* gst_rdt_depay_push: a segment first if it is due; the mark goes to      *)
(* whatever is pushed next.                                                *)
gst_rdt_depay_push ==
    /\ downSeg' = (downSeg \/ need_newsegment)
    /\ need_newsegment' = FALSE
    /\ discont' = FALSE

PushHeader ==
    /\ at = "header"
    /\ header' = FALSE
    /\ gst_rdt_depay_push
    /\ at' = "data"
    /\ UNCHANGED <<next_seqnum, todo, last, out>>

(* Mutant: the number of the last packet, not of the next, is expected.    *)
gap_from_last(n) ==
    IF next_seqnum = -1 THEN 0 ELSE compare_seqnum(seqnum(n), next_seqnum) - 1

(* How far packet n is behind the one expected; negative if packets are    *)
(* missing.                                                                *)
gap(n) == IF next_seqnum = -1 THEN 0 ELSE compare_seqnum(seqnum(n), next_seqnum)

(* A packet that is not too old counts as a duplicate.                     *)
Dropped(n) == gap(n) > 0 /\ gap(n) < MaxOld

Drop ==
    /\ at = "data" /\ todo # <<>> /\ Dropped(Head(todo))
    /\ todo' = Tail(todo)
    /\ UNCHANGED <<dvars, at, downSeg, last, out>>

(* Mutant: the number of a packet type, 0xff00, is expected at the wrap.   *)
following_unwrapped(n) == seqnum(n) + 1

(* The sequence number after that of n: there is no 0xff00.                *)
Following(n) == LET f == seqnum(n) + 1 IN IF f = DataTypes THEN 0 ELSE f

(* gst_rdt_depay_handle_data of a packet that is not dropped.  If the push *)
(* fails, the rest of the buffer is thrown away.                           *)
gst_rdt_depay_handle_data(ok) ==
    /\ at = "data" /\ todo # <<>> /\ ~Dropped(Head(todo))
    /\ LET n == Head(todo) IN
       /\ next_seqnum' = Following(n)
       /\ last' = n
       /\ out' = [marked |-> discont \/ gap(n) # 0, after |-> last,
                  segment |-> downSeg \/ need_newsegment, turn |-> ~out.turn]
    /\ gst_rdt_depay_push
    /\ todo' = IF ok THEN Tail(todo) ELSE <<>>
    /\ UNCHANGED <<header, at>>

ChainEnd ==
    /\ at = "data" /\ todo = <<>>
    /\ at' = "idle"
    /\ UNCHANGED <<dvars, todo, downSeg, last, out>>

Next ==
    \/ Start \/ Stop \/ gst_rdt_depay_setcaps \/ FlushStop
    \/ \E k \in 0 .. MaxPackets : \E buffer \in [1 .. k -> Stream], flag \in BOOLEAN :
          gst_rdt_depay_chain(buffer, flag)
    \/ PushHeader \/ Drop \/ (\E ok \in BOOLEAN : gst_rdt_depay_handle_data(ok)) \/ ChainEnd

Spec == Init /\ [][Next]_vars

-----------------------------------------------------------------------------
(* The number expected is that of the packet after the last one handed on. *)
ExpectsNext ==
    at # "ready" => next_seqnum = IF last = None THEN -1 ELSE seqnum(last + 1)

DepayInv == TypeOK /\ ExpectsNext /\ (at # "ready" => downSeg \/ need_newsegment)

(* Packets m and n are close enough to be told apart across both wraps.    *)
Close(m, n) == m - n < Margin /\ n - m < Margin

(* A packet that does not follow the last one is marked DISCONT: neither   *)
(* the header, which may take a mark, nor a failed push, a wrap of the     *)
(* sequence numbers or a packet that comes late hides the gap.             *)
GapMarked ==
    last # None /\ out.after # None /\ last # out.after + 1 /\ Close(last, out.after + 1)
        => out.marked

(* All data comes in a segment, after each start and each flush.           *)
SegmentBeforeData == out.segment

(* A step hands on packet last', after packet last.                        *)
Pushed == out'.turn # out.turn /\ last # None

NotOld == last' > last \/ last + 1 - last' >= MaxOld

(* Unless the numbers wrap between them, a packet that was handed on does  *)
(* not come again, and neither do those before it, while they are not too  *)
(* old.                                                                    *)
OldDropped ==
    [][Pushed /\ Close(last', last + 1) /\ last' \div DataTypes = (last + 1) \div DataTypes
         => NotOld]_vars

=============================================================================
