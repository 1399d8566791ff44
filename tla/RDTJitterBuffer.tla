-------------------------- MODULE RDTJitterBuffer --------------------------
(***************************************************************************)
(* The packet queue of rdtjitterbuffer.c.                                  *)
(*                                                                         *)
(* packets is the GQueue, head first.  A packet is represented by its      *)
(* position in the stream the server sends, a natural number that never    *)
(* wraps; the code sees only seqnum(position).  The head is the newest     *)
(* packet and rdt_jitter_buffer_pop takes the tail.                        *)
(*                                                                         *)
(* rdt_jitter_buffer_insert also retimes a packet it accepts: that is      *)
(* calculate_skew, which touches none of this state: module RDTSkew.       *)
(***************************************************************************)
EXTENDS RDTSeqnum, Sequences

CONSTANT Stream     \* positions of the packets that may arrive

ASSUME StreamAssumption == Stream \subseteq Nat

VARIABLES
    packets,    \* jbuf->packets
    popped      \* packet returned by the last rdt_jitter_buffer_pop, or -1

jvars == <<packets, popped>>

(* jbuf->packets->length *)
rdt_jitter_buffer_num_packets == Len(packets)

(* The gap the insertion loop computes at element i of the queue.          *)
gap(n, i) == compare_seqnum(seqnum(n), seqnum(packets[i]))

(* The element at which the insertion loop stops: it skips the elements    *)
(* with a positive gap; Len + 1 when it runs off the end.                  *)
stop(n) == CHOOSE i \in 1 .. Len(packets) + 1 :
              /\ \A j \in 1 .. i - 1 : gap(n, j) > 0
              /\ i <= Len(packets) => gap(n, i) <= 0

duplicate(n) == stop(n) <= Len(packets) /\ gap(n, stop(n)) = 0

(* g_queue_insert_before, and g_queue_push_tail when i is Len + 1.         *)
insert_before(i, n) ==
    [k \in 1 .. Len(packets) + 1 |->
        IF k < i THEN packets[k] ELSE IF k = i THEN n ELSE packets[k - 1]]

(* The network reorders packets, but only over a distance at which their   *)
(* sequence numbers can still be compared.                                 *)
InWindow(n) == \A i \in 1 .. Len(packets) :
                  packets[i] - n < Margin /\ n - packets[i] < Margin

rdt_jitter_buffer_insert(n) ==
    /\ packets' = IF duplicate(n) THEN packets ELSE insert_before(stop(n), n)
    /\ UNCHANGED popped

(* Mutant: the packet is taken from the head of the queue.                 *)
pop_head ==
    /\ Len(packets) > 0
    /\ popped' = packets[1]
    /\ packets' = Tail(packets)

(* g_queue_pop_tail *)
rdt_jitter_buffer_pop ==
    /\ Len(packets) > 0
    /\ popped' = packets[Len(packets)]
    /\ packets' = SubSeq(packets, 1, Len(packets) - 1)

rdt_jitter_buffer_flush ==
    /\ packets' = <<>>
    /\ UNCHANGED popped

JInit == packets = <<>> /\ popped = -1

JNext == \/ \E n \in Stream : InWindow(n) /\ rdt_jitter_buffer_insert(n)
         \/ rdt_jitter_buffer_pop
         \/ rdt_jitter_buffer_flush

JSpec == JInit /\ [][JNext]_jvars

-----------------------------------------------------------------------------
JTypeOK == packets \in Seq(Stream) /\ popped \in Stream \cup {-1}

(* The queue is strictly ordered by the position of the packets in the     *)
(* stream, newest first, although rdt_jitter_buffer_insert compares only   *)
(* wrapped 16 bit numbers and stops at the first element that is not       *)
(* newer; so no packet is in the queue twice and pop returns the oldest.   *)
Sorted == \A i, j \in 1 .. Len(packets) : i < j => packets[i] > packets[j]

(* All packets in the queue are within a comparable distance.              *)
Close == \A i, j \in 1 .. Len(packets) : packets[i] - packets[j] < Margin

(* The inductive invariant: rdt_jitter_buffer_insert keeps the queue       *)
(* sorted because it is sorted and all its packets can be compared.        *)
JInv == JTypeOK /\ Sorted /\ Close

(* The queue, read as a set of stream positions, behaves as a buffer that  *)
(* always gives out its oldest packet (rdt_jitter_buffer_pop's promise).   *)
R == INSTANCE ReorderBuffer WITH
        Item <- Stream,
        held <- {packets[i] : i \in 1 .. Len(packets)}, taken <- popped

(* rdt_jitter_buffer_insert, _pop and _flush implement the reorder buffer. *)
ImplementsReorderBuffer == R!RSpec

=============================================================================
