-------------------------- MODULE RDTManagerProofs --------------------------
(***************************************************************************)
(* rdtjitterbuffer.c and the session of rdtmanager.c on top of it.         *)
(*                                                                         *)
(* The packet queue stays sorted by stream position, and implements the    *)
(* abstract reorder buffer, for every width of the sequence numbers.  The  *)
(* skew estimator knows the minimum of its window, for every size of the   *)
(* window and all packet times.  The session loses no wakeup and no        *)
(* packet, and is quiet when READY, for any number of packets, arrivals    *)
(* and restarts.                                                           *)
(***************************************************************************)
EXTENDS RDTManager, RDTSkew, RDTSeqnumProofs, SequenceTheorems, WellFoundedInduction, TLAPS

USE SeqnumAssumption, StreamAssumption

-----------------------------------------------------------------------------
(* The packet queue.                                                       *)

(* A nonempty set of natural numbers has a least element.                  *)
LEMMA Least ==
    ASSUME NEW T \in SUBSET Nat, T # {}
    PROVE  \E x \in T : \A y \in T : x <= y
  <1>1. PICK x \in T : \A y \in T : <<y, x>> \notin OpToRel(<, Nat)
    BY WFMin, NatLessThanWellFounded
  <1>2. \A y \in T : ~(y < x)
    BY <1>1 DEF OpToRel
  <1> QED BY <1>2

(* Where the insertion loop stops.                                         *)
LEMMA Stop ==
    ASSUME packets \in Seq(Stream), NEW n \in Stream
    PROVE  /\ stop(n) \in 1 .. Len(packets) + 1
           /\ \A j \in 1 .. stop(n) - 1 : gap(n, j) > 0
           /\ stop(n) <= Len(packets) => gap(n, stop(n)) <= 0
  <1> DEFINE P(i) == /\ \A j \in 1 .. i - 1 : gap(n, j) > 0
                     /\ i <= Len(packets) => gap(n, i) <= 0
             T == {i \in 1 .. Len(packets) + 1 : i <= Len(packets) => ~(gap(n, i) > 0)}
  <1>0. Len(packets) \in Nat
    BY LenProperties
  <1>1. \A j \in 1 .. Len(packets) : gap(n, j) \in Int
    <2> SUFFICES ASSUME NEW j \in 1 .. Len(packets) PROVE gap(n, j) \in Int
      OBVIOUS
    <2>1. packets[j] \in Nat /\ n \in Nat
      BY ElementOfSeq
    <2> QED BY <2>1, CompareType DEF gap
  <1>2. T \in SUBSET Nat /\ Len(packets) + 1 \in T
    BY <1>0
  <1>3. PICK i \in T : \A y \in T : i <= y
    BY <1>2, Least
  <1>4. i \in 1 .. Len(packets) + 1 /\ P(i)
    BY <1>0, <1>1, <1>3
  <1> HIDE DEF P
  <1>5. stop(n) \in 1 .. Len(packets) + 1 /\ P(stop(n))
    BY <1>4 DEF stop, P
  <1> QED BY <1>5 DEF P

(* In a sorted queue the loop stops behind the packets that are newer      *)
(* than the one to insert, and reports a duplicate exactly when it is      *)
(* there already.                                                          *)
LEMMA StopSorted ==
    ASSUME JInv, NEW n \in Stream, InWindow(n)
    PROVE  /\ stop(n) \in 1 .. Len(packets) + 1
           /\ \A j \in 1 .. stop(n) - 1 : packets[j] > n
           /\ stop(n) <= Len(packets) => packets[stop(n)] <= n
           /\ duplicate(n) <=> stop(n) <= Len(packets) /\ packets[stop(n)] = n
  <1>0. packets \in Seq(Stream) /\ Len(packets) \in Nat
    BY LenProperties DEF JInv, JTypeOK
  <1>1. \A j \in 1 .. Len(packets) : packets[j] \in Nat
    BY <1>0, ElementOfSeq
  <1>2. ASSUME NEW j \in 1 .. Len(packets)
        PROVE  /\ gap(n, j) \in Int
               /\ n < packets[j] => gap(n, j) > 0
               /\ n = packets[j] => gap(n, j) = 0
               /\ n > packets[j] => gap(n, j) < 0
    <2>1. packets[j] - n < Margin /\ n - packets[j] < Margin
      BY DEF InWindow
    <2>2. n \in Nat /\ packets[j] \in Nat
      BY <1>1
    <2> QED BY <2>1, <2>2, CompareSeqnum, CompareType DEF gap
  <1>3. /\ stop(n) \in 1 .. Len(packets) + 1
        /\ \A j \in 1 .. stop(n) - 1 : gap(n, j) > 0
        /\ stop(n) <= Len(packets) => gap(n, stop(n)) <= 0
    BY <1>0, Stop
  <1>4. ASSUME NEW j \in 1 .. stop(n) - 1 PROVE packets[j] > n
    <2>1. j \in 1 .. Len(packets) /\ gap(n, j) > 0
      BY <1>0, <1>3
    <2> QED BY <1>1, <1>2, <2>1
  <1>5. ASSUME stop(n) <= Len(packets) PROVE packets[stop(n)] <= n
    <2>1. stop(n) \in 1 .. Len(packets) /\ gap(n, stop(n)) <= 0
      BY <1>0, <1>3, <1>5
    <2> QED BY <1>1, <1>2, <2>1
  <1>6. ASSUME stop(n) <= Len(packets)
        PROVE  gap(n, stop(n)) = 0 <=> packets[stop(n)] = n
    <2>1. stop(n) \in 1 .. Len(packets) /\ gap(n, stop(n)) <= 0
      BY <1>0, <1>3, <1>6
    <2> QED BY <1>1, <1>2, <2>1
  <1> QED BY <1>3, <1>4, <1>5, <1>6 DEF duplicate

(* The inductive step of an insertion.                                     *)
LEMMA InsertJInv ==
    ASSUME JInv, NEW n \in Stream, InWindow(n), rdt_jitter_buffer_insert(n)
    PROVE  JInv'
  <1>0. /\ packets \in Seq(Stream) /\ Len(packets) \in Nat
        /\ \A j \in 1 .. Len(packets) : packets[j] \in Stream /\ packets[j] \in Nat
    BY LenProperties, ElementOfSeq DEF JInv, JTypeOK
  <1>1. CASE duplicate(n)
    BY <1>1 DEF JInv, JTypeOK, Sorted, Close, rdt_jitter_buffer_insert
  <1>2. CASE ~duplicate(n)
    <2> DEFINE i == stop(n)
    <2>1. /\ i \in 1 .. Len(packets) + 1
          /\ \A j \in 1 .. i - 1 : packets[j] > n
          /\ i <= Len(packets) => packets[i] < n
      BY <1>0, <1>2, StopSorted
    <2> HIDE DEF i
    <2>2. packets' = [k \in 1 .. Len(packets) + 1 |->
              IF k < i THEN packets[k] ELSE IF k = i THEN n ELSE packets[k - 1]]
      BY <1>2 DEF rdt_jitter_buffer_insert, insert_before, i
    <2>3. packets' \in Seq(Stream) /\ Len(packets') = Len(packets) + 1
      <3>1. \A k \in 1 .. Len(packets) + 1 : packets'[k] \in Stream
        BY <1>0, <2>1, <2>2
      <3> QED BY <1>0, <2>2, <3>1, IsASeq, LenProperties
    <2>4. \A j \in 1 .. Len(packets) : j >= i => packets[j] < n
      BY <1>0, <2>1 DEF JInv, Sorted
    <2>5. \A k \in 1 .. Len(packets') :
             /\ k < i => packets'[k] = packets[k] /\ k \in 1 .. Len(packets)
             /\ k = i => packets'[k] = n
             /\ k > i => packets'[k] = packets[k - 1] /\ k - 1 \in 1 .. Len(packets)
      BY <1>0, <2>1, <2>2, <2>3
    <2>6. Sorted'
      <3> SUFFICES ASSUME NEW a \in 1 .. Len(packets'), NEW b \in 1 .. Len(packets'),
                          a < b
                   PROVE  packets'[a] > packets'[b]
        BY DEF Sorted
      <3>1. CASE b < i
        BY <1>0, <2>1, <2>3, <2>5, <3>1 DEF JInv, Sorted
      <3>2. CASE b = i
        <4>1. a \in 1 .. i - 1 /\ packets'[a] = packets[a] /\ packets'[b] = n
          BY <1>0, <2>1, <2>3, <2>5, <3>2
        <4> QED BY <2>1, <4>1
      <3>3. CASE a < i /\ b > i
        <4>1. a \in 1 .. Len(packets) /\ b - 1 \in 1 .. Len(packets) /\ a < b - 1
          BY <1>0, <2>1, <2>3, <2>5, <3>3
        <4> QED BY <2>5, <3>3, <4>1 DEF JInv, Sorted
      <3>4. CASE a = i /\ b > i
        <4>1. b - 1 \in 1 .. Len(packets) /\ b - 1 >= i
          BY <1>0, <2>1, <2>3, <2>5, <3>4
        <4> QED BY <2>4, <2>5, <3>4, <4>1, <1>0
      <3>5. CASE a > i
        <4>1. /\ a - 1 \in 1 .. Len(packets) /\ b - 1 \in 1 .. Len(packets)
              /\ a - 1 < b - 1 /\ b > i
          BY <1>0, <2>1, <2>3, <2>5, <3>5
        <4> QED BY <2>5, <3>5, <4>1 DEF JInv, Sorted
      <3> QED BY <2>1, <2>3, <1>0, <3>1, <3>2, <3>3, <3>4, <3>5
    <2>8. Close'
      <3> SUFFICES ASSUME NEW a \in 1 .. Len(packets'), NEW b \in 1 .. Len(packets')
                   PROVE  packets'[a] - packets'[b] < Margin
        BY DEF Close
      <3>1. Margin \in Int /\ Margin > 0
        BY DEF Margin, Half
      <3>2. packets'[a] = n \/ \E k \in 1 .. Len(packets) : packets'[a] = packets[k]
        BY <1>0, <2>1, <2>3, <2>5
      <3>3. packets'[b] = n \/ \E k \in 1 .. Len(packets) : packets'[b] = packets[k]
        BY <1>0, <2>1, <2>3, <2>5
      <3>4. n \in Nat
        OBVIOUS
      <3> QED BY <3>1, <3>2, <3>3, <3>4 DEF JInv, Close, InWindow
    <2>7. popped' \in Stream \cup {-1}
      BY DEF rdt_jitter_buffer_insert, JInv, JTypeOK
    <2> QED BY <2>3, <2>6, <2>7, <2>8 DEF JInv, JTypeOK
  <1> QED BY <1>1, <1>2

(* The inductive step of a pop; the queue loses its last element.          *)
LEMMA PopJInv ==
    ASSUME JInv, rdt_jitter_buffer_pop
    PROVE  /\ JInv'
           /\ Len(packets') = Len(packets) - 1
           /\ \A k \in 1 .. Len(packets) - 1 : packets'[k] = packets[k]
  <1>0. /\ packets \in Seq(Stream) /\ Len(packets) \in Nat /\ Len(packets) > 0
        /\ \A j \in 1 .. Len(packets) : packets[j] \in Stream
    BY LenProperties, ElementOfSeq DEF JInv, JTypeOK, rdt_jitter_buffer_pop
  <1>1. /\ packets' \in Seq(Stream)
        /\ Len(packets') = Len(packets) - 1
        /\ \A k \in 1 .. Len(packets) - 1 : packets'[k] = packets[k]
    <2> DEFINE M == Len(packets) - 1
    <2>1. packets' = SubSeq(packets, 1, M)
      BY DEF rdt_jitter_buffer_pop
    <2>2. M \in Nat /\ \A j \in 1 .. M : packets[j] \in Stream
      BY <1>0
    <2> HIDE DEF M
    <2>3. /\ SubSeq(packets, 1, M) \in Seq(Stream)
          /\ Len(SubSeq(packets, 1, M)) = IF 1 <= M THEN M - 1 + 1 ELSE 0
          /\ \A k \in 1 .. M - 1 + 1 : SubSeq(packets, 1, M)[k] = packets[1 + k - 1]
      BY <2>2, SubSeqProperties
    <2>4. /\ packets' \in Seq(Stream)
          /\ Len(packets') = M
          /\ \A k \in 1 .. M : packets'[k] = packets[k]
      BY <2>1, <2>2, <2>3
    <2> QED BY <2>4 DEF M
  <1>2. popped' \in Stream
    BY <1>0 DEF rdt_jitter_buffer_pop
  <1>3. \A k \in 1 .. Len(packets') : k \in 1 .. Len(packets) /\ packets'[k] = packets[k]
    BY <1>0, <1>1
  <1>4. Sorted'
    BY <1>0, <1>3 DEF JInv, Sorted
  <1>5. Close'
    BY <1>0, <1>3 DEF JInv, Close
  <1> QED BY <1>1, <1>2, <1>4, <1>5 DEF JInv, JTypeOK

(* Every step preserves the invariant.                                     *)
LEMMA JNextJInv == JInv /\ [JNext]_jvars => JInv'
  <1> SUFFICES ASSUME JInv, [JNext]_jvars PROVE JInv'
    OBVIOUS
  <1>1. ASSUME NEW n \in Stream, InWindow(n), rdt_jitter_buffer_insert(n)
        PROVE  JInv'
    BY <1>1, InsertJInv
  <1>2. CASE rdt_jitter_buffer_pop
    BY <1>2, PopJInv
  <1>3. CASE rdt_jitter_buffer_flush
    BY <1>3 DEF rdt_jitter_buffer_flush, JInv, JTypeOK, Sorted, Close
  <1>4. CASE UNCHANGED jvars
    BY <1>4 DEF jvars, JInv, JTypeOK, Sorted, Close
  <1> QED BY <1>1, <1>2, <1>3, <1>4 DEF JNext

(* The queue of rdt_jitter_buffer_insert and rdt_jitter_buffer_pop is      *)
(* always sorted by stream position, newest first, without duplicates, for *)
(* any number of packets and any width of the sequence numbers, however    *)
(* often these wrap.                                                       *)
THEOREM JitterBufferSorted == JSpec => []JInv
  <1>1. JInit => JInv
    BY DEF JInit, JInv, JTypeOK, Sorted, Close
  <1> QED BY <1>1, JNextJInv, PTL DEF JSpec

(* The insertion of a packet that is no duplicate is a Put of the abstract *)
(* buffer.                                                                 *)
LEMMA InsertNew ==
    ASSUME JInv, NEW n \in Stream, InWindow(n), rdt_jitter_buffer_insert(n), ~duplicate(n)
    PROVE  R!Put(n)
  <1>0. packets \in Seq(Stream) /\ Len(packets) \in Nat /\ n \in Nat
        /\ \A j \in 1 .. Len(packets) : packets[j] \in Nat
    BY LenProperties, ElementOfSeq DEF JInv, JTypeOK
  <1> DEFINE i == stop(n)
  <1>1. /\ i \in 1 .. Len(packets) + 1
        /\ \A j \in 1 .. i - 1 : packets[j] > n
        /\ i <= Len(packets) => packets[i] < n
    BY <1>0, StopSorted
  <1> HIDE DEF i
  <1>2. packets' = [k \in 1 .. Len(packets) + 1 |->
            IF k < i THEN packets[k] ELSE IF k = i THEN n ELSE packets[k - 1]]
    BY DEF rdt_jitter_buffer_insert, insert_before, i
  <1>3. Len(packets') = Len(packets) + 1
    <2>1. packets' \in Seq(Stream)
      BY InsertJInv DEF JInv, JTypeOK
    <2> QED BY <1>0, <1>2, <2>1, LenProperties
  <1>4. \A j \in 1 .. Len(packets) : packets[j] # n
    <2> SUFFICES ASSUME NEW j \in 1 .. Len(packets) PROVE packets[j] # n
      OBVIOUS
    <2>1. CASE j < i
      BY <1>0, <1>1, <2>1
    <2>2. CASE j >= i
      BY <1>0, <1>1, <2>2 DEF JInv, Sorted
    <2> QED BY <1>0, <1>1, <2>1, <2>2
  <1>5. ASSUME NEW x
        PROVE  (\E k \in 1 .. Len(packets') : x = packets'[k])
                 <=> x = n \/ \E k \in 1 .. Len(packets) : x = packets[k]
    <2>1. ASSUME NEW k \in 1 .. Len(packets'), x = packets'[k]
          PROVE  x = n \/ \E l \in 1 .. Len(packets) : x = packets[l]
      BY <1>0, <1>1, <1>2, <1>3, <2>1
    <2>2. ASSUME x = n
          PROVE  \E k \in 1 .. Len(packets') : x = packets'[k]
      BY <1>0, <1>1, <1>2, <1>3, <2>2
    <2>3. ASSUME NEW l \in 1 .. Len(packets), x = packets[l]
          PROVE  \E k \in 1 .. Len(packets') : x = packets'[k]
      <3>1. CASE l < i
        <4>1. l \in 1 .. Len(packets') /\ packets'[l] = packets[l]
          BY <1>0, <1>1, <1>2, <1>3, <3>1
        <4> QED BY <2>3, <4>1
      <3>2. CASE l >= i
        <4>1. l + 1 \in 1 .. Len(packets') /\ packets'[l + 1] = packets[l]
          BY <1>0, <1>1, <1>2, <1>3, <3>2
        <4> QED BY <2>3, <4>1
      <3> QED BY <1>0, <1>1, <3>1, <3>2
    <2> QED BY <2>1, <2>2, <2>3
  <1>6. {packets'[k] : k \in 1 .. Len(packets')}
          = {packets[k] : k \in 1 .. Len(packets)} \cup {n}
    BY <1>5
  <1>7. n \notin {packets[k] : k \in 1 .. Len(packets)}
    BY <1>4
  <1> QED BY <1>6, <1>7 DEF R!Put, rdt_jitter_buffer_insert

(* Any insertion is a Put, or changes nothing when the packet is a         *)
(* duplicate.                                                              *)
LEMMA InsertPuts ==
    ASSUME JInv, NEW n \in Stream, InWindow(n), rdt_jitter_buffer_insert(n)
    PROVE  R!Put(n) \/ UNCHANGED jvars
  <1>1. CASE duplicate(n)
    BY <1>1 DEF rdt_jitter_buffer_insert, jvars
  <1>2. CASE ~duplicate(n)
    BY <1>2, InsertNew
  <1> QED BY <1>1, <1>2

(* One pop is a Take of the abstract buffer: the tail is the oldest.       *)
LEMMA PopTakes ==
    ASSUME JInv, rdt_jitter_buffer_pop
    PROVE  R!Take(popped') /\ popped' \in Stream
  <1> DEFINE L == Len(packets)
             held == {packets[k] : k \in 1 .. Len(packets)}
  <1>0. /\ packets \in Seq(Stream) /\ L \in Nat /\ L > 0
        /\ \A j \in 1 .. L : packets[j] \in Stream /\ packets[j] \in Nat
    BY LenProperties, ElementOfSeq DEF JInv, JTypeOK, rdt_jitter_buffer_pop
  <1>1. Len(packets') = L - 1 /\ \A k \in 1 .. L - 1 : packets'[k] = packets[k]
    BY PopJInv
  <1>2. popped' = packets[L]
    BY DEF rdt_jitter_buffer_pop
  <1>3. \A k \in 1 .. L - 1 : packets[k] > packets[L]
    BY <1>0 DEF JInv, Sorted
  <1>4. \A m \in held : popped' <= m
    BY <1>0, <1>2, <1>3
  <1>5. {packets'[k] : k \in 1 .. Len(packets')} = held \ {popped'}
    <2>1. ASSUME NEW x
          PROVE  (\E k \in 1 .. L - 1 : x = packets[k])
                   <=> x # packets[L] /\ \E k \in 1 .. L : x = packets[k]
      BY <1>0, <1>3
    <2>2. ASSUME NEW x
          PROVE  (\E k \in 1 .. Len(packets') : x = packets'[k])
                   <=> \E k \in 1 .. L - 1 : x = packets[k]
      BY <1>0, <1>1
    <2>3. ASSUME NEW x
          PROVE  x \in {packets'[k] : k \in 1 .. Len(packets')}
                   <=> x \in held \ {popped'}
      BY <1>2, <2>1, <2>2, ZenonT(60)
    <2> QED BY <2>3
  <1>6. popped' \in held /\ popped' \in Stream
    BY <1>0, <1>2
  <1> QED BY <1>4, <1>5, <1>6 DEF R!Take

(* The queue behaves as an abstract buffer that always gives out its       *)
(* oldest packet.                                                          *)
THEOREM JitterBufferRefines == JSpec => ImplementsReorderBuffer
  <1>1. JInit => R!RInit
    BY DEF JInit, R!RInit
  <1>2. ASSUME JInv, [JNext]_jvars
        PROVE  [R!RNext]_(R!rvars)
    <2>1. ASSUME NEW n \in Stream, InWindow(n), rdt_jitter_buffer_insert(n)
          PROVE  [R!RNext]_(R!rvars)
      <3>1. R!Put(n) \/ UNCHANGED jvars
        BY <1>2, <2>1, InsertPuts
      <3>2. CASE R!Put(n)
        BY <3>2 DEF R!RNext
      <3>3. CASE UNCHANGED jvars
        <4>1. packets' = packets /\ popped' = popped
          BY <3>3 DEF jvars
        <4>2. UNCHANGED R!rvars
          BY <4>1 DEF R!rvars
        <4> QED BY <4>2
      <3> QED BY <3>1, <3>2, <3>3
    <2>2. CASE rdt_jitter_buffer_pop
      <3>1. R!Take(popped') /\ popped' \in Stream
        BY <1>2, <2>2, PopTakes
      <3>2. PICK n \in Stream : n = popped'
        BY <3>1
      <3>3. R!Take(n)
        BY <3>1, <3>2 DEF R!Take
      <3> QED BY <3>3 DEF R!RNext
    <2>3. CASE rdt_jitter_buffer_flush
      BY <2>3 DEF rdt_jitter_buffer_flush, R!RNext, R!Clear
    <2>4. CASE UNCHANGED jvars
      BY <2>4 DEF jvars, R!rvars
    <2> QED BY <1>2, <2>1, <2>2, <2>3, <2>4 DEF JNext
  <1> QED BY <1>1, <1>2, JitterBufferSorted, PTL DEF JSpec, ImplementsReorderBuffer, R!RSpec

-----------------------------------------------------------------------------
(* The session.                                                            *)

USE ManagerAssumption

(* The initial state satisfies the invariant.                              *)
LEMMA InitMInv == Init => MInv
  <1>1. JInit => JInv
    BY DEF JInit, JInv, JTypeOK, Sorted, Close
  <1>2. Init => ChainBuffer
    BY DEF Init, ChainBuffer
  <1> QED BY <1>1, <1>2 DEF Init, MInv, PauseResult, Stages, NoLostWakeup

(* What a step does to the jitter buffer.                                  *)
LEMMA JBufferStep ==
    ASSUME MInv, [Next]_vars
    PROVE  [JNext]_jvars
  <1>1. ASSUME Accept, chain = "packets"
        PROVE  JNext
    <2>1. Head(buffer) \in Stream
      BY <1>1, HeadTailProperties DEF MInv, ChainBuffer
    <2>2. packets \in Seq(Stream)
      BY DEF MInv, JInv, JTypeOK
    <2>3. \A i \in 1 .. Len(packets) : packets[i] \in Stream
      BY <2>2, ElementOfSeq
    <2>4. InWindow(Head(buffer))
      BY <2>1, <2>3 DEF InWindow
    <2>5. rdt_jitter_buffer_insert(Head(buffer))
      BY <1>1 DEF Accept
    <2> QED BY <2>1, <2>4, <2>5 DEF JNext
  <1>2. CASE gst_rdt_manager_handle_data_packet
    BY <1>1, <1>2 DEF gst_rdt_manager_handle_data_packet, Refuse
  <1>3. CASE LoopEnter
    BY <1>3 DEF LoopEnter, LoopFlushing, LoopUnderrun, LoopPop, JNext
  <1>4. CASE LoopWake
    BY <1>4 DEF LoopWake, LoopFlushing, LoopUnderrun, LoopPop, JNext
  <1>5. CASE LoopClearDiscont \/ LoopPause \/ \E r \in Flow : LoopPush(r)
    BY <1>5 DEF LoopClearDiscont, LoopPause, LoopPush
  <1>6. CASE \E b \in Buffers, d \in BOOLEAN : gst_rdt_manager_chain_rdt(b, d)
    BY <1>6 DEF gst_rdt_manager_chain_rdt
  <1>7. CASE SinkEos \/ \E d \in BOOLEAN : gst_element_add_pad(d)
    BY <1>7 DEF SinkEos, gst_element_add_pad
  <1>8. CASE AppStop \/ AppStep \/ AppStart
    BY <1>8 DEF AppStop, AppStep, AppStopTask, AppJoin, AppSink, AppStart
  <1>9. CASE UNCHANGED vars
    BY <1>9 DEF vars
  <1> QED BY <1>2, <1>3, <1>4, <1>5, <1>6, <1>7, <1>8, <1>9
          DEF Next, ChainStep, LoopStep

(* Every step preserves the invariant.                                     *)
LEMMA NextMInv == MInv /\ [Next]_vars => MInv'
  <1> SUFFICES ASSUME MInv, [Next]_vars PROVE MInv'
    OBVIOUS
  <1>0. JInv'
    BY JBufferStep, JNextJInv DEF MInv
  <1>1. CASE gst_rdt_manager_handle_data_packet
    <2>1. CASE Refuse
      <3>1. ChainBuffer'
        BY <2>1 DEF Refuse, ChainBuffer
      <3> QED BY <1>0, <1>1, <2>1, <3>1
              DEF gst_rdt_manager_handle_data_packet, Refuse, MInv, PauseResult, Stages,
                  NoLostWakeup, lvars, evars, jvars, rdt_jitter_buffer_num_packets
    <2>2. CASE Accept
      <3>1. ChainBuffer'
        <4>1. buffer \in Seq(Stream) /\ Len(buffer) > 0
          BY <1>1 DEF gst_rdt_manager_handle_data_packet, MInv, ChainBuffer
        <4>2. Tail(buffer) \in Seq(Stream) /\ Len(Tail(buffer)) = Len(buffer) - 1
          BY <4>1, HeadTailProperties
        <4> QED BY <2>2, <4>1, <4>2 DEF Accept, ChainBuffer
      <3>2. NoLostWakeup'
        BY <1>1, <2>2 DEF gst_rdt_manager_handle_data_packet, Accept, MInv, NoLostWakeup,
             lvars, JBUF_SIGNAL, rdt_jitter_buffer_insert, rdt_jitter_buffer_num_packets
      <3>3. PauseResult' /\ Stages'
        BY <1>1, <2>2 DEF gst_rdt_manager_handle_data_packet, Accept, MInv, PauseResult,
             Stages, lvars, evars
      <3> QED BY <1>0, <3>1, <3>2, <3>3 DEF MInv
    <2> QED BY <1>1, <2>1, <2>2 DEF gst_rdt_manager_handle_data_packet
  <1>2. ASSUME NEW b \in Buffers, NEW d \in BOOLEAN, gst_rdt_manager_chain_rdt(b, d)
        PROVE  MInv'
    <2>1. b \in Seq(Stream) /\ Len(b) > 0
      <3>1. CASE \E n \in Stream : b = <<n>>
        BY <3>1
      <3>2. CASE \E m, n \in Stream : b = <<m, n>>
        BY <3>2
      <3> QED BY <3>1, <3>2 DEF Buffers
    <2>2. ChainBuffer'
      BY <1>2, <2>1 DEF gst_rdt_manager_chain_rdt, ChainBuffer
    <2>3. PauseResult' /\ NoLostWakeup' /\ Stages'
      BY <1>2 DEF gst_rdt_manager_chain_rdt, ChainActivate, ChainRunning, src_activate_push,
           MInv, PauseResult, Stages, NoLostWakeup, lvars, jvars,
           rdt_jitter_buffer_num_packets
    <2> QED BY <1>0, <2>2, <2>3 DEF MInv
  <1>3. CASE SinkEos \/ \E d \in BOOLEAN : gst_element_add_pad(d)
    BY <1>0, <1>3 DEF SinkEos, gst_element_add_pad, MInv, ChainBuffer, PauseResult, Stages,
         NoLostWakeup, svars, lvars, cvars, evars, jvars, rdt_jitter_buffer_num_packets
  <1>4. CASE LoopEnter \/ LoopWake
    <2>1. ChainBuffer' /\ PauseResult' /\ Stages'
      BY <1>4 DEF LoopEnter, LoopWake, LoopFlushing, LoopUnderrun, LoopPop,
           gst_pad_pause_task, MInv, ChainBuffer, PauseResult, Stages, cvars, evars
    <2>2. NoLostWakeup'
      BY <1>4 DEF LoopEnter, LoopWake, LoopFlushing, LoopUnderrun, LoopPop, MInv,
           NoLostWakeup, jvars, rdt_jitter_buffer_num_packets
    <2> QED BY <1>0, <2>1, <2>2 DEF MInv
  <1>5. CASE LoopClearDiscont \/ LoopPause \/ \E r \in Flow : LoopPush(r)
    BY <1>0, <1>5 DEF LoopClearDiscont, LoopPause, LoopPush, gst_pad_pause_task, MInv,
         ChainBuffer, PauseResult, Stages, NoLostWakeup, svars, cvars, evars
  <1>6. CASE AppStop
    BY <1>0, <1>6 DEF AppStop, JBUF_SIGNAL, MInv, ChainBuffer, PauseResult, Stages,
         NoLostWakeup, lvars, cvars, jvars, rdt_jitter_buffer_num_packets
  <1>7. CASE AppStep
    BY <1>0, <1>7 DEF AppStep, AppStopTask, AppJoin, AppSink, MInv, ChainBuffer, PauseResult,
         Stages, NoLostWakeup, svars, lvars, cvars, jvars, rdt_jitter_buffer_num_packets
  <1>8. CASE AppStart
    BY <1>0, <1>8 DEF AppStart, src_activate_push, MInv, ChainBuffer, PauseResult, Stages,
         NoLostWakeup, lvars, cvars, jvars, rdt_jitter_buffer_num_packets
  <1>9. CASE UNCHANGED vars
    BY <1>0, <1>9 DEF vars, MInv, ChainBuffer, PauseResult, Stages, NoLostWakeup, svars,
         lvars, cvars, evars, jvars, rdt_jitter_buffer_num_packets
  <1> QED BY <1>1, <1>2, <1>3, <1>4, <1>5, <1>6, <1>7, <1>8, <1>9
          DEF Next, ChainStep, LoopStep

(* The invariant holds in every state of a session.                        *)
THEOREM SessionInvariant == Spec => []MInv
  BY InitMInv, NextMInv, PTL DEF Spec

(* The loop never waits, unsignalled, while a packet is queued or the      *)
(* session is flushing.                                                    *)
THEOREM SessionNoLostWakeup == Spec => []NoLostWakeup
  <1>1. MInv => NoLostWakeup
    BY DEF MInv
  <1> QED BY <1>1, SessionInvariant, PTL

(* When the state change has passed the source pad, the loop has returned, *)
(* its task is stopped and the session refuses packets.                    *)
THEOREM SessionQuietWhenReady == Spec => []QuietWhenReady
  <1>1. MInv => QuietWhenReady
    BY DEF MInv, Stages, QuietWhenReady
  <1> QED BY <1>1, SessionInvariant, PTL

(* A session uses its jitter buffer as the jitter buffer's specification   *)
(* allows, so its queue too gives out the oldest packet it holds.          *)
THEOREM SessionReorders == Spec => ImplementsReorderBuffer
  <1>1. Init => JInit
    BY DEF Init
  <1>2. Spec => JSpec
    BY <1>1, JBufferStep, SessionInvariant, PTL DEF Spec, JSpec
  <1> QED BY <1>2, JitterBufferRefines

(* The packets in the queue.                                               *)
Held == {packets[i] : i \in 1 .. Len(packets)}

(* What Conserved is about: where the packets are, and their histories.    *)
hands == <<jvars, loop, hvars>>

(* The histories count packets.                                            *)
HistoryTypeOK == accepted \in [Stream -> Nat] /\ pushed \in [Stream -> Nat]

HInv == HistoryTypeOK /\ Conserved

(* A packet is in the queue if it is held.                                 *)
LEMMA QueueIsHeld ==
    ASSUME NEW n
    PROVE  (InQueue(n) <=> n \in Held) /\ (InQueue(n)' <=> n \in Held')
  BY DEF InQueue, Held

(* One packet is inserted and counted, unless it is a duplicate.           *)
LEMMA AcceptConserves ==
    ASSUME MInv, HInv, gst_rdt_manager_handle_data_packet
    PROVE  HInv'
  <1> DEFINE n == Head(buffer)
  <1>1. CASE Refuse
    BY <1>1 DEF gst_rdt_manager_handle_data_packet, Refuse, HInv, HistoryTypeOK, Conserved, InQueue,
         InHand, jvars, lvars
  <1>2. CASE Accept
    <2>1. n \in Stream
      BY <1>2, HeadTailProperties DEF MInv, ChainBuffer, gst_rdt_manager_handle_data_packet
    <2>2. packets \in Seq(Stream)
      BY DEF MInv, JInv, JTypeOK
    <2>3. InWindow(n)
      BY <2>1, <2>2, ElementOfSeq DEF InWindow
    <2>4. rdt_jitter_buffer_insert(n) /\ popped' = popped /\ loop' = loop /\ pushed' = pushed
      BY <1>2 DEF gst_rdt_manager_handle_data_packet, Accept, rdt_jitter_buffer_insert, lvars
    <2>5. CASE duplicate(n)
      BY <1>2, <2>4, <2>5 DEF Accept, rdt_jitter_buffer_insert, HInv, HistoryTypeOK,
                              Conserved, InQueue,
           InHand
    <2>6. CASE ~duplicate(n)
      <3>1. n \notin Held /\ Held' = Held \cup {n}
        BY <2>1, <2>3, <2>4, <2>6, InsertNew DEF MInv, R!Put, Held
      <3>2. accepted' = [accepted EXCEPT ![n] = @ + 1]
        BY <1>2, <2>6 DEF Accept
      <3>3. HistoryTypeOK'
        <4>1. accepted \in [Stream -> Nat] /\ pushed \in [Stream -> Nat]
          BY DEF HInv, HistoryTypeOK
        <4> HIDE DEF n
        <4>2. accepted[n] + 1 \in Nat
          BY <2>1, <4>1
        <4>3. accepted' \in [Stream -> Nat]
          BY <3>2, <4>1, <4>2
        <4> QED BY <2>4, <4>1, <4>3 DEF HistoryTypeOK
      <3>4. \A m \in Stream : accepted'[m] = IF m = n THEN accepted[m] + 1 ELSE accepted[m]
        BY <2>1, <3>2 DEF HInv, HistoryTypeOK
      <3>5. Conserved'
        BY <2>1, <2>4, <3>1, <3>4, QueueIsHeld DEF HInv, HistoryTypeOK, Conserved, InHand
      <3> QED BY <3>3, <3>5 DEF HInv
    <2> QED BY <2>5, <2>6
  <1> QED BY <1>1, <1>2 DEF gst_rdt_manager_handle_data_packet

(* A pop moves the oldest packet into the loop's hands.                    *)
LEMMA PopConserves ==
    ASSUME MInv, HInv, LoopPop, loop \in {"idle", "wait"}, UNCHANGED hvars
    PROVE  HInv'
  <1>1. /\ popped' \in Stream /\ popped' \in Held /\ Held' = Held \ {popped'}
        /\ loop' = "popped"
    BY PopTakes DEF MInv, LoopPop, R!Take, Held
  <1> QED BY <1>1, QueueIsHeld DEF HInv, HistoryTypeOK, Conserved, InHand, hvars

(* Every step keeps the balance of each packet.                            *)
LEMMA NextHInv ==
    ASSUME MInv, HInv, [Next]_vars
    PROVE  HInv'
  <1>1. CASE gst_rdt_manager_handle_data_packet
    BY <1>1, AcceptConserves
  <1>2. CASE LoopEnter \/ LoopWake
    <2>1. CASE LoopPop
      BY <1>2, <2>1, PopConserves DEF LoopEnter, LoopWake
    <2>2. CASE LoopFlushing \/ LoopUnderrun
      BY <1>2, <2>2 DEF LoopEnter, LoopWake, LoopFlushing, LoopUnderrun, HInv, HistoryTypeOK,
           Conserved, InQueue, InHand, jvars, hvars
    <2> QED BY <1>2, <2>1, <2>2 DEF LoopEnter, LoopWake
  <1>3. CASE LoopClearDiscont \/ LoopPause
    BY <1>3 DEF LoopClearDiscont, LoopPause, HInv, HistoryTypeOK, Conserved, InQueue, InHand, jvars,
         hvars
  <1>4. ASSUME NEW r \in Flow, LoopPush(r)
        PROVE  HInv'
    <2>1. /\ pushed' = [pushed EXCEPT ![popped] = @ + 1] /\ accepted' = accepted
          /\ loop = "push" /\ loop' \in {"idle", "pause"} /\ popped' = popped /\ Held' = Held
      BY <1>4 DEF LoopPush, jvars, Held
    <2>2. HistoryTypeOK'
      <3>1. accepted \in [Stream -> Nat] /\ pushed \in [Stream -> Nat]
        BY DEF HInv, HistoryTypeOK
      <3>2. pushed' = [n \in Stream |-> IF n = popped THEN pushed[n] + 1 ELSE pushed[n]]
        BY <2>1, <3>1
      <3>3. pushed' \in [Stream -> Nat]
        BY <3>1, <3>2
      <3> QED BY <2>1, <3>1, <3>3 DEF HistoryTypeOK
    <2>3. ASSUME NEW n \in Stream
          PROVE  accepted'[n] = pushed'[n] + (IF InQueue(n)' THEN 1 ELSE 0)
                                           + (IF InHand(n)' THEN 1 ELSE 0)
      <3>1. (InQueue(n) <=> InQueue(n)') /\ ~InHand(n)' /\ (InHand(n) <=> n = popped)
        BY <2>1, QueueIsHeld DEF InHand
      <3>2. accepted[n] = pushed[n] + (IF InQueue(n) THEN 1 ELSE 0) + (IF InHand(n) THEN 1 ELSE 0)
        BY DEF HInv, Conserved
      <3>3. pushed[n] \in Nat /\ pushed'[n] = IF n = popped THEN pushed[n] + 1 ELSE pushed[n]
        BY <2>1 DEF HInv, HistoryTypeOK
      <3> QED BY <2>1, <3>1, <3>2, <3>3
    <2> QED BY <2>2, <2>3 DEF HInv, Conserved
  <1>5. CASE UNCHANGED hands
    BY <1>5 DEF hands, HInv, HistoryTypeOK, Conserved, InQueue, InHand, jvars, hvars
  <1>6. CASE \/ \E b \in Buffers, d \in BOOLEAN : gst_rdt_manager_chain_rdt(b, d)
             \/ SinkEos \/ \E d \in BOOLEAN : gst_element_add_pad(d)
    BY <1>5, <1>6 DEF gst_rdt_manager_chain_rdt, SinkEos, gst_element_add_pad, lvars, hands
  <1>7. CASE AppStop \/ AppStep \/ AppStart
    BY <1>5, <1>7 DEF AppStop, AppStep, AppStopTask, AppJoin, AppSink, AppStart, lvars, hands
  <1>8. CASE UNCHANGED vars
    BY <1>5, <1>8 DEF vars, lvars, hands
  <1> QED BY <1>1, <1>2, <1>3, <1>4, <1>6, <1>7, <1>8 DEF Next, ChainStep, LoopStep

(* Only what stops or fails the session makes it refuse packets.           *)
LEMMA NextRefuses ==
    ASSUME MInv, RefusesOnlyWhenStopped, [Next]_vars
    PROVE  RefusesOnlyWhenStopped'
  <1> USE DEF RefusesOnlyWhenStopped
  <1>1. CASE \/ \E b \in Buffers, d \in BOOLEAN : gst_rdt_manager_chain_rdt(b, d)
             \/ SinkEos \/ ChainStep
    BY <1>1 DEF gst_rdt_manager_chain_rdt, ChainActivate, ChainRunning, src_activate_push, SinkEos,
         ChainStep, gst_rdt_manager_handle_data_packet, gst_element_add_pad, svars, evars
  <1>2. CASE LoopEnter \/ LoopWake
    BY <1>2 DEF LoopEnter, LoopWake, LoopFlushing, LoopUnderrun, LoopPop, gst_pad_pause_task, evars
  <1>3. CASE LoopClearDiscont \/ LoopPause \/ \E r \in Flow : LoopPush(r)
    BY <1>3 DEF LoopClearDiscont, LoopPause, LoopPush, gst_pad_pause_task, svars, evars
  <1>4. CASE AppStop \/ AppStep \/ AppStart
    BY <1>4 DEF AppStop, AppStep, AppStopTask, AppJoin, AppSink, AppStart, src_activate_push, svars,
         MInv, Stages
  <1>5. CASE UNCHANGED vars
    BY <1>5 DEF vars, svars, evars
  <1> QED BY <1>1, <1>2, <1>3, <1>4, <1>5 DEF Next, LoopStep

(* Every packet the session accepts is pushed once, or still queued or in  *)
(* the loop's hands, and it refuses packets only when stopped or failed.   *)
THEOREM SessionNothingLost == Spec => []NothingLost
  <1>1. Init => HInv /\ RefusesOnlyWhenStopped
    BY DEF Init, JInit, HInv, HistoryTypeOK, Conserved, InQueue, InHand, RefusesOnlyWhenStopped
  <1>2. /\ MInv /\ HInv /\ RefusesOnlyWhenStopped /\ [Next]_vars
           => HInv' /\ RefusesOnlyWhenStopped'
    BY NextHInv, NextRefuses
  <1>3. HInv /\ RefusesOnlyWhenStopped => NothingLost
    BY DEF HInv, NothingLost
  <1> QED BY <1>1, <1>2, <1>3, SessionInvariant, PTL DEF Spec

-----------------------------------------------------------------------------
(* The clock skew estimator.                                               *)

USE SkewAssumption

(* A nonempty set of integers with a lower bound has a least element.      *)
LEMMA LeastInteger ==
    ASSUME NEW T \in SUBSET Int, NEW low \in Int, T # {}, \A v \in T : low <= v
    PROVE  \E m \in T : \A v \in T : m <= v
  <1> DEFINE S == {v - low : v \in T}
  <1>0. \A v \in T : v - low \in Nat
    OBVIOUS
  <1>1. S \in SUBSET Nat /\ S # {}
    <2>1. S \subseteq Nat
      BY <1>0
    <2>2. PICK v \in T : TRUE
      OBVIOUS
    <2>3. v - low \in S
      BY <2>2
    <2> QED BY <2>1, <2>3
  <1>2. PICK x \in S : \A y \in S : <<y, x>> \notin OpToRel(<, Nat)
    BY <1>1, WFMin, NatLessThanWellFounded
  <1>3. \A y \in S : ~(y < x)
    BY <1>1, <1>2 DEF OpToRel
  <1>4. PICK m \in T : x = m - low
    BY <1>2
  <1>5. ASSUME NEW v \in T PROVE m <= v
    <2>1. v - low \in S
      OBVIOUS
    <2>2. ~(v - low < m - low)
      BY <1>3, <1>4, <2>1
    <2> QED BY <2>2
  <1> QED BY <1>5

(* The base that calculate_skew works with consists of integers.           *)
LEMMA BaseType ==
    ASSUME STypeOK, NEW g \in Int, NEW t \in Int
    PROVE  /\ Base(g, t).time \in Int
           /\ Base(g, t).rtptime \in Int
           /\ Base(g, t).send_diff \in Int
  BY DEF STypeOK, Base

(* Truncating division by a positive number gives an integer.              *)
LEMMA TruncType ==
    ASSUME NEW a \in Int, NEW b \in Nat \ {0}
    PROVE  trunc_div(a, b) \in Int
  BY DEF trunc_div

(* The weight of the minimum is an integer.                                *)
LEMMA PercType ==
    ASSUME NEW s \in Int, NEW p \in Int
    PROVE  perc(s, p) \in Int
  <1>1. (s * 100) \div MAX_TIME \in Int
    OBVIOUS
  <1>2. (p * 100) \div MAX_WINDOW \in Int
    OBVIOUS
  <1> DEFINE x == (s * 100) \div MAX_TIME
             y == (p * 100) \div MAX_WINDOW
  <1>3. perc(s, p) = IF x > y THEN x * x ELSE y * y
    BY DEF perc
  <1> HIDE DEF x, y
  <1> QED BY <1>1, <1>2, <1>3 DEF x, y

(* Filling the window keeps the invariant, if min is the minimum of the    *)
(* values below pos.                                                       *)
LEMMA FillInv ==
    ASSUME SkewInv,
           NEW t \in Int, NEW r \in Int, NEW s \in Int, NEW delta \in Int,
           NEW pos \in Nat, NEW min \in Int, NEW sk \in Int,
           pos < MAX_WINDOW,
           pos # 0 => /\ \A i \in 0 .. pos - 1 : min <= window[i]
                      /\ \E i \in 0 .. pos - 1 : min = window[i],
           Fill([time |-> t, rtptime |-> r, send_diff |-> s], delta, pos, min, sk)
    PROVE  SkewInv'
  <1> DEFINE full == s >= MAX_TIME \/ pos + 1 >= MAX_WINDOW
             p == perc(s, pos + 1)
  <1>1. /\ window' = [window EXCEPT ![pos] = delta]
        /\ window_min' = IF pos = 0 \/ delta < min THEN delta ELSE min
        /\ window_filling' = ~full
        /\ window_size' = IF full THEN pos + 1 ELSE pos + 2
        /\ window_pos' = IF full THEN 0 ELSE pos + 1
        /\ skew' = IF full THEN window_min'
                   ELSE trunc_div(p * window_min' + (10000 - p) * sk, 10000)
        /\ base_time' = t /\ base_rtptime' = r /\ prev_send_diff' = s
        /\ out_time' = t + s + skew'
    BY DEF Fill, SetBase
  <1> HIDE DEF full
  <1>2. window_filling' = ~full
    BY <1>1
  <1>3. window' \in [0 .. MAX_WINDOW - 1 -> Int]
    BY <1>1 DEF SkewInv, STypeOK
  <1>4. window_min' \in Int
    BY <1>1
  <1>5. skew' \in Int
    <2>1. p \in Int
      BY PercType
    <2> HIDE DEF p
    <2>2. p * window_min' + (10000 - p) * sk \in Int
      BY <1>4, <2>1
    <2>3. trunc_div(p * window_min' + (10000 - p) * sk, 10000) \in Int
      BY <2>2, TruncType
    <2> QED BY <1>1, <1>4, <2>3
  <1>6. STypeOK'
    BY <1>1, <1>2, <1>3, <1>4, <1>5 DEF STypeOK
  <1>7. PositionInWindow'
    BY <1>1 DEF PositionInWindow, full
  <1>8. WindowMin'
    <2>2. \A i \in 0 .. pos : window'[i] = IF i = pos THEN delta ELSE window[i]
      BY <1>1 DEF SkewInv, STypeOK
    <2>3. \A i \in 0 .. pos - 1 : window[i] \in Int
      BY DEF SkewInv, STypeOK
    <2>4. MinOfFirst(pos + 1)'
      <3>1. CASE pos = 0
        BY <1>1, <2>2, <3>1 DEF MinOfFirst
      <3>2. CASE pos # 0 /\ delta < min
        BY <1>1, <2>2, <2>3, <3>2 DEF MinOfFirst
      <3>3. CASE pos # 0 /\ ~(delta < min)
        BY <1>1, <2>2, <2>3, <3>3 DEF MinOfFirst
      <3> QED BY <3>1, <3>2, <3>3
    <2>5. CASE full
      <3>1. ~window_filling'
        BY <1>2, <2>5
      <3>2. window_size' = pos + 1
        BY <1>1, <2>5
      <3> QED BY <2>4, <3>1, <3>2 DEF WindowMin, MinOfFirst
    <2>6. CASE ~full
      <3>1. window_filling'
        BY <1>2, <2>6
      <3>2. window_pos' = pos + 1
        BY <1>1, <2>6
      <3> QED BY <2>4, <3>1, <3>2 DEF WindowMin, MinOfFirst
    <2> QED BY <2>5, <2>6
  <1> QED BY <1>6, <1>7, <1>8 DEF SkewInv

(* Replacing the oldest value of a full window keeps the invariant.        *)
LEMMA SlideInv ==
    ASSUME SkewInv, ~window_filling,
           NEW t \in Int, NEW r \in Int, NEW s \in Int, NEW delta \in Int,
           Slide([time |-> t, rtptime |-> r, send_diff |-> s], delta)
    PROVE  SkewInv'
  <1> DEFINE pos == window_pos
             old == window[pos]
             N == window_size
  <1>1. /\ window' = [window EXCEPT ![pos] = delta]
        /\ window_min' = IF delta <= window_min THEN delta
                         ELSE IF old = window_min THEN rescan(window', old)
                         ELSE window_min
        /\ skew' = trunc_div(window_min' + 124 * skew, 125)
        /\ window_pos' = IF pos + 1 >= N THEN 0 ELSE pos + 1
        /\ window_size' = N /\ window_filling' = window_filling
        /\ base_time' = t /\ base_rtptime' = r /\ prev_send_diff' = s
        /\ out_time' = t + s + skew'
    BY DEF Slide, SetBase
  <1>2. pos \in Nat /\ N \in Nat /\ pos < N /\ N <= MAX_WINDOW
    BY DEF SkewInv, STypeOK, PositionInWindow
  <1>3. /\ \A i \in 0 .. N - 1 : window_min <= window[i]
        /\ \E i \in 0 .. N - 1 : window_min = window[i]
    BY <1>2 DEF SkewInv, WindowMin, MinOfFirst
  <1>4. /\ \A i \in 0 .. N - 1 : window[i] \in Int
        /\ \A i \in 0 .. N - 1 : window'[i] = IF i = pos THEN delta ELSE window[i]
        /\ window_min \in Int
    BY <1>1, <1>2 DEF SkewInv, STypeOK
  <1> HIDE DEF pos, old, N
  <1>5. /\ window_min' \in Int
        /\ \A i \in 0 .. N - 1 : window_min' <= window'[i]
        /\ \E i \in 0 .. N - 1 : window_min' = window'[i]
    <2>1. CASE delta <= window_min
      BY <1>1, <1>2, <1>3, <1>4, <2>1
    <2>2. CASE ~(delta <= window_min) /\ old # window_min
      <3>1. PICK k \in 0 .. N - 1 : window_min = window[k]
        BY <1>3
      <3>2. k # pos
        BY <2>2, <3>1 DEF old
      <3>3. window'[k] = window_min
        BY <1>4, <3>1, <3>2
      <3>4. window_min' = window_min
        BY <1>1, <2>2
      <3> QED BY <1>2, <1>3, <1>4, <2>2, <3>3, <3>4
    <2>3. CASE ~(delta <= window_min) /\ old = window_min
      <3>1. window_min' = rescan(window', old)
        BY <1>1, <2>3
      <3>2. \A i \in 0 .. N - 1 : window'[i] \in Int /\ old <= window'[i]
        BY <1>2, <1>3, <1>4, <2>3
      <3>3. CASE \E i \in 0 .. N - 1 : window'[i] = old
        <4>1. window_min' = old
          BY <3>1, <3>3 DEF rescan, N
        <4> QED BY <1>4, <2>3, <3>2, <3>3, <4>1
      <3>4. CASE ~\E i \in 0 .. N - 1 : window'[i] = old
        <4> DEFINE Values == {window'[i] : i \in 0 .. N - 1}
        <4>1. window_min' = CHOOSE m \in Values : \A v \in Values : m <= v
          BY <3>1, <3>4 DEF rescan, N
        <4>2. Values \in SUBSET Int /\ \A v \in Values : old <= v
          BY <3>2
        <4>3. window'[0] \in Values
          BY <1>2
        <4>4. old \in Int
          BY <1>4, <2>3
        <4>5. \E m \in Values : \A v \in Values : m <= v
          <5> HIDE DEF Values
          <5> QED BY <4>2, <4>3, <4>4, LeastInteger
        <4>6. window_min' \in Values /\ \A v \in Values : window_min' <= v
          BY <4>1, <4>5
        <4> QED BY <4>2, <4>6
      <3> QED BY <3>3, <3>4
    <2> QED BY <2>1, <2>2, <2>3
  <1>6. skew' \in Int
    <2>1. window_min' + 124 * skew \in Int
      BY <1>5 DEF SkewInv, STypeOK
    <2> QED BY <1>1, <2>1, TruncType
  <1>7. STypeOK'
    BY <1>1, <1>2, <1>5, <1>6, SMTT(30) DEF SkewInv, STypeOK, pos, N
  <1>8. PositionInWindow'
    BY <1>1, <1>2 DEF PositionInWindow
  <1>9. WindowMin'
    BY <1>1, <1>5 DEF WindowMin, MinOfFirst, N
  <1> QED BY <1>7, <1>8, <1>9 DEF SkewInv

(* Every step preserves the invariant.                                     *)
LEMMA NextSkewInv == SkewInv /\ [SNext]_skvars => SkewInv'
  <1> SUFFICES ASSUME SkewInv, [SNext]_skvars PROVE SkewInv'
    OBVIOUS
  <1>1. ASSUME NEW g \in RtpTimes, calculate_skew_untimed(g)
        PROVE  SkewInv'
    <2>1. /\ Base(g, -1).time \in Int
          /\ Base(g, -1).rtptime \in Int
          /\ Base(g, -1).send_diff \in Int
      BY BaseType DEF SkewInv
    <2>2. STypeOK'
      BY <1>1, <2>1 DEF calculate_skew_untimed, SetBase, wvars, SkewInv, STypeOK
    <2> QED BY <1>1, <2>2 DEF calculate_skew_untimed, wvars, SkewInv, PositionInWindow,
              WindowMin, MinOfFirst
  <1>2. ASSUME NEW g \in RtpTimes, NEW t \in Times, calculate_skew_reset(g, t)
        PROVE  SkewInv'
    <2>1. Fill([time |-> t, rtptime |-> g, send_diff |-> 0], 0, 0, 0, 0)
      BY <1>2 DEF calculate_skew_reset
    <2>2. g \in Int /\ t \in Int /\ 0 < MAX_WINDOW
      OBVIOUS
    <2> QED BY <2>1, <2>2, FillInv
  <1>3. ASSUME NEW g \in RtpTimes, NEW t \in Times,
               calculate_skew_fill(g, t) \/ calculate_skew_slide(g, t)
        PROVE  SkewInv'
    <2> DEFINE b == Base(g, t)
               delta == t - b.time - b.send_diff
    <2>1. b.time \in Int /\ b.rtptime \in Int /\ b.send_diff \in Int
      BY BaseType DEF SkewInv
    <2>2. b = [time |-> b.time, rtptime |-> b.rtptime, send_diff |-> b.send_diff]
      BY DEF Base
    <2>3. delta \in Int
      BY <2>1
    <2>4. CASE calculate_skew_fill(g, t)
      <3>1. window_filling /\ Fill(b, delta, window_pos, window_min, skew)
        BY <2>4 DEF calculate_skew_fill
      <3>2. /\ window_pos \in Nat /\ window_min \in Int /\ skew \in Int
            /\ window_pos < MAX_WINDOW
        BY <3>1 DEF SkewInv, STypeOK, PositionInWindow
      <3>3. window_pos # 0 =>
               /\ \A i \in 0 .. window_pos - 1 : window_min <= window[i]
               /\ \E i \in 0 .. window_pos - 1 : window_min = window[i]
        BY <3>1, <3>2 DEF SkewInv, WindowMin, MinOfFirst
      <3>4. Fill([time |-> b.time, rtptime |-> b.rtptime, send_diff |-> b.send_diff],
                 delta, window_pos, window_min, skew)
        BY <2>2, <3>1
      <3> HIDE DEF b, delta
      <3> QED BY <2>1, <2>3, <3>2, <3>3, <3>4, FillInv
    <2>5. CASE calculate_skew_slide(g, t)
      <3>1. ~window_filling /\ Slide(b, delta)
        BY <2>5 DEF calculate_skew_slide
      <3>2. Slide([time |-> b.time, rtptime |-> b.rtptime, send_diff |-> b.send_diff], delta)
        BY <2>2, <3>1
      <3> HIDE DEF b, delta
      <3> QED BY <2>1, <2>3, <3>1, <3>2, SlideInv
    <2> QED BY <1>3, <2>4, <2>5
  <1>4. CASE UNCHANGED skvars
    BY <1>4 DEF skvars, bvars, wvars, SkewInv, STypeOK, PositionInWindow, WindowMin, MinOfFirst
  <1> QED BY <1>1, <1>2, <1>3, <1>4 DEF SNext

(* calculate_skew always knows the exact minimum of its window and writes  *)
(* inside it, for every window size and any packet times.                  *)
THEOREM SkewWindow == SSpec => []SkewInv
  <1>1. SInit => SkewInv
    BY DEF SInit, SkewInv, STypeOK, PositionInWindow, WindowMin, MinOfFirst
  <1> QED BY <1>1, NextSkewInv, PTL DEF SSpec

(* An average of m and s with weights w and k - w, divided with            *)
(* truncation, lies between them.                                          *)
LEMMA AverageBetween ==
    ASSUME NEW k \in Nat \ {0}, NEW w \in Nat, w <= k, NEW m \in Int, NEW s \in Int
    PROVE  Between(s, trunc_div(w * m + (k - w) * s, k), m)
  <1> DEFINE a == w * m + (k - w) * s
             q == a \div k
             r == (-a) \div k
  <1>1. a \in Int /\ q \in Int /\ r \in Int
    OBVIOUS
  <1>2. k * q <= a /\ a < k * q + k /\ k * r <= -a /\ -a < k * r + k
    BY <1>1
  <1>3. a = k * s + w * (m - s) /\ a = k * m - (k - w) * (m - s)
    OBVIOUS
  <1>4. /\ m >= s => k * s <= a /\ a <= k * m
        /\ m <= s => k * m <= a /\ a <= k * s
    <2>1. m >= s => w * (m - s) >= 0 /\ (k - w) * (m - s) >= 0
      OBVIOUS
    <2>2. m <= s => w * (m - s) <= 0 /\ (k - w) * (m - s) <= 0
      OBVIOUS
    <2> QED BY <1>1, <1>3, <2>1, <2>2
  <1>5. ASSUME NEW x \in Int, NEW y \in Int, NEW z \in Int, k * x <= y, y < k * z + k
        PROVE  x <= z
    <2>1. k * x < k * (z + 1)
      BY <1>5
    <2>2. x < z + 1
      <3>1. x >= z + 1 => k * x >= k * (z + 1)
        OBVIOUS
      <3> QED BY <2>1, <3>1
    <2> QED BY <2>2
  <1> HIDE DEF q, r, a
  <1>6. /\ m >= s => s <= q /\ -m <= r
        /\ m <= s => m <= q /\ -s <= r
    BY <1>1, <1>2, <1>4, <1>5
  <1>7. \A x \in Int : /\ a <= k * x => q <= x
                       /\ k * x <= a => r <= -x
    BY <1>1, <1>2, <1>5
  <1>8. trunc_div(a, k) = IF a >= 0 THEN q ELSE -r
    BY DEF trunc_div, q, r
  <1>9. Between(s, trunc_div(a, k), m)
    BY <1>1, <1>4, <1>6, <1>7, <1>8 DEF Between
  <1> QED BY <1>9 DEF a

(* While the window fills, the weight of its minimum is a share of 10000.  *)
LEMMA PercBound ==
    ASSUME NEW d \in Nat, NEW n \in Nat, d < MAX_TIME, n < MAX_WINDOW
    PROVE  perc(d, n) \in Nat /\ perc(d, n) <= 10000
  <1> DEFINE x == (d * 100) \div MAX_TIME
             y == (n * 100) \div MAX_WINDOW
  <1>1. x \in 0 .. 99 /\ y \in 0 .. 99
    OBVIOUS
  <1>2. perc(d, n) = IF x > y THEN x * x ELSE y * y
    BY DEF perc
  <1> HIDE DEF x, y
  <1>3. PICK p \in 0 .. 99 : perc(d, n) = p * p
    BY <1>1, <1>2
  <1>4. p * p \in Nat /\ p * p <= 10000
    OBVIOUS
  <1> QED BY <1>3, <1>4

(* The sender's time is not before its base: the code takes a new base     *)
(* when it would be.                                                       *)
LEMMA SendDiffNat ==
    ASSUME STypeOK, NEW g \in Nat, NEW t \in Int
    PROVE  Base(g, t).send_diff \in Nat
  BY DEF Base, STypeOK

(* The skew, v, and the minimum, m, with the weight p of the minimum.      *)
Weighted(p, m, v) == trunc_div(p * m + (10000 - p) * v, 10000)

(* Weighted so, the skew lies on the way to the minimum.                   *)
LEMMA PercAverages ==
    ASSUME NEW d \in Nat, NEW n \in Nat, d < MAX_TIME, n < MAX_WINDOW,
           NEW m \in Int, NEW v \in Int
    PROVE  Between(v, Weighted(perc(d, n), m, v), m)
  <1> DEFINE p == perc(d, n)
             k == 10000
  <1>1. p \in Nat /\ p <= k /\ k \in Nat \ {0}
    BY PercBound
  <1> HIDE DEF p, k
  <1>2. Between(v, trunc_div(p * m + (k - p) * v, k), m)
    BY <1>1, AverageBetween, Zenon
  <1> QED BY <1>2 DEF p, k, Weighted

(* A step of the estimator while the window fills.                         *)
LEMMA FillApproaches ==
    ASSUME NEW t \in Int, NEW r \in Int, NEW s \in Nat, NEW delta \in Int,
           NEW pos \in Nat, NEW min \in Int, NEW sk \in Int,
           pos < MAX_WINDOW,
           Fill([time |-> t, rtptime |-> r, send_diff |-> s], delta, pos, min, sk)
    PROVE  Between(sk, skew', window_min')
  <1> DEFINE full == s >= MAX_TIME \/ pos + 1 >= MAX_WINDOW
             p == perc(s, pos + 1)
  <1>1. /\ window_min' = IF pos = 0 \/ delta < min THEN delta ELSE min
        /\ skew' = IF full THEN window_min'
                   ELSE trunc_div(p * window_min' + (10000 - p) * sk, 10000)
    BY DEF Fill
  <1>2. window_min' \in Int
    BY <1>1
  <1>3. CASE full
    BY <1>1, <1>2, <1>3 DEF Between
  <1>4. CASE ~full
    <2>1. s < MAX_TIME /\ pos + 1 \in Nat /\ pos + 1 < MAX_WINDOW
      BY <1>4
    <2> DEFINE n == pos + 1
    <2>2. n \in Nat /\ n < MAX_WINDOW
      BY <2>1
    <2>3. skew' = Weighted(perc(s, n), window_min', sk)
      BY <1>1, <1>4 DEF Weighted
    <2> HIDE DEF n, full
    <2> QED BY <1>2, <2>1, <2>2, <2>3, PercAverages
  <1> QED BY <1>3, <1>4

(* A step of the estimator with a full window.                             *)
LEMMA SlideApproaches ==
    ASSUME SkewInv, SkewInv', ~window_filling, NEW b, NEW delta, Slide(b, delta)
    PROVE  Between(skew, skew', window_min')
  <1>1. skew' = trunc_div(window_min' + 124 * skew, 125)
    BY DEF Slide
  <1>2. window_min' \in Int /\ skew \in Int
    BY DEF SkewInv, STypeOK
  <1>3. window_min' + 124 * skew = 1 * window_min' + (125 - 1) * skew
    BY <1>2
  <1>4. 125 \in Nat \ {0} /\ 1 \in Nat /\ 1 <= 125
    OBVIOUS
  <1> QED BY <1>1, <1>2, <1>3, <1>4, AverageBetween

(* A reset leaves no skew: its first difference is 0.                      *)
LEMMA ResetApproaches ==
    ASSUME STypeOK', NEW g \in RtpTimes, NEW t \in Times, calculate_skew_reset(g, t)
    PROVE  skew' = 0
  <1>1. Fill([time |-> t, rtptime |-> g, send_diff |-> 0], 0, 0, 0, 0)
    BY DEF calculate_skew_reset
  <1>2. g \in Int /\ t \in Int /\ 0 < MAX_WINDOW
    OBVIOUS
  <1>3. Between(0, skew', window_min')
    BY <1>1, <1>2, FillApproaches
  <1>4. window_min' = 0
    BY <1>1 DEF Fill
  <1>5. skew' \in Int
    BY DEF STypeOK
  <1> QED BY <1>3, <1>4, <1>5 DEF Between

(* The skew moves towards the minimum of the window and never past it, for *)
(* every window size, any times and whatever the signs; a reset, and       *)
(* nothing else, leaves it at 0 wherever it was.                           *)
THEOREM SkewTowardsMin == SSpec => SkewApproachesMin
  <1> DEFINE Reset == \E g \in RtpTimes, t \in Times : calculate_skew_reset(g, t)
             Step == IF Reset THEN skew' = 0 ELSE Between(skew, skew', window_min')
  <1>1. SkewInv /\ SkewInv' /\ [SNext]_skvars => [Step]_skvars
    <2> SUFFICES ASSUME SkewInv, SkewInv', SNext PROVE Step
      OBVIOUS
    <2>1. ASSUME NEW g \in RtpTimes, calculate_skew_untimed(g)
          PROVE  Between(skew, skew', window_min')
      BY <2>1 DEF calculate_skew_untimed, SkewInv, STypeOK, Between, wvars
    <2>2. ASSUME Reset
          PROVE  skew' = 0
      BY <2>2, ResetApproaches DEF SkewInv
    <2>3. ASSUME NEW g \in RtpTimes, NEW t \in Times, calculate_skew_fill(g, t)
          PROVE  Between(skew, skew', window_min')
      <3> DEFINE b == Base(g, t)
                 delta == t - b.time - b.send_diff
      <3>1. b.time \in Int /\ b.rtptime \in Int /\ b.send_diff \in Nat
        BY BaseType, SendDiffNat DEF SkewInv
      <3>2. b = [time |-> b.time, rtptime |-> b.rtptime, send_diff |-> b.send_diff]
        BY DEF Base
      <3>3. window_filling /\ Fill(b, delta, window_pos, window_min, skew)
        BY <2>3 DEF calculate_skew_fill
      <3>4. /\ window_pos \in Nat /\ window_min \in Int /\ skew \in Int
            /\ window_pos < MAX_WINDOW
        BY <3>3 DEF SkewInv, STypeOK, PositionInWindow
      <3>5. Fill([time |-> b.time, rtptime |-> b.rtptime, send_diff |-> b.send_diff],
                 delta, window_pos, window_min, skew)
        BY <3>2, <3>3
      <3>6. delta \in Int
        BY <3>1
      <3> HIDE DEF b, delta
      <3> QED BY <3>1, <3>4, <3>5, <3>6, FillApproaches
    <2>4. ASSUME NEW g \in RtpTimes, NEW t \in Times, calculate_skew_slide(g, t)
          PROVE  Between(skew, skew', window_min')
      BY <2>4, SlideApproaches DEF calculate_skew_slide
    <2> HIDE DEF Reset
    <2>5. ~Reset => Between(skew, skew', window_min')
      BY <2>1, <2>3, <2>4 DEF SNext, Reset
    <2> QED BY <2>2, <2>5
  <1> QED BY <1>1, SkewWindow, PTL DEF SSpec, SkewApproachesMin

=============================================================================
