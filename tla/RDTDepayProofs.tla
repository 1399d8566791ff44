--------------------------- MODULE RDTDepayProofs ---------------------------
(***************************************************************************)
(* The depayloader marks every gap and drops what it has seen, for every   *)
(* width of the sequence numbers and all orders of arrival.                *)
(***************************************************************************)
EXTENDS MCRDTDepay, RDTSeqnumProofs, SequenceTheorems, WellFoundedInduction

USE SeqnumAssumption, DepayAssumption

(* The expected number is the number of the following packet.              *)
LEMMA FollowingIsNext ==
    ASSUME NEW n \in Nat
    PROVE  Following(n) = seqnum(n + 1)
<1>1. seqnum(n) \in 0 .. DataTypes - 1 /\ seqnum(n + 1) \in 0 .. DataTypes - 1
  BY Division DEF Seqnum
<1>2. CASE DataTypes = 1
  BY <1>1, <1>2 DEF Following
<1>3. CASE DataTypes > 1
  <2>1. \/ seqnum(n + 1) - seqnum(n) = 1
        \/ seqnum(n + 1) - seqnum(n) = 1 - DataTypes
    BY <1>3, WrapOnce
  <2> QED BY <1>1, <2>1 DEF Following
<1> QED BY <1>2, <1>3

(* A packet close to the last one has no gap only if it follows it.        *)
LEMMA NoGap ==
    ASSUME ExpectsNext, at # "ready", last \in Nat, NEW n \in Nat, Close(n, last + 1), n # last + 1
    PROVE  gap(n) # 0
<1>1. next_seqnum = seqnum(last + 1) /\ seqnum(last + 1) \in Nat
  BY Division DEF ExpectsNext, None, Seqnum
<1> QED BY <1>1, CompareSeqnum DEF Close, gap

(* Between two wraps the gap is the distance from the packet expected.     *)
LEMMA GapInWrap ==
    ASSUME ExpectsNext, at # "ready", last \in Nat, NEW n \in Nat, Close(n, last + 1),
           n \div DataTypes = (last + 1) \div DataTypes, n <= last
    PROVE  gap(n) = last + 1 - n
<1> DEFINE q == n \div DataTypes
<1>1. /\ n = q * DataTypes + seqnum(n)
      /\ last + 1 = q * DataTypes + seqnum(last + 1)
  BY SMTT(30) DEF seqnum
<1>2. /\ seqnum(last + 1) \in Nat /\ seqnum(n) \in Nat /\ q \in Int
      /\ next_seqnum = seqnum(last + 1)
  BY Division DEF ExpectsNext, None, Seqnum
<1>3. seqnum(last + 1) - seqnum(n) = last + 1 - n
  <2> HIDE DEF q
  <2> QED BY <1>1, <1>2
<1>4. Half \in Nat /\ SeqMod = 2 * Half
  BY DEF Half
<1> QED BY <1>2, <1>3, <1>4 DEF gap, compare_seqnum, gint16, Close, Margin

(* The head of a buffer is a packet.                                       *)
LEMMA HeadIsPacket ==
    ASSUME todo \in Seq(Stream), todo # <<>>
    PROVE  Head(todo) \in Stream /\ Head(todo) \in Nat /\ Tail(todo) \in Seq(Stream)
<1>1. Head(todo) \in Stream /\ Tail(todo) \in Seq(Stream)
  OBVIOUS
<1> QED BY <1>1

(* The depayloader starts well.                                            *)
LEMMA InitDepay == Init => DepayInv /\ GapMarked /\ SegmentBeforeData
<1> SUFFICES ASSUME Init PROVE DepayInv /\ GapMarked /\ SegmentBeforeData
  OBVIOUS
<1>1. /\ discont \in BOOLEAN /\ need_newsegment \in BOOLEAN /\ header \in BOOLEAN
      /\ downSeg \in BOOLEAN
  BY Zenon DEF Init
<1>2. out \in [marked : BOOLEAN, after : Stream \cup {None}, segment : BOOLEAN, turn : BOOLEAN]
  BY DEF Init, NoOut
<1>3. todo \in Seq(Stream) /\ next_seqnum = 0 /\ last = None /\ at = "ready"
  BY DEF Init
<1>4. out.segment
  BY DEF Init, NoOut
<1>5. 0 \in Seqnum
  BY DEF Seqnum
<1> QED BY <1>1, <1>2, <1>3, <1>4, <1>5
     DEF DepayInv, TypeOK, ExpectsNext, GapMarked, SegmentBeforeData, None

(* Every step keeps the invariant and marks its gap.                       *)
LEMMA NextDepay ==
    ASSUME DepayInv, GapMarked, SegmentBeforeData, [Next]_vars
    PROVE  DepayInv' /\ GapMarked' /\ SegmentBeforeData'
<1> USE DEF DepayInv, TypeOK, ExpectsNext, GapMarked, SegmentBeforeData, Close, None, dvars
<1>1. CASE Start \/ Stop
  BY <1>1 DEF Start, Stop
<1>2. CASE gst_rdt_depay_setcaps \/ FlushStop
  BY <1>2 DEF gst_rdt_depay_setcaps, FlushStop
<1>3. ASSUME NEW k \in 0 .. MaxPackets, NEW b \in [1 .. k -> Stream], NEW flag \in BOOLEAN,
             gst_rdt_depay_chain(b, flag)
      PROVE  DepayInv' /\ GapMarked' /\ SegmentBeforeData'
  <2>1. todo' \in Seq(Stream)
    BY <1>3 DEF gst_rdt_depay_chain
  <2>2. discont' \in BOOLEAN
    BY <1>3, Zenon DEF gst_rdt_depay_chain
  <2> QED BY <1>3, <2>1, <2>2 DEF gst_rdt_depay_chain
<1>4. CASE PushHeader
  BY <1>4, Zenon DEF PushHeader, gst_rdt_depay_push
<1>5. CASE Drop \/ ChainEnd
  BY <1>5 DEF Drop, ChainEnd
<1>6. ASSUME NEW ok \in BOOLEAN, gst_rdt_depay_handle_data(ok)
      PROVE  DepayInv' /\ GapMarked' /\ SegmentBeforeData'
  <2> DEFINE n == Head(todo)
  <2>1. n \in Stream /\ n \in Nat /\ Tail(todo) \in Seq(Stream)
    BY <1>6, HeadIsPacket DEF gst_rdt_depay_handle_data
  <2>2. next_seqnum' = seqnum(n + 1) /\ last' = n /\ seqnum(n + 1) \in Seqnum
    <3>1. next_seqnum' = Following(n) /\ last' = n
      BY <1>6 DEF gst_rdt_depay_handle_data
    <3>2. Following(n) = seqnum(n + 1)
      BY <2>1, FollowingIsNext
    <3>3. n + 1 \in Nat
      BY <2>1
    <3>4. seqnum(n + 1) \in Seqnum
      BY <3>3, Division
    <3> QED BY <3>1, <3>2, <3>4
  <2>3. /\ out' = [marked |-> discont \/ gap(n) # 0, after |-> last,
                   segment |-> downSeg \/ need_newsegment, turn |-> ~out.turn]
        /\ todo' \in Seq(Stream) /\ at' = at /\ at = "data" /\ header' = header
    BY <1>6 DEF gst_rdt_depay_handle_data
  <2>4. downSeg \/ need_newsegment
    BY <2>3
  <2>5. need_newsegment' = FALSE /\ discont' = FALSE /\ downSeg' = (downSeg \/ need_newsegment)
    BY <1>6 DEF gst_rdt_depay_handle_data, gst_rdt_depay_push
  <2>6. TypeOK'
    <3>1. /\ (discont \/ gap(n) # 0) \in BOOLEAN /\ (downSeg \/ need_newsegment) \in BOOLEAN
          /\ (~out.turn) \in BOOLEAN /\ FALSE \in BOOLEAN
      OBVIOUS
    <3>2. out' \in [marked : BOOLEAN, after : Stream \cup {None}, segment : BOOLEAN, turn : BOOLEAN]
      BY <2>3, <3>1
    <3> QED BY <2>1, <2>2, <2>3, <2>5, <3>1, <3>2
  <2>7. ExpectsNext'
    BY <2>1, <2>2
  <2>8. GapMarked'
    <3> SUFFICES ASSUME last # None, n # last + 1, Close(n, last + 1) PROVE gap(n) # 0
      BY <2>2, <2>3
    <3> QED BY <2>1, <2>3, NoGap
  <2> QED BY <2>3, <2>4, <2>5, <2>6, <2>7, <2>8
<1>7. CASE UNCHANGED vars
  BY <1>7 DEF vars
<1> QED BY <1>1, <1>2, <1>3, <1>4, <1>5, <1>6, <1>7 DEF Next

(* What is expected is always the packet after the last one handed on.     *)
THEOREM DepayInvariant == Spec => []DepayInv
<1>1. DepayInv /\ GapMarked /\ SegmentBeforeData /\ [Next]_vars
         => (DepayInv /\ GapMarked /\ SegmentBeforeData)'
  BY NextDepay
<1> QED BY InitDepay, <1>1, PTL DEF Spec

(* No gap is handed on unmarked, across both wraps.                        *)
THEOREM DepayGapMarked == Spec => []GapMarked
<1>1. DepayInv /\ GapMarked /\ SegmentBeforeData /\ [Next]_vars
         => (DepayInv /\ GapMarked /\ SegmentBeforeData)'
  BY NextDepay
<1> QED BY InitDepay, <1>1, PTL DEF Spec

(* No data goes out without a segment, after each start and each flush.    *)
THEOREM DepaySegmentBeforeData == Spec => []SegmentBeforeData
<1>1. DepayInv /\ GapMarked /\ SegmentBeforeData /\ [Next]_vars
         => (DepayInv /\ GapMarked /\ SegmentBeforeData)'
  BY NextDepay
<1> QED BY InitDepay, <1>1, PTL DEF Spec

(* What was handed on does not come again between two wraps.               *)
THEOREM DepayOldDropped == Spec => OldDropped
<1>1. DepayInv /\ [Next]_vars
        => [Pushed /\ Close(last', last + 1) /\ last' \div DataTypes = (last + 1) \div DataTypes
              => NotOld]_vars
  <2> SUFFICES ASSUME DepayInv, [Next]_vars, Pushed, Close(last', last + 1),
                      last' \div DataTypes = (last + 1) \div DataTypes
               PROVE  NotOld
    OBVIOUS
  <2>1. PICK ok \in BOOLEAN : gst_rdt_depay_handle_data(ok)
    BY DEF Pushed, Next, vars, dvars, Start, Stop, gst_rdt_depay_setcaps, FlushStop,
           gst_rdt_depay_chain, PushHeader, Drop, ChainEnd
  <2>2. last' = Head(todo) /\ ~Dropped(last') /\ todo # <<>>
    BY <2>1 DEF gst_rdt_depay_handle_data
  <2>3. last' \in Nat /\ last \in Nat /\ at # "ready"
    BY <2>1, <2>2, HeadIsPacket DEF DepayInv, TypeOK, Pushed, None, gst_rdt_depay_handle_data
  <2>4. last' <= last => gap(last') = last + 1 - last'
    BY <2>3, GapInWrap DEF DepayInv
  <2> QED BY <2>2, <2>3, <2>4 DEF Dropped, NotOld
<1> QED BY <1>1, DepayInvariant, PTL DEF Spec, OldDropped

-----------------------------------------------------------------------------
(***************************************************************************)
(* The walk over the packets of a buffer (RDTPacketWalk), for every        *)
(* buffer, and all that a length read in the wrong place may be.           *)
(***************************************************************************)

(* A nonempty set of natural numbers has a least element.                  *)
LEMMA Least ==
    ASSUME NEW V \in SUBSET Nat, V # {}
    PROVE  \E x \in V : \A y \in V : x <= y
<1>1. PICK x \in V : \A y \in V : <<y, x>> \notin OpToRel(<, Nat)
  BY WFMin, NatLessThanWellFounded
<1>2. \A y \in V : ~(y < x)
  BY <1>1 DEF OpToRel
<1> QED BY <1>2

(* A packet has a layout and a length of three at least.                   *)
LEMMA PacketType ==
    ASSUME NEW p \in W!Packet
    PROVE  p.layout \in W!Layouts /\ p.len \in Nat /\ p.len >= 3
<1>1. p.layout \in W!Layouts /\ p.len \in Lengths
  BY DEF W!Packet
<1>2. p.len \in Nat \ (0 .. 2)
  BY <1>1, WalkAssumption
<1> QED BY <1>1, <1>2

(* The buffers a sender makes: only the last packet may be without length. *)
Filled == {b \in Seq(W!Packet) : b # <<>> /\ \A i \in 1 .. Len(b) - 1 : b[i].layout # "rest"}

(* What the packets of a buffer are.                                       *)
LEMMA FilledTypes ==
    ASSUME NEW b \in Filled
    PROVE  /\ Len(b) \in Nat /\ Len(b) >= 1 /\ DOMAIN b = 1 .. Len(b)
           /\ \A i \in 1 .. Len(b) : /\ b[i] \in W!Packet
                                     /\ b[i].layout \in W!Layouts
                                     /\ b[i].len \in Nat /\ b[i].len >= 3
           /\ \A i \in 1 .. Len(b) : b[i].layout = "rest" => i = Len(b)
<1>1. b \in Seq(W!Packet) /\ b # <<>>
  BY DEF Filled
<1>2. Len(b) \in Nat /\ DOMAIN b = 1 .. Len(b)
  BY <1>1, LenProperties
<1>3. Len(b) # 0
  BY <1>1, EmptySeq
<1>4. \A i \in 1 .. Len(b) : b[i] \in W!Packet
  BY <1>1, ElementOfSeq
<1>5. ASSUME NEW i \in 1 .. Len(b)
      PROVE  b[i].layout \in W!Layouts /\ b[i].len \in Nat /\ b[i].len >= 3
  BY <1>4, PacketType
<1>6. ASSUME NEW i \in 1 .. Len(b), b[i].layout = "rest", i # Len(b)
      PROVE  FALSE
  <2>1. i \in 1 .. Len(b) - 1
    <3> DEFINE n == Len(b)
    <3>1. n \in Nat /\ i \in 1 .. n /\ i # n
      BY <1>2, <1>6
    <3> HIDE DEF n
    <3>2. i \in 1 .. n - 1
      BY <3>1
    <3> QED BY <3>2 DEF n
  <2>2. \A j \in 1 .. Len(b) - 1 : b[j].layout # "rest"
    BY DEF Filled
  <2> QED BY <1>6, <2>1, <2>2
<1>7. Len(b) >= 1
  BY <1>2, <1>3
<1> QED BY <1>2, <1>4, <1>5, <1>6, <1>7

(* The function f says where the first n packets of b start.               *)
StartsOf(b, n, f) == f = [i \in 1 .. n |-> IF i = 1 THEN 0 ELSE f[i - 1] + b[i - 1].len]

(* There is a function that satisfies the recursion.                       *)
LEMMA StartsExist ==
    ASSUME NEW b \in Filled
    PROVE  \E f : StartsOf(b, Len(b) + 1, f)
<1> DEFINE N == Len(b) + 1
           Bad == {n \in 1 .. N : ~\E f : StartsOf(b, n, f)}
<1>0. N \in Nat /\ N >= 1
  BY FilledTypes
<1> HIDE DEF N
<1>1. SUFFICES ASSUME Bad # {} PROVE FALSE
  BY <1>0 DEF N
<1>2. PICK n \in Bad : \A m \in Bad : n <= m
  <2>1. Bad \in SUBSET Nat
    BY <1>0
  <2> HIDE DEF Bad
  <2> QED BY <1>1, <2>1, Least
<1>3. n \in 1 .. N /\ n \in Nat
  BY <1>0
<1>4. n # 1
  <2> DEFINE f == [i \in 1 .. 1 |-> 0]
  <2>1. StartsOf(b, 1, f)
    BY DEF StartsOf
  <2> QED BY <2>1
<1>5. n - 1 \in 1 .. N /\ n - 1 \notin Bad
  BY <1>0, <1>2, <1>3, <1>4
<1>6. PICK f : StartsOf(b, n - 1, f)
  BY <1>5
<1> DEFINE g == [i \in 1 .. n |-> IF i = 1 THEN 0 ELSE f[i - 1] + b[i - 1].len]
<1>7. \A i \in 1 .. n - 1 : g[i] = f[i]
  BY <1>3, <1>6 DEF StartsOf
<1>8. StartsOf(b, n, g)
  <2>1. \A i \in 1 .. n : i # 1 => i - 1 \in 1 .. n - 1
    BY <1>3
  <2>2. \A i \in 1 .. n : i # 1 => g[i - 1] = f[i - 1]
    BY <1>7, <2>1
  <2>3. g = [i \in 1 .. n |-> IF i = 1 THEN 0 ELSE g[i - 1] + b[i - 1].len]
    BY <2>2
  <2> HIDE DEF g
  <2> QED BY <2>3 DEF StartsOf
<1> QED BY <1>8, <1>2

(* A packet starts where the one before it ends.                           *)
LEMMA StartsEquation ==
    ASSUME NEW b \in Filled
    PROVE  /\ W!Starts(b)[1] = 0
           /\ \A i \in 1 .. Len(b) : W!Starts(b)[i + 1] = W!Starts(b)[i] + b[i].len
<1> DEFINE f == W!Starts(b)
<1>1. f = CHOOSE g : StartsOf(b, Len(b) + 1, g)
  BY DEF W!Starts, StartsOf
<1>2. StartsOf(b, Len(b) + 1, f)
  BY <1>1, StartsExist
<1>3. Len(b) \in Nat
  BY FilledTypes
<1> HIDE DEF f
<1>4. \A i \in 1 .. Len(b) + 1 : f[i] = IF i = 1 THEN 0 ELSE f[i - 1] + b[i - 1].len
  BY <1>2, <1>3 DEF StartsOf
<1>5. f[1] = 0
  BY <1>3, <1>4
<1>6. ASSUME NEW i \in 1 .. Len(b)
      PROVE  f[i + 1] = f[i] + b[i].len
  <2>1. i + 1 \in 1 .. Len(b) + 1 /\ i + 1 # 1 /\ (i + 1) - 1 = i
    BY <1>3
  <2> QED BY <1>4, <2>1
<1> QED BY <1>5, <1>6 DEF f

(* Packets lie behind each other, three bytes apart at least.              *)
LEMMA StartsRise ==
    ASSUME NEW b \in Filled
    PROVE  /\ \A i \in 1 .. Len(b) + 1 : W!Starts(b)[i] \in Nat
           /\ \A i, j \in 1 .. Len(b) + 1 : i < j => W!Starts(b)[i] + 3 <= W!Starts(b)[j]
<1> DEFINE f == W!Starts(b)
           N == Len(b) + 1
<1>1. f[1] = 0 /\ \A i \in 1 .. Len(b) : f[i + 1] = f[i] + b[i].len
  BY StartsEquation
<1>2. /\ Len(b) \in Nat
      /\ \A i \in 1 .. Len(b) : b[i].len \in Nat /\ b[i].len >= 3
  BY FilledTypes
<1> HIDE DEF f
<1>3. ASSUME NEW i \in 1 .. N, f[i] \notin Nat PROVE FALSE
  <2> DEFINE Bad == {j \in 1 .. N : f[j] \notin Nat}
  <2>1. Bad # {} /\ Bad \in SUBSET Nat
    BY <1>2, <1>3
  <2>2. PICK n \in Bad : \A m \in Bad : n <= m
    BY <2>1, Least
  <2>3. n # 1
    BY <1>1, <2>2
  <2>4. n - 1 \in 1 .. Len(b) /\ n - 1 \in 1 .. N /\ n - 1 \notin Bad
    BY <1>2, <2>2, <2>3
  <2>5. f[(n - 1) + 1] = f[n - 1] + b[n - 1].len /\ (n - 1) + 1 = n
    BY <1>1, <1>2, <2>4
  <2>6. f[n] \in Nat
    BY <1>2, <2>4, <2>5
  <2> QED BY <2>2, <2>6
<1>4. ASSUME NEW i \in 1 .. N, NEW j \in 1 .. N, i < j, ~(f[i] + 3 <= f[j]) PROVE FALSE
  <2> DEFINE Bad == {k \in 1 .. N : i < k /\ ~(f[i] + 3 <= f[k])}
  <2>1. Bad # {} /\ Bad \in SUBSET Nat
    BY <1>2, <1>4
  <2>2. PICK n \in Bad : \A m \in Bad : n <= m
    BY <2>1, Least
  <2>3. n - 1 \in 1 .. Len(b) /\ n - 1 \in 1 .. N /\ n - 1 \notin Bad
    BY <1>2, <2>2
  <2>4. f[(n - 1) + 1] = f[n - 1] + b[n - 1].len /\ (n - 1) + 1 = n
    BY <1>1, <1>2, <2>3
  <2>5. f[n - 1] \in Nat /\ f[i] \in Nat /\ b[n - 1].len \in Nat /\ b[n - 1].len >= 3
    BY <1>2, <1>3, <2>3
  <2>6. f[i] <= f[n - 1]
    <3>1. i = n - 1 \/ i < n - 1
      BY <1>2, <2>2
    <3> QED BY <2>3, <2>5, <3>1
  <2>7. f[i] + 3 <= f[n]
    <3>1. \A x, y, l \in Nat : x <= y /\ l >= 3 => x + 3 <= y + l
      OBVIOUS
    <3>2. f[n] = f[n - 1] + b[n - 1].len
      BY <2>4
    <3> HIDE DEF f, Bad
    <3> QED BY <2>5, <2>6, <3>1, <3>2, Zenon
  <2> QED BY <2>2, <2>7
<1> QED BY <1>3, <1>4 DEF f

(* What holds between two calls: the packet at hand lies in the buffer,    *)
(* and if the lengths agree it is the packet of that number.               *)
WalkInv ==
    /\ buffer \in Filled /\ word \in [at3 : Words, at5 : Words]
    /\ W!TypeOK /\ W!MovesOn /\ W!VisitsEveryPacket
    /\ more = "first" => count = 0 /\ offset = 0
    /\ more = "TRUE" => offset + length <= W!size
    /\ W!Uniform /\ more = "TRUE" => count \in 1 .. Len(buffer)

(* The walk begins before the first packet.                                *)
LEMMA WalkStarts == W!Init => WalkInv
<1> SUFFICES ASSUME W!Init PROVE WalkInv
  OBVIOUS
<1>1. PICK k \in 1 .. MaxInBuffer : buffer \in [1 .. k -> W!Packet]
  BY DEF W!Init
<1>2. k \in Nat /\ k >= 1
  BY WalkAssumption
<1>3. buffer \in Seq(W!Packet) /\ Len(buffer) = k
  BY <1>1, <1>2, SeqDef
<1>4. buffer \in Filled
  BY <1>2, <1>3, EmptySeq DEF W!Init, W!WellFormed, Filled
<1>5. W!size \in Nat
  <2>1. Len(buffer) + 1 \in 1 .. Len(buffer) + 1
    BY <1>2, <1>3
  <2> QED BY <1>4, <2>1, StartsRise DEF W!size, W!start
<1> QED BY <1>4, <1>5 DEF W!Init, WalkInv, W!TypeOK, W!MovesOn, W!VisitsEveryPacket

(* A packet is found if there are three bytes for a header that is known,  *)
(* and its length fits in.                                                 *)
LEMMA ReadCases ==
    ASSUME NEW o, W!read_packet_header(o)
    PROVE  \/ o + 3 > W!size /\ more' = "FALSE" /\ length' = length /\ count' = count
           \/ /\ o + 3 <= W!size
              /\ \E h \in W!Headers(o) :
                    \/ /\ h.layout # "unknown" /\ W!Fits(W!packet_length(h, o), o)
                       /\ length' = W!packet_length(h, o) /\ count' = count + 1
                       /\ more' = "TRUE"
                    \/ /\ ~(h.layout # "unknown" /\ W!Fits(W!packet_length(h, o), o))
                       /\ length' \in {0, length} /\ more' = "FALSE" /\ count' = count
<1>1. CASE o + 3 > W!size /\ more' = "FALSE" /\ UNCHANGED <<length, count>>
  BY <1>1
<1>2. ASSUME o + 3 <= W!size, NEW h \in W!Headers(o),
             LET l == W!packet_length(h, o) IN
             \/ /\ h.layout # "unknown" /\ W!Fits(l, o)
                /\ length' = l /\ count' = count + 1
                /\ more' = "TRUE"
             \/ /\ h.layout # "unknown" /\ ~W!Fits(l, o)
                /\ more' = "FALSE" /\ length' = 0 /\ UNCHANGED count
             \/ /\ h.layout = "unknown"
                /\ more' = "FALSE" /\ UNCHANGED <<length, count>>
      PROVE  \/ /\ h.layout # "unknown" /\ W!Fits(W!packet_length(h, o), o)
                /\ length' = W!packet_length(h, o) /\ count' = count + 1
                /\ more' = "TRUE"
             \/ /\ ~(h.layout # "unknown" /\ W!Fits(W!packet_length(h, o), o))
                /\ length' \in {0, length} /\ more' = "FALSE" /\ count' = count
  BY <1>2
<1> QED BY <1>1, <1>2, Zenon DEF W!read_packet_header

(* A call at an offset in the buffer finds a packet in it, or ends.        *)
LEMMA ReadInside ==
    ASSUME WalkInv, NEW o \in 0 .. W!size, W!read_packet_header(o)
    PROVE  /\ length' \in Nat /\ count' \in Nat /\ more' \in {"TRUE", "FALSE"}
           /\ more' = "TRUE" => o + length' <= W!size
           /\ more' = "TRUE" /\ word.at3 # 0 /\ word.at5 # 0 => length' > 0
<1>1. W!size \in Nat /\ length \in Nat /\ count \in Nat
  <2>1. Len(buffer) + 1 \in 1 .. Len(buffer) + 1
    BY FilledTypes DEF WalkInv
  <2> QED BY <2>1, StartsRise DEF WalkInv, W!size, W!start, W!TypeOK
<1>2. word.at3 \in Nat /\ word.at5 \in Nat
  BY WalkAssumption DEF WalkInv
<1>3. CASE o + 3 > W!size
  <2>1. ~(o + 3 <= W!size)
    BY <1>1, <1>3
  <2>2. more' = "FALSE" /\ length' = length /\ count' = count
    BY <2>1, ReadCases, Zenon
  <2> QED BY <1>1, <2>2
<1>4. CASE o + 3 <= W!size
  <2>1. PICK h \in W!Headers(o) :
          \/ /\ h.layout # "unknown" /\ W!Fits(W!packet_length(h, o), o)
             /\ length' = W!packet_length(h, o) /\ count' = count + 1
             /\ more' = "TRUE"
          \/ /\ ~(h.layout # "unknown" /\ W!Fits(W!packet_length(h, o), o))
             /\ length' \in {0, length} /\ more' = "FALSE" /\ count' = count
    <3>1. ~(o + 3 > W!size)
      BY <1>1, <1>4
    <3> QED BY <3>1, ReadCases, Zenon
  <2>2. CASE h.layout # "unknown" /\ W!Fits(W!packet_length(h, o), o)
    <3>1. h \in W!Packet
      <4>1. \A i \in DOMAIN buffer : buffer[i] \in W!Packet
        BY FilledTypes DEF WalkInv
      <4> QED BY <2>1, <2>2, <4>1 DEF W!Headers
    <3>2. h.layout \in W!Layouts /\ h.len \in Nat /\ h.len >= 3
        BY <3>1, PacketType
    <3>3. /\ W!packet_length(h, o) \in Nat
          /\ word.at3 # 0 /\ word.at5 # 0 => W!packet_length(h, o) > 0
      BY <1>1, <1>2, <1>4, <3>2 DEF W!packet_length, W!Layouts
    <3>4. length' = W!packet_length(h, o) /\ count' = count + 1 /\ more' = "TRUE"
      BY <2>1, <2>2
    <3>5. o + W!packet_length(h, o) <= W!size
      BY <1>1, <2>2, <3>3 DEF W!Fits
    <3> QED BY <1>1, <3>3, <3>4, <3>5
  <2>3. CASE ~(h.layout # "unknown" /\ W!Fits(W!packet_length(h, o), o))
    BY <1>1, <2>1, <2>3
  <2> QED BY <2>2, <2>3
<1> QED BY <1>1, <1>3, <1>4

(* Where a packet starts, the call finds that packet; behind the last one  *)
(* it finds none.                                                          *)
LEMMA ReadFinds ==
    ASSUME WalkInv, W!Uniform, NEW i \in 1 .. Len(buffer) + 1,
           W!read_packet_header(W!start[i])
    PROVE  /\ i <= Len(buffer) => /\ more' = "TRUE" /\ length' = buffer[i].len
                                  /\ count' = count + 1
           /\ i = Len(buffer) + 1 => more' = "FALSE" /\ count' = count
<1> DEFINE n == Len(buffer)
           f == W!start
<1>1. /\ buffer \in Filled /\ n \in Nat /\ n >= 1 /\ DOMAIN buffer = 1 .. n
      /\ \A j \in 1 .. n : /\ buffer[j] \in W!Packet
                           /\ buffer[j].layout \in W!Layouts
                           /\ buffer[j].len \in Nat /\ buffer[j].len >= 3
      /\ \A j \in 1 .. n : buffer[j].layout = "rest" => j = n
  BY FilledTypes DEF WalkInv
<1>2. /\ \A j \in 1 .. n + 1 : f[j] \in Nat
      /\ \A j, k \in 1 .. n + 1 : j < k => f[j] + 3 <= f[k]
      /\ \A j \in 1 .. n : f[j + 1] = f[j] + buffer[j].len
      /\ W!size = f[n + 1]
  BY <1>1, StartsRise, StartsEquation DEF W!start, W!size
<1>0. i \in 1 .. n + 1
  OBVIOUS
<1> HIDE DEF f, n
<1>3. CASE i = n + 1
  <2>1. f[i] \in Nat /\ f[i] = W!size
    BY <1>1, <1>2, <1>3
  <2>2. f[i] + 3 > W!size
    BY <2>1
  <2>3. ~(f[i] + 3 <= W!size)
    BY <2>1, <2>2
  <2>4. more' = "FALSE" /\ count' = count
    BY <2>3, ReadCases, Zenon DEF f
  <2>5. ~(i <= n)
    BY <1>1, <1>3
  <2> QED BY <2>4, <2>5, Zenon DEF n
<1>4. CASE i <= n
  <2>1. i \in 1 .. n /\ i \in 1 .. n + 1 /\ i + 1 \in 1 .. n + 1 /\ n + 1 \in 1 .. n + 1
    BY <1>0, <1>1, <1>4
  <2>2. f[i] + 3 <= W!size
    BY <1>1, <1>2, <2>1
  <2>3. W!Headers(f[i]) = {buffer[i]}
    <3>1. \A j \in 1 .. n : f[j] = f[i] => j = i
      <4> SUFFICES ASSUME NEW j \in 1 .. n, f[j] = f[i], j # i PROVE FALSE
        OBVIOUS
      <4>1. j \in 1 .. n + 1 /\ f[i] \in Nat /\ f[j] \in Nat
        BY <1>1, <1>2, <2>1
      <4>2. j < i \/ i < j
        BY <1>1, <2>1
      <4> QED BY <1>2, <2>1, <4>1, <4>2
    <3>2. i \in DOMAIN buffer
      BY <1>1, <2>1
    <3>3. {buffer[j] : j \in {j \in DOMAIN buffer : f[j] = f[i]}} = {buffer[i]}
      BY <1>1, <3>1, <3>2
    <3> QED BY <3>2, <3>3 DEF W!Headers, f
  <2>4. W!packet_length(buffer[i], f[i]) = buffer[i].len
    <3>1. CASE buffer[i].layout \in {"at3", "at5"}
      BY <1>1, <2>1, <3>1 DEF W!packet_length, W!Uniform
    <3>2. CASE buffer[i].layout = "fixed"
      BY <3>2 DEF W!packet_length
    <3>3. CASE buffer[i].layout = "rest"
      <4>1. i = n
        BY <1>1, <2>1, <3>3
      <4>2. W!size = f[i] + buffer[i].len /\ f[i] \in Nat /\ buffer[i].len \in Nat
        BY <1>1, <1>2, <2>1, <4>1
      <4>3. W!packet_length(buffer[i], f[i]) = W!size - f[i]
        BY <3>3 DEF W!packet_length
      <4> QED BY <4>2, <4>3
    <3> QED BY <1>1, <2>1, <3>1, <3>2, <3>3 DEF W!Layouts
  <2>5. W!Fits(buffer[i].len, f[i])
    <3>1. f[i + 1] = f[i] + buffer[i].len /\ f[i] \in Nat /\ buffer[i].len \in Nat
      BY <1>1, <1>2, <2>1
    <3>2. f[i + 1] <= f[n + 1]
      <4>1. i + 1 = n + 1 \/ i + 1 < n + 1
        BY <1>1, <2>1
      <4>2. f[i + 1] \in Nat /\ f[n + 1] \in Nat
        BY <1>2, <2>1
      <4> QED BY <1>2, <2>1, <4>1, <4>2
    <3> QED BY <1>2, <3>1, <3>2 DEF W!Fits
  <2>6. buffer[i].layout # "unknown"
    BY <1>1, <2>1 DEF W!Layouts
  <2>7. ~(f[i] + 3 > W!size)
    BY <1>1, <1>2, <2>1, <2>2
  <2>8. PICK h \in W!Headers(f[i]) :
          \/ /\ h.layout # "unknown" /\ W!Fits(W!packet_length(h, f[i]), f[i])
             /\ length' = W!packet_length(h, f[i]) /\ count' = count + 1
             /\ more' = "TRUE"
          \/ /\ ~(h.layout # "unknown" /\ W!Fits(W!packet_length(h, f[i]), f[i]))
             /\ length' \in {0, length} /\ more' = "FALSE" /\ count' = count
    BY <2>7, ReadCases, Zenon DEF f
  <2>9. h = buffer[i]
    BY <2>3
  <2>10. length' = buffer[i].len /\ count' = count + 1 /\ more' = "TRUE"
    BY <2>4, <2>5, <2>6, <2>8, <2>9
  <2>11. i # n + 1
    BY <1>1, <1>4
  <2> QED BY <2>10, <2>11, Zenon DEF n
<1> QED BY <1>1, <1>3, <1>4 DEF n

(* Both calls keep the invariant.                                          *)
LEMMA WalkGoesOn == WalkInv /\ W!Next => WalkInv'
<1> SUFFICES ASSUME WalkInv, W!Next PROVE WalkInv'
  OBVIOUS
<1>1. buffer' = buffer /\ word' = word
  BY DEF W!Next, W!gst_rdt_buffer_get_first_packet, W!gst_rdt_packet_move_to_next
<1>2. W!start' = W!start /\ W!size' = W!size /\ W!Uniform' = W!Uniform
  BY <1>1 DEF W!start, W!size, W!Uniform
<1>3. offset' \in 0 .. W!size /\ W!read_packet_header(offset')
  <2>1. CASE W!gst_rdt_buffer_get_first_packet
    <3>1. offset' = offset /\ W!read_packet_header(0) /\ more = "first"
      BY <2>1 DEF W!gst_rdt_buffer_get_first_packet
    <3> QED BY <3>1 DEF WalkInv, W!TypeOK
  <2>2. CASE W!gst_rdt_packet_move_to_next
    BY <2>2 DEF W!gst_rdt_packet_move_to_next, WalkInv, W!TypeOK
  <2> QED BY <2>1, <2>2 DEF W!Next
<1>4. /\ length' \in Nat /\ count' \in Nat /\ more' \in {"TRUE", "FALSE"}
      /\ more' = "TRUE" => offset' + length' <= W!size
      /\ more' = "TRUE" /\ word.at3 # 0 /\ word.at5 # 0 => length' > 0
  BY <1>3, ReadInside
<1>5. ASSUME W!Uniform
      PROVE  /\ more' = "TRUE" => /\ offset' = W!start[count'] /\ length' = buffer[count'].len
                                  /\ count' \in 1 .. Len(buffer)
             /\ more' = "FALSE" => count' = Len(buffer)
  <2>1. Len(buffer) \in Nat /\ Len(buffer) >= 1
    BY FilledTypes DEF WalkInv
  <2>2. PICK i \in 1 .. Len(buffer) + 1 : offset' = W!start[i] /\ i = count + 1
    <3>1. CASE W!gst_rdt_buffer_get_first_packet
      BY <2>1, <3>1, StartsEquation DEF WalkInv, W!gst_rdt_buffer_get_first_packet, W!start
    <3>2. CASE W!gst_rdt_packet_move_to_next
      <4>1. count \in 1 .. Len(buffer) /\ offset = W!start[count] /\ length = buffer[count].len
        BY <1>5, <3>2 DEF WalkInv, W!VisitsEveryPacket, W!gst_rdt_packet_move_to_next
      <4>2. offset' = W!start[count + 1]
        BY <3>2, <4>1, StartsEquation DEF WalkInv, W!gst_rdt_packet_move_to_next, W!start
      <4> QED BY <2>1, <4>1, <4>2
    <3> QED BY <3>1, <3>2 DEF W!Next
  <2>3. W!read_packet_header(W!start[i])
    BY <1>3, <2>2
  <2>4. count \in Nat
    BY DEF WalkInv, W!TypeOK
  <2> QED BY <1>5, <2>1, <2>2, <2>3, <2>4, ReadFinds
<1>6. W!TypeOK'
  BY <1>2, <1>3, <1>4 DEF W!TypeOK
<1>7. W!MovesOn'
  BY <1>1, <1>4 DEF W!MovesOn
<1>8. W!VisitsEveryPacket'
  BY <1>1, <1>2, <1>5 DEF W!VisitsEveryPacket
<1> QED BY <1>1, <1>2, <1>4, <1>5, <1>6, <1>7, <1>8 DEF WalkInv

(* The walk stays in the buffer and moves on; where the lengths in the     *)
(* headers agree it finds every packet and ends (gst_rdt_packet_move_to_next). *)
THEOREM WalkVisits == MCSpec => []VisitsEveryPacket
<1>1. MCInit => (part = "walk" => WalkInv)
  BY WalkStarts DEF MCInit
<1>2. (part = "walk" => WalkInv) /\ [Element \/ Walk]_<<part, vars, wvars>>
        => (part = "walk" => WalkInv)'
  <2> SUFFICES ASSUME part = "walk" => WalkInv, [Element \/ Walk]_<<part, vars, wvars>>,
                      part' = "walk"
               PROVE  WalkInv'
    OBVIOUS
  <2>1. CASE Element
    BY <2>1 DEF Element
  <2>2. CASE Walk
    BY <2>2, WalkGoesOn DEF Walk
  <2>3. CASE UNCHANGED <<part, vars, wvars>>
    <3>1. part = "walk" /\ UNCHANGED <<buffer, word, offset, length, more, count>>
      BY <2>3 DEF wvars
    <3>2. W!start' = W!start /\ W!size' = W!size /\ W!Uniform' = W!Uniform
      BY <3>1 DEF W!start, W!size, W!Uniform
    <3> QED BY <3>1, <3>2 DEF WalkInv, W!TypeOK, W!MovesOn, W!VisitsEveryPacket
  <2> QED BY <2>1, <2>2, <2>3
<1>3. (part = "walk" => WalkInv) => VisitsEveryPacket
  BY DEF VisitsEveryPacket, WalkInv
<1> QED BY <1>1, <1>2, <1>3, PTL DEF MCSpec

=============================================================================
