---------------------------- MODULE RMDemuxProofs ----------------------------
(***************************************************************************)
(* Proofs about the RealMedia demuxer, for every file, index and seek, and *)
(* about the times it rebuilds, for every width of the numbers.            *)
(*                                                                         *)
(* RMInv and NothingBeforeSeek are inductive together: the adapter begins  *)
(* where the demuxer says, what it holds reaches to the place the task     *)
(* pulls from, and each of the flags a seek leaves behind has the seek, or *)
(* the packet, that will clear it.  The position of a packet is a          *)
(* recursive function, whose equation is proved by the least number for    *)
(* which there is no such function.                                        *)
(***************************************************************************)
EXTENDS MCRMDemux, SequenceTheorems, WellFoundedInduction, TLAPS

(* A nonempty set of natural numbers has a least element.                  *)
LEMMA Least ==
    ASSUME NEW V \in SUBSET Nat, V # {}
    PROVE  \E x \in V : \A y \in V : x <= y
  <1>1. PICK x \in V : \A y \in V : <<y, x>> \notin OpToRel(<, Nat)
    BY WFMin, NatLessThanWellFounded
  <1>2. \A y \in V : ~(y < x)
    BY <1>1 DEF OpToRel
  <1> QED BY <1>2

(* What the packets are.                                                   *)
LEMMA PacketTypes ==
    /\ Len(Packets) \in Nat
    /\ \A i \in 1..Len(Packets) : /\ Packets[i].stream \in Streams
                                  /\ Packets[i].units \in Nat /\ Packets[i].units >= 3
  <1>1. Packets \in Seq([stream : Streams, ts : Nat, units : Nat \ (0..2)])
    BY RMAssumption
  <1>2. Len(Packets) \in Nat
    BY <1>1, LenProperties
  <1>3. \A i \in 1..Len(Packets) : Packets[i] \in [stream : Streams, ts : Nat, units : Nat \ (0..2)]
    BY <1>1, ElementOfSeq
  <1> QED BY <1>2, <1>3

(* The positions of the first n packets.                                   *)
Positions(n, f) ==
    f = [i \in 1..n |-> IF i = 1 THEN DataStart + 2 ELSE f[i - 1] + Packets[i - 1].units]

(* There is a function that satisfies the recursion.                       *)
LEMMA PositionsExist == \E f : Positions(Len(Packets) + 1, f)
  <1> DEFINE N == Len(Packets) + 1
             Bad == {n \in 1..N : ~\E f : Positions(n, f)}
  <1>0. N \in Nat /\ N >= 1
    BY PacketTypes
  <1> HIDE DEF N
  <1>1. SUFFICES ASSUME Bad # {} PROVE FALSE
    BY <1>0 DEF N
  <1>2. PICK n \in Bad : \A m \in Bad : n <= m
    <2>1. Bad \in SUBSET Nat
      BY <1>0
    <2> HIDE DEF Bad
    <2> QED BY <1>1, <2>1, Least
  <1>3. n \in 1..N /\ n \in Nat
    BY <1>0
  <1>4. n # 1
    <2> DEFINE f == [i \in 1..1 |-> DataStart + 2]
    <2>1. Positions(1, f)
      BY DEF Positions
    <2> QED BY <2>1
  <1>5. n - 1 \in 1..N /\ n - 1 \notin Bad
    BY <1>0, <1>2, <1>3, <1>4
  <1>6. PICK f : Positions(n - 1, f)
    BY <1>5
  <1> DEFINE g == [i \in 1..n |-> IF i = 1 THEN DataStart + 2
                                  ELSE f[i - 1] + Packets[i - 1].units]
  <1>7. \A i \in 1..n - 1 : g[i] = f[i]
    BY <1>3, <1>6 DEF Positions
  <1>8. Positions(n, g)
    <2>1. \A i \in 1..n : i # 1 => i - 1 \in 1..n - 1
      BY <1>3
    <2>2. \A i \in 1..n : i # 1 => g[i - 1] = f[i - 1]
      BY <1>7, <2>1
    <2>3. g = [i \in 1..n |-> IF i = 1 THEN DataStart + 2 ELSE g[i - 1] + Packets[i - 1].units]
      BY <2>2
    <2> HIDE DEF g
    <2> QED BY <2>3 DEF Positions
  <1> QED BY <1>8, <1>2

(* The recursion of `position'.                                            *)
LEMMA PositionEquation ==
    /\ position[1] = DataStart + 2
    /\ \A i \in 1..Len(Packets) : position[i + 1] = position[i] + Packets[i].units
  <1>1. position = CHOOSE f : Positions(Len(Packets) + 1, f)
    BY DEF position, Positions
  <1>2. Positions(Len(Packets) + 1, position)
    BY <1>1, PositionsExist
  <1>3. Len(Packets) \in Nat
    BY PacketTypes
  <1>4. \A i \in 1..Len(Packets) + 1 : position[i] =
            IF i = 1 THEN DataStart + 2 ELSE position[i - 1] + Packets[i - 1].units
    BY <1>2, <1>3 DEF Positions
  <1>5. position[1] = DataStart + 2
    BY <1>3, <1>4
  <1>6. ASSUME NEW i \in 1..Len(Packets)
        PROVE  position[i + 1] = position[i] + Packets[i].units
    <2>1. i + 1 \in 1..Len(Packets) + 1 /\ i + 1 # 1 /\ (i + 1) - 1 = i
      BY <1>3
    <2> QED BY <1>4, <2>1
  <1> QED BY <1>5, <1>6

(* Packets follow each other behind the DATA header.                       *)
LEMMA PositionType ==
    /\ \A i \in 1..Len(Packets) + 1 : position[i] \in Nat /\ position[i] >= DataStart + 2
    /\ \A i \in 1..Len(Packets) : position[i] + Packets[i].units <= DataEnd
    /\ DataEnd \in Nat /\ DataEnd >= DataStart + 2
  <1> DEFINE N == Len(Packets) + 1
  <1>0. N \in Nat /\ N >= 1 /\ Len(Packets) \in Nat
    BY PacketTypes
  <1>1. ASSUME NEW i \in 1..N, ~(position[i] \in Nat /\ position[i] >= DataStart + 2)
        PROVE  FALSE
    <2> DEFINE Bad == {j \in 1..N : ~(position[j] \in Nat /\ position[j] >= DataStart + 2)}
    <2>1. Bad # {} /\ Bad \in SUBSET Nat
      BY <1>0, <1>1
    <2>2. PICK n \in Bad : \A m \in Bad : n <= m
      BY <2>1, Least
    <2>3. n # 1
      BY PositionEquation DEF DataStart
    <2>4. n - 1 \in 1..Len(Packets) /\ n - 1 \in 1..N /\ n - 1 \notin Bad
      BY <1>0, <2>2, <2>3
    <2>5. position[(n - 1) + 1] = position[n - 1] + Packets[n - 1].units
      BY <2>4, PositionEquation
    <2>6. (n - 1) + 1 = n
      BY <1>0
    <2>7. position[n] \in Nat /\ position[n] >= DataStart + 2
      BY <2>4, <2>5, <2>6, PacketTypes DEF DataStart
    <2> QED BY <2>2, <2>7
  <1>2. DataEnd \in Nat /\ DataEnd >= DataStart + 2
    BY <1>0, <1>1 DEF DataEnd
  <1>3. ASSUME NEW i \in 1..Len(Packets), ~(position[i] + Packets[i].units <= DataEnd)
        PROVE  FALSE
    <2> DEFINE Bad == {j \in 1..N : j > i /\ position[j] >= position[i + 1]}
    <2> DEFINE Rev == {N - j : j \in Bad}
    <2>1. i + 1 \in Bad
      BY <1>0, <1>1
    <2>2. Rev \in SUBSET Nat /\ Rev # {}
      BY <1>0, <2>1
    <2>3. PICK r \in Rev : \A m \in Rev : r <= m
      BY <2>2, Least
    <2>4. PICK n \in Bad : r = N - n
      BY <2>3
    <2>5. ASSUME NEW m \in Bad PROVE m <= n
      <3>1. N - m \in Rev /\ m \in 1..N /\ n \in 1..N
        BY <2>4
      <3>2. N - n <= N - m
        BY <2>3, <2>4, <3>1
      <3> QED BY <1>0, <3>1, <3>2
    <2>6. n = N
      <3> SUFFICES ASSUME n # N PROVE FALSE
        OBVIOUS
      <3>1. n \in 1..Len(Packets) /\ n + 1 \in 1..N /\ i + 1 \in 1..N
        BY <1>0, <2>4
      <3>2. position[n + 1] = position[n] + Packets[n].units
        BY <3>1, PositionEquation
      <3>3. position[n + 1] >= position[i + 1]
        <4>1. position[n] \in Nat /\ position[i + 1] \in Nat /\ Packets[n].units \in Nat
          BY <1>1, <3>1, PacketTypes
        <4>2. position[n] >= position[i + 1]
          BY <2>4
        <4>3. \A a, b, c \in Nat : a >= b => a + c >= b
          OBVIOUS
        <4> HIDE DEF Bad, Rev, position
        <4> QED BY <3>2, <4>1, <4>2, <4>3, Zenon
      <3>4. n + 1 \in Bad
        BY <1>0, <2>4, <3>1, <3>3
      <3> QED BY <1>0, <2>5, <3>4
    <2>7. position[N] >= position[i + 1]
      BY <2>4, <2>6
    <2> QED BY <1>3, <2>7, PositionEquation DEF DataEnd
  <1> QED BY <1>0, <1>1, <1>2, <1>3

(* What PacketAt finds.                                                    *)
LEMMA PacketAtFinds ==
    ASSUME NEW u \in Nat, PacketAt(u) # NoPacket
    PROVE  PacketAt(u) \in 1..Len(Packets) /\ position[PacketAt(u)] = u
  BY DEF PacketAt

(* Behind a packet comes the next one, or the end of the data; behind the  *)
(* DATA header the first.                                                  *)
LEMMA PacketFollows ==
    /\ PacketAt(DataStart + 2) # NoPacket \/ DataStart + 2 = DataEnd
    /\ \A u \in Nat : PacketAt(u) # NoPacket =>
          LET next_u == u + Packets[PacketAt(u)].units
          IN  /\ next_u \in Nat /\ u + 3 <= next_u /\ next_u <= DataEnd /\ u >= DataStart + 2
              /\ PacketAt(next_u) # NoPacket \/ next_u = DataEnd
              /\ Packets[PacketAt(u)].stream \in Streams
  <1>0. Len(Packets) \in Nat
    BY PacketTypes
  <1>1. ASSUME NEW i \in 1..Len(Packets) PROVE PacketAt(position[i]) # NoPacket
    <2> DEFINE I == {j \in 1..Len(Packets) : position[j] = position[i]}
    <2>1. i \in I /\ \A j \in I : j # NoPacket
      BY <1>0 DEF NoPacket
    <2>2. PacketAt(position[i]) = CHOOSE j \in I : TRUE
      BY <2>1 DEF PacketAt
    <2> QED BY <2>1, <2>2
  <1>2. \A i \in 1..Len(Packets) + 1 : PacketAt(position[i]) # NoPacket \/ position[i] = DataEnd
    BY <1>0, <1>1 DEF DataEnd
  <1>3. PacketAt(DataStart + 2) # NoPacket \/ DataStart + 2 = DataEnd
    BY <1>0, <1>2, PositionEquation
  <1>4. ASSUME NEW u \in Nat, PacketAt(u) # NoPacket
        PROVE  LET next_u == u + Packets[PacketAt(u)].units
               IN  /\ next_u \in Nat /\ u + 3 <= next_u /\ next_u <= DataEnd
                   /\ u >= DataStart + 2
                   /\ PacketAt(next_u) # NoPacket \/ next_u = DataEnd
                   /\ Packets[PacketAt(u)].stream \in Streams
    <2> DEFINE p == PacketAt(u)
    <2>1. p \in 1..Len(Packets) /\ position[p] = u
      BY <1>4, PacketAtFinds
    <2> HIDE DEF p
    <2>2. p + 1 \in 1..Len(Packets) + 1 /\ position[p + 1] = u + Packets[p].units
      BY <1>0, <2>1, PositionEquation
    <2>3. Packets[p].units \in Nat /\ Packets[p].units >= 3 /\ Packets[p].stream \in Streams
      BY <2>1, PacketTypes
    <2>4. PacketAt(u + Packets[p].units) # NoPacket \/ u + Packets[p].units = DataEnd
      BY <1>2, <2>2
    <2>5. u + Packets[p].units <= DataEnd /\ u >= DataStart + 2
      BY <1>0, <2>1, PositionType
    <2>6. u + Packets[p].units \in Nat /\ u + 3 <= u + Packets[p].units
      BY <2>3
    <2> QED BY <2>3, <2>4, <2>5, <2>6 DEF p
  <1> QED BY <1>3, <1>4
(* The end of the file lies behind the data.                               *)
LEMMA FileEndType == FileEnd \in Nat /\ DataEnd <= FileEnd /\ DataEnd \in Nat /\ DataEnd >= 3
  BY PositionType DEF FileEnd, DataStart

(* Max picks a member.                                                     *)
LEMMA MaxIn ==
    ASSUME NEW n \in Nat, NEW S \in SUBSET (1..n), S # {}
    PROVE  Max(S) \in S
  <1> DEFINE Rev == {n - x : x \in S}
  <1>1. Rev \in SUBSET Nat /\ Rev # {}
    <2>1. \A x \in S : n - x \in Nat
      OBVIOUS
    <2>2. PICK x \in S : TRUE
      OBVIOUS
    <2> QED BY <2>1, <2>2
  <1>2. PICK r \in Rev : \A y \in Rev : r <= y
    BY <1>1, Least
  <1>3. PICK x \in S : r = n - x
    BY <1>2
  <1>4. ASSUME NEW y \in S PROVE x >= y
    <2>1. n - y \in Rev
      OBVIOUS
    <2>2. n - x <= n - y
      BY <1>2, <1>3, <2>1
    <2> QED BY <2>2
  <1> QED BY <1>3, <1>4 DEF Max

(* Min picks a member.                                                     *)
LEMMA MinIn ==
    ASSUME NEW S \in SUBSET Nat, S # {}
    PROVE  Min(S) \in S
  BY Least DEF Min

(* Streams and index entries.                                              *)
LEMMA EntryTypes ==
    /\ Len(Index) \in Nat /\ Streams \subseteq Nat
    /\ \A s \in Streams : \E n \in Nat :
          /\ DOMAIN Entries(s) = 1..n
          /\ \A i \in 1..n : Entries(s)[i].ts \in Nat /\ Entries(s)[i].offset \in Nat
  <1>1. Index \in Seq(Seq(Entry))
    BY RMAssumption
  <1>2. Len(Index) \in Nat
    BY <1>1, LenProperties
  <1>3. Streams \subseteq Nat
    BY <1>2 DEF Streams
  <1>4. ASSUME NEW s \in Streams
        PROVE  \E n \in Nat : /\ DOMAIN Entries(s) = 1..n
                              /\ \A i \in 1..n : /\ Entries(s)[i].ts \in Nat
                                                 /\ Entries(s)[i].offset \in Nat
    <2>1. Entries(s) \in Seq(Entry)
      <3>1. Index[s] \in Seq(Entry)
        BY <1>1, ElementOfSeq DEF Streams
      <3>2. << >> \in Seq(Entry)
        OBVIOUS
      <3> QED BY <3>1, <3>2 DEF Entries
    <2>2. Len(Entries(s)) \in Nat /\ DOMAIN Entries(s) = 1..Len(Entries(s))
      BY <2>1, LenProperties
    <2>3. \A i \in 1..Len(Entries(s)) : Entries(s)[i] \in Entry
      BY <2>1, ElementOfSeq
    <2>4. \A e \in Entry : e.ts \in Nat /\ e.offset \in Nat
      BY DEF Entry
    <2> QED BY <2>2, <2>3, <2>4
  <1> QED BY <1>2, <1>3, <1>4

(* What the search finds are entries.                                      *)
LEMMA FoundTypes ==
    ASSUME NEW entries, \A s \in Streams : entries[s] \subseteq DOMAIN Entries(s)
    PROVE  /\ DOMAIN Found(entries) \subseteq Streams
           /\ \A s \in DOMAIN Found(entries) :
                 Found(entries)[s].ts \in Nat /\ Found(entries)[s].offset \in Nat
  <1> DEFINE D == {t \in Streams : entries[t] # {}}
  <1>1. DOMAIN Found(entries) = D /\ \A s \in D : Found(entries)[s] = Entries(s)[Max(entries[s])]
    BY DEF Found
  <1>2. ASSUME NEW s \in D
        PROVE  Found(entries)[s].ts \in Nat /\ Found(entries)[s].offset \in Nat
    <2>1. PICK n \in Nat :
             /\ DOMAIN Entries(s) = 1..n
             /\ \A i \in 1..n : Entries(s)[i].ts \in Nat /\ Entries(s)[i].offset \in Nat
      BY EntryTypes
    <2>2. entries[s] \in SUBSET (1..n) /\ entries[s] # {}
      BY <2>1
    <2>3. Max(entries[s]) \in 1..n
      BY <2>2, MaxIn
    <2> QED BY <1>1, <2>1, <2>3
  <1> QED BY <1>1, <1>2

(* The target of a seek is a natural number.                               *)
LEMMA TargetTypes ==
    ASSUME TypeOK, NEW entries, \A s \in Streams : entries[s] \subseteq DOMAIN Entries(s)
    PROVE  /\ SeekOffsets(Found(entries)) \in [Streams -> Nat]
           /\ DOMAIN Found(entries) # {} =>
                 /\ find_seek_offset_time(Found(entries)) \in Nat
                 /\ find_seek_offset_bytes(Found(entries)) \in Nat
  <1> DEFINE found == Found(entries)
  <1>1. /\ DOMAIN found \subseteq Streams
        /\ \A s \in DOMAIN found : found[s].ts \in Nat /\ found[s].offset \in Nat
    BY FoundTypes
  <1> HIDE DEF found
  <1>2. SeekOffsets(found) \in [Streams -> Nat]
    BY <1>1 DEF SeekOffsets, TypeOK
  <1>3. ASSUME DOMAIN found # {} PROVE find_seek_offset_time(found) \in Nat
    <2> DEFINE Times == {found[s].ts : s \in DOMAIN found}
               P(s) == \A t \in DOMAIN found :
                          found[s].ts < found[t].ts \/ (found[s].ts = found[t].ts /\ s <= t)
    <2>1. Times \in SUBSET Nat /\ Times # {}
      BY <1>1, <1>3
    <2>2. PICK m \in Times : \A y \in Times : m <= y
      BY <2>1, Least
    <2> DEFINE S == {s \in DOMAIN found : found[s].ts = m}
    <2>3. S \in SUBSET Nat /\ S # {}
      BY <1>1, <2>2, EntryTypes
    <2>4. PICK s \in S : \A y \in S : s <= y
      BY <2>3, Least
    <2>5. s \in DOMAIN found /\ P(s)
      <3>1. s \in DOMAIN found /\ found[s].ts = m
        BY <2>4
      <3>2. ASSUME NEW t \in DOMAIN found
            PROVE  found[s].ts < found[t].ts \/ (found[s].ts = found[t].ts /\ s <= t)
        <4>1. found[t].ts \in Times /\ found[t].ts \in Nat /\ m \in Nat
          BY <1>1, <2>1, <2>2
        <4>2. m <= found[t].ts
          BY <2>2, <4>1
        <4>3. found[t].ts = m => s <= t
          BY <2>4
        <4> QED BY <3>1, <4>1, <4>2, <4>3
      <3> QED BY <3>1, <3>2
    <2> DEFINE c == CHOOSE x \in DOMAIN found : P(x)
    <2>6. c \in DOMAIN found
      <3> HIDE DEF P
      <3> QED BY <2>5
    <2>7. find_seek_offset_time(found) = found[c].offset
      BY DEF find_seek_offset_time
    <2> QED BY <1>1, <2>6, <2>7
  <1>4. ASSUME DOMAIN found # {} PROVE find_seek_offset_bytes(found) \in Nat
    <2>1. DOMAIN found \in SUBSET (1..Len(Index)) /\ Len(Index) \in Nat
      BY <1>1, EntryTypes DEF Streams
    <2>2. Max(DOMAIN found) \in DOMAIN found
      BY <1>4, <2>1, MaxIn
    <2> QED BY <1>1, <2>2 DEF find_seek_offset_bytes
  <1> QED BY <1>2, <1>3, <1>4 DEF found

(* The result of a chain of pushes is a flow, and WRONG_STATE only if one  *)
(* of the pads gave it.                                                    *)
LEMMA CombineTypes ==
    ASSUME TypeOK, NEW s \in Streams, NEW flow \in Flow
    PROVE  /\ gst_rmdemux_combine_flows(s, flow) \in Flow
           /\ gst_rmdemux_combine_flows(s, flow) = "WRONG_STATE" =>
                 flow = "WRONG_STATE" \/ \E t \in Streams : last_flow[t] = "WRONG_STATE"
  <1> DEFINE flows == [last_flow EXCEPT ![s] = flow]
             linked == {t \in Streams : flows[t] # "NOT_LINKED"}
  <1>1. flows \in [Streams -> Flow] /\ \A t \in Streams : flows[t] = flow \/ flows[t] = last_flow[t]
    BY DEF TypeOK
  <1>2. ASSUME linked # {} PROVE Min(linked) \in Streams
    <2>1. linked \in SUBSET Nat
      BY EntryTypes
    <2>2. Min(linked) \in linked
      <3> HIDE DEF linked
      <3> QED BY <1>2, <2>1, MinIn
    <2> QED BY <2>2
  <1>3. gst_rmdemux_combine_flows(s, flow) =
           IF flow # "NOT_LINKED" THEN flow
           ELSE IF linked # {} THEN flows[Min(linked)]
           ELSE IF reread THEN "OK" ELSE "NOT_LINKED"
    BY DEF gst_rmdemux_combine_flows
  <1> HIDE DEF flows, linked
  <1> QED BY <1>1, <1>2, <1>3 DEF Flow

(* A pull gets at least a unit, and requests are what they are.            *)
LEMMA PullTypes ==
    /\ Pull \in Nat /\ Pull > 0
    /\ SeekRequests \subseteq Request /\ \A r \in Request : r.segment \in BOOLEAN
  BY RMAssumption DEF Request

(* What downstream answers.                                                *)
LEMMA AnswerTypes ==
    /\ Answers \subseteq Flow
    /\ "WRONG_STATE" \in Answers => downFlush \/ ~pads
    /\ downFlush \/ ~pads => Answers = {"WRONG_STATE"}
  BY RMAssumption DEF Answers, Flow

(* The file stays what it is.                                              *)
LEMMA FileFixed ==
    ASSUME Next
    PROVE  index' = index /\ FileEnd' = FileEnd
  <1>1. index' = index
    <2>1. Streaming => index' = index
      BY DEF Streaming, LoopHeaders, LoopPull, LoopNoPull, LoopIndexGone, ChainHeader,
             gst_rmdemux_parse_data, ChainPacket, ChainStreamDone, ChainReturn, fileVars
    <2>2. Seeking => index' = index
      BY DEF Seeking, SeekFlushStart, SeekLock, SeekRetry, SeekStart, fileVars
    <2>3. \A r \in SeekRequests : Seek(r) => index' = index
      BY DEF Seek, fileVars
    <2>4. Start \/ StopPads \/ gst_rmdemux_reset => index' = index
      BY DEF Start, StopPads, gst_rmdemux_reset, fileVars
    <2> QED BY <2>1, <2>2, <2>3, <2>4 DEF Next
  <1> QED BY <1>1 DEF FileEnd

(* The types, the flags apart.                                             *)
Flags ==
    /\ seekable \in BOOLEAN /\ have_pads \in BOOLEAN /\ need_newsegment \in BOOLEAN
    /\ more_data \in BOOLEAN /\ segment \in BOOLEAN
    /\ upFlush \in BOOLEAN /\ pads \in BOOLEAN /\ reread \in BOOLEAN
    /\ downFlush \in BOOLEAN /\ downSeg \in BOOLEAN /\ failed \in BOOLEAN

Data ==
    /\ index \in IndexKinds
    /\ task \in {"none", "started", "paused"}
    /\ loop \in {"idle", "chain"}
    /\ state \in {"headers", "header", "data_header", "packet", "eos"}
    /\ offset \in Nat /\ head \in 0..FileEnd /\ end \in 0..FileEnd
    /\ ret \in Flow
    /\ n_chunks \in {0, Len(Packets)} /\ chunk_index \in Nat
    /\ seek_offset \in [Streams -> Nat] /\ discont \subseteq Streams
    /\ last_flow \in [Streams -> Flow]
    /\ seek \in {"none", "flush", "lock", "validate"} /\ req \in Request
    /\ told \in SUBSET {"eos", "segment_done", "error"}
    /\ floor \in Nat /\ fresh \subseteq Streams

(* Every step keeps the types.                                             *)
LEMMA NextFlags ==
    ASSUME RMInv, Next
    PROVE  Flags'
  <1>1. CASE Start
    BY <1>1, Zenon DEF RMInv, TypeOK, Flags, Start, fileVars, adapterVars, streamVars,
         downVars, histVars, bounds
  <1>2. CASE LoopHeaders
    <2>1. seekable' \in BOOLEAN
      BY <1>2 DEF LoopHeaders
    <2> QED BY <1>2, <2>1, Zenon DEF RMInv, TypeOK, Flags, LoopHeaders, fileVars, adapterVars,
         streamVars, downVars, histVars, bounds
  <1>3. CASE LoopPull
    BY <1>3, Zenon DEF RMInv, TypeOK, Flags, LoopPull, LoopCanRun, fileVars, adapterVars,
         streamVars, downVars, histVars, bounds
  <1>4. CASE LoopNoPull
    BY <1>4, Zenon DEF RMInv, TypeOK, Flags, LoopNoPull, LoopCanRun, NeedPause, Causes,
         gst_pad_pause_task, fileVars, adapterVars, streamVars, downVars, histVars, bounds
  <1>5. CASE ChainHeader
    BY <1>5, Zenon DEF RMInv, TypeOK, Flags, ChainHeader, fileVars, adapterVars, streamVars,
         downVars, histVars, bounds
  <1>6. CASE gst_rmdemux_parse_data
    BY <1>6, Zenon DEF RMInv, TypeOK, Flags, gst_rmdemux_parse_data, fileVars, adapterVars,
         streamVars, downVars, histVars, bounds
  <1>7. CASE ChainPacket
    BY <1>7, Zenon DEF RMInv, TypeOK, Flags, ChainPacket, gst_rmdemux_parse_packet,
         CountPacket, fileVars, adapterVars, streamVars, downVars, histVars, bounds
  <1>8. CASE ChainStreamDone
    BY <1>8, Zenon DEF RMInv, TypeOK, Flags, ChainStreamDone, fileVars, adapterVars,
         streamVars, downVars, histVars, bounds
  <1>9. CASE ChainReturn
    BY <1>9, Zenon DEF RMInv, TypeOK, Flags, ChainReturn, gst_pad_pause_task, Causes,
         fileVars, adapterVars, streamVars, downVars, histVars, bounds
  <1>10. CASE SeekFlushStart
    BY <1>10, Zenon DEF RMInv, TypeOK, Flags, SeekFlushStart, fileVars, adapterVars,
         streamVars, downVars, histVars, bounds
  <1>11. CASE SeekLock
    <2>1. req.segment \in BOOLEAN
      BY PullTypes DEF RMInv, TypeOK
    <2> QED BY <1>11, <2>1, Zenon DEF RMInv, TypeOK, Flags, SeekLock, GiveUp, fileVars,
         adapterVars, streamVars, downVars, histVars, bounds
  <1>12. CASE SeekRetry
    BY <1>12, Zenon DEF RMInv, TypeOK, Flags, SeekRetry, GiveUp, fileVars, adapterVars,
         streamVars, downVars, histVars, bounds
  <1>13. CASE SeekStart
    BY <1>13, Zenon DEF RMInv, TypeOK, Flags, SeekStart, AdapterFromHere, SegmentIsNew,
         gst_pad_start_task, gst_rmdemux_validate_offset, fileVars, adapterVars, streamVars,
         downVars, histVars, bounds
  <1>14. CASE StopPads
    BY <1>14, Zenon DEF RMInv, TypeOK, Flags, StopPads, fileVars, adapterVars, streamVars,
         downVars, histVars, bounds
  <1>15. CASE gst_rmdemux_reset
    BY <1>15, Zenon DEF RMInv, TypeOK, Flags, gst_rmdemux_reset, fileVars, adapterVars,
         streamVars, downVars, histVars, bounds
  <1>16. ASSUME NEW r \in SeekRequests, Seek(r) PROVE Flags'
    BY <1>16, Zenon DEF RMInv, TypeOK, Flags, Seek, gst_pad_pause_task, fileVars, adapterVars,
         streamVars, downVars, histVars, bounds
  <1>17. CASE LoopIndexGone
    BY <1>17, Zenon DEF RMInv, TypeOK, Flags, LoopIndexGone, LoopCanRun, fileVars, streamVars,
         downVars, histVars, bounds
  <1> QED BY <1>1, <1>2, <1>3, <1>4, <1>5, <1>6, <1>7, <1>8, <1>9, <1>10, <1>11, <1>12,
       <1>13, <1>14, <1>15, <1>16, <1>17 DEF Next, Streaming, Seeking

(* Every step keeps the positions, the packets in the adapter and the seek *)
(* in their ranges.                                                        *)
LEMMA NextData ==
    ASSUME RMInv, Next
    PROVE  Data'
  <1>0. index' = index /\ FileEnd' = FileEnd
    BY FileFixed
  <1>1. CASE Start
    BY <1>1, <1>0, FileEndType DEF RMInv, TypeOK, Data, DataStart, Start, fileVars,
         adapterVars, streamVars, downVars, histVars, bounds, running
  <1>2. CASE LoopHeaders
    BY <1>2, <1>0, FileEndType DEF RMInv, TypeOK, Data, DataStart, Flow, LoopHeaders,
         fileVars, adapterVars, streamVars, downVars, histVars, bounds
  <1>3. CASE LoopPull
    <2>1. end' \in 0..FileEnd
      <3>1. offset \in Nat /\ offset < FileEnd
        BY <1>3 DEF LoopPull, RMInv, TypeOK
      <3>2. end' \in {offset + 1, offset + Pull, FileEnd} /\ end' <= FileEnd
        BY <1>3, <3>1, FileEndType DEF LoopPull
      <3> QED BY <3>1, <3>2, PullTypes, FileEndType
    <2> QED BY <1>3, <1>0, <2>1 DEF LoopPull, RMInv, TypeOK, Data, Flow, fileVars, streamVars,
               downVars, histVars, bounds
  <1>4. CASE LoopNoPull
    BY <1>4, <1>0, FileEndType DEF RMInv, TypeOK, Data, DataStart, LoopNoPull, LoopCanRun,
         NeedPause, Causes, gst_pad_pause_task, fileVars, adapterVars, streamVars, downVars,
         histVars, bounds, running
  <1>5. CASE ChainHeader
    BY <1>5, <1>0, FileEndType DEF RMInv, TypeOK, Data, DataStart, ChainHeader, fileVars,
         adapterVars, streamVars, downVars, histVars, bounds, running
  <1>6. CASE gst_rmdemux_parse_data
    BY <1>6, <1>0, FileEndType, PacketTypes DEF RMInv, TypeOK, Data, DataStart,
         gst_rmdemux_parse_data, fileVars, adapterVars, streamVars, downVars, histVars,
         bounds
  <1>7. CASE ChainPacket
    <2> DEFINE p == PacketAt(head)
               s == Packets[p].stream
    <2>1. /\ p # NoPacket /\ head + Packets[p].units <= end
          /\ gst_rmdemux_parse_packet(p) /\ head' = head + Packets[p].units
          /\ loop = "chain" /\ state = "packet"
      BY <1>7 DEF ChainPacket
    <2>2. /\ head' \in Nat /\ head + 3 <= head' /\ s \in Streams /\ position[p] = head
          /\ PacketAt(head') # NoPacket \/ head' = DataEnd
      BY <2>1, PacketFollows, PacketAtFinds DEF RMInv, TypeOK
    <2>3. UNCHANGED <<index, n_chunks, more_data, offset, end, seek_offset, reread, downFlush, told,
                      floor, failed, task, loop, seekable, have_pads, segment, seek, req, upFlush,
                      pads>>
      BY <1>7 DEF ChainPacket
    <2>4. state' \in {"header", "packet"} /\ chunk_index' = chunk_index + 1
      BY <1>7 DEF ChainPacket, CountPacket
    <2>5. ret' \in Flow /\ last_flow' \in [Streams -> Flow] /\ discont' \subseteq discont
          /\ fresh' \subseteq fresh
      <3>1. CASE Skipped(p) /\ UNCHANGED <<discont, last_flow, fresh>> /\ ret' = "OK"
        BY <3>1 DEF RMInv, TypeOK, Flow
      <3>2. CASE \E flow \in Answers :
                    /\ ret' = gst_rmdemux_combine_flows(s, flow)
                    /\ \E kept \in {flow, ret'} : last_flow' = [last_flow EXCEPT ![s] = kept]
                    /\ discont' \in {discont, discont \ {s}}
                    /\ fresh' = fresh \ (discont \ discont')
        <4>1. PICK flow \in Flow :
                    /\ ret' = gst_rmdemux_combine_flows(s, flow)
                    /\ \E kept \in {flow, ret'} : last_flow' = [last_flow EXCEPT ![s] = kept]
          BY <3>2, AnswerTypes
        <4>2. ret' \in Flow
          BY <2>2, <4>1, CombineTypes DEF RMInv
        <4>3. PICK kept \in {flow, ret'} : last_flow' = [last_flow EXCEPT ![s] = kept]
          BY <4>1
        <4>4. kept \in Flow
          BY <4>1, <4>2, <4>3
        <4>5. last_flow' \in [Streams -> Flow]
          BY <4>3, <4>4 DEF RMInv, TypeOK
        <4> QED BY <3>2, <4>2, <4>5
      <3> QED BY <2>1, <3>1, <3>2 DEF gst_rmdemux_parse_packet
    <2>6. head' \in 0..FileEnd
      <3>1. end \in 0..FileEnd /\ FileEnd \in Nat
        BY FileEndType DEF RMInv, TypeOK
      <3> QED BY <2>1, <2>2, <3>1
    <2> HIDE DEF p, s
    <2> QED BY <1>0, <2>3, <2>4, <2>5, <2>6 DEF RMInv, TypeOK, Data
  <1>8. CASE ChainStreamDone
    BY <1>8, <1>0, FileEndType DEF RMInv, TypeOK, Data, DataStart, ChainStreamDone,
         fileVars, adapterVars, streamVars, downVars, histVars, bounds, running
  <1>9. CASE ChainReturn
    BY <1>9, <1>0, FileEndType DEF RMInv, TypeOK, Data, DataStart, ChainReturn,
         gst_pad_pause_task, Causes, fileVars, adapterVars, streamVars, downVars, histVars,
         bounds, running
  <1>10. CASE SeekFlushStart
    BY <1>10, <1>0, FileEndType DEF RMInv, TypeOK, Data, DataStart, SeekFlushStart,
         fileVars, adapterVars, streamVars, downVars, histVars, bounds, running
  <1>11. CASE SeekLock
    <2> DEFINE entries == [s \in Streams |-> ByTime(s, req.start)]
    <2>1. \A s \in Streams : entries[s] \subseteq DOMAIN Entries(s)
      BY DEF ByTime
    <2>2. /\ SeekOffsets(Found(entries)) \in [Streams -> Nat]
          /\ DOMAIN Found(entries) # {} => find_seek_offset_time(Found(entries)) \in Nat
      BY <2>1, TargetTypes DEF RMInv
    <2>3. \/ UNCHANGED <<offset, seek_offset>> /\ seek' = "none"
          \/ /\ DOMAIN Found(entries) # {}
             /\ offset' = find_seek_offset_time(Found(entries))
             /\ seek_offset' = SeekOffsets(Found(entries))
             /\ seek' = "validate"
      BY <1>11 DEF SeekLock, GiveUp
    <2> HIDE DEF entries
    <2>4. /\ offset' \in Nat /\ seek_offset' \in [Streams -> Nat]
          /\ seek' \in {"none", "validate"}
      BY <2>2, <2>3 DEF RMInv, TypeOK
    <2>5. discont' \subseteq Streams
      BY <1>11 DEF SeekLock, Discontinued, RMInv, TypeOK
    <2> QED BY <1>11, <1>0, <2>4, <2>5 DEF SeekLock, RMInv, TypeOK, Data, fileVars, downVars,
               bounds
  <1>12. CASE SeekRetry
    <2> DEFINE entries == [s \in Streams |-> ByOffset(s, offset)]
    <2>1. \A s \in Streams : entries[s] \subseteq DOMAIN Entries(s)
      BY DEF ByOffset
    <2>2. /\ SeekOffsets(Found(entries)) \in [Streams -> Nat]
          /\ DOMAIN Found(entries) # {} => find_seek_offset_bytes(Found(entries)) \in Nat
      BY <2>1, TargetTypes DEF RMInv
    <2>3. \/ UNCHANGED <<offset, seek_offset>> /\ seek' = "none"
          \/ /\ DOMAIN Found(entries) # {}
             /\ offset' = find_seek_offset_bytes(Found(entries))
             /\ seek_offset' = SeekOffsets(Found(entries))
             /\ seek' = seek
      BY <1>12 DEF SeekRetry, GiveUp
    <2> HIDE DEF entries
    <2>4. /\ offset' \in Nat /\ seek_offset' \in [Streams -> Nat]
          /\ seek' \in {"none", "validate"}
      BY <1>12, <2>2, <2>3 DEF SeekRetry, RMInv, TypeOK
    <2> QED BY <1>12, <1>0, <2>4 DEF SeekRetry, RMInv, TypeOK, Data, fileVars, downVars, bounds
  <1>13. CASE SeekStart
    <2>1. offset \in Nat /\ offset + 1 \in 0..FileEnd /\ offset \in 0..FileEnd
      <3>1. offset \in Nat /\ PacketAt(offset) # NoPacket
        BY <1>13 DEF SeekStart, gst_rmdemux_validate_offset, RMInv, TypeOK
      <3>2. offset + 3 <= DataEnd
        BY <3>1, PacketFollows, FileEndType
      <3> QED BY <3>1, <3>2, FileEndType
    <2>2. head' = offset /\ end' = offset + 1 /\ offset' = offset + 1
      BY <1>13 DEF SeekStart, AdapterFromHere
    <2>3. last_flow' \in [Streams -> Flow]
      BY <1>13 DEF SeekStart, RMInv, TypeOK, Flow
    <2>4. task' \in {"none", "started", "paused"}
      BY <1>13 DEF SeekStart, gst_pad_start_task, RMInv, TypeOK
    <2> QED BY <1>13, <1>0, <2>1, <2>2, <2>3, <2>4 DEF SeekStart, RMInv, TypeOK, Data, fileVars,
               downVars, bounds
  <1>14. CASE StopPads
    BY <1>14, <1>0, FileEndType DEF RMInv, TypeOK, Data, DataStart, StopPads, fileVars,
         adapterVars, streamVars, downVars, histVars, bounds, running
  <1>15. CASE gst_rmdemux_reset
    BY <1>15, <1>0, FileEndType DEF RMInv, TypeOK, Data, DataStart, gst_rmdemux_reset,
         fileVars, adapterVars, streamVars, downVars, histVars, bounds, running
  <1>16. ASSUME NEW r \in SeekRequests, Seek(r) PROVE Data'
    BY <1>16, <1>0, FileEndType, PullTypes DEF RMInv, TypeOK, Data, DataStart, Seek,
         gst_pad_pause_task, fileVars, adapterVars, streamVars, downVars, histVars, bounds
  <1>17. CASE LoopIndexGone
    <2>1. data_offset \in Nat /\ data_offset \in 0..FileEnd
      BY FileEndType DEF data_offset, DataStart
    <2> QED BY <1>17, <1>0, <2>1 DEF RMInv, TypeOK, Data, LoopIndexGone, fileVars, streamVars,
               downVars, histVars, bounds
  <1> QED BY <1>1, <1>2, <1>3, <1>4, <1>5, <1>6, <1>7, <1>8, <1>9, <1>10, <1>11, <1>12,
       <1>13, <1>14, <1>15, <1>16, <1>17 DEF Next, Streaming, Seeking

(* The task pulls at the offset of a missing index only at the end of a    *)
(* file that is cut off there, with an empty adapter.                      *)
LEMMA GoneIsCut ==
    ASSUME RMInv, LoopIndexGone
    PROVE  index = "cut" /\ head = DataEnd /\ end = DataEnd
  <1>1. running /\ seek # "validate" /\ offset = index_offset /\ task = "started"
        /\ loop = "idle" /\ state # "eos"
    BY DEF LoopIndexGone, LoopCanRun
  <1>2. index \in {"present", "absent", "cut", "unreadable"}
    BY RMAssumption DEF RMInv, TypeOK
  <1>3. index # "unreadable"
    <2> SUFFICES ASSUME index = "unreadable" PROVE FALSE
      OBVIOUS
    <2>1. offset = FileEnd + 1 /\ offset <= FileEnd
      BY <1>1 DEF index_offset, RMInv, Rereads
    <2> QED BY <2>1, FileEndType
  <1>4. index \notin {"present", "absent"}
    <2> SUFFICES ASSUME index \in {"present", "absent"} PROVE FALSE
      OBVIOUS
    <2>1. offset = 0 /\ offset > 0
      BY <1>1 DEF index_offset, RMInv, Rereads
    <2> QED BY <2>1
  <1>5. index = "cut"
    BY <1>2, <1>3, <1>4
  <1>6. offset = DataEnd /\ end = offset
    BY <1>1, <1>5 DEF index_offset, RMInv, Rereads, Aligned
  <1> QED BY <1>1, <1>5, <1>6 DEF RMInv, Aligned

(* The adapter stays aligned with the packets.                            *)
LEMMA NextAligned ==
    ASSUME RMInv, Next
    PROVE  Aligned'
  <1>1. CASE Start
    BY <1>1, FileEndType, RMAssumption DEF RMInv, Aligned, TypeOK, Stages, DataStart, Start,
         fileVars, adapterVars, streamVars, downVars, histVars, bounds, running
  <1>2. CASE LoopHeaders
    BY <1>2, FileEndType, RMAssumption DEF RMInv, Aligned, TypeOK, Stages, DataStart,
         LoopHeaders, fileVars, adapterVars, streamVars, downVars, histVars, bounds, running
  <1>3. CASE LoopPull
    BY <1>3, FileEndType, RMAssumption DEF RMInv, Aligned, TypeOK, Stages, DataStart,
         LoopPull, LoopCanRun, fileVars, adapterVars, streamVars, downVars, histVars,
         bounds, running
  <1>4. CASE LoopNoPull
    BY <1>4, FileEndType, RMAssumption DEF RMInv, Aligned, TypeOK, Stages, DataStart,
         LoopNoPull, LoopCanRun, NeedPause, Causes, gst_pad_pause_task, fileVars,
         adapterVars, streamVars, downVars, histVars, bounds, running
  <1>5. CASE ChainHeader
    BY <1>5, FileEndType, RMAssumption DEF RMInv, Aligned, TypeOK, Stages, DataStart,
         ChainHeader, fileVars, adapterVars, streamVars, downVars, histVars, bounds, running
  <1>6. CASE gst_rmdemux_parse_data
    <2>1. head = DataStart + 1 /\ head' = DataStart + 2
      BY <1>6 DEF gst_rmdemux_parse_data, RMInv, Stages, DataStart
    <2>2. PacketAt(head') # NoPacket \/ head' = DataEnd
      BY <2>1, PacketFollows
    <2> QED BY <1>6, <2>2 DEF gst_rmdemux_parse_data, RMInv, Aligned, TypeOK, fileVars,
         adapterVars, streamVars, downVars, histVars, bounds, running
  <1>7. CASE ChainPacket
    <2> DEFINE p == PacketAt(head)
               s == Packets[p].stream
    <2>1. /\ p # NoPacket /\ head + Packets[p].units <= end
          /\ gst_rmdemux_parse_packet(p) /\ head' = head + Packets[p].units
          /\ loop = "chain" /\ state = "packet"
      BY <1>7 DEF ChainPacket
    <2>2. /\ head' \in Nat /\ head + 3 <= head' /\ s \in Streams /\ position[p] = head
          /\ PacketAt(head') # NoPacket \/ head' = DataEnd
      BY <2>1, PacketFollows, PacketAtFinds DEF RMInv, TypeOK
    <2>3. UNCHANGED <<index, n_chunks, more_data, offset, end, seek_offset, reread, downFlush, told,
                      floor, failed, task, loop, seekable, have_pads, segment, seek, req, upFlush,
                      pads>>
      BY <1>7 DEF ChainPacket
    <2>4. state' \in {"header", "packet"} /\ chunk_index' = chunk_index + 1
      BY <1>7 DEF ChainPacket, CountPacket
    <2>5. head' <= end'
      BY <2>1, <2>3
    <2> HIDE DEF p, s
    <2> QED BY <2>1, <2>2, <2>3, <2>4, <2>5 DEF RMInv, Aligned, running
  <1>8. CASE ChainStreamDone
    BY <1>8, FileEndType, RMAssumption DEF RMInv, Aligned, TypeOK, Stages, DataStart,
         ChainStreamDone, fileVars, adapterVars, streamVars, downVars, histVars, bounds,
         running
  <1>9. CASE ChainReturn
    <2>1. state # "eos" /\ end = DataEnd => head = end
      <3>1. head \in Nat /\ head <= end /\ DataEnd \in Nat /\ end \in Nat
        BY <1>9, FileEndType DEF ChainReturn, RMInv, Stages, Aligned, TypeOK, running
      <3>2. PacketAt(head) # NoPacket => head + Packets[PacketAt(head)].units <= DataEnd
        BY <3>1, PacketFollows
      <3>3. PacketAt(head) # NoPacket => Packets[PacketAt(head)].units \in Nat
        BY <3>1, PacketAtFinds, PacketTypes
      <3> QED BY <1>9, <3>1, <3>2, <3>3 DEF ChainReturn, Incomplete
    <2> QED BY <1>9, <2>1, FileEndType, RMAssumption DEF RMInv, Aligned, TypeOK, Stages,
         DataStart, ChainReturn, gst_pad_pause_task, Causes, fileVars, adapterVars, streamVars,
         downVars, histVars, bounds, running
  <1>10. CASE SeekFlushStart
    BY <1>10, FileEndType, RMAssumption DEF RMInv, Aligned, TypeOK, Stages, DataStart,
         SeekFlushStart, fileVars, adapterVars, streamVars, downVars, histVars, bounds,
         running
  <1>11. CASE SeekLock
    BY <1>11, FileEndType, RMAssumption DEF RMInv, Aligned, TypeOK, Stages, DataStart,
         SeekLock, GiveUp, Discontinued, fileVars, adapterVars, streamVars, downVars,
         histVars, bounds, running
  <1>12. CASE SeekRetry
    BY <1>12, FileEndType, RMAssumption DEF RMInv, Aligned, TypeOK, Stages, DataStart,
         SeekRetry, GiveUp, fileVars, adapterVars, streamVars, downVars, histVars, bounds,
         running
  <1>13. CASE SeekStart
    <2>1. offset + 1 # DataEnd
      <3>1. offset \in Nat /\ PacketAt(offset) # NoPacket
        BY <1>13 DEF SeekStart, gst_rmdemux_validate_offset, RMInv, TypeOK
      <3>2. offset + 3 <= DataEnd
        BY <3>1, PacketFollows, FileEndType
      <3> QED BY <3>1, <3>2, FileEndType
    <2> QED BY <1>13, <2>1, FileEndType, RMAssumption DEF RMInv, Aligned, TypeOK, Stages, DataStart,
         SeekStart, AdapterFromHere, SegmentIsNew, gst_pad_start_task,
         gst_rmdemux_validate_offset, fileVars, adapterVars, streamVars, downVars, histVars,
         bounds, running
  <1>14. CASE StopPads
    BY <1>14, FileEndType, RMAssumption DEF RMInv, Aligned, TypeOK, Stages, DataStart,
         StopPads, fileVars, adapterVars, streamVars, downVars, histVars, bounds, running
  <1>15. CASE gst_rmdemux_reset
    BY <1>15, FileEndType, RMAssumption DEF RMInv, Aligned, TypeOK, Stages, DataStart,
         gst_rmdemux_reset, fileVars, adapterVars, streamVars, downVars, histVars, bounds,
         running
  <1>16. ASSUME NEW r \in SeekRequests, Seek(r) PROVE Aligned'
    BY <1>16, FileEndType, RMAssumption DEF RMInv, Aligned, TypeOK, Stages, DataStart, Seek,
         gst_pad_pause_task, fileVars, adapterVars, streamVars, downVars, histVars, bounds,
         running
  <1>17. CASE LoopIndexGone
    <2>1. index = "cut" /\ DataEnd >= 3 /\ data_offset \in {0, DataStart}
      BY <1>17, GoneIsCut, FileEndType DEF data_offset
    <2>2. state = "packet" => data_offset = 0
      BY <2>1 DEF data_offset, RMInv, Rereads
    <2> QED BY <1>17, <2>1, <2>2 DEF LoopIndexGone, RMInv, Aligned, DataStart, fileVars,
               streamVars, downVars, histVars, bounds, running
  <1> QED BY <1>1, <1>2, <1>3, <1>4, <1>5, <1>6, <1>7, <1>8, <1>9, <1>10, <1>11, <1>12,
       <1>13, <1>14, <1>15, <1>16, <1>17 DEF Next, Streaming, Seeking

(* The order of a seek, the task and the state changes is kept.            *)
LEMMA NextStages ==
    ASSUME RMInv, Next
    PROVE  Stages'
  <1>1. CASE Start
    BY <1>1, FileEndType DEF RMInv, Stages, Aligned, TypeOK, NoOut, DataStart, Start,
         fileVars, adapterVars, streamVars, downVars, histVars, bounds, running
  <1>2. CASE LoopHeaders
    BY <1>2, FileEndType DEF RMInv, Stages, Aligned, TypeOK, NoOut, DataStart, LoopHeaders,
         fileVars, adapterVars, streamVars, downVars, histVars, bounds, running
  <1>3. CASE LoopPull
    BY <1>3, FileEndType DEF RMInv, Stages, Aligned, TypeOK, NoOut, DataStart, LoopPull,
         LoopCanRun, fileVars, adapterVars, streamVars, downVars, histVars, bounds, running
  <1>4. CASE LoopNoPull
    BY <1>4, FileEndType DEF RMInv, Stages, Aligned, TypeOK, NoOut, DataStart, LoopNoPull,
         LoopCanRun, NeedPause, Causes, gst_pad_pause_task, fileVars, adapterVars,
         streamVars, downVars, histVars, bounds, running
  <1>5. CASE ChainHeader
    BY <1>5, FileEndType DEF RMInv, Stages, Aligned, TypeOK, NoOut, DataStart, ChainHeader,
         fileVars, adapterVars, streamVars, downVars, histVars, bounds, running
  <1>6. CASE gst_rmdemux_parse_data
    BY <1>6, FileEndType DEF RMInv, Stages, Aligned, TypeOK, NoOut, DataStart,
         gst_rmdemux_parse_data, fileVars, adapterVars, streamVars, downVars, histVars,
         bounds, running
  <1>7. CASE ChainPacket
    <2> DEFINE p == PacketAt(head)
               s == Packets[p].stream
    <2>1. /\ p # NoPacket /\ head + Packets[p].units <= end
          /\ gst_rmdemux_parse_packet(p) /\ head' = head + Packets[p].units
          /\ loop = "chain" /\ state = "packet"
      BY <1>7 DEF ChainPacket
    <2>2. /\ head' \in Nat /\ head + 3 <= head' /\ s \in Streams /\ position[p] = head
          /\ PacketAt(head') # NoPacket \/ head' = DataEnd
      BY <2>1, PacketFollows, PacketAtFinds DEF RMInv, TypeOK
    <2>3. UNCHANGED <<index, n_chunks, more_data, offset, end, seek_offset, reread, downFlush, told,
                      floor, failed, task, loop, seekable, have_pads, segment, seek, req, upFlush,
                      pads>>
      BY <1>7 DEF ChainPacket
    <2>4. state' \in {"header", "packet"} /\ chunk_index' = chunk_index + 1
      BY <1>7 DEF ChainPacket, CountPacket
    <2>5. need_newsegment' = FALSE
      BY <2>1 DEF gst_rmdemux_parse_packet
    <2>6. head >= floor /\ head \in Nat /\ floor \in Nat
      BY DEF RMInv, Stages, TypeOK
    <2>7. head' >= floor'
      BY <2>2, <2>3, <2>6
    <2> HIDE DEF p, s
    <2> QED BY <2>1, <2>3, <2>4, <2>7 DEF RMInv, Stages, running
  <1>8. CASE ChainStreamDone
    BY <1>8, FileEndType DEF RMInv, Stages, Aligned, TypeOK, NoOut, DataStart,
         ChainStreamDone, fileVars, adapterVars, streamVars, downVars, histVars, bounds,
         running
  <1>9. CASE ChainReturn
    BY <1>9, FileEndType DEF RMInv, Stages, Aligned, TypeOK, NoOut, DataStart, ChainReturn,
         gst_pad_pause_task, Causes, fileVars, adapterVars, streamVars, downVars, histVars,
         bounds, running
  <1>10. CASE SeekFlushStart
    BY <1>10, FileEndType DEF RMInv, Stages, Aligned, TypeOK, NoOut, DataStart,
         SeekFlushStart, fileVars, adapterVars, streamVars, downVars, histVars, bounds,
         running
  <1>11. CASE SeekLock
    BY <1>11, FileEndType DEF RMInv, Stages, Aligned, TypeOK, NoOut, DataStart, SeekLock,
         GiveUp, Discontinued, fileVars, adapterVars, streamVars, downVars, histVars,
         bounds, running
  <1>12. CASE SeekRetry
    BY <1>12, FileEndType DEF RMInv, Stages, Aligned, TypeOK, NoOut, DataStart, SeekRetry,
         GiveUp, fileVars, adapterVars, streamVars, downVars, histVars, bounds, running
  <1>13. CASE SeekStart
    BY <1>13, FileEndType DEF RMInv, Stages, Aligned, TypeOK, NoOut, DataStart, SeekStart,
         AdapterFromHere, SegmentIsNew, gst_pad_start_task, gst_rmdemux_validate_offset,
         fileVars, adapterVars, streamVars, downVars, histVars, bounds, running
  <1>14. CASE StopPads
    BY <1>14, FileEndType DEF RMInv, Stages, Aligned, TypeOK, NoOut, DataStart, StopPads,
         fileVars, adapterVars, streamVars, downVars, histVars, bounds, running
  <1>15. CASE gst_rmdemux_reset
    BY <1>15, FileEndType DEF RMInv, Stages, Aligned, TypeOK, NoOut, DataStart,
         gst_rmdemux_reset, fileVars, adapterVars, streamVars, downVars, histVars, bounds,
         running
  <1>16. ASSUME NEW r \in SeekRequests, Seek(r) PROVE Stages'
    BY <1>16, FileEndType DEF RMInv, Stages, Aligned, TypeOK, NoOut, DataStart, Seek,
         gst_pad_pause_task, fileVars, adapterVars, streamVars, downVars, histVars, bounds,
         running
  <1>17. CASE LoopIndexGone
    <2>1. /\ index = "cut" /\ head = DataEnd /\ DataEnd >= 3 /\ DataEnd \in Nat
          /\ data_offset \in Nat /\ data_offset >= 0
      BY <1>17, GoneIsCut, FileEndType DEF data_offset, DataStart
    <2>2. floor = 0 /\ seek = "none" /\ state # "data_header"
      BY <2>1 DEF RMInv, Rereads, Stages, DataStart
    <2> QED BY <1>17, <2>1, <2>2 DEF LoopIndexGone, RMInv, Stages, fileVars, streamVars, downVars,
               histVars, bounds, running
  <1> QED BY <1>1, <1>2, <1>3, <1>4, <1>5, <1>6, <1>7, <1>8, <1>9, <1>10, <1>11, <1>12,
       <1>13, <1>14, <1>15, <1>16, <1>17 DEF Next, Streaming, Seeking

(* What a stream is owed stays noted.                                      *)
LEMMA NextOwed ==
    ASSUME RMInv, Next
    PROVE  Owed'
  <1>1. CASE Start
    BY <1>1 DEF RMInv, Owed, Stages, Start, fileVars, adapterVars, streamVars, downVars,
         histVars, bounds, running
  <1>2. CASE LoopHeaders
    BY <1>2 DEF RMInv, Owed, Stages, LoopHeaders, fileVars, adapterVars, streamVars,
         downVars, histVars, bounds, running
  <1>3. CASE LoopPull
    BY <1>3 DEF RMInv, Owed, Stages, LoopPull, LoopCanRun, fileVars, adapterVars,
         streamVars, downVars, histVars, bounds, running
  <1>4. CASE LoopNoPull
    BY <1>4 DEF RMInv, Owed, Stages, LoopNoPull, LoopCanRun, NeedPause, Causes,
         gst_pad_pause_task, fileVars, adapterVars, streamVars, downVars, histVars, bounds,
         running
  <1>5. CASE ChainHeader
    BY <1>5 DEF RMInv, Owed, Stages, ChainHeader, fileVars, adapterVars, streamVars,
         downVars, histVars, bounds, running
  <1>6. CASE gst_rmdemux_parse_data
    BY <1>6 DEF RMInv, Owed, Stages, gst_rmdemux_parse_data, fileVars, adapterVars,
         streamVars, downVars, histVars, bounds, running
  <1>7. CASE ChainPacket
    <2> DEFINE p == PacketAt(head)
               s == Packets[p].stream
    <2>1. /\ p # NoPacket /\ head + Packets[p].units <= end
          /\ gst_rmdemux_parse_packet(p) /\ head' = head + Packets[p].units
          /\ loop = "chain" /\ state = "packet"
      BY <1>7 DEF ChainPacket
    <2>2. /\ head' \in Nat /\ head + 3 <= head' /\ s \in Streams /\ position[p] = head
          /\ PacketAt(head') # NoPacket \/ head' = DataEnd
      BY <2>1, PacketFollows, PacketAtFinds DEF RMInv, TypeOK
    <2>3. UNCHANGED <<index, n_chunks, more_data, offset, end, seek_offset, reread, downFlush, told,
                      floor, failed, task, loop, seekable, have_pads, segment, seek, req, upFlush,
                      pads>>
      BY <1>7 DEF ChainPacket
    <2>4. state' \in {"header", "packet"} /\ chunk_index' = chunk_index + 1
      BY <1>7 DEF ChainPacket, CountPacket
    <2>5. /\ need_newsegment' = FALSE
          /\ downSeg' = (downSeg \/ (need_newsegment /\ pads /\ ~downFlush))
      BY <2>1 DEF gst_rmdemux_parse_packet
    <2>6. CASE UNCHANGED <<discont, last_flow, fresh>> /\ ret' = "OK"
      <3>1. pads /\ ~downFlush => downSeg'
        BY <2>5 DEF RMInv, Owed
      <3>2. running
        BY <2>1 DEF running
      <3> HIDE DEF p, s
      <3> QED BY <2>3, <2>6, <3>1, <3>2 DEF RMInv, Owed
    <2>7. CASE \E flow \in Answers :
                  /\ ret' = gst_rmdemux_combine_flows(s, flow)
                  /\ \E kept \in {flow, ret'} : last_flow' = [last_flow EXCEPT ![s] = kept]
                  /\ discont' \in {discont, discont \ {s}}
                  /\ fresh' = fresh \ (discont \ discont')
      <3>1. PICK flow \in Answers :
               /\ ret' = gst_rmdemux_combine_flows(s, flow)
               /\ \E kept \in {flow, ret'} : last_flow' = [last_flow EXCEPT ![s] = kept]
        BY <2>7
      <3>2. fresh' \subseteq discont'
        BY <2>7 DEF RMInv, Owed
      <3>3. running => ((\E t \in Streams : last_flow[t] = "WRONG_STATE") => downFlush \/ ~pads)
        BY DEF RMInv, Owed
      <3>4. running /\ running'
        BY <2>1, <2>4 DEF running
      <3>5. flow \in Flow /\ (flow = "WRONG_STATE" => downFlush \/ ~pads)
        BY <3>1, AnswerTypes
      <3>6. \A t \in Streams : last_flow'[t] \in {flow, ret', last_flow[t]}
        BY <3>1 DEF RMInv, TypeOK
      <3>7. ret' = "WRONG_STATE" => downFlush \/ ~pads
        BY <2>2, <3>1, <3>3, <3>4, <3>5, CombineTypes DEF RMInv
      <3>8. (\E t \in Streams : last_flow'[t] = "WRONG_STATE") => downFlush \/ ~pads
        BY <3>3, <3>4, <3>5, <3>6, <3>7
      <3>9. pads /\ ~downFlush => downSeg'
        BY <2>5 DEF RMInv, Owed
      <3> HIDE DEF p, s
      <3> QED BY <2>3, <3>2, <3>7, <3>8, <3>9 DEF Owed
    <2> QED BY <2>1, <2>6, <2>7 DEF gst_rmdemux_parse_packet
  <1>8. CASE ChainStreamDone
    BY <1>8 DEF RMInv, Owed, Stages, ChainStreamDone, fileVars, adapterVars, streamVars,
         downVars, histVars, bounds, running
  <1>9. CASE ChainReturn
    BY <1>9 DEF RMInv, Owed, Stages, ChainReturn, gst_pad_pause_task, Causes, fileVars,
         adapterVars, streamVars, downVars, histVars, bounds, running
  <1>10. CASE SeekFlushStart
    BY <1>10 DEF RMInv, Owed, Stages, SeekFlushStart, fileVars, adapterVars, streamVars,
         downVars, histVars, bounds, running
  <1>11. CASE SeekLock
    BY <1>11 DEF RMInv, Owed, Stages, SeekLock, GiveUp, Discontinued, fileVars, adapterVars,
         streamVars, downVars, histVars, bounds, running
  <1>12. CASE SeekRetry
    BY <1>12 DEF RMInv, Owed, Stages, SeekRetry, GiveUp, fileVars, adapterVars, streamVars,
         downVars, histVars, bounds, running
  <1>13. CASE SeekStart
    BY <1>13 DEF RMInv, Owed, Stages, SeekStart, AdapterFromHere, SegmentIsNew,
         gst_pad_start_task, gst_rmdemux_validate_offset, fileVars, adapterVars, streamVars,
         downVars, histVars, bounds, running
  <1>14. CASE StopPads
    BY <1>14 DEF RMInv, Owed, Stages, StopPads, fileVars, adapterVars, streamVars, downVars,
         histVars, bounds, running
  <1>15. CASE gst_rmdemux_reset
    BY <1>15 DEF RMInv, Owed, Stages, gst_rmdemux_reset, fileVars, adapterVars, streamVars,
         downVars, histVars, bounds, running
  <1>16. ASSUME NEW r \in SeekRequests, Seek(r) PROVE Owed'
    BY <1>16 DEF RMInv, Owed, Stages, Seek, gst_pad_pause_task, fileVars, adapterVars,
         streamVars, downVars, histVars, bounds, running
  <1>17. CASE LoopIndexGone
    BY <1>17 DEF RMInv, Owed, Stages, LoopIndexGone, LoopCanRun, fileVars, streamVars, downVars,
         histVars, bounds, running
  <1> QED BY <1>1, <1>2, <1>3, <1>4, <1>5, <1>6, <1>7, <1>8, <1>9, <1>10, <1>11, <1>12,
       <1>13, <1>14, <1>15, <1>16, <1>17 DEF Next, Streaming, Seeking

(* Nothing but the missing index moves the task back.                      *)
LEMMA NextRereads ==
    ASSUME RMInv, Next
    PROVE  Rereads'
  <1>0. /\ index' = index /\ FileEnd' = FileEnd /\ FileEnd \in Nat
        /\ DataEnd \in Nat /\ DataEnd >= 3 /\ DataEnd <= FileEnd
        /\ \A s \in Streams : Entries(s)' = Entries(s)
        /\ TypeOK /\ Rereads /\ Stages /\ Aligned
    BY FileFixed, FileEndType DEF RMInv, Entries
  <1>1. CASE Start
    BY <1>1, <1>0 DEF Rereads, Start, TypeOK, Stages, DataStart,
         fileVars, adapterVars, streamVars, downVars, histVars, bounds, running
  <1>2. CASE LoopHeaders
    BY <1>2, <1>0 DEF Rereads, LoopHeaders, TypeOK, Stages, DataStart,
         fileVars, adapterVars, streamVars, downVars, histVars, bounds, running
  <1>3. CASE LoopPull
    <2>1. offset < end' /\ offset \in Nat
      <3>1. offset \in Nat /\ offset < FileEnd
        BY <1>0, <1>3 DEF LoopPull, TypeOK
      <3>2. end' \in {offset + 1, offset + Pull, FileEnd}
        BY <1>3 DEF LoopPull
      <3> QED BY <3>1, <3>2, PullTypes, <1>0
    <2> QED BY <1>3, <1>0, <2>1 DEF LoopPull, Rereads, fileVars, streamVars, downVars, histVars,
               bounds, running
  <1>4. CASE LoopNoPull
    BY <1>4, <1>0 DEF Rereads, LoopNoPull, LoopCanRun,
         fileVars, adapterVars, streamVars, downVars, histVars, bounds, running
  <1>5. CASE ChainHeader
    BY <1>5, <1>0 DEF Rereads, ChainHeader, TypeOK, Stages, DataStart,
         fileVars, adapterVars, streamVars, downVars, histVars, bounds, running
  <1>6. CASE gst_rmdemux_parse_data
    BY <1>6, <1>0 DEF Rereads, gst_rmdemux_parse_data, TypeOK, Stages, DataStart,
         fileVars, adapterVars, streamVars, downVars, histVars, bounds, running
  <1>7. CASE ChainPacket
    <2> DEFINE p == PacketAt(head)
    <2>1. /\ p # NoPacket /\ head' = head + Packets[p].units /\ loop = "chain" /\ state = "packet"
          /\ state' \in {"header", "packet"}
      BY <1>7 DEF ChainPacket, CountPacket
    <2>2. head' \in Nat /\ head <= head' /\ head \in Nat
      BY <1>0, <2>1, PacketFollows, PacketAtFinds DEF TypeOK
    <2>3. UNCHANGED <<index, more_data, offset, end, reread, floor, failed, loop, seekable, seek>>
      BY <1>7 DEF ChainPacket
    <2> HIDE DEF p
    <2> QED BY <1>0, <2>1, <2>2, <2>3 DEF Rereads, running, DataStart
  <1>8. CASE ChainStreamDone
    BY <1>8, <1>0 DEF Rereads, ChainStreamDone, TypeOK, Stages, DataStart,
         fileVars, adapterVars, streamVars, downVars, histVars, bounds, running
  <1>9. CASE ChainReturn
    BY <1>9, <1>0 DEF Rereads, ChainReturn, TypeOK, Stages, DataStart,
         fileVars, adapterVars, streamVars, downVars, histVars, bounds, running
  <1>10. CASE SeekFlushStart
    BY <1>10, <1>0 DEF Rereads, SeekFlushStart,
         fileVars, adapterVars, streamVars, downVars, histVars, bounds, running
  <1>11. CASE SeekLock
    <2> DEFINE entries == [s \in Streams |-> ByTime(s, req.start)]
    <2>1. \/ UNCHANGED <<offset, failed>> /\ seek' = "none"
          \/ UNCHANGED offset /\ seek' = "none"
          \/ DOMAIN Found(entries) # {} /\ seek' = "validate"
      BY <1>11 DEF SeekLock, GiveUp
    <2>2. DOMAIN Found(entries) # {} => \E s \in Streams : DOMAIN Entries(s) # {}
      BY DEF Found, ByTime
    <2> HIDE DEF entries
    <2>3. index \in {"present", "absent"}
      BY <1>0, <1>11, RMAssumption DEF SeekLock, Rereads, TypeOK
    <2> QED BY <1>0, <1>11, <2>1, <2>2, <2>3 DEF SeekLock, Rereads, fileVars, downVars, bounds,
               running
  <1>12. CASE SeekRetry
    <2> DEFINE entries == [s \in Streams |-> ByOffset(s, offset)]
    <2>1. \/ DOMAIN Found(entries) = {} /\ UNCHANGED offset /\ seek' = "none"
          \/ seek' = "validate"
      BY <1>12 DEF SeekRetry, GiveUp
    <2>2. PICK s \in Streams : DOMAIN Entries(s) # {}
      BY <1>0, <1>12 DEF SeekRetry, Rereads
    <2>3. offset = 0 => DOMAIN Found(entries) # {}
      BY <2>2 DEF Found, ByOffset, Below
    <2>4. index \in {"present", "absent"}
      BY <1>0, <1>12, RMAssumption DEF SeekRetry, Rereads, TypeOK
    <2> HIDE DEF entries
    <2>5. /\ UNCHANGED <<reread, head, state, more_data, floor, loop, end, seekable>>
          /\ seek' # "validate" => offset > 0
      BY <1>0, <1>12, <2>1, <2>3 DEF SeekRetry, TypeOK, fileVars, downVars
    <2>6. seek' # "validate" => UNCHANGED offset
      BY <2>1
    <2>7. loop = "idle"
      BY <1>0, <1>12 DEF SeekRetry, Stages
    <2> QED BY <1>0, <2>2, <2>4, <2>5, <2>6, <2>7 DEF Rereads, running
  <1>13. CASE SeekStart
    <2>1. /\ head' = offset /\ end' = offset + 1 /\ offset' = offset + 1 /\ state' = "packet"
          /\ seek = "validate" /\ seek' = "none" /\ UNCHANGED <<loop, reread>>
      BY <1>13 DEF SeekStart, AdapterFromHere
    <2>2. offset \in Nat /\ offset >= DataStart
      <3>1. offset \in Nat /\ PacketAt(offset) # NoPacket
        BY <1>0, <1>13 DEF SeekStart, gst_rmdemux_validate_offset, TypeOK
      <3> QED BY <3>1, PacketFollows DEF DataStart
    <2>3. index \in {"present", "absent"} /\ loop = "idle"
      BY <1>0, <2>1, RMAssumption DEF Rereads, TypeOK, Stages
    <2> QED BY <1>0, <2>1, <2>2, <2>3 DEF Rereads, DataStart
  <1>14. CASE StopPads
    BY <1>14, <1>0 DEF Rereads, StopPads,
         fileVars, adapterVars, streamVars, downVars, histVars, bounds, running
  <1>15. CASE gst_rmdemux_reset
    BY <1>15, <1>0 DEF Rereads, gst_rmdemux_reset, DataStart, TypeOK,
         fileVars, adapterVars, streamVars, downVars, histVars, bounds, running
  <1>16. ASSUME NEW r \in SeekRequests, Seek(r) PROVE Rereads'
    <2>1. index \in {"present", "absent"}
      BY <1>0, <1>16, RMAssumption DEF Seek, Rereads, TypeOK
    <2> QED BY <1>16, <1>0, <2>1 DEF Rereads, Seek, fileVars, adapterVars, streamVars, downVars,
               histVars, bounds, running
  <1>17. CASE LoopIndexGone
    <2>1. index = "cut"
      BY <1>17, GoneIsCut
    <2> QED BY <1>17, <1>0, <2>1 DEF Rereads, LoopIndexGone, LoopCanRun, fileVars, streamVars,
               downVars, histVars, bounds, running
  <1> QED BY <1>1, <1>2, <1>3, <1>4, <1>5, <1>6, <1>7, <1>8, <1>9, <1>10, <1>11, <1>12,
       <1>13, <1>14, <1>15, <1>16, <1>17 DEF Next, Streaming, Seeking

(* What the task does for others to see is right after every step.         *)
LEMMA NextShown ==
    ASSUME RMInv, Next
    PROVE  (DataInSegment /\ DiscontAfterSeek /\ PauseHasCause)'
  <1>1. CASE Start
    BY <1>1 DEF RMInv, DataInSegment, DiscontAfterSeek, PauseHasCause, Stages, Owed,
         Aligned, NoOut, Start, fileVars, adapterVars, streamVars, downVars, histVars,
         bounds, running
  <1>2. CASE LoopHeaders
    BY <1>2 DEF RMInv, DataInSegment, DiscontAfterSeek, PauseHasCause, Stages, Owed,
         Aligned, NoOut, LoopHeaders, fileVars, adapterVars, streamVars, downVars, histVars,
         bounds, running
  <1>3. CASE LoopPull
    BY <1>3 DEF RMInv, DataInSegment, DiscontAfterSeek, PauseHasCause, Stages, Owed,
         Aligned, NoOut, LoopPull, LoopCanRun, fileVars, adapterVars, streamVars, downVars,
         histVars, bounds, running
  <1>4. CASE LoopNoPull
    BY <1>4 DEF RMInv, DataInSegment, DiscontAfterSeek, PauseHasCause, Stages, Owed,
         Aligned, NoOut, LoopNoPull, LoopCanRun, NeedPause, Causes, gst_pad_pause_task,
         fileVars, adapterVars, streamVars, downVars, histVars, bounds, running
  <1>5. CASE ChainHeader
    BY <1>5 DEF RMInv, DataInSegment, DiscontAfterSeek, PauseHasCause, Stages, Owed,
         Aligned, NoOut, ChainHeader, fileVars, adapterVars, streamVars, downVars, histVars,
         bounds, running
  <1>6. CASE gst_rmdemux_parse_data
    BY <1>6 DEF RMInv, DataInSegment, DiscontAfterSeek, PauseHasCause, Stages, Owed,
         Aligned, NoOut, gst_rmdemux_parse_data, fileVars, adapterVars, streamVars,
         downVars, histVars, bounds, running
  <1>7. CASE ChainPacket
    <2> DEFINE p == PacketAt(head)
               s == Packets[p].stream
    <2>1. /\ p # NoPacket /\ head + Packets[p].units <= end
          /\ gst_rmdemux_parse_packet(p) /\ head' = head + Packets[p].units
          /\ loop = "chain" /\ state = "packet"
      BY <1>7 DEF ChainPacket
    <2>2. /\ head' \in Nat /\ head + 3 <= head' /\ s \in Streams /\ position[p] = head
          /\ PacketAt(head') # NoPacket \/ head' = DataEnd
      BY <2>1, PacketFollows, PacketAtFinds DEF RMInv, TypeOK
    <2>3. UNCHANGED <<index, n_chunks, more_data, offset, end, seek_offset, reread, downFlush, told,
                      floor, failed, task, loop, seekable, have_pads, segment, seek, req, upFlush,
                      pads>>
      BY <1>7 DEF ChainPacket
    <2>4. state' \in {"header", "packet"} /\ chunk_index' = chunk_index + 1
      BY <1>7 DEF ChainPacket, CountPacket
    <2>5. /\ need_newsegment' = FALSE
          /\ downSeg' = (downSeg \/ (need_newsegment /\ pads /\ ~downFlush))
      BY <2>1 DEF gst_rmdemux_parse_packet
    <2>6. out'.kind = "data" => /\ out'.marked
                                /\ out'.flow \in Answers /\ out'.seg = downSeg'
      <3>1. CASE out' = [NoOut EXCEPT !.kind = "skip", !.packet = p]
        BY <3>1 DEF NoOut
      <3>2. CASE \E flow \in Answers :
                    out' = [kind |-> "data", packet |-> p, flow |-> flow,
                            marked |-> (s \in fresh => s \in discont), seg |-> downSeg']
        <4>1. s \in fresh => s \in discont
          BY DEF RMInv, Owed
        <4> HIDE DEF s, p
        <4>2. PICK flow \in Answers :
                 out' = [kind |-> "data", packet |-> p, flow |-> flow,
                         marked |-> (s \in fresh => s \in discont), seg |-> downSeg']
          BY <3>2
        <4>3. /\ out'.marked = (s \in fresh => s \in discont)
              /\ out'.flow = flow /\ out'.seg = downSeg'
          BY <4>2
        <4> QED BY <4>1, <4>2, <4>3
      <3> QED BY <2>1, <3>1, <3>2 DEF gst_rmdemux_parse_packet
    <2>7. ~downFlush /\ pads => downSeg'
      BY <2>5 DEF RMInv, Owed
    <2>8. DataInSegment'
      BY <2>6, <2>7, AnswerTypes DEF DataInSegment
    <2>9. DiscontAfterSeek'
      BY <2>6 DEF DiscontAfterSeek
    <2> HIDE DEF p, s
    <2> QED BY <2>3, <2>8, <2>9 DEF RMInv, PauseHasCause
  <1>8. CASE ChainStreamDone
    BY <1>8 DEF RMInv, DataInSegment, DiscontAfterSeek, PauseHasCause, Stages, Owed,
         Aligned, NoOut, ChainStreamDone, fileVars, adapterVars, streamVars, downVars,
         histVars, bounds, running
  <1>9. CASE ChainReturn
    BY <1>9 DEF RMInv, DataInSegment, DiscontAfterSeek, PauseHasCause, Stages, Owed,
         Aligned, NoOut, ChainReturn, gst_pad_pause_task, Causes, fileVars, adapterVars,
         streamVars, downVars, histVars, bounds, running
  <1>10. CASE SeekFlushStart
    BY <1>10 DEF RMInv, DataInSegment, DiscontAfterSeek, PauseHasCause, Stages, Owed,
         Aligned, NoOut, SeekFlushStart, fileVars, adapterVars, streamVars, downVars,
         histVars, bounds, running
  <1>11. CASE SeekLock
    BY <1>11 DEF RMInv, DataInSegment, DiscontAfterSeek, PauseHasCause, Stages, Owed,
         Aligned, NoOut, SeekLock, GiveUp, Discontinued, fileVars, adapterVars, streamVars,
         downVars, histVars, bounds, running
  <1>12. CASE SeekRetry
    BY <1>12 DEF RMInv, DataInSegment, DiscontAfterSeek, PauseHasCause, Stages, Owed,
         Aligned, NoOut, SeekRetry, GiveUp, fileVars, adapterVars, streamVars, downVars,
         histVars, bounds, running
  <1>13. CASE SeekStart
    BY <1>13 DEF RMInv, DataInSegment, DiscontAfterSeek, PauseHasCause, Stages, Owed,
         Aligned, NoOut, SeekStart, AdapterFromHere, SegmentIsNew, gst_pad_start_task,
         gst_rmdemux_validate_offset, fileVars, adapterVars, streamVars, downVars, histVars,
         bounds, running
  <1>14. CASE StopPads
    BY <1>14 DEF RMInv, DataInSegment, DiscontAfterSeek, PauseHasCause, Stages, Owed,
         Aligned, NoOut, StopPads, fileVars, adapterVars, streamVars, downVars, histVars,
         bounds, running
  <1>15. CASE gst_rmdemux_reset
    BY <1>15 DEF RMInv, DataInSegment, DiscontAfterSeek, PauseHasCause, Stages, Owed,
         Aligned, NoOut, gst_rmdemux_reset, fileVars, adapterVars, streamVars, downVars,
         histVars, bounds, running
  <1>16. ASSUME NEW r \in SeekRequests, Seek(r)
         PROVE  (DataInSegment /\ DiscontAfterSeek /\ PauseHasCause)'
    BY <1>16 DEF RMInv, DataInSegment, DiscontAfterSeek, PauseHasCause, Stages, Owed,
         Aligned, NoOut, Seek, gst_pad_pause_task, fileVars, adapterVars, streamVars,
         downVars, histVars, bounds, running
  <1>17. CASE LoopIndexGone
    BY <1>17 DEF RMInv, DataInSegment, DiscontAfterSeek, PauseHasCause, LoopIndexGone, LoopCanRun,
         fileVars, streamVars, downVars, histVars, bounds, running
  <1> QED BY <1>1, <1>2, <1>3, <1>4, <1>5, <1>6, <1>7, <1>8, <1>9, <1>10, <1>11, <1>12,
       <1>13, <1>14, <1>15, <1>16, <1>17 DEF Next, Streaming, Seeking

(* The initial state.                                                      *)
LEMMA InitRMInv == Init => RMInv
  <1> SUFFICES ASSUME Init PROVE RMInv
    OBVIOUS
  <1>1. Flags
    BY Zenon DEF Init, Flags
  <1>2. Data
    BY FileEndType DEF Init, Data, Flow, NoReq, Request
  <1>3. TypeOK
    BY <1>1, <1>2 DEF TypeOK, Flags, Data
  <1>4. Aligned /\ Stages
    BY DEF Init, Aligned, Stages, running
  <1>5. Owed
    BY DEF Init, Owed, running
  <1>7. Rereads
    BY FileEndType DEF Init, Rereads, running
  <1>6. DataInSegment /\ DiscontAfterSeek /\ PauseHasCause
    BY DEF Init, NoOut, DataInSegment, DiscontAfterSeek, PauseHasCause
  <1> QED BY <1>3, <1>4, <1>5, <1>6, <1>7 DEF RMInv

(* Every step of the demuxer preserves the invariant.                      *)
LEMMA NextRMInv == RMInv /\ [Next]_vars => RMInv'
  <1> SUFFICES ASSUME RMInv, [Next]_vars PROVE RMInv'
    OBVIOUS
  <1>1. CASE Next
    <2>1. TypeOK'
      BY <1>1, NextFlags, NextData DEF TypeOK, Flags, Data
    <2> QED BY <1>1, <2>1, NextAligned, NextStages, NextOwed, NextRereads, NextShown
        DEF RMInv
  <1>2. CASE UNCHANGED vars
    <2> USE <1>2 DEF vars, fileVars, adapterVars, streamVars, downVars, histVars, bounds
    <2>1. TypeOK'
      BY DEF RMInv, TypeOK, FileEnd
    <2>2. Aligned' /\ Stages' /\ Owed'
      BY DEF RMInv, Aligned, Stages, Owed, running
    <2>3. DataInSegment' /\ DiscontAfterSeek' /\ PauseHasCause'
      BY DEF RMInv, DataInSegment, DiscontAfterSeek, PauseHasCause
    <2>4. Rereads'
      BY DEF RMInv, Rereads, running, FileEnd, Entries
    <2> QED BY <2>1, <2>2, <2>3, <2>4 DEF RMInv
  <1> QED BY <1>1, <1>2

(* Every step of the composition is a step of the demuxer or leaves it     *)
(* alone.                                                                  *)
LEMMA DemuxerStep == [MCNext]_<<part, vars, tvars>> => [Next]_vars
  BY DEF MCNext, Demux, Timestamps

(* The demuxer starts in an initial state.                                 *)
LEMMA InitDemuxer == MCInit => Init
  BY DEF MCInit

(* For every file, index and pull size, over seeks that fail, flushes,     *)
(* errors downstream and restarts, the adapter is aligned with the         *)
(* packets, data comes in a segment with its marks, and a pause has a      *)
(* reason that somebody was told; only a file that is cut off where its    *)
(* index should begin is read again.                                       *)
THEOREM RMInvariant == MCSpec => []RMInv
  <1>1. MCInit => RMInv
    BY InitDemuxer, InitRMInv
  <1>2. RMInv /\ [MCNext]_<<part, vars, tvars>> => RMInv'
    BY DemuxerStep, NextRMInv
  <1> QED BY <1>1, <1>2, PTL DEF MCSpec

(* What lies before the target of the last seek is neither pushed nor      *)
(* skipped.                                                                *)
THEOREM RMNothingBeforeSeek == MCSpec => []NothingBeforeSeek
  <1>1. MCInit => NothingBeforeSeek
    BY InitDemuxer DEF Init, NoOut, NothingBeforeSeek
  <1>2. RMInv /\ NothingBeforeSeek /\ [Next]_vars => NothingBeforeSeek'
    <2> SUFFICES ASSUME RMInv, NothingBeforeSeek, [Next]_vars PROVE NothingBeforeSeek'
      OBVIOUS
    <2>1. CASE ChainPacket
      <3> DEFINE p == PacketAt(head)
      <3>1. position[p] = head /\ head >= floor /\ floor' = floor
        BY <2>1, PacketAtFinds DEF ChainPacket, RMInv, TypeOK, Stages
      <3>2. out'.packet = p
        <4>1. gst_rmdemux_parse_packet(p)
          BY <2>1 DEF ChainPacket
        <4> HIDE DEF p
        <4>2. CASE out' = [NoOut EXCEPT !.kind = "skip", !.packet = p]
          BY <4>2 DEF NoOut
        <4>3. CASE \E flow, m : out' = [kind |-> "data", packet |-> p, flow |-> flow,
                                        marked |-> m, seg |-> downSeg']
          BY <4>3
        <4> QED BY <4>1, <4>2, <4>3 DEF gst_rmdemux_parse_packet
      <3> HIDE DEF p
      <3> QED BY <3>1, <3>2 DEF NothingBeforeSeek
    <2>2. CASE SeekStart
      BY <2>2 DEF SeekStart, RMInv, Stages, NothingBeforeSeek
    <2>3. CASE SeekLock \/ gst_rmdemux_reset
      BY <2>3 DEF SeekLock, gst_rmdemux_reset, NoOut, NothingBeforeSeek
    <2>4. CASE ChainHeader
      BY <2>4 DEF ChainHeader, NoOut, NothingBeforeSeek
    <2>5. CASE UNCHANGED <<out, floor>>
      BY <2>5 DEF NothingBeforeSeek
    <2>6. \/ Start \/ StopPads \/ LoopHeaders \/ LoopPull \/ LoopNoPull \/ LoopIndexGone
          => UNCHANGED <<out, floor>>
      BY DEF Start, StopPads, LoopHeaders, LoopPull, LoopNoPull, LoopIndexGone, histVars
    <2>7. gst_rmdemux_parse_data \/ ChainStreamDone \/ ChainReturn => UNCHANGED <<out, floor>>
      BY DEF gst_rmdemux_parse_data, ChainStreamDone, ChainReturn, histVars
    <2>8. SeekFlushStart \/ SeekRetry => UNCHANGED <<out, floor>>
      BY DEF SeekFlushStart, SeekRetry, histVars
    <2>9. \A r \in SeekRequests : Seek(r) => UNCHANGED <<out, floor>>
      BY DEF Seek, histVars
    <2>10. UNCHANGED vars => UNCHANGED <<out, floor>>
      BY DEF vars, histVars
    <2> QED BY <2>1, <2>2, <2>3, <2>4, <2>5, <2>6, <2>7, <2>8, <2>9, <2>10
            DEF Next, Streaming, Seeking
  <1>3. RMInv /\ NothingBeforeSeek /\ [MCNext]_<<part, vars, tvars>> => NothingBeforeSeek'
    BY <1>2, DemuxerStep
  <1> QED BY <1>1, <1>3, RMInvariant, PTL DEF MCSpec

-----------------------------------------------------------------------------
(* The times of video frames.                                              *)

(* The distance of two times less than SeqSize apart follows from their    *)
(* sequence numbers.                                                       *)
LEMMA ForwardIsDistance ==
    ASSUME NEW a \in Nat, NEW b \in Nat, a <= b, b - a < SeqSize
    PROVE  T!forward(T!seq(b), T!seq(a)) = b - a
  <1> DEFINE qa == a \div SeqSize
             ra == a % SeqSize
             qb == b \div SeqSize
             rb == b % SeqSize
  <1>0. SeqSize \in Nat /\ SeqSize > 0
    BY TimestampAssumption
  <1>1. /\ a = SeqSize * qa + ra /\ ra \in 0..SeqSize - 1 /\ qa \in Nat
        /\ b = SeqSize * qb + rb /\ rb \in 0..SeqSize - 1 /\ qb \in Nat
    BY <1>0
  <1> HIDE DEF qa, ra, qb, rb
  <1>2. b - a = SeqSize * (qb - qa) + (rb - ra)
    <2>1. SeqSize * (qb - qa) = SeqSize * qb - SeqSize * qa
      BY <1>0, <1>1
    <2>2. SeqSize * qa \in Int /\ SeqSize * qb \in Int
      BY <1>0, <1>1
    <2> QED BY <1>1, <2>1, <2>2
  <1>3. qb - qa \in {0, 1}
    <2>1. qb - qa >= 2 => SeqSize * (qb - qa) >= SeqSize * 2
      BY <1>0, <1>1
    <2>2. qb - qa <= -1 => SeqSize * (qb - qa) <= SeqSize * (-1)
      BY <1>0, <1>1
    <2>3. ~(qb - qa >= 2)
      BY <1>0, <1>1, <1>2, <2>1
    <2>4. ~(qb - qa <= -1)
      BY <1>0, <1>1, <1>2, <2>2
    <2> QED BY <1>1, <2>3, <2>4
  <1>4. CASE qb - qa = 0
    <2>1. b - a = rb - ra
      BY <1>0, <1>1, <1>2, <1>4
    <2> QED BY <1>0, <1>1, <2>1 DEF T!forward, T!seq, ra, rb
  <1>5. CASE qb - qa = 1
    <2>1. b - a = SeqSize + rb - ra
      BY <1>0, <1>1, <1>2, <1>5
    <2> QED BY <1>0, <1>1, <2>1 DEF T!forward, T!seq, ra, rb
  <1> QED BY <1>3, <1>4, <1>5

(* What the element remembers are the times of the last two reference      *)
(* frames and their sequence numbers.                                      *)
Remembered ==
    /\ next_ts = next /\ (next # T!None => next_seq = T!seq(next))
    /\ prev # T!None => last_ts = prev /\ last_seq = T!seq(prev) /\ prev < next
    /\ next = T!None => prev = T!None

TimesInv == T!ShownOnTime /\ Remembered
(* Every frame keeps it.                                                   *)
LEMMA NextTimesInv == TimesInv /\ T!Next => TimesInv'
  <1> SUFFICES ASSUME TimesInv, T!Next PROVE TimesInv'
    OBVIOUS
  <1>0. /\ SeqSize \in Nat /\ SeqSize > 0 /\ MaxTime \in Nat
        /\ \A t \in Nat : T!seq(t) \in 0..SeqSize
    BY TimestampAssumption DEF T!seq
  <1>t. /\ last_ts \in T!Time /\ next_ts \in T!Time /\ prev \in T!Time /\ next \in T!Time
        /\ last_seq \in 0..SeqSize /\ next_seq \in 0..SeqSize
        /\ timestamp \in T!Time /\ due \in T!Time /\ timestamp = due
    BY DEF TimesInv, T!ShownOnTime, T!TypeOK
  <1>1. ASSUME NEW time \in 0..MaxTime, T!IFrame(time) PROVE TimesInv'
    <2>1. /\ next < time /\ prev' = next /\ next' = time
          /\ timestamp' = (IF next_ts = T!None THEN time ELSE next_ts)
          /\ due' = (IF next = T!None THEN time ELSE next)
          /\ last_ts' = timestamp' /\ next_ts' = time
          /\ last_seq' = next_seq /\ next_seq' = T!seq(time)
      BY <1>1 DEF T!IFrame, T!Reference
    <2>2. timestamp' = due' /\ due' \in T!Time
      BY <1>t, <2>1 DEF TimesInv, Remembered, T!Time
    <2>3. T!TypeOK'
      BY <1>0, <1>t, <2>1, <2>2 DEF T!TypeOK, T!Time
    <2>4. Remembered'
      BY <1>0, <1>t, <2>1 DEF TimesInv, Remembered, T!Time, T!None
    <2> QED BY <2>2, <2>3, <2>4 DEF TimesInv, T!ShownOnTime
  <1>2. ASSUME NEW time \in 0..MaxTime, T!PFrame(time) PROVE TimesInv'
    <2>1. /\ next # T!None /\ next < time /\ time - next < SeqSize
          /\ prev' = next /\ next' = time /\ timestamp' = next_ts /\ due' = next
          /\ last_ts' = next_ts /\ last_seq' = next_seq /\ next_seq' = T!seq(time)
          /\ next_ts' = next_ts + T!forward(T!seq(time), next_seq)
      BY <1>2 DEF T!PFrame, T!Reference
    <2>2. next \in Nat /\ time \in Nat /\ next_ts = next /\ next_seq = T!seq(next)
      BY <1>0, <1>t, <2>1 DEF TimesInv, Remembered, T!Time
    <2>3. next_ts' = time
      <3>1. T!forward(T!seq(time), T!seq(next)) = time - next
        BY <2>1, <2>2, ForwardIsDistance
      <3> QED BY <2>1, <2>2, <3>1
    <2>4. T!TypeOK' /\ timestamp' = due'
      BY <1>0, <1>t, <2>1, <2>2, <2>3 DEF T!TypeOK, T!Time
    <2>5. Remembered'
      BY <2>1, <2>2, <2>3 DEF Remembered, T!None
    <2> QED BY <2>4, <2>5 DEF TimesInv, T!ShownOnTime
  <1>3. ASSUME NEW time \in 0..MaxTime, T!BFrame(time) PROVE TimesInv'
    <2>1. /\ prev # T!None /\ prev < time /\ time - prev < SeqSize /\ due' = time
          /\ timestamp' = last_ts + T!forward(T!seq(time), last_seq)
          /\ UNCHANGED <<last_ts, next_ts, last_seq, next_seq, prev, next>>
      BY <1>3 DEF T!BFrame
    <2>2. prev \in Nat /\ time \in Nat /\ last_ts = prev /\ last_seq = T!seq(prev)
      BY <1>0, <1>t, <2>1 DEF TimesInv, Remembered, T!Time
    <2>3. timestamp' = time
      <3>1. T!forward(T!seq(time), T!seq(prev)) = time - prev
        BY <2>1, <2>2, ForwardIsDistance
      <3> QED BY <2>1, <2>2, <3>1
    <2>4. T!TypeOK'
      BY <1>0, <1>t, <2>1, <2>3 DEF T!TypeOK, T!Time
    <2>5. Remembered'
      BY <2>1 DEF TimesInv, Remembered
    <2> QED BY <2>1, <2>3, <2>4, <2>5 DEF TimesInv, T!ShownOnTime
  <1>4. CASE T!FlushStop
    BY <1>0, <1>4 DEF T!FlushStop, TimesInv, T!ShownOnTime, T!TypeOK, T!Time, Remembered, T!None
  <1> QED BY <1>1, <1>2, <1>3, <1>4 DEF T!Next

(* Every buffer of a video stream gets the time of the frame that the      *)
(* decoder shows then, for every modulus of the sequence numbers.          *)
THEOREM RMShownOnTime == MCSpec => []ShownOnTime
  <1>1. MCInit => TimesInv
    BY TimestampAssumption DEF MCInit, T!Init, TimesInv, T!ShownOnTime, T!TypeOK, T!Time,
       Remembered, T!None
  <1>2. TimesInv /\ [MCNext]_<<part, vars, tvars>> => TimesInv'
    <2>1. TimesInv /\ UNCHANGED tvars => TimesInv'
      BY DEF tvars, TimesInv, T!ShownOnTime, T!TypeOK, Remembered
    <2> QED BY <2>1, NextTimesInv DEF MCNext, Demux, Timestamps
  <1>3. TimesInv => ShownOnTime
    BY DEF TimesInv, ShownOnTime
  <1> QED BY <1>1, <1>2, <1>3, PTL DEF MCSpec

=============================================================================
