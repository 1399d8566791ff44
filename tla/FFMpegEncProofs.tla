--------------------------- MODULE FFMpegEncProofs ---------------------------
(***************************************************************************)
(* The times that leave the encoders and the muxer, for any sizes of       *)
(* frames and buffers, rates, numbers of streams and timestamps.           *)
(***************************************************************************)
EXTENDS MCFFMpegEnc, FiniteSetTheorems, SequenceTheorems, WellFoundedInduction, TLAPS

USE AudioAssumption

-----------------------------------------------------------------------------
(* Audio.  A division that is cut loses less than one from a sum.          *)
LEMMA DivSum ==
    ASSUME NEW x \in Nat, NEW y \in Nat, NEW d \in Nat \ {0}
    PROVE  /\ x \div d \in Nat
           /\ (x + y) \div d - (x \div d + y \div d) \in {0, 1}
  <1> DEFINE p == x \div d
             q == y \div d
             r == (x + y) \div d
  <1>1. /\ p \in Int /\ p * d <= x /\ x < p * d + d
        /\ q \in Int /\ q * d <= y /\ y < q * d + d
    BY SMTT(30)
  <1>2. r \in Int /\ r * d <= x + y /\ x + y < r * d + d
    BY SMTT(30)
  <1> HIDE DEF p, q, r
  <1>3. (r - p - q) * d > -d
    BY <1>1, <1>2
  <1>4. (r - p - q) * d < 2 * d
    BY <1>1, <1>2
  <1>5. r - p - q > -1
    <2> SUFFICES ASSUME r - p - q <= -1 PROVE FALSE
      BY <1>1, <1>2
    <2>1. (r - p - q) * d <= (-1) * d
      BY <1>1, <1>2
    <2> QED BY <2>1, <1>3, <1>1, <1>2
  <1>6. r - p - q < 2
    <2> SUFFICES ASSUME r - p - q >= 2 PROVE FALSE
      BY <1>1, <1>2
    <2>1. (r - p - q) * d >= 2 * d
      BY <1>1, <1>2
    <2> QED BY <2>1, <1>4, <1>1, <1>2
  <1>7. p >= 0
    <2> SUFFICES ASSUME p <= -1 PROVE FALSE
      BY <1>1
    <2>1. p * d <= (-1) * d
      BY <1>1
    <2> QED BY <2>1, <1>1
  <1> QED BY <1>1, <1>2, <1>5, <1>6, <1>7 DEF p, q, r

(* The time of a number of samples, and of a sum of two.                   *)
LEMMA TimeSum ==
    ASSUME NEW a \in Nat, NEW b \in Nat
    PROVE  /\ A!Time(a) \in Nat
           /\ A!Time(a) + A!Time(b) \in A!Time(a + b) - 1 .. A!Time(a + b)
  <1>1. a * GST_SECOND \in Nat /\ b * GST_SECOND \in Nat /\ SampleRate \in Nat \ {0}
    OBVIOUS
  <1>2. (a + b) * GST_SECOND = a * GST_SECOND + b * GST_SECOND
    OBVIOUS
  <1>3. /\ A!Time(a) \in Nat /\ A!Time(b) \in Nat
        /\ A!Time(a + b) - (A!Time(a) + A!Time(b)) \in {0, 1}
    BY <1>1, <1>2, DivSum DEF A!Time
  <1>4. (a + b) * GST_SECOND \in Nat /\ A!Time(a + b) \in Nat
    BY DivSum DEF A!Time
  <1> QED BY <1>3, <1>4

(* What the audio encoder's constants are.                                 *)
LEMMA AudioTypes ==
    /\ FrameSize \in Nat \ {0} /\ \A x \in BufferSizes : x \in Nat
    /\ \A g \in Gaps : g \in Nat
  OBVIOUS

(* The initial state.                                                      *)
LEMMA InitAudio == A!Init => AudioInv
  <1> SUFFICES ASSUME A!Init PROVE AudioInv
    OBVIOUS
  <1>1. A!AdapterInv
    <2>1. frame \in [ts : Nat, duration : Nat, discont : BOOLEAN, pos : Nat]
      BY DEF A!Init, A!NoFrame
    <2>2. {available, adapter_ts, adapter_consumed, timestamp, next} \subseteq Nat
      BY DEF A!Init
    <2>3. discont \in BOOLEAN /\ resync \in BOOLEAN /\ failed \in BOOLEAN /\ resync
      BY DEF A!Init
    <2> QED BY <2>1, <2>2, <2>3 DEF A!AdapterInv
  <1>2. A!OnTime /\ A!Continued
    BY DEF A!Init, A!OnTime, A!Continued
  <1> QED BY <1>1, <1>2 DEF AudioInv

(* A buffer of upstream enters the adapter: behind the rest of the last    *)
(* one, or alone.                                                          *)
LEMMA AudioChain ==
    ASSUME AudioInv, A!gst_ffmpegenc_chain_audio
    PROVE  AudioInv'
  <1> USE DEF AudioInv, A!AdapterInv, A!Continued, A!HeadPos
  <1>1. PICK b \in A!Buffers : /\ A!Enter(b, A!Kept(b))
                               /\ discont' = (discont \/ A!Discont(b))
    BY DEF A!gst_ffmpegenc_chain_audio
  <1> DEFINE kept == A!Kept(b)
  <1>2. b.first \in Nat /\ b.size \in Nat /\ next <= b.first
    <2>1. b \in [first : {next} \cup {next + g : g \in Gaps}, size : BufferSizes]
      BY DEF A!Buffers
    <2>2. b.first = next \/ \E g \in Gaps : b.first = next + g
      BY <2>1
    <2>3. b.size \in Nat
      BY <2>1, AudioTypes
    <2>4. next \in Nat
      OBVIOUS
    <2> QED BY <2>2, <2>3, <2>4, AudioTypes
  <1>3. kept \in Nat /\ (kept # 0 => kept = available /\ ~resync /\ b.first = next /\ ~A!Discont(b))
    BY DEF A!Kept, A!Discont
  <1>4. /\ available' = kept + b.size /\ next' = b.first + b.size /\ resync' = FALSE
        /\ frame' = frame /\ failed' = failed
    BY <1>1 DEF A!Enter
  <1>5. A!HeadPos' = b.first - kept
    BY <1>2, <1>3, <1>4
  <1>6. A!Time(0) = 0
    BY DEF A!Time
  <1>7. /\ {adapter_ts', adapter_consumed', timestamp', available', next'} \subseteq Nat
        /\ adapter_consumed' <= A!HeadPos'
        /\ adapter_ts' = A!Time(A!HeadPos' - adapter_consumed')
        /\ timestamp' = adapter_ts' + A!Time(adapter_consumed')
    <2>1. CASE kept = 0
      <3>1. adapter_ts' = A!Time(b.first) /\ adapter_consumed' = 0 /\ timestamp' = A!Time(b.first)
        BY <1>1, <2>1 DEF A!Enter
      <3>2. A!Time(b.first) \in Nat
        BY <1>2, TimeSum
      <3>3. A!HeadPos' = b.first /\ A!HeadPos' - adapter_consumed' = b.first
        BY <1>2, <1>5, <2>1, <3>1
      <3> QED BY <1>2, <1>3, <1>4, <1>6, <3>1, <3>2, <3>3
    <2>2. CASE kept # 0
      <3>1. /\ timestamp' = adapter_ts + A!Time(adapter_consumed)
            /\ adapter_ts' = adapter_ts /\ adapter_consumed' = adapter_consumed
        BY <1>1, <2>2 DEF A!Enter
      <3>2. A!HeadPos' = A!HeadPos
        BY <1>3, <1>5, <2>2
      <3>3. A!Time(adapter_consumed) \in Nat
        BY TimeSum
      <3> QED BY <1>2, <1>3, <1>4, <2>2, <3>1, <3>2, <3>3
    <2> QED BY <2>1, <2>2
  <1>8. discont' \in BOOLEAN /\ (~discont' => ~discont /\ ~resync /\ b.first = next)
    BY <1>1 DEF A!Discont
  <1>9. A!Continued'
    <2> SUFFICES ASSUME ~discont', ~failed'
                 PROVE  /\ frame.pos + FrameSize = A!HeadPos'
                        /\ A!Near(frame.ts + frame.duration, A!HeadPos')
      BY <1>4 DEF A!Near
    <2>1. A!HeadPos' = A!HeadPos
      BY <1>3, <1>5, <1>8 DEF A!Kept, A!Discont
    <2> QED BY <1>4, <1>8, <2>1
  <1>10. A!OnTime'
    BY <1>4 DEF A!OnTime, A!Near
  <1>11. A!AdapterInv'
    <2>1. failed' \in BOOLEAN /\ resync' \in BOOLEAN
          /\ frame' \in [ts : Nat, duration : Nat, discont : BOOLEAN, pos : Nat]
      BY <1>4
    <2> QED BY <1>7, <1>8, <2>1, Zenon
  <1> QED BY <1>9, <1>10, <1>11

(* What the encoder takes from the adapter: Duration is the difference of  *)
(* the times at the ends of the frame.                                     *)
LEMMA AudioConsume ==
    ASSUME AudioInv, A!Consume
    PROVE  /\ {available', adapter_consumed'} \subseteq Nat /\ ~resync
           /\ adapter_ts' = adapter_ts /\ next' = next
           /\ adapter_consumed' = adapter_consumed + FrameSize
           /\ A!HeadPos \in Nat /\ A!HeadPos' = A!HeadPos + FrameSize
           /\ A!Duration \in Nat /\ timestamp \in Nat /\ adapter_ts \in Nat
           /\ timestamp + A!Duration = adapter_ts + A!Time(adapter_consumed')
           /\ A!Near(timestamp, A!HeadPos)
           /\ A!Near(timestamp + A!Duration, A!HeadPos')
  <1> USE DEF AudioInv, A!AdapterInv
  <1>1. /\ available >= FrameSize /\ ~resync
        /\ adapter_consumed' = adapter_consumed + FrameSize
        /\ available' = available - FrameSize
        /\ adapter_ts' = adapter_ts /\ next' = next
    BY DEF A!Consume, A!ChainReturned
  <1> DEFINE first == A!HeadPos - adapter_consumed
             c == adapter_consumed
  <1>2. /\ c \in Nat /\ first \in Nat /\ adapter_ts = A!Time(first)
        /\ timestamp = A!Time(first) + A!Time(c)
        /\ A!HeadPos = first + c /\ A!HeadPos' = first + (c + FrameSize)
    BY <1>1 DEF A!HeadPos
  <1> HIDE DEF first, c
  <1>3. /\ A!Time(first) \in Nat /\ A!Time(c) \in Nat /\ A!Time(c + FrameSize) \in Nat
        /\ A!Time(FrameSize) \in Nat
        /\ A!Time(first + c) \in Nat /\ A!Time(first + (c + FrameSize)) \in Nat
    <2>1. c + FrameSize \in Nat /\ first + c \in Nat /\ first + (c + FrameSize) \in Nat
      BY <1>2
    <2> QED BY <1>2, <2>1, AudioTypes, TimeSum
  <1>4. A!Time(first) + A!Time(c) \in A!Time(first + c) - 1 .. A!Time(first + c)
    BY <1>2, TimeSum
  <1>5. A!Time(first) + A!Time(c + FrameSize)
          \in A!Time(first + (c + FrameSize)) - 1 .. A!Time(first + (c + FrameSize))
    <2>1. c + FrameSize \in Nat
      BY <1>2
    <2> QED BY <1>2, <2>1, TimeSum
  <1>6. A!Time(c) + A!Time(FrameSize) <= A!Time(c + FrameSize)
    <2>1. A!Time(c) + A!Time(FrameSize) \in A!Time(c + FrameSize) - 1 .. A!Time(c + FrameSize)
      BY <1>2, TimeSum
    <2> QED BY <2>1, <1>3
  <1>7. A!Duration = A!Time(c + FrameSize) - A!Time(c)
    BY <1>2, <1>3 DEF A!Duration, c
  <1> QED BY <1>1, <1>2, <1>3, <1>4, <1>5, <1>6, <1>7 DEF A!Near, c

(* The clock stays that of the adapter when a frame counts as pushed.      *)
LEMMA AudioAdvance ==
    ASSUME AudioInv, A!Advance, failed' \in BOOLEAN,
           frame' \in [ts : Nat, duration : Nat, discont : BOOLEAN, pos : Nat]
    PROVE  A!AdapterInv'
  <1> USE DEF AudioInv, A!AdapterInv
  <1>1. /\ A!Consume /\ timestamp' = timestamp + A!Duration
        /\ discont' = FALSE /\ resync' = resync
    BY DEF A!Advance
  <1>2. {available', adapter_ts', adapter_consumed', timestamp', next'} \subseteq Nat
    BY <1>1, AudioConsume
  <1>3. /\ A!HeadPos' - adapter_consumed' = A!HeadPos - adapter_consumed
        /\ adapter_consumed' <= A!HeadPos' /\ adapter_ts' = adapter_ts
    BY <1>1, AudioConsume
  <1>4. adapter_ts' = A!Time(A!HeadPos' - adapter_consumed')
    BY <1>1, <1>3, AudioConsume
  <1>5. timestamp' = adapter_ts' + A!Time(adapter_consumed')
    BY <1>1, AudioConsume
  <1> QED BY <1>1, <1>2, <1>3, <1>4, <1>5

(* Every step keeps the invariant.                                         *)
LEMMA NextAudio ==
    ASSUME AudioInv, [A!Next]_A!vars
    PROVE  AudioInv'
  <1> USE DEF AudioInv, A!AdapterInv
  <1>1. CASE A!gst_ffmpegenc_chain_audio
    BY <1>1, AudioChain
  <1>2. CASE A!EncodePushed
    <2>1. /\ A!Consume /\ timestamp' = timestamp + A!Duration /\ discont' = FALSE
          /\ resync' = resync /\ failed' = FALSE
          /\ frame' = [ts |-> timestamp, duration |-> A!Duration, discont |-> discont,
                       pos |-> A!HeadPos]
      BY <1>2 DEF A!EncodePushed, A!Advance
    <2>2. /\ A!Near(frame'.ts, frame'.pos)
          /\ A!Near(frame'.ts + frame'.duration, frame'.pos + FrameSize)
      BY <2>1, AudioConsume
    <2>3. A!AdapterInv'
      <3>1. frame' \in [ts : Nat, duration : Nat, discont : BOOLEAN, pos : Nat]
        BY <2>1, AudioConsume
      <3> QED BY <1>2, <2>1, <3>1, AudioAdvance DEF A!EncodePushed
    <2>4. A!OnTime'
      BY <2>2 DEF A!OnTime, A!Near
    <2>5. A!Continued'
      BY <2>1, <2>2, AudioConsume DEF A!Continued, A!Near
    <2> QED BY <2>3, <2>4, <2>5
  <1>3. CASE A!EncodeFailed
    <2>1. /\ A!Consume /\ timestamp' = timestamp + A!Duration /\ discont' = FALSE
          /\ resync' = resync /\ failed' = TRUE /\ frame' = frame
      BY <1>3 DEF A!EncodeFailed, A!Advance
    <2>2. A!AdapterInv'
      BY <1>3, <2>1, AudioAdvance DEF A!EncodeFailed
    <2> QED BY <2>1, <2>2 DEF A!OnTime, A!Continued, A!Near
  <1>4. CASE A!PushFailed
    <2>1. /\ A!Consume /\ resync' = TRUE
          /\ UNCHANGED <<timestamp, discont, frame, failed>>
      BY <1>4 DEF A!PushFailed
    <2> QED BY <2>1, AudioConsume DEF A!OnTime, A!Continued, A!Near
  <1>5. CASE A!gst_ffmpegenc_change_state
    BY <1>5 DEF A!gst_ffmpegenc_change_state, A!OnTime, A!Continued, A!Near
  <1>6. CASE UNCHANGED A!vars
    BY <1>6 DEF A!vars, A!avars, A!HeadPos, A!OnTime, A!Continued, A!Near
  <1> QED BY <1>1, <1>2, <1>3, <1>4, <1>5, <1>6 DEF A!Next

(* A frame without a mark follows the last one.                            *)
LEMMA NextGapsMarked ==
    ASSUME AudioInv, A!Next, frame' # frame
    PROVE  \/ frame'.discont \/ failed
           \/ /\ frame'.pos = frame.pos + FrameSize
              /\ frame'.ts - (frame.ts + frame.duration) \in -1..1
  <1>1. A!EncodePushed
    BY DEF A!Next, A!gst_ffmpegenc_chain_audio, A!Enter, A!EncodeFailed, A!PushFailed,
         A!gst_ffmpegenc_change_state
  <1>2. /\ A!Consume
        /\ frame' = [ts |-> timestamp, duration |-> A!Duration, discont |-> discont,
                     pos |-> A!HeadPos]
    BY <1>1 DEF A!EncodePushed, A!Advance
  <1> SUFFICES ASSUME ~discont, ~failed
               PROVE  /\ frame'.pos = frame.pos + FrameSize
                      /\ frame'.ts - (frame.ts + frame.duration) \in -1..1
    BY <1>2
  <1>3. /\ frame.pos + FrameSize = A!HeadPos
        /\ A!Near(frame.ts + frame.duration, A!HeadPos)
    BY <1>2, AudioConsume DEF AudioInv, A!Continued
  <1>4. A!Near(timestamp, A!HeadPos) /\ timestamp \in Nat
    BY <1>2, AudioConsume
  <1>5. A!HeadPos \in Nat /\ A!Time(A!HeadPos) \in Nat
    BY <1>2, AudioConsume, TimeSum
  <1>6. frame.ts \in Nat /\ frame.duration \in Nat
    BY DEF AudioInv, A!AdapterInv
  <1> QED BY <1>2, <1>3, <1>4, <1>5, <1>6 DEF A!Near

-----------------------------------------------------------------------------
(* The muxer.  A nonempty set of natural numbers has a least element.      *)
LEMMA LeastNat ==
    ASSUME NEW T \in SUBSET Nat, T # {}
    PROVE  \E x \in T : \A y \in T : x <= y
  <1>1. PICK x \in T : \A y \in T : <<y, x>> \notin OpToRel(<, Nat)
    BY WFMin, NatLessThanWellFounded
  <1>2. \A y \in T : ~(y < x)
    BY <1>1 DEF OpToRel
  <1> QED BY <1>2

(* A bounded one has a greatest.                                           *)
LEMMA GreatestNat ==
    ASSUME NEW m \in Nat, NEW T \in SUBSET (0 .. m), T # {}
    PROVE  \E x \in T : \A y \in T : y <= x
  <1> DEFINE U == {m - y : y \in T}
  <1>1. U \in SUBSET Nat /\ U # {}
    <2>1. \A y \in T : m - y \in Nat
      OBVIOUS
    <2> QED BY <2>1
  <1>2. PICK u \in U : \A v \in U : u <= v
    <2> HIDE DEF U
    <2> QED BY <1>1, LeastNat
  <1>3. PICK x \in T : u = m - x
    BY <1>2
  <1>4. \A y \in T : m - x <= m - y
    BY <1>2, <1>3
  <1> QED BY <1>3, <1>4

(* The bounds are natural numbers.                                         *)
LEMMA MuxTypes == NumPads \in Nat /\ MaxTime \in Nat
  BY MuxAssumption

(* The muxer counts as this module does.                                   *)
LEMMA MuxCardinality == \A S : M!Cardinality(S) = Cardinality(S)
  BY DEF M!Cardinality, Cardinality, M!IsFiniteSet, IsFiniteSet

(* What waits, and how much of it.                                         *)
LEMMA Waiting ==
    ASSUME MuxInv
    PROVE  /\ IsFiniteSet(M!Queued) /\ M!Queued \subseteq M!Pads
           /\ Cardinality(M!Queued) \in Nat
           /\ \A p \in M!Queued : waiting[p] \in 0 .. MaxTime + 1
           /\ M!Queued \cap eos = {}
  <1>1. IsFiniteSet(M!Pads)
    BY MuxTypes, FS_Interval DEF M!Pads
  <1>2. M!Queued \subseteq M!Pads
    BY DEF M!Queued
  <1>3. \A p \in M!Queued : waiting[p] \in 0 .. MaxTime + 1
    BY MuxTypes DEF MuxInv, M!MuxInv, M!Queued, M!Timestamps, M!NONE, M!NoBuffer
  <1>4. M!Queued \cap eos = {}
    BY DEF MuxInv, M!MuxInv, M!Queued
  <1> QED BY <1>1, <1>2, <1>3, <1>4, FS_Subset, FS_CardinalityType

(* The search finds a buffer that waits; if all have timestamps, it is one *)
(* that is as old as any.                                                  *)
LEMMA BestPad ==
    ASSUME MuxInv, M!Queued # {}
    PROVE  /\ M!best_pad \in M!Queued
           /\ (\A q \in M!Queued : waiting[q] # M!NONE)
                => \A q \in M!Queued : waiting[M!best_pad] <= waiting[q]
  <1> DEFINE Q == M!Queued
             first(p) == \A q \in Q : p <= q
             oldest(p) == \A q \in Q : \/ waiting[p] < waiting[q]
                                       \/ waiting[p] = waiting[q] /\ p <= q
  <1>1. Q \in SUBSET Nat /\ \A q \in Q : waiting[q] \in Nat
    BY Waiting, MuxTypes DEF M!Pads
  <1>2. \E p \in Q : first(p)
    BY <1>1, LeastNat
  <1>3. M!First(Q) \in Q
    BY <1>2 DEF M!First
  <1>4. \E p \in Q : oldest(p)
    <2> DEFINE W == {waiting[q] : q \in Q}
    <2>1. W \in SUBSET Nat /\ W # {}
      BY <1>1
    <2>2. PICK w \in W : \A y \in W : w <= y
      BY <2>1, LeastNat
    <2> DEFINE E == {q \in Q : waiting[q] = w}
    <2>3. E \in SUBSET Nat /\ E # {}
      BY <1>1, <2>2
    <2>4. PICK p \in E : \A y \in E : p <= y
      BY <2>3, LeastNat
    <2>5. ASSUME NEW q \in Q PROVE waiting[p] < waiting[q] \/ (waiting[p] = waiting[q] /\ p <= q)
      <3>1. waiting[p] = w /\ w <= waiting[q] /\ w \in Nat /\ waiting[q] \in Nat
        BY <1>1, <2>1, <2>2, <2>4
      <3>2. CASE waiting[q] = w
        BY <2>4, <3>1, <3>2
      <3> QED BY <3>1, <3>2
    <2> QED BY <2>4, <2>5
  <1>5. M!Oldest(Q) \in Q /\ oldest(M!Oldest(Q))
    BY <1>4 DEF M!Oldest
  <1>6. \A q \in Q : waiting[M!Oldest(Q)] <= waiting[q]
    <2> DEFINE p == M!Oldest(Q)
    <2>1. p \in Q /\ \A q \in Q : waiting[p] < waiting[q] \/ (waiting[p] = waiting[q] /\ p <= q)
      BY <1>5
    <2> HIDE DEF p, Q
    <2>2. \A q \in Q : waiting[p] <= waiting[q]
      BY <1>1, <2>1
    <2> QED BY <2>2 DEF p
  <1>7. M!best_pad = IF waiting[M!First(Q)] = M!NONE THEN M!First(Q) ELSE M!Oldest(Q)
    BY DEF M!best_pad
  <1> HIDE DEF Q
  <1>8. /\ M!best_pad \in Q
        /\ (\A q \in Q : waiting[q] # M!NONE) => \A q \in Q : waiting[M!best_pad] <= waiting[q]
    BY <1>3, <1>5, <1>6, <1>7
  <1> QED BY <1>8 DEF Q

(* The initial state.                                                      *)
LEMMA InitMux == M!Init => MuxInv
  <1> SUFFICES ASSUME M!Init PROVE MuxInv
    OBVIOUS
  <1>1. M!Queued = {} /\ M!Cardinality(M!Queued) = 0
    BY FS_EmptySet, MuxCardinality DEF M!Init, M!Queued
  <1>2. /\ waiting \in [M!Pads -> M!Timestamps \cup {M!NoBuffer}]
        /\ last \in [M!Pads -> 0 .. MaxTime]
    BY MuxTypes DEF M!Init
  <1>3. M!Rising
    BY <1>1 DEF M!Init, M!Rising, M!NoOutput
  <1>4. /\ file \in BOOLEAN /\ ended \in BOOLEAN /\ untimed \in BOOLEAN
        /\ packet.ts \in Nat /\ state = "ready" /\ received = 0 /\ written = 0 /\ ~file
        /\ codec_id = {} /\ eos = {} /\ negotiated = {}
    BY DEF M!Init, M!NoOutput
  <1>5. M!MuxInv
    BY <1>1, <1>2, <1>3, <1>4 DEF M!MuxInv
  <1> QED BY <1>5 DEF M!Init, MuxInv, M!HeaderFirst, M!EosAfterAll

(* A buffer arrives: one more waits.                                       *)
LEMMA MuxPadBuffer ==
    ASSUME MuxInv, NEW p \in M!Pads, M!PadBuffer(p)
    PROVE  MuxInv'
  <1> USE DEF MuxInv, M!MuxInv
  <1>1. PICK t \in M!Timestamps :
          /\ t >= last[p]
          /\ waiting' = [waiting EXCEPT ![p] = t]
          /\ last' = IF t = M!NONE THEN last ELSE [last EXCEPT ![p] = t]
          /\ untimed' = (untimed \/ t = M!NONE)
    BY DEF M!PadBuffer
  <1>2. /\ waiting[p] = M!NoBuffer /\ p \notin eos /\ received' = received + 1
        /\ UNCHANGED <<codec_id, eos, negotiated, file, state, header, packet, written, ended>>
    BY DEF M!PadBuffer, M!Idle
  <1>3. t \in 0 .. MaxTime + 1 /\ t # M!NoBuffer
    BY MuxTypes DEF M!Timestamps, M!NONE, M!NoBuffer
  <1>4. /\ waiting' \in [M!Pads -> M!Timestamps \cup {M!NoBuffer}]
        /\ waiting'[p] = t /\ \A q \in M!Pads \ {p} : waiting'[q] = waiting[q]
    BY <1>1
  <1>5. /\ last' \in [M!Pads -> 0 .. MaxTime]
        /\ \A q \in M!Pads \ {p} : last'[q] = last[q]
        /\ t # M!NONE => last'[p] = t
    <2>1. t # M!NONE => t \in 0 .. MaxTime
      BY <1>3, MuxTypes DEF M!NONE
    <2> QED BY <1>1, <2>1
  <1>6. M!Queued' = M!Queued \cup {p} /\ p \notin M!Queued
    BY <1>2, <1>3, <1>4 DEF M!Queued
  <1>7. Cardinality(M!Queued') = Cardinality(M!Queued) + 1
    BY <1>6, Waiting, FS_AddElement
  <1>8. received' = written' + M!Cardinality(M!Queued') /\ received' \in Nat /\ written' \in Nat
    BY <1>2, <1>7, Waiting, MuxCardinality
  <1>9. M!Rising'
    <2> SUFFICES ASSUME ~untimed', NEW q \in M!Pads
                 PROVE  /\ q \in M!Queued' => waiting'[q] = last'[q]
                        /\ q \in M!Queued' \/ q \notin eos' => packet.ts <= last'[q]
      BY <1>2 DEF M!Rising
    <2>1. ~untimed /\ t # M!NONE
      BY <1>1
    <2>2. CASE q = p
      <3>1. packet.ts <= last[p] /\ last[p] <= t /\ last[p] \in Nat
        BY <1>1, <1>2, <1>3, <2>1 DEF M!Rising
      <3> QED BY <1>3, <1>4, <1>5, <2>1, <2>2, <3>1
    <2>3. CASE q # p
      BY <1>2, <1>4, <1>5, <1>6, <2>1, <2>3 DEF M!Rising
    <2> QED BY <2>2, <2>3
  <1>10. \A q \in eos' : waiting'[q] = M!NoBuffer
    BY <1>2, <1>4
  <1>11. untimed' \in BOOLEAN
    BY <1>1
  <1>12. M!MuxInv'
    BY <1>2, <1>4, <1>5, <1>8, <1>9, <1>10, <1>11
  <1>13. M!HeaderFirst' /\ M!EosAfterAll'
    BY <1>2 DEF M!HeaderFirst, M!EosAfterAll
  <1> QED BY <1>12, <1>13

(* The oldest buffer is written: one less waits, and no stream that may    *)
(* still send is behind it.                                                *)
LEMMA MuxWrite ==
    ASSUME MuxInv, M!CollectedWrite
    PROVE  MuxInv'
  <1> USE DEF MuxInv, M!MuxInv
  <1> DEFINE p == M!best_pad
  <1>1. /\ M!Queued \cup eos = M!Pads /\ M!Queued # {} /\ ~ended
        /\ file' = TRUE /\ header' = IF file THEN header ELSE [done |-> TRUE, pads |-> negotiated]
        /\ waiting' = [waiting EXCEPT ![p] = M!NoBuffer]
        /\ packet' = [ts |-> waiting[p], others |-> {waiting[q] : q \in M!Queued}]
        /\ written' = written + 1
        /\ UNCHANGED <<codec_id, eos, last, negotiated, state, received, untimed, ended>>
    BY DEF M!CollectedWrite, M!Collected, M!Write, M!HeaderOnce
  <1>2. p \in M!Queued /\ p \in M!Pads /\ p \notin eos /\ waiting[p] \in Nat
    BY <1>1, BestPad, Waiting, MuxTypes
  <1>3. (\A q \in M!Queued : waiting[q] # M!NONE) => \A q \in M!Queued : waiting[p] <= waiting[q]
    BY <1>1, BestPad
  <1> HIDE DEF p
  <1>4. /\ waiting' \in [M!Pads -> M!Timestamps \cup {M!NoBuffer}]
        /\ waiting'[p] = M!NoBuffer /\ \A q \in M!Pads \ {p} : waiting'[q] = waiting[q]
    BY <1>1, <1>2
  <1>5. M!Queued' = M!Queued \ {p}
    BY <1>2, <1>4 DEF M!Queued
  <1>6. Cardinality(M!Queued') = Cardinality(M!Queued) - 1
    BY <1>2, <1>5, Waiting, FS_RemoveElement
  <1>7. received' = written' + M!Cardinality(M!Queued') /\ received' \in Nat /\ written' \in Nat
    BY <1>1, <1>6, Waiting, MuxCardinality
  <1>8. M!Rising'
    <2> SUFFICES ASSUME ~untimed, NEW q \in M!Pads
                 PROVE  /\ q \in M!Queued' => waiting'[q] = last[q]
                        /\ q \in M!Queued' \/ q \notin eos => waiting[p] <= last[q]
      BY <1>1 DEF M!Rising
    <2>1. \A r \in M!Queued : /\ waiting[r] = last[r] /\ last[r] \in 0 .. MaxTime
                             /\ waiting[r] # M!NONE
      BY Waiting, MuxTypes DEF M!Rising, M!NONE
    <2>2. \A r \in M!Queued : waiting[p] <= waiting[r]
      BY <1>3, <2>1
    <2>3. q \notin eos => q \in M!Queued
      BY <1>1
    <2> QED BY <1>2, <1>4, <1>5, <2>1, <2>2, <2>3
  <1>9. \A q \in eos : waiting'[q] = M!NoBuffer
    BY <1>2, <1>4
  <1>10. header'.done
    BY <1>1
  <1>11. packet'.ts \in Nat
    BY <1>1, <1>2
  <1>12. M!MuxInv'
    BY <1>1, <1>4, <1>7, <1>8, <1>9, <1>10, <1>11
  <1>13. M!HeaderFirst' /\ M!EosAfterAll'
    BY <1>1, <1>10 DEF M!HeaderFirst, M!EosAfterAll
  <1> QED BY <1>12, <1>13

(* Every step keeps the invariant.                                         *)
LEMMA NextMux ==
    ASSUME MuxInv, [M!Next]_M!vars
    PROVE  MuxInv'
  <1> USE DEF MuxInv, M!MuxInv, M!HeaderFirst, M!EosAfterAll
  <1>1. ASSUME NEW p \in M!Pads, M!gst_ffmpegmux_setcaps(p) \/ M!PadEos(p)
        PROVE  MuxInv'
    <2>1. /\ UNCHANGED <<waiting, last, file, state, header, packet, received, written,
                         untimed, ended>>
          /\ eos' \in {eos, eos \cup {p}} /\ waiting[p] = M!NoBuffer
          /\ eos' # eos => p \notin M!Queued
      BY <1>1 DEF M!gst_ffmpegmux_setcaps, M!PadEos, M!Idle, M!hvars, M!Queued
    <2>2. codec_id' \subseteq M!Pads /\ negotiated' \subseteq codec_id'
      BY <1>1 DEF M!gst_ffmpegmux_setcaps, M!PadEos
    <2>3. M!Queued' = M!Queued
      BY <2>1 DEF M!Queued
    <2>4. M!Rising'
      BY <2>1, <2>3 DEF M!Rising
    <2> QED BY <2>1, <2>2, <2>3, <2>4
  <1>2. ASSUME NEW p \in M!Pads, M!PadBuffer(p)
        PROVE  MuxInv'
    BY <1>2, MuxPadBuffer
  <1>3. CASE M!CollectedWrite
    BY <1>3, MuxWrite
  <1>4. CASE M!CollectedClose
    <2>1. /\ UNCHANGED <<codec_id, waiting, eos, last, negotiated, state, packet, received,
                         written, untimed>>
          /\ file' = FALSE /\ ended' = TRUE /\ M!Queued = {} /\ eos = M!Pads
          /\ header'.done
      BY <1>4 DEF M!CollectedClose, M!Collected, M!pvars, M!HeaderOnce
    <2>2. M!Queued' = {} /\ M!Cardinality(M!Queued) = 0
      BY <2>1, FS_EmptySet, MuxCardinality DEF M!Queued
    <2>3. M!Rising'
      BY <2>1, <2>2 DEF M!Rising
    <2>4. received = written + M!Cardinality(M!Queued') /\ received = written
      BY <2>1, <2>2
    <2>5. file' \in BOOLEAN /\ ended' \in BOOLEAN
      BY <2>1
    <2>6. M!MuxInv'
      BY <2>1, <2>3, <2>4, <2>5
    <2> QED BY <2>1, <2>4, <2>6
  <1>5. CASE M!CollectedError \/ M!Start \/ UNCHANGED M!vars
    <2>1. /\ UNCHANGED <<codec_id, waiting, eos, last, negotiated, file, header, packet, received,
                         written, untimed, ended>>
          /\ state' \in {"ready", "paused", "error"}
      BY <1>5 DEF M!CollectedError, M!Start, M!vars, M!pvars, M!hvars
    <2>2. M!Queued' = M!Queued
      BY <2>1 DEF M!Queued
    <2>3. M!Rising'
      BY <2>1, <2>2 DEF M!Rising
    <2> QED BY <2>1, <2>2, <2>3
  <1>6. CASE M!Stop
    <2>1. /\ state' = "ready" /\ file' = FALSE /\ eos' = {} /\ ended' = FALSE
          /\ waiting' = [p \in M!Pads |-> M!NoBuffer] /\ last' = [p \in M!Pads |-> 0]
          /\ negotiated' = {} /\ packet'.ts = 0 /\ received' = 0 /\ written' = 0
          /\ untimed' = FALSE /\ codec_id' = codec_id
      BY <1>6 DEF M!Stop, M!CloseFile, M!NoOutput
    <2>2. M!Queued' = {} /\ M!Cardinality(M!Queued') = 0
      BY <2>1, FS_EmptySet, MuxCardinality DEF M!Queued
    <2>3. M!Rising'
      BY <2>1, <2>2 DEF M!Rising
    <2>4. /\ waiting' \in [M!Pads -> M!Timestamps \cup {M!NoBuffer}]
          /\ last' \in [M!Pads -> 0 .. MaxTime]
      BY <2>1, MuxTypes
    <2>5. file' \in BOOLEAN /\ ended' \in BOOLEAN /\ untimed' \in BOOLEAN
      BY <2>1
    <2>6. M!MuxInv'
      BY <2>1, <2>2, <2>3, <2>4, <2>5
    <2> QED BY <2>1, <2>6
  <1> QED BY <1>1, <1>2, <1>3, <1>4, <1>5, <1>6 DEF M!Next

(* A buffer with a timestamp does not go behind a younger one.             *)
LEMMA NextInterleaved ==
    ASSUME MuxInv, M!Next, written' > written, ~untimed
    PROVE  packet'.ts >= packet.ts
  <1> USE DEF MuxInv, M!MuxInv
  <1>1. CASE M!CollectedWrite
    <2>1. packet'.ts = waiting[M!best_pad] /\ M!Queued # {}
      BY <1>1 DEF M!CollectedWrite, M!Write
    <2>2. M!best_pad \in M!Queued /\ M!best_pad \in M!Pads
      BY <2>1, BestPad, Waiting
    <2>3. waiting[M!best_pad] = last[M!best_pad] /\ packet.ts <= last[M!best_pad]
      BY <2>2 DEF M!Rising
    <2>4. last[M!best_pad] \in Nat /\ packet.ts \in Nat
      BY <2>2
    <2> QED BY <2>1, <2>3, <2>4
  <1>2. CASE ~M!CollectedWrite
    <2>1. written' = written \/ written' = 0
      BY <1>2 DEF M!Next, M!gst_ffmpegmux_setcaps, M!PadBuffer, M!PadEos, M!CollectedClose,
           M!CollectedError, M!Start, M!Stop, M!hvars
    <2> QED BY <2>1
  <1> QED BY <1>1, <1>2

-----------------------------------------------------------------------------
HIDE AudioAssumption

(* Video.  What a picture is.                                              *)
Picture == [n : Nat, key : BOOLEAN]

(* The bounds are numbers, and the flag is one.                            *)
LEMMA EncTypes == MaxB \in Nat /\ GopSize \in Nat /\ ClosedGop \in BOOLEAN
  BY EncAssumption

(* Where the search for B frames ends: at a request or at the last         *)
(* picture, with no request before it.                                     *)
LEMMA BFramesEnd ==
    ASSUME NEW e, e.input \in [0 .. MaxB -> Picture], e.input[0].n # 0,
           \A i \in 0 .. MaxB : e.input[i].key => e.input[i].n # 0
    PROVE  /\ BFrames(e) \in 0 .. MaxB
           /\ e.input[BFrames(e)].n # 0
           /\ \A i \in 0 .. MaxB : i < BFrames(e) => ~e.input[i].key
  <1> DEFINE w == e.input
             P(b) == w[b].n # 0 /\ \A i \in b + 1 .. MaxB : w[i].n = 0
             present == CHOOSE b \in 0 .. MaxB : P(b)
             forced == {i \in 0 .. present - 1 : w[i].key}
             least == CHOOSE i \in forced : \A j \in forced : i <= j
  <1>1. present \in 0 .. MaxB /\ P(present)
    <2> DEFINE T == {i \in 0 .. MaxB : w[i].n # 0}
    <2>1. T \in SUBSET (0 .. MaxB) /\ T # {}
      BY EncTypes
    <2>2. PICK b \in T : \A y \in T : y <= b
      <3> HIDE DEF T
      <3> QED BY <2>1, GreatestNat, EncTypes
    <2>3. b \in 0 .. MaxB /\ P(b)
      BY <2>2, EncTypes
    <2> HIDE DEF P, T
    <2> QED BY <2>3
  <1>2. BFrames(e) = IF forced = {} THEN present ELSE least
    BY DEF BFrames
  <1>3. forced \in SUBSET Nat /\ \A i \in forced : i \in 0 .. MaxB /\ i < present /\ w[i].key
    <2>1. present \in 0 .. MaxB /\ MaxB \in Nat
      BY <1>1, EncTypes
    <2> HIDE DEF present, w
    <2> QED BY <2>1
  <1>4. CASE forced = {}
    <2>1. \A i \in 0 .. MaxB : i < present => i \in 0 .. present - 1
      BY <1>1, EncTypes
    <2> QED BY <1>1, <1>2, <1>4, <2>1
  <1>5. CASE forced # {}
    <2>1. \E i \in forced : \A j \in forced : i <= j
      <3> HIDE DEF forced
      <3> QED BY <1>3, <1>5, LeastNat
    <2>2. least \in forced /\ \A j \in forced : least <= j
      <3> HIDE DEF forced
      <3> QED BY <2>1
    <2>3. ASSUME NEW i \in 0 .. MaxB, i < least PROVE ~w[i].key
      <3>1. i \in Nat /\ least \in Nat /\ least < present /\ present \in Nat
        <4>1. least \in 0 .. MaxB /\ least < present /\ present \in 0 .. MaxB
          <5> HIDE DEF present, least, forced
          <5> QED BY <1>1, <1>3, <2>2
        <4> HIDE DEF present, least
        <4> QED BY <4>1, <2>3, EncTypes
      <3>3. i \in 0 .. present - 1
        <4> HIDE DEF present, least
        <4> QED BY <3>1, <2>3
      <3>2. ~(least <= i)
        <4> HIDE DEF present, least
        <4> QED BY <2>3, <3>1
      <3> QED BY <2>2, <3>3, <3>2
    <2> QED BY <1>2, <1>3, <1>5, <2>2, <2>3
  <1> QED BY <1>4, <1>5

(* A group: a reference, and the pictures in front of it, which nobody     *)
(* asked to be key frames.  A key frame is there, and with closed groups   *)
(* alone.                                                                  *)
LEMMA GroupShape ==
    ASSUME NEW e, e.input \in [0 .. MaxB -> Picture], e.input[0].n # 0, e.gop \in Nat,
           \A i \in 0 .. MaxB : e.input[i].key => e.input[i].n # 0
    PROVE  \E h \in 0 .. MaxB, k \in BOOLEAN :
              /\ Group(e) = <<[n |-> e.input[h].n, key |-> k]>>
                            \o [i \in 1 .. h |-> [n |-> e.input[i - 1].n, key |-> FALSE]]
              /\ \A i \in 0 .. MaxB : i < h => ~e.input[i].key
              /\ e.input[h].key => k
              /\ k => e.input[h].n # 0
              /\ ClosedGop /\ k => h = 0
              /\ \E b \in h .. MaxB : e.input[b].n # 0
  <1> DEFINE w == e.input
             b == BFrames(e)
             full == e.gop + b >= GopSize
             until == IF full /\ ClosedGop THEN 0 ELSE b
             key == full \/ w[until].key
             ref == IF ClosedGop /\ until > 0 /\ key THEN until - 1 ELSE until
             k == IF ref = until THEN key ELSE w[ref].key
  <1>1. b \in 0 .. MaxB /\ w[b].n # 0 /\ \A i \in 0 .. MaxB : i < b => ~w[i].key
    BY BFramesEnd
  <1>2. Group(e) = <<[n |-> w[ref].n, key |-> k]>>
                   \o [i \in 1 .. ref |-> [n |-> w[i - 1].n, key |-> FALSE]]
    BY DEF Group
  <1> HIDE DEF b
  <1>3. until \in 0 .. MaxB /\ until <= b /\ w[until].n # 0
    BY <1>1, EncTypes
  <1>4. ref \in 0 .. MaxB /\ ref <= until /\ (ref # until => ref < b /\ ClosedGop /\ key)
    BY <1>1, <1>3, EncTypes
  <1>5. key \in BOOLEAN /\ k \in BOOLEAN
    BY <1>3, <1>4 DEF Picture
  <1>6. (w[ref].key => k) /\ (k => w[ref].n # 0)
    BY <1>3, <1>4
  <1>7. ClosedGop /\ k => ref = 0
    <2>1. ref # until => ~k
      BY <1>1, <1>4
    <2>2. ref = until /\ ClosedGop /\ k => ~(until > 0)
      BY <1>3, EncTypes
    <2> QED BY <1>3, <2>1, <2>2, EncTypes
  <1>8. \A i \in 0 .. MaxB : i < ref => ~w[i].key
    BY <1>1, <1>3, <1>4, EncTypes
  <1>9. b \in ref .. MaxB
    BY <1>1, <1>3, <1>4, EncTypes
  <1> HIDE DEF ref, k
  <1> QED BY <1>1, <1>2, <1>4, <1>5, <1>6, <1>7, <1>8, <1>9

(* The window behind a call: all move up, and the picture follows.         *)
Moved(e, pic) == [i \in 0 .. MaxB |-> IF i < MaxB THEN e.input[i + 1] ELSE pic]

(* What a call gives when nothing is due yet: a group from the window x.   *)
FirstOf(x, h, r) ==
    /\ \E k \in BOOLEAN : /\ r.coded = [n |-> x[h].n, key |-> k]
                          /\ x[h].key => k
                          /\ k => x[h].n # 0
                          /\ ClosedGop /\ k => h = 0
    /\ r.enc.reordered = [i \in 1 .. h |-> [n |-> x[i - 1].n, key |-> FALSE]]
    /\ \A i \in 0 .. MaxB : i < h => ~x[i].key
    /\ \E b \in h .. MaxB : x[b].n # 0

(* A state of the encoder.                                                 *)
Encoder == [input : [0 .. MaxB -> Picture], reordered : Seq(Picture), gop : Nat, ref : BOOLEAN]

(* A call gives the picture that is due, none, or the first of a group.    *)
LEMMA CodecCases ==
    ASSUME NEW e, WindowInv(e), NEW pic \in Picture, pic.key => pic.n # 0,
           NEW r, r = avcodec_encode_video(e, pic)
    PROVE  /\ r.enc \in Encoder /\ r.enc.input = Moved(e, pic)
           /\ \/ /\ e.reordered # <<>>
                 /\ r.enc.reordered = Tail(e.reordered) /\ r.coded = Head(e.reordered)
              \/ /\ e.reordered = <<>> /\ r.enc.input[0].n = 0
                 /\ r.enc.reordered = <<>> /\ r.coded = NoPicture
              \/ /\ e.reordered = <<>> /\ r.enc.input[0].n # 0
                 /\ \E h \in 0 .. MaxB : FirstOf(r.enc.input, h, r)
  <1> DEFINE x == Moved(e, pic)
             s == Shifted(e, pic)
             due == IF s.reordered # <<>> THEN s.reordered
                    ELSE IF s.input[0].n = 0 THEN <<>>
                    ELSE IF ~s.ref THEN <<[n |-> s.input[0].n, key |-> TRUE]>>
                    ELSE Group(s)
  <1>1. /\ e \in Encoder
        /\ e.input \in [0 .. MaxB -> Picture] /\ e.reordered \in Seq(Picture) /\ e.gop \in Nat
        /\ \A i \in 0 .. MaxB : e.input[i].key => e.input[i].n # 0
    BY DEF WindowInv, Picture, Encoder
  <1>2. x \in [0 .. MaxB -> Picture] /\ \A i \in 0 .. MaxB : x[i].key => x[i].n # 0
    <2>1. \A i \in 0 .. MaxB : i < MaxB => i + 1 \in 0 .. MaxB
      BY EncTypes
    <2>2. \A i \in 0 .. MaxB : x[i] = IF i < MaxB THEN e.input[i + 1] ELSE pic
      BY DEF Moved
    <2>3. \A i \in 0 .. MaxB : x[i] \in Picture /\ (x[i].key => x[i].n # 0)
      <3> HIDE DEF x
      <3> QED BY <1>1, <2>1, <2>2
    <2>4. x \in [0 .. MaxB -> Picture]
      BY <2>2, <2>3 DEF Moved
    <2> QED BY <2>3, <2>4
  <1>3. s \in Encoder /\ s.input = x /\ s.reordered = e.reordered /\ s.gop \in Nat
    <2> DEFINE y == [i \in 0 .. MaxB |-> IF i < MaxB THEN e.input[i + 1] ELSE pic]
               o == e.gop + 1
    <2>1. s = [e EXCEPT !.input = y, !.gop = o]
      BY DEF Shifted
    <2>2. y = x /\ o \in Nat
      BY <1>1 DEF Moved
    <2>3. y \in [0 .. MaxB -> Picture]
      BY <1>2, <2>2
    <2> HIDE DEF s, x, y, o
    <2>4. s \in Encoder
      BY <1>1, <2>1, <2>2, <2>3 DEF Encoder
    <2>5. s.input = y /\ s.reordered = e.reordered /\ s.gop = o
      BY <1>1, <2>1 DEF Encoder
    <2> QED BY <2>2, <2>4, <2>5
  <1>4. r = IF due = <<>> THEN [enc |-> s, coded |-> NoPicture]
            ELSE [enc |-> [s EXCEPT !.reordered = Tail(due), !.ref = TRUE,
                                    !.gop = IF Head(due).key THEN 0 ELSE s.gop],
                  coded |-> Head(due)]
    BY DEF avcodec_encode_video
  <1> HIDE DEF s, x
  <1>5. due = <<>> => r.enc = s /\ r.coded = NoPicture
    BY <1>4
  <1>6. ASSUME due # <<>>, due \in Seq(Picture)
        PROVE  r.enc \in Encoder /\ r.enc.input = x /\ r.enc.reordered = Tail(due) /\ r.coded = Head(due)
    <2> DEFINE g == IF Head(due).key THEN 0 ELSE s.gop
               z == [s EXCEPT !.reordered = Tail(due), !.ref = TRUE, !.gop = g]
    <2>1. r = [enc |-> z, coded |-> Head(due)]
      BY <1>4, <1>6
    <2>2. r.enc = z /\ r.coded = Head(due)
      <3> HIDE DEF z, due
      <3> QED BY <2>1
    <2>3. g \in Nat
      BY <1>3
    <2> HIDE DEF g, due
    <2>4. Tail(due) \in Seq(Picture)
      BY <1>6
    <2>5. z \in Encoder /\ z.input = x /\ z.reordered = Tail(due)
      BY <1>3, <2>3, <2>4 DEF Encoder
    <2> HIDE DEF z
    <2> QED BY <2>2, <2>5
  <1> HIDE DEF due
  <1>9. CASE e.reordered # <<>>
    <2>1. due = e.reordered
      BY <1>3, <1>9 DEF due
    <2> QED BY <1>1, <1>6, <1>9, <2>1 DEF x
  <1>10. CASE e.reordered = <<>> /\ x[0].n = 0
    <2>1. due = <<>>
      BY <1>3, <1>10 DEF due
    <2> QED BY <1>3, <1>5, <1>10, <2>1 DEF x
  <1>11. CASE e.reordered = <<>> /\ x[0].n # 0
    <2>1. x[0] \in Picture /\ x[0].n \in Nat /\ x[0].key \in BOOLEAN
      BY <1>2, EncTypes DEF Picture
    <2>2. CASE ~s.ref
      <3> DEFINE f == [n |-> x[0].n, key |-> TRUE]
      <3>1. due = <<f>>
        BY <1>3, <1>11, <2>2 DEF due
      <3>2. f \in Picture
        BY <2>1 DEF Picture
      <3> HIDE DEF f
      <3>3. due # <<>> /\ due \in Seq(Picture) /\ Head(due) = f /\ Tail(due) = <<>>
        BY <3>1, <3>2
      <3>4. r.enc \in Encoder /\ r.enc.input = x /\ r.enc.reordered = <<>> /\ r.coded = f
        BY <1>6, <3>3
      <3>5. [i \in 1 .. 0 |-> [n |-> x[i - 1].n, key |-> FALSE]] = <<>>
        OBVIOUS
      <3>6. 0 \in 0 .. MaxB /\ \A i \in 0 .. MaxB : ~(i < 0)
        BY EncTypes
      <3>7. FirstOf(x, 0, r)
        BY <1>11, <3>4, <3>5, <3>6 DEF FirstOf, f
      <3> QED BY <1>11, <3>4, <3>6, <3>7 DEF x
    <2>3. CASE s.ref
      <3>1. due = Group(s)
        BY <1>3, <1>11, <2>3 DEF due
      <3>2. PICK h \in 0 .. MaxB, k \in BOOLEAN :
              /\ Group(s) = <<[n |-> x[h].n, key |-> k]>>
                            \o [i \in 1 .. h |-> [n |-> x[i - 1].n, key |-> FALSE]]
              /\ \A i \in 0 .. MaxB : i < h => ~x[i].key
              /\ x[h].key => k
              /\ k => x[h].n # 0
              /\ ClosedGop /\ k => h = 0
              /\ \E b \in h .. MaxB : x[b].n # 0
        <4>1. /\ s.input \in [0 .. MaxB -> Picture] /\ s.input[0].n # 0 /\ s.gop \in Nat
              /\ \A i \in 0 .. MaxB : s.input[i].key => s.input[i].n # 0
          BY <1>2, <1>3, <1>11
        <4>2. \E h \in 0 .. MaxB, k \in BOOLEAN :
              /\ Group(s) = <<[n |-> s.input[h].n, key |-> k]>>
                            \o [i \in 1 .. h |-> [n |-> s.input[i - 1].n, key |-> FALSE]]
              /\ \A i \in 0 .. MaxB : i < h => ~s.input[i].key
              /\ s.input[h].key => k
              /\ k => s.input[h].n # 0
              /\ ClosedGop /\ k => h = 0
              /\ \E b \in h .. MaxB : s.input[b].n # 0
          BY <4>1, GroupShape, Zenon
        <4> QED BY <1>3, <4>2, Zenon
      <3> DEFINE first == [n |-> x[h].n, key |-> k]
                 bs == [i \in 1 .. h |-> [n |-> x[i - 1].n, key |-> FALSE]]
      <3>3. first \in Picture /\ bs \in Seq(Picture)
        <4>1. \A i \in 1 .. h : i - 1 \in 0 .. MaxB
          BY <3>2, EncTypes
        <4>2. \A i \in 1 .. h : [n |-> x[i - 1].n, key |-> FALSE] \in Picture
          BY <1>2, <4>1 DEF Picture
        <4>3. h \in Nat
          BY <3>2, EncTypes
        <4>4. first \in Picture
          BY <1>2, <3>2 DEF Picture
        <4> QED BY <4>2, <4>3, <4>4
      <3> HIDE DEF first, bs
      <3>4. due = <<first>> \o bs
        BY <3>1, <3>2 DEF first, bs
      <3>5. due # <<>> /\ due \in Seq(Picture) /\ Head(due) = first /\ Tail(due) = bs
        BY <3>3, <3>4
      <3>6. r.enc \in Encoder /\ r.enc.input = x /\ r.enc.reordered = bs /\ r.coded = first
        BY <1>6, <3>5
      <3>7. FirstOf(x, h, r)
        BY <3>2, <3>6 DEF FirstOf, first, bs
      <3> QED BY <1>11, <3>2, <3>6, <3>7 DEF x
    <2> QED BY <2>2, <2>3
  <1> QED BY <1>9, <1>10, <1>11

(* Pictures move up with the window.                                       *)
LEMMA MovedUp ==
    ASSUME NEW e, WindowInv(e), NEW pic \in Picture
    PROVE  /\ Moved(e, pic) \in [0 .. MaxB -> Picture] /\ Moved(e, pic)[MaxB] = pic
           /\ \A i \in 0 .. MaxB : i < MaxB => /\ i + 1 \in 0 .. MaxB
                                               /\ Moved(e, pic)[i] = e.input[i + 1]
           /\ e.input \in [0 .. MaxB -> Picture] /\ Len(e.reordered) \in 0 .. MaxB
           /\ MaxB \in 0 .. MaxB /\ 0 \in 0 .. MaxB
           /\ e.reordered # <<>> <=> Len(e.reordered) > 0
  <1>1. e.input \in [0 .. MaxB -> Picture] /\ e.reordered \in Seq(Picture) /\ Len(e.reordered) <= MaxB
    BY DEF WindowInv, Picture
  <1> QED BY <1>1, EncTypes DEF Moved

(* What is left of the pictures that are due are those at the front of the *)
(* window.                                                                 *)
LEMMA DueLeft ==
    ASSUME NEW e, WindowInv(e), NEW pic \in Picture, e.reordered # <<>>
    PROVE  /\ Len(Tail(e.reordered)) = Len(e.reordered) - 1 /\ Tail(e.reordered) \in Seq(Picture)
           /\ \A j \in 1 .. Len(Tail(e.reordered)) :
                 /\ Tail(e.reordered)[j] = [n |-> Moved(e, pic)[j - 1].n, key |-> FALSE]
                 /\ ~Moved(e, pic)[j - 1].key
           /\ Head(e.reordered) = [n |-> e.input[0].n, key |-> FALSE]
           /\ ~e.input[0].key
  <1> DEFINE q == e.reordered
             x == Moved(e, pic)
             L == Len(q)
  <1>1. q \in Seq(Picture) /\ L \in Nat /\ L > 0 /\ L <= MaxB
    BY MovedUp DEF WindowInv, Picture
  <1>2. \A j \in 1 .. L : q[j] = [n |-> e.input[j - 1].n, key |-> FALSE] /\ ~e.input[j - 1].key
    BY DEF WindowInv
  <1> HIDE DEF q, x
  <1>3. /\ Len(Tail(q)) = L - 1 /\ Tail(q) \in Seq(Picture) /\ Head(q) = q[1]
        /\ \A j \in 1 .. L - 1 : Tail(q)[j] = q[j + 1]
    BY <1>1 DEF L
  <1>4. ASSUME NEW j \in 1 .. L - 1
        PROVE  /\ Tail(q)[j] = [n |-> x[j - 1].n, key |-> FALSE]
               /\ ~x[j - 1].key
    <2>1. j + 1 \in 1 .. L /\ (j + 1) - 1 = j /\ j - 1 \in 0 .. MaxB /\ j - 1 < MaxB /\ (j - 1) + 1 = j
      BY <1>1, EncTypes
    <2>2. x[j - 1] = e.input[j]
      BY <2>1, MovedUp DEF x
    <2>3. q[j + 1] = [n |-> e.input[j].n, key |-> FALSE] /\ ~e.input[j].key
      <3>1. q[j + 1] = [n |-> e.input[(j + 1) - 1].n, key |-> FALSE] /\ ~e.input[(j + 1) - 1].key
        BY <1>2, <2>1
      <3> QED BY <3>1, <2>1
    <2> QED BY <1>3, <2>2, <2>3
  <1>5. Head(q) = [n |-> e.input[0].n, key |-> FALSE] /\ ~e.input[0].key
    <2>1. 1 \in 1 .. L /\ 1 - 1 = 0
      BY <1>1
    <2>2. q[1] = [n |-> e.input[1 - 1].n, key |-> FALSE] /\ ~e.input[1 - 1].key
      BY <1>2, <2>1
    <2> QED BY <1>3, <2>1, <2>2
  <1> QED BY <1>3, <1>4, <1>5 DEF L, x, q

(* What a call gives of the pictures that are due.                         *)
LEMMA DueGiven ==
    ASSUME NEW e, WindowInv(e), NEW pic \in Picture, e.reordered # <<>>,
           NEW r, r.enc.reordered = Tail(e.reordered), r.coded = Head(e.reordered)
    PROVE  /\ r.coded.n = e.input[0].n /\ ~r.coded.key /\ ~e.input[0].key
           /\ r.enc.reordered \in Seq(Picture)
           /\ Len(r.enc.reordered) = Len(e.reordered) - 1
           /\ \A j \in 1 .. Len(r.enc.reordered) :
                 /\ r.enc.reordered[j] = [n |-> Moved(e, pic)[j - 1].n, key |-> FALSE]
                 /\ ~Moved(e, pic)[j - 1].key
  <1>1. /\ Len(Tail(e.reordered)) = Len(e.reordered) - 1 /\ Tail(e.reordered) \in Seq(Picture)
        /\ \A j \in 1 .. Len(Tail(e.reordered)) :
              /\ Tail(e.reordered)[j] = [n |-> Moved(e, pic)[j - 1].n, key |-> FALSE]
              /\ ~Moved(e, pic)[j - 1].key
        /\ Head(e.reordered) = [n |-> e.input[0].n, key |-> FALSE]
        /\ ~e.input[0].key
    BY DueLeft, Zenon
  <1>2. r.coded = [n |-> e.input[0].n, key |-> FALSE]
    BY <1>1
  <1>3. r.coded.n = e.input[0].n /\ ~r.coded.key
    BY <1>2
  <1> QED BY <1>1, <1>3, Zenon

(* A call keeps the order of the window.                                   *)
LEMMA CodecWindow ==
    ASSUME NEW e, WindowInv(e), NEW pic \in Picture, pic.key => pic.n # 0,
           pic.n = 0 \/ \A i \in 0 .. MaxB : e.input[i].n < pic.n,
           NEW r, r = avcodec_encode_video(e, pic)
    PROVE  /\ WindowInv(r.enc) /\ r.coded \in Picture /\ (r.coded.key => r.coded.n # 0)
  <1> DEFINE x == Moved(e, pic)
             q == r.enc.reordered
  <1>1. /\ x \in [0 .. MaxB -> Picture] /\ x[MaxB] = pic
        /\ \A i \in 0 .. MaxB : i < MaxB => i + 1 \in 0 .. MaxB /\ x[i] = e.input[i + 1]
        /\ e.input \in [0 .. MaxB -> Picture] /\ MaxB \in Nat
    BY MovedUp, EncTypes
  <1>2. r.enc \in Encoder /\ r.enc.input = x
    BY CodecCases
  <1>3. ASSUME NEW i \in 0 .. MaxB PROVE x[i].key => x[i].n # 0
    <2>1. CASE i = MaxB
      BY <1>1, <2>1
    <2>2. CASE i < MaxB
      <3>1. \A j \in 0 .. MaxB : e.input[j].key => e.input[j].n # 0
        BY DEF WindowInv
      <3> QED BY <1>1, <2>2, <3>1
    <2> QED BY <1>1, <2>1, <2>2
  <1> HIDE DEF x
  <1>4. ASSUME NEW i \in 0 .. MaxB, NEW j \in 0 .. MaxB, i < j, x[i].n # 0, x[j].n # 0
        PROVE  x[i].n < x[j].n
    <2>1. i < MaxB /\ i + 1 \in 0 .. MaxB /\ x[i] = e.input[i + 1]
      BY <1>1, <1>4
    <2>2. CASE j = MaxB
      BY <1>1, <1>4, <2>1, <2>2
    <2>3. CASE j < MaxB
      <3>1. j + 1 \in 0 .. MaxB /\ x[j] = e.input[j + 1] /\ i + 1 < j + 1
        BY <1>1, <1>4, <2>3
      <3> QED BY <1>4, <2>1, <3>1 DEF WindowInv
    <2> QED BY <1>1, <2>2, <2>3
  <1>5. /\ q \in Seq(Picture) /\ Len(q) <= MaxB
        /\ \A j \in 1 .. Len(q) : q[j] = [n |-> x[j - 1].n, key |-> FALSE] /\ ~x[j - 1].key
        /\ r.coded \in Picture /\ (r.coded.key => r.coded.n # 0)
    <2>1. CASE e.reordered # <<>> /\ q = Tail(e.reordered) /\ r.coded = Head(e.reordered)
      <3>1. Len(e.reordered) \in 0 .. MaxB
        BY MovedUp
      <3>2. /\ r.coded.n = e.input[0].n /\ ~r.coded.key
            /\ r.enc.reordered \in Seq(Picture)
            /\ Len(r.enc.reordered) = Len(e.reordered) - 1
            /\ \A j \in 1 .. Len(r.enc.reordered) :
                  /\ r.enc.reordered[j] = [n |-> Moved(e, pic)[j - 1].n, key |-> FALSE]
                  /\ ~Moved(e, pic)[j - 1].key
        <4>1. /\ e.reordered # <<>> /\ r.enc.reordered = Tail(e.reordered)
              /\ r.coded = Head(e.reordered)
          BY <2>1
        <4> HIDE DEF q
        <4>2. /\ r.coded.n = e.input[0].n /\ ~r.coded.key
              /\ r.enc.reordered \in Seq(Picture)
              /\ Len(r.enc.reordered) = Len(e.reordered) - 1
          BY <4>1, DueGiven, Zenon
        <4>3. \A j \in 1 .. Len(Tail(e.reordered)) :
                  /\ Tail(e.reordered)[j] = [n |-> Moved(e, pic)[j - 1].n, key |-> FALSE]
                  /\ ~Moved(e, pic)[j - 1].key
          BY <4>1, DueLeft, Zenon
        <4> QED BY <4>1, <4>2, <4>3, Zenon
      <3>3. r.coded \in Picture
        <4>1. e.reordered \in Seq(Picture)
          BY DEF WindowInv, Picture
        <4> QED BY <2>1, <4>1
      <3>4. /\ q \in Seq(Picture) /\ Len(q) = Len(e.reordered) - 1
            /\ \A j \in 1 .. Len(q) : q[j] = [n |-> x[j - 1].n, key |-> FALSE] /\ ~x[j - 1].key
        BY <3>2 DEF x
      <3> QED BY <1>1, <3>1, <3>2, <3>3, <3>4
    <2>2. CASE q = <<>> /\ r.coded = NoPicture
      <3>1. NoPicture \in Picture /\ ~NoPicture.key
        BY DEF NoPicture, Picture
      <3>2. Len(q) = 0 /\ q \in Seq(Picture)
        BY <2>2
      <3> QED BY <1>1, <2>2, <3>1, <3>2
    <2>3. CASE \E h \in 0 .. MaxB : FirstOf(x, h, r)
      <3>1. PICK h \in 0 .. MaxB : FirstOf(x, h, r)
        BY <2>3
      <3>2. /\ q = [i \in 1 .. h |-> [n |-> x[i - 1].n, key |-> FALSE]]
            /\ \A i \in 0 .. MaxB : i < h => ~x[i].key
        BY <3>1 DEF FirstOf
      <3>3. \A i \in 1 .. h : i - 1 \in 0 .. MaxB /\ i - 1 < h
        BY <1>1, <3>1
      <3>4. \A i \in 1 .. h : [n |-> x[i - 1].n, key |-> FALSE] \in Picture
        BY <1>1, <3>3 DEF Picture
      <3>5. q \in Seq(Picture) /\ Len(q) = h
        BY <1>1, <3>1, <3>2, <3>4
      <3>6. \A j \in 1 .. Len(q) : q[j] = [n |-> x[j - 1].n, key |-> FALSE] /\ ~x[j - 1].key
        BY <3>2, <3>3, <3>5
      <3>7. r.coded \in Picture /\ (r.coded.key => r.coded.n # 0)
        BY <1>1, <3>1 DEF FirstOf, Picture
      <3> QED BY <1>1, <3>1, <3>5, <3>6, <3>7
    <2> QED BY <1>2, <2>1, <2>2, <2>3, CodecCases
  <1>6. r.enc \in [input : [0 .. MaxB -> [n : Nat, key : BOOLEAN]],
                   reordered : Seq([n : Nat, key : BOOLEAN]), gop : Nat, ref : BOOLEAN]
    BY <1>2 DEF Encoder, Picture
  <1> QED BY <1>2, <1>3, <1>4, <1>5, <1>6 DEF WindowInv

(* What is inside behind a call, and what the call gives of it.            *)
LEMMA CodecInside ==
    ASSUME NEW e, WindowInv(e), NEW pic \in Picture, pic.key => pic.n # 0,
           pic.n = 0 \/ \A i \in 0 .. MaxB : e.input[i].n < pic.n,
           NEW r, r = avcodec_encode_video(e, pic)
    PROVE  /\ Inside(r.enc) = (Inside(e) \cup {pic.n}) \ {0, r.coded.n}
           /\ r.coded.n \in Inside(e) \cup {pic.n, 0}
  <1> DEFINE x == Moved(e, pic)
             H == Len(e.reordered)
             K == Len(r.enc.reordered)
  <1>1. /\ x \in [0 .. MaxB -> Picture] /\ x[MaxB] = pic
        /\ \A i \in 0 .. MaxB : i < MaxB => i + 1 \in 0 .. MaxB /\ x[i] = e.input[i + 1]
        /\ e.input \in [0 .. MaxB -> Picture] /\ MaxB \in Nat /\ H \in 0 .. MaxB
        /\ e.reordered # <<>> <=> H > 0
    BY MovedUp, EncTypes
  <1>2. \A i \in 0 .. MaxB : x[i].n \in Nat /\ e.input[i].n \in Nat
    BY <1>1 DEF Picture
  <1>3. WindowInv(r.enc) /\ r.enc.input = x
    BY CodecWindow, CodecCases
  <1>4. \A i, j \in 0 .. MaxB : i # j /\ x[i].n # 0 /\ x[j].n # 0 => x[i].n # x[j].n
    <2>1. \A i, j \in 0 .. MaxB : i < j /\ x[i].n # 0 /\ x[j].n # 0 => x[i].n < x[j].n
      BY <1>3 DEF WindowInv
    <2> HIDE DEF x
    <2> QED BY <1>1, <1>2, <2>1
  <1>5. /\ \A n : n \in Inside(e) <=> n # 0 /\ \E i \in 0 .. MaxB : i # H /\ e.input[i].n = n
        /\ \A n : n \in Inside(r.enc) <=> n # 0 /\ \E i \in 0 .. MaxB : i # K /\ x[i].n = n
    BY <1>3 DEF Inside
  <1>6. CASE e.reordered # <<>>
    <2>1. K = H - 1 /\ r.coded.n = e.input[0].n /\ H > 0
      <3>1. r.enc.reordered = Tail(e.reordered) /\ r.coded = Head(e.reordered)
        BY <1>6, CodecCases
      <3>2. Len(r.enc.reordered) = Len(e.reordered) - 1 /\ r.coded.n = e.input[0].n
        BY <1>6, <3>1, DueGiven, Zenon
      <3> QED BY <1>1, <1>6, <3>2
    <2> HIDE DEF x, H, K
    <2>2. \A i \in 0 .. MaxB : x[i].n # 0 => x[i].n # r.coded.n
      <3> SUFFICES ASSUME NEW i \in 0 .. MaxB, x[i].n # 0 PROVE x[i].n # e.input[0].n
        BY <2>1
      <3>1. CASE i = MaxB
        BY <1>1, <1>2, <3>1
      <3>2. CASE i < MaxB
        <4>1. i + 1 \in 0 .. MaxB /\ x[i] = e.input[i + 1] /\ 0 < i + 1 /\ 0 \in 0 .. MaxB
          BY <1>1, <3>2
        <4>2. e.input[0].n # 0 => e.input[0].n < e.input[i + 1].n
          BY <4>1 DEF WindowInv
        <4> QED BY <1>2, <4>1, <4>2
      <3> QED BY <1>1, <3>1, <3>2
    <2>3. ASSUME NEW n \in Inside(r.enc) PROVE n \in (Inside(e) \cup {pic.n}) \ {0, r.coded.n}
      <3>1. PICK i \in 0 .. MaxB : i # K /\ x[i].n = n /\ n # 0
        BY <1>5, <2>3
      <3>2. i < MaxB => i + 1 \in 0 .. MaxB /\ i + 1 # H /\ e.input[i + 1].n = n
        BY <1>1, <2>1, <3>1
      <3> QED BY <1>1, <1>5, <2>2, <3>1, <3>2
    <2>4. ASSUME NEW n, n \in Inside(e) \cup {pic.n}, n # 0, n # r.coded.n PROVE n \in Inside(r.enc)
      <3>1. CASE n = pic.n
        <4>1. MaxB \in 0 .. MaxB /\ MaxB # K
          BY <1>1, <2>1
        <4> QED BY <1>1, <1>5, <2>4, <3>1, <4>1
      <3>2. CASE n \in Inside(e)
        <4>1. PICK j \in 0 .. MaxB : j # H /\ e.input[j].n = n
          BY <1>5, <3>2
        <4>2. j # 0
          BY <2>1, <2>4, <4>1
        <4>3. j - 1 \in 0 .. MaxB /\ j - 1 # K /\ j - 1 < MaxB /\ (j - 1) + 1 = j
          BY <1>1, <2>1, <4>1, <4>2
        <4>4. x[j - 1] = e.input[j]
          BY <1>1, <4>3
        <4> QED BY <1>5, <2>4, <4>1, <4>3, <4>4
      <3> QED BY <2>4, <3>1, <3>2
    <2>5. r.coded.n \in Inside(e) \cup {pic.n, 0}
      <3>1. 0 \in 0 .. MaxB /\ 0 # H
        BY <1>1, <2>1
      <3> QED BY <1>5, <2>1, <3>1
    <2> QED BY <2>3, <2>4, <2>5
  <1>7. CASE e.reordered = <<>>
    <2>1. PICK h \in 0 .. MaxB : K = h /\ r.coded.n = x[h].n
      <3>1. CASE x[0].n = 0
        <4>1. r.enc.reordered = <<>> /\ r.coded = NoPicture
          BY <1>3, <1>7, <3>1, CodecCases
        <4>2. K = 0 /\ 0 \in 0 .. MaxB /\ NoPicture.n = 0
          BY <1>1, <4>1 DEF NoPicture
        <4> QED BY <3>1, <4>1, <4>2
      <3>2. CASE x[0].n # 0
        <4>1. PICK h \in 0 .. MaxB : FirstOf(x, h, r)
          BY <1>3, <1>7, <3>2, CodecCases
        <4>2. r.coded.n = x[h].n
          BY <4>1 DEF FirstOf
        <4>3. r.enc.reordered = [i \in 1 .. h |-> [n |-> x[i - 1].n, key |-> FALSE]]
          BY <4>1 DEF FirstOf
        <4>4. h \in Nat
          BY <1>1, <4>1
        <4>5. K = h
          <5> HIDE DEF x
          <5> QED BY <4>3, <4>4
        <4> QED BY <4>1, <4>2, <4>5
      <3> QED BY <3>1, <3>2
    <2>2. H = 0
      BY <1>7
    <2> HIDE DEF x, H, K
    <2>3. ASSUME NEW n \in Inside(r.enc) PROVE n \in (Inside(e) \cup {pic.n}) \ {0, r.coded.n}
      <3>1. PICK i \in 0 .. MaxB : i # h /\ x[i].n = n /\ n # 0
        BY <1>5, <2>1, <2>3
      <3>2. i < MaxB => i + 1 \in 0 .. MaxB /\ i + 1 # H /\ e.input[i + 1].n = n
        BY <1>1, <2>2, <3>1
      <3>3. n # r.coded.n
        BY <1>4, <2>1, <3>1
      <3> QED BY <1>1, <1>5, <3>1, <3>2, <3>3
    <2>4. ASSUME NEW n, n \in Inside(e) \cup {pic.n}, n # 0, n # r.coded.n PROVE n \in Inside(r.enc)
      <3>1. CASE n = pic.n
        <4>1. MaxB \in 0 .. MaxB /\ MaxB # K
          BY <1>1, <2>1, <2>4, <3>1
        <4> QED BY <1>1, <1>5, <2>4, <3>1, <4>1
      <3>2. CASE n \in Inside(e)
        <4>1. PICK j \in 0 .. MaxB : j # H /\ e.input[j].n = n
          BY <1>5, <3>2
        <4>3. j - 1 \in 0 .. MaxB /\ j - 1 < MaxB /\ (j - 1) + 1 = j
          BY <1>1, <2>2, <4>1
        <4>4. x[j - 1] = e.input[j]
          BY <1>1, <4>3
        <4>5. j - 1 # K
          BY <2>1, <2>4, <4>1, <4>4
        <4> QED BY <1>5, <2>4, <4>1, <4>3, <4>4, <4>5
      <3> QED BY <2>4, <3>1, <3>2
    <2>5. r.coded.n \in Inside(e) \cup {pic.n, 0}
      <3>1. h < MaxB => h + 1 \in 0 .. MaxB /\ h + 1 # H /\ e.input[h + 1].n = r.coded.n
        BY <1>1, <2>1, <2>2
      <3>2. h = MaxB => r.coded.n = pic.n
        BY <1>1, <2>1
      <3>3. h < MaxB \/ h = MaxB
        BY <1>1, <2>1
      <3> QED BY <1>5, <3>1, <3>2, <3>3
    <2> QED BY <2>3, <2>4, <2>5
  <1> QED BY <1>6, <1>7

(* A picture that was asked to be a key frame stays one.                   *)
LEMMA CodecCarries ==
    ASSUME NEW e, WindowInv(e), NEW pic \in Picture, pic.key => pic.n # 0,
           pic.n = 0 \/ \A i \in 0 .. MaxB : e.input[i].n < pic.n,
           NEW r, r = avcodec_encode_video(e, pic),
           NEW W, 0 \notin W, pic.n \in W => pic.key,
           \A i \in 0 .. MaxB : e.input[i].n \in W => e.input[i].key
    PROVE  /\ r.coded.n \in W => r.coded.key
           /\ \A i \in 0 .. MaxB : r.enc.input[i].n \in W => r.enc.input[i].key
  <1> DEFINE x == Moved(e, pic)
  <1>1. /\ x[MaxB] = pic /\ MaxB \in Nat /\ 0 \in 0 .. MaxB
        /\ \A i \in 0 .. MaxB : i < MaxB => i + 1 \in 0 .. MaxB /\ x[i] = e.input[i + 1]
    BY MovedUp, EncTypes
  <1>2. r.enc.input = x
    BY CodecCases
  <1> HIDE DEF x
  <1>3. \A i \in 0 .. MaxB : x[i].n \in W => x[i].key
    <2> TAKE i \in 0 .. MaxB
    <2>1. CASE i = MaxB
      BY <1>1, <2>1
    <2>2. CASE i < MaxB
      BY <1>1, <2>2
    <2> QED BY <1>1, <2>1, <2>2
  <1>4. r.coded.n \in W => r.coded.key
    <2>1. CASE /\ e.reordered # <<>> /\ r.enc.reordered = Tail(e.reordered)
               /\ r.coded = Head(e.reordered)
      <3>1. r.coded.n = e.input[0].n /\ ~e.input[0].key
        BY <2>1, DueGiven, Zenon
      <3> QED BY <1>1, <3>1
    <2>2. CASE r.coded = NoPicture
      BY <2>2 DEF NoPicture
    <2>3. CASE \E h \in 0 .. MaxB : FirstOf(x, h, r)
      BY <1>3, <2>3 DEF FirstOf
    <2> QED BY <1>2, <2>1, <2>2, <2>3, CodecCases
  <1> QED BY <1>2, <1>3, <1>4

(* When a call gives a picture, and how many are left of a group.          *)
LEMMA CodecDue ==
    ASSUME NEW e, WindowInv(e), NEW pic \in Picture, pic.key => pic.n # 0,
           NEW r, r = avcodec_encode_video(e, pic)
    PROVE  /\ e.reordered # <<>> => /\ r.coded.n = e.input[0].n /\ ~r.coded.key
                                    /\ Len(r.enc.reordered) = Len(e.reordered) - 1
           /\ e.reordered = <<>> /\ r.enc.input[0].n = 0 =>
                r.coded = NoPicture /\ r.enc.reordered = <<>>
           /\ e.reordered = <<>> /\ r.enc.input[0].n # 0 =>
                /\ ClosedGop /\ r.coded.key => r.coded.n = r.enc.input[0].n
                /\ \A m \in 0 .. MaxB :
                      (\A i \in 0 .. MaxB : r.enc.input[i].n # 0 <=> i <= m) =>
                         r.coded.n # 0 /\ Len(r.enc.reordered) <= m
  <1>1. ASSUME e.reordered # <<>>
        PROVE  /\ r.coded.n = e.input[0].n /\ ~r.coded.key
               /\ Len(r.enc.reordered) = Len(e.reordered) - 1
    <2>1. r.enc.reordered = Tail(e.reordered) /\ r.coded = Head(e.reordered)
      BY <1>1, CodecCases
    <2> QED BY <1>1, <2>1, DueGiven, Zenon
  <1>2. e.reordered = <<>> /\ r.enc.input[0].n = 0 => r.coded = NoPicture /\ r.enc.reordered = <<>>
    BY CodecCases
  <1>3. ASSUME e.reordered = <<>>, r.enc.input[0].n # 0
        PROVE  /\ ClosedGop /\ r.coded.key => r.coded.n = r.enc.input[0].n
               /\ \A m \in 0 .. MaxB :
                     (\A i \in 0 .. MaxB : r.enc.input[i].n # 0 <=> i <= m) =>
                        r.coded.n # 0 /\ Len(r.enc.reordered) <= m
    <2> DEFINE x == r.enc.input
    <2>1. PICK h \in 0 .. MaxB : FirstOf(x, h, r)
      BY <1>3, CodecCases
    <2> HIDE DEF x
    <2>2. PICK k \in BOOLEAN : r.coded = [n |-> x[h].n, key |-> k] /\ (ClosedGop /\ k => h = 0)
      BY <2>1 DEF FirstOf
    <2>3. r.enc.reordered = [i \in 1 .. h |-> [n |-> x[i - 1].n, key |-> FALSE]]
      BY <2>1 DEF FirstOf
    <2>4. h \in Nat /\ MaxB \in Nat
      BY <2>1, EncTypes
    <2>5. Len(r.enc.reordered) = h
      BY <2>3, <2>4
    <2>6. ASSUME NEW m \in 0 .. MaxB, \A i \in 0 .. MaxB : x[i].n # 0 <=> i <= m
          PROVE  r.coded.n # 0 /\ Len(r.enc.reordered) <= m
      <3>1. PICK b \in h .. MaxB : x[b].n # 0
        BY <2>1 DEF FirstOf
      <3>2. h <= m
        BY <2>4, <2>6, <3>1
      <3> QED BY <2>1, <2>2, <2>5, <2>6, <3>2
    <2>7. ClosedGop /\ r.coded.key => r.coded.n = x[0].n
      BY <2>2
    <2> QED BY <2>6, <2>7 DEF x
  <1> QED BY <1>1, <1>2, <1>3

(* The queue of delays rises, whatever the encoder gives.                  *)
LEMMA InitVideo == Init => QueueRises
  BY DEF Init, QueueRises

(* A frame enters the queue behind all others.                             *)
LEMMA VideoEncode ==
    ASSUME QueueRises, ChainEncode
    PROVE  QueueRises'
  <1> USE DEF QueueRises
  <1>1. /\ delay' = Append(delay, sent') /\ sent' = sent + 1 /\ out' = out
        /\ sent \in Nat /\ delay \in Seq(Nat) /\ Len(delay) \in Nat
    BY DEF ChainEncode, Encoded, Accept
  <1>2. /\ delay' \in Seq(Nat) /\ Len(delay') = Len(delay) + 1
        /\ \A i \in 1 .. Len(delay) : delay'[i] = delay[i] /\ delay[i] \in Nat
        /\ delay'[Len(delay) + 1] = sent + 1
    <2>1. sent' \in Nat
      BY <1>1
    <2> QED BY <1>1, <2>1, ElementOfSeq, AppendProperties
  <1>3. \A i \in 1 .. Len(delay') : i \in 1 .. Len(delay) \/ i = Len(delay) + 1
    BY <1>1, <1>2
  <1>4. \A i \in 1 .. Len(delay') : out'.ts < delay'[i] /\ delay'[i] <= sent'
    BY <1>1, <1>2, <1>3
  <1>5. \A i, j \in 1 .. Len(delay') : i < j => delay'[i] < delay'[j]
    BY <1>1, <1>2, <1>3
  <1>6. delay' # <<>> /\ out'.ts \in 0 .. sent' /\ sent' \in Nat
    <2>1. Len(delay') # 0
      BY <1>1, <1>2
    <2>2. delay' # <<>>
      BY <2>1
    <2>3. out'.ts \in 0 .. sent' /\ sent' \in Nat
      BY <1>1
    <2> QED BY <2>2, <2>3
  <1> QED BY <1>2, <1>4, <1>5, <1>6

(* The head leaves the queue with a buffer, and all others are behind it.  *)
LEMMA VideoHead ==
    ASSUME QueueRises, delay # <<>>, delay' = Tail(delay), out'.ts = Head(delay),
           sent' = sent, at' # "push"
    PROVE  QueueRises' /\ out'.ts > out.ts
  <1> USE DEF QueueRises
  <1>1. /\ delay' \in Seq(Nat) /\ Len(delay') = Len(delay) - 1 /\ Len(delay) \in Nat \ {0}
        /\ \A i \in 1 .. Len(delay') : delay'[i] = delay[i + 1]
        /\ out'.ts = delay[1] /\ \A i \in 1 .. Len(delay) : delay[i] \in Nat
    OBVIOUS
  <1>2. \A i \in 1 .. Len(delay') : i + 1 \in 1 .. Len(delay) /\ 1 < i + 1
    BY <1>1
  <1>3. \A i \in 1 .. Len(delay') : out'.ts < delay'[i] /\ delay'[i] <= sent'
    BY <1>1, <1>2
  <1>4. \A i, j \in 1 .. Len(delay') : i < j => delay'[i] < delay'[j]
    BY <1>1, <1>2
  <1>5. out'.ts \in 0 .. sent' /\ out.ts < out'.ts
    BY <1>1
  <1> QED BY <1>1, <1>3, <1>4, <1>5

(* Every step keeps the order, and a buffer that goes out is behind the    *)
(* last one.                                                               *)
LEMMA NextVideo ==
    ASSUME QueueRises, [Next]_vars
    PROVE  QueueRises' /\ (out' # out => out'.ts > out.ts)
  <1>1. CASE ChainEncode
    BY <1>1, VideoEncode DEF ChainEncode, Encoded
  <1>2. CASE ChainPush
    <2>1. /\ delay # <<>> /\ delay' = Tail(delay) /\ out'.ts = Head(delay) /\ sent' = sent
          /\ at' # "push"
      BY <1>2 DEF ChainPush, Push, QueueRises
    <2> QED BY <2>1, VideoHead
  <1>3. CASE FlushBuffer
    <2>1. /\ delay # <<>> /\ delay' = Tail(delay) /\ out'.ts = Head(delay) /\ sent' = sent
          /\ at' # "push"
      BY <1>3 DEF FlushBuffer
    <2> QED BY <2>1, VideoHead
  <1>4. CASE \/ gst_ffmpegenc_setcaps \/ GstForceKeyUnit \/ EosEvent \/ Resume
             \/ ChainRefused \/ UNCHANGED vars
    <2>1. /\ UNCHANGED <<delay, out>> /\ (at' = "push" => at = "push") /\ sent' \in {sent, sent + 1}
      BY <1>4 DEF gst_ffmpegenc_setcaps, GstForceKeyUnit, EosEvent, Resume, ChainRefused, Accept,
           vars, hvars
    <2> QED BY <2>1 DEF QueueRises
  <1>5. CASE EosForward \/ gst_ffmpegenc_change_state
    <2>1. delay' = <<>> /\ out' = out /\ sent' = sent /\ at' # "push"
      BY <1>5 DEF EosForward, gst_ffmpegenc_change_state, hvars
    <2> QED BY <2>1 DEF QueueRises
  <1> QED BY <1>1, <1>2, <1>3, <1>4, <1>5 DEF Next

(* What is inside is behind nothing that was sent.                         *)
LEMMA InsideBounds ==
    ASSUME PendingInside, sent \in Nat
    PROVE  /\ pending \subseteq 1 .. sent
           /\ enc.input \in [0 .. MaxB -> Picture] /\ enc.reordered \in Seq(Picture)
           /\ \A i \in 0 .. MaxB : enc.input[i].n \in 0 .. sent
           /\ Len(enc.reordered) \in 0 .. MaxB
           /\ IsFiniteSet(pending) /\ Cardinality(pending) \in Nat
  <1>1. /\ enc.input \in [0 .. MaxB -> Picture] /\ enc.reordered \in Seq(Picture)
        /\ Len(enc.reordered) <= MaxB
    BY DEF PendingInside, WindowInv, Picture
  <1>2. \A i \in 0 .. MaxB : enc.input[i].n \in Nat /\ enc.input[i].n <= sent
    BY <1>1 DEF PendingInside, Picture
  <1>3. pending \subseteq 1 .. sent
    BY <1>2 DEF PendingInside, Inside
  <1>4. IsFiniteSet(pending)
    <2>1. IsFiniteSet(1 .. sent)
      BY FS_Interval
    <2> QED BY <1>3, <2>1, FS_Subset
  <1> QED BY <1>1, <1>2, <1>3, <1>4, EncTypes, FS_CardinalityType

(* A frame enters the encoder, and one may leave it.                       *)
LEMMA EncodeInside ==
    ASSUME VideoInv, ChainEncode
    PROVE  /\ PendingInside' /\ RequestsInside' /\ ForcedAreKeys'
           /\ enc'.input = Moved(enc, [n |-> sent + 1, key |-> pict_type])
           /\ enc.reordered # <<>> => /\ result'.n = enc.input[0].n /\ ~result'.key
                                      /\ Len(enc'.reordered) = Len(enc.reordered) - 1
           /\ enc.reordered = <<>> /\ enc'.input[0].n = 0 =>
                result' = NoPicture /\ enc'.reordered = <<>>
           /\ enc.reordered = <<>> /\ enc'.input[0].n # 0 =>
                /\ ClosedGop /\ result'.key => result'.n = enc'.input[0].n
                /\ \A m \in 0 .. MaxB :
                      (\A i \in 0 .. MaxB : enc'.input[i].n # 0 <=> i <= m) =>
                         result'.n # 0 /\ Len(enc'.reordered) <= m
           /\ result' \in Picture /\ (result'.key => result'.n # 0)
           /\ result'.n \in pending \cup {sent', 0}
  <1> DEFINE pic == [n |-> sent + 1, key |-> pict_type]
             r == avcodec_encode_video(enc, pic)
  <1>1. /\ enc' = r.enc /\ result' = r.coded /\ pending' = (pending \cup {sent'}) \ {r.coded.n}
        /\ sent' = sent + 1 /\ wanted' = wanted /\ out' = out /\ pict_type' = pict_type
        /\ at = "idle"
    BY DEF ChainEncode, Encoded, Encode, Accept
  <1>2. /\ WindowInv(enc) /\ sent \in Nat /\ pict_type \in BOOLEAN
        /\ \A i \in 0 .. MaxB : enc.input[i].n \in 0 .. sent
        /\ pending = Inside(enc) /\ pending \subseteq 1 .. sent
    BY InsideBounds DEF VideoInv, QueueRises, EncInv, PendingInside
  <1>3. /\ pic \in Picture /\ (pic.key => pic.n # 0) /\ pic.n = sent + 1 /\ pic.key = pict_type
        /\ \A i \in 0 .. MaxB : enc.input[i].n < pic.n
    BY <1>2 DEF Picture
  <1> HIDE DEF pic, r
  <1>4. r = avcodec_encode_video(enc, pic)
    BY DEF r
  <1>5. WindowInv(r.enc) /\ r.coded \in Picture /\ (r.coded.key => r.coded.n # 0)
    BY <1>2, <1>3, <1>4, CodecWindow
  <1>6. /\ Inside(r.enc) = (Inside(enc) \cup {pic.n}) \ {0, r.coded.n}
        /\ r.coded.n \in Inside(enc) \cup {pic.n, 0}
    BY <1>2, <1>3, <1>4, CodecInside
  <1>7. r.enc.input = Moved(enc, pic)
    BY <1>2, <1>3, <1>4, CodecCases
  <1>8. PendingInside'
    <2>1. pending' = Inside(enc')
      <3>1. 0 \notin pending /\ sent' # 0 /\ sent' = pic.n
        BY <1>1, <1>2, <1>3
      <3> QED BY <1>1, <1>2, <1>6, <3>1
    <2>2. ASSUME NEW i \in 0 .. MaxB PROVE enc'.input[i].n <= sent'
      <3>1. enc'.input = Moved(enc, pic)
        BY <1>1, <1>7
      <3>2. CASE i = MaxB
        BY <1>1, <1>2, <1>3, <3>1, <3>2, MovedUp
      <3>3. CASE i < MaxB
        <4>1. i + 1 \in 0 .. MaxB /\ enc'.input[i] = enc.input[i + 1]
          BY <1>2, <1>3, <3>1, <3>3, MovedUp
        <4> QED BY <1>1, <1>2, <4>1
      <3> QED BY <3>2, <3>3, EncTypes
    <2> QED BY <1>1, <1>5, <2>1, <2>2 DEF PendingInside
  <1>9. RequestsInside'
    <2>1. /\ wanted \subseteq 1 .. (sent + 1) /\ (sent + 1 \in wanted => pict_type)
          /\ \A i \in 0 .. MaxB : enc.input[i].n \in wanted => enc.input[i].key
          /\ out.n \in -1 .. sent
      BY DEF VideoInv, RequestsInside
    <2>2. 0 \notin wanted /\ (pic.n \in wanted => pic.key)
      BY <1>2, <1>3, <2>1
    <2>3. /\ r.coded.n \in wanted => r.coded.key
          /\ \A i \in 0 .. MaxB : r.enc.input[i].n \in wanted => r.enc.input[i].key
      BY <1>2, <1>3, <1>4, <2>1, <2>2, CodecCarries
    <2>4. wanted' \subseteq 1 .. (sent' + 1) /\ sent' + 1 \notin wanted' /\ out'.n \in -1 .. sent'
      BY <1>1, <1>2, <2>1
    <2>5. r.coded.n \in 0 .. sent' /\ r.coded.key \in BOOLEAN
      <3>1. r.coded.n \in pending \cup {sent + 1, 0}
        BY <1>2, <1>3, <1>6
      <3>2. r.coded.n \in 0 .. sent'
        BY <1>1, <1>2, <3>1
      <3> QED BY <1>5, <3>2 DEF Picture
    <2>6. r.coded \in [n : 0 .. sent', key : BOOLEAN]
      BY <1>5, <2>5 DEF Picture
    <2> QED BY <1>1, <2>3, <2>4, <2>6 DEF RequestsInside
  <1>10. ForcedAreKeys'
    BY <1>1 DEF VideoInv, ForcedAreKeys
  <1>11. /\ enc.reordered # <<>> => /\ r.coded.n = enc.input[0].n /\ ~r.coded.key
                                    /\ Len(r.enc.reordered) = Len(enc.reordered) - 1
         /\ enc.reordered = <<>> /\ r.enc.input[0].n = 0 =>
              r.coded = NoPicture /\ r.enc.reordered = <<>>
         /\ enc.reordered = <<>> /\ r.enc.input[0].n # 0 =>
              /\ ClosedGop /\ r.coded.key => r.coded.n = r.enc.input[0].n
              /\ \A m \in 0 .. MaxB :
                    (\A i \in 0 .. MaxB : r.enc.input[i].n # 0 <=> i <= m) =>
                       r.coded.n # 0 /\ Len(r.enc.reordered) <= m
    <2>1. enc.reordered # <<>> => /\ r.coded.n = enc.input[0].n /\ ~r.coded.key
                                  /\ Len(r.enc.reordered) = Len(enc.reordered) - 1
      BY <1>2, <1>3, <1>4, CodecDue, Zenon
    <2>2. enc.reordered = <<>> /\ r.enc.input[0].n = 0 =>
            r.coded = NoPicture /\ r.enc.reordered = <<>>
      BY <1>2, <1>3, <1>4, CodecCases
    <2>3. enc.reordered = <<>> /\ r.enc.input[0].n # 0 =>
            /\ ClosedGop /\ r.coded.key => r.coded.n = r.enc.input[0].n
            /\ \A m \in 0 .. MaxB :
                  (\A i \in 0 .. MaxB : r.enc.input[i].n # 0 <=> i <= m) =>
                     r.coded.n # 0 /\ Len(r.enc.reordered) <= m
      BY <1>2, <1>3, <1>4, CodecDue, Zenon
    <2> QED BY <2>1, <2>2, <2>3, Zenon
  <1>12. r.coded.n \in pending \cup {sent', 0}
    BY <1>1, <1>2, <1>3, <1>6
  <1> QED BY <1>1, <1>5, <1>7, <1>8, <1>9, <1>10, <1>11, <1>12 DEF pic

(* The queue of a call that takes a frame.                                 *)
LEMMA EncodeQueue ==
    ASSUME VideoInv, ChainEncode, ~odd
    PROVE  QueueInWindow' /\ KeysInFront' /\ (result'.n = 0 <=> at' = "idle")
  <1>1. /\ at = "idle" /\ sent' = sent + 1 /\ delay' = Append(delay, sent') /\ odd' = odd
        /\ at' = (IF result' = NoPicture THEN "idle" ELSE "push")
        /\ since' = IF since > MaxB THEN since ELSE since + 1
    BY DEF ChainEncode, Encoded, Accept
  <1> DEFINE D == Len(delay)
             pic == [n |-> sent + 1, key |-> pict_type]
             x == enc.input
             y == enc'.input
  <1>2. /\ sent \in Nat /\ delay \in Seq(Nat) /\ since \in 0 .. (MaxB + 1) /\ MaxB \in Nat
        /\ \A j \in 1 .. D : delay[j] \in Nat /\ delay[j] > 0 /\ delay[j] <= sent
    <2>1. sent \in Nat /\ delay \in Seq(Nat) /\ since \in 0 .. (MaxB + 1) /\ MaxB \in Nat
      BY EncTypes DEF VideoInv, QueueRises
    <2>2. ASSUME NEW j \in 1 .. D PROVE delay[j] \in Nat /\ delay[j] > 0 /\ delay[j] <= sent
      <3>1. delay[j] \in Nat
        BY <2>1
      <3>2. out.ts \in 0 .. sent /\ out.ts < delay[j] /\ delay[j] <= sent
        BY DEF VideoInv, QueueRises
      <3> QED BY <2>1, <3>1, <3>2
    <2> QED BY <2>1, <2>2
  <1>3. /\ Len(delay') = D + 1 /\ D \in Nat /\ delay'[D + 1] = sent + 1
        /\ \A j \in 1 .. D : delay'[j] = delay[j]
    BY <1>1, <1>2, AppendProperties
  <1>4. /\ \A i \in 0 .. MaxB : i < MaxB => y[i] = x[i + 1]
        /\ y[MaxB] = pic /\ pic.n = sent + 1
    <2>1. pic \in Picture
      BY <1>2 DEF VideoInv, EncInv, Picture
    <2>2. y = Moved(enc, pic) /\ WindowInv(enc)
      BY EncodeInside DEF VideoInv, PendingInside
    <2> QED BY <2>1, <2>2, MovedUp
  <1>5. /\ D = (IF since <= MaxB THEN since ELSE MaxB)
        /\ \A j \in 1 .. D : x[MaxB - D + j].n = delay[j]
        /\ since > MaxB => x[0].n # 0
        /\ since <= MaxB => /\ enc.reordered = <<>>
                            /\ \A i \in 0 .. (MaxB - since) : x[i].n = 0 \/ (i = 0 /\ since = 0)
    <2>1. /\ Len(delay) = (IF since <= MaxB THEN since ELSE MaxB) + (IF at = "push" THEN 1 ELSE 0)
          /\ \A j \in 1..Len(delay) : enc.input[MaxB - Len(delay) + j].n = delay[j]
          /\ IF since > MaxB THEN enc.input[0].n # 0
             ELSE /\ at = "idle" /\ enc.reordered = <<>>
                  /\ \A i \in 0..(MaxB - since) : enc.input[i].n = 0 \/ (i = 0 /\ since = 0)
      BY <1>1 DEF VideoInv, QueueInWindow
    <2>2. D = IF since <= MaxB THEN since ELSE MaxB
      BY <1>1, <1>2, <2>1
    <2>3. since <= MaxB <=> ~(since > MaxB)
      BY <1>2
    <2> QED BY <2>1, <2>2, <2>3
  <1>6. \A i \in 0 .. MaxB : x[i].n \in Nat
    BY <1>2, InsideBounds DEF VideoInv
  <1> HIDE DEF pic, x, y
  <1>7. \A j \in 1 .. D + 1 : y[MaxB - (D + 1) + j].n = delay'[j]
    <2> TAKE j \in 1 .. D + 1
    <2>1. CASE j = D + 1
      BY <1>2, <1>3, <1>4, <2>1
    <2>2. CASE j <= D
      <3>1. j \in 1 .. D /\ MaxB - D + j = (MaxB - (D + 1) + j) + 1
            /\ MaxB - (D + 1) + j \in 0 .. MaxB /\ MaxB - (D + 1) + j < MaxB
        <4>1. D \in 0 .. MaxB
          BY <1>2, <1>5
        <4> HIDE DEF D
        <4> QED BY <1>2, <2>2, <4>1
      <3> QED BY <1>3, <1>4, <1>5, <3>1
    <2> QED BY <1>3, <2>1, <2>2
  <1>8. CASE since < MaxB
    <2>1. /\ enc.reordered = <<>> /\ D = since /\ since' = since + 1 /\ MaxB > 0
          /\ 0 \in 0 .. MaxB /\ 0 + 1 = 1 /\ 1 \in 0 .. (MaxB - since)
      BY <1>1, <1>2, <1>5, <1>8
    <2>2. y[0].n = 0
      BY <1>4, <1>5, <2>1
    <2>3. result' = NoPicture /\ enc'.reordered = <<>>
      BY <2>1, <2>2, EncodeInside DEF y
    <2>4. at' = "idle" /\ result'.n = 0
      BY <1>1, <2>3 DEF NoPicture
    <2>5. ASSUME NEW i \in 0 .. (MaxB - since') PROVE y[i].n = 0
      <3>1. i \in 0 .. MaxB /\ i < MaxB /\ i + 1 \in 0 .. (MaxB - since) /\ i + 1 # 0
        BY <1>2, <2>1
      <3>2. x[i + 1].n = 0 /\ y[i] = x[i + 1]
        <4>1. since <= MaxB
          BY <1>2, <1>8
        <4>2. \A k \in 0 .. (MaxB - since) : k # 0 => x[k].n = 0
          BY <1>5, <4>1
        <4> QED BY <1>4, <3>1, <4>2
      <3> QED BY <3>2
    <2>6. /\ Len(delay') = since' /\ since' <= MaxB
          /\ \A j \in 1 .. Len(delay') : y[MaxB - Len(delay') + j].n = delay'[j]
      BY <1>2, <1>3, <1>7, <1>8, <2>1
    <2>7. QueueInWindow'
      BY <1>2, <2>3, <2>4, <2>5, <2>6 DEF QueueInWindow, y
    <2>8. KeysInFront'
      BY <2>4 DEF KeysInFront
    <2> QED BY <2>4, <2>7, <2>8
  <1>9. CASE since >= MaxB
    <2>1. D = MaxB /\ since' = MaxB + 1 /\ Len(delay') = MaxB + 1
      BY <1>1, <1>2, <1>3, <1>5, <1>9
    <2>2. \A j \in 1 .. D + 1 : delay'[j] # 0
      <3> TAKE j \in 1 .. D + 1
      <3>1. CASE j = D + 1
        BY <1>2, <1>3, <3>1
      <3>2. CASE j <= D
        BY <1>2, <1>3, <3>2
      <3> QED BY <1>3, <3>1, <3>2
    <2>3. \A i \in 0 .. MaxB : y[i].n = delay'[i + 1] /\ y[i].n # 0
      <3> TAKE i \in 0 .. MaxB
      <3>1. i + 1 \in 1 .. D + 1 /\ MaxB - (D + 1) + (i + 1) = i
        BY <1>2, <2>1
      <3> QED BY <1>7, <2>2, <3>1
    <2>4. 0 \in 0 .. MaxB /\ y[0].n # 0 /\ y[0].n = delay'[1]
      <3>1. 0 \in 0 .. MaxB /\ 0 + 1 = 1
        BY <1>2
      <3> QED BY <2>3, <3>1
    <2>5. result'.n # 0 /\ (ClosedGop /\ result'.key => result'.n = y[0].n)
      <3>1. CASE enc.reordered # <<>>
        <4>1. since > MaxB
          BY <1>2, <1>5, <3>1
        <4>2. result'.n = x[0].n /\ ~result'.key
          BY <3>1, EncodeInside DEF x
        <4> QED BY <1>5, <4>1, <4>2
      <3>2. CASE enc.reordered = <<>>
        <4>1. /\ ClosedGop /\ result'.key => result'.n = y[0].n
              /\ \A m \in 0 .. MaxB :
                    (\A i \in 0 .. MaxB : y[i].n # 0 <=> i <= m) =>
                       result'.n # 0 /\ Len(enc'.reordered) <= m
          BY <2>4, <3>2, EncodeInside DEF y
        <4>2. MaxB \in 0 .. MaxB /\ \A i \in 0 .. MaxB : y[i].n # 0 <=> i <= MaxB
          BY <1>2, <2>3
        <4> QED BY <4>1, <4>2
      <3> QED BY <3>1, <3>2
    <2>6. at' = "push"
      BY <1>1, <2>5 DEF NoPicture
    <2>7. QueueInWindow'
      <3>1. \A j \in 1 .. Len(delay') : y[MaxB - Len(delay') + j].n = delay'[j]
        BY <1>7, <2>1
      <3>2. since' > MaxB /\ ~(since' <= MaxB)
        BY <1>2, <2>1
      <3> QED BY <2>1, <2>4, <2>6, <3>1, <3>2 DEF QueueInWindow, y
    <2>8. KeysInFront'
      <3>1. Head(delay') = delay'[1]
        BY <1>1, <1>2, <2>1
      <3> QED BY <2>4, <2>5, <3>1 DEF KeysInFront
    <2> QED BY <2>5, <2>6, <2>7, <2>8
  <1> QED BY <1>2, <1>8, <1>9

(* The frames that a set of frames has with one more, or with one less.    *)
LEMMA OneMoreOneLess ==
    ASSUME NEW S, IsFiniteSet(S), NEW z
    PROVE  /\ Cardinality(S) \in Nat
           /\ z \notin S => /\ Cardinality(S \cup {z}) = Cardinality(S) + 1
                            /\ IsFiniteSet(S \cup {z})
           /\ z \in S => Cardinality(S \ {z}) = Cardinality(S) - 1
  BY FS_CardinalityType, FS_AddElement, FS_RemoveElement

(* All that holds of the video encoder in every state.                     *)
VideoIInv == VideoInv /\ (ClosedGop => KeyframesInTime)

(* A frame enters the encoder, with its place in the queue.                *)
LEMMA NextEncode ==
    ASSUME VideoIInv, ChainEncode
    PROVE  VideoIInv'
  <1> USE DEF VideoIInv
  <1>1. /\ at = "idle" /\ opened /\ sent < NumFrames /\ sent' = sent + 1
        /\ delay' = Append(delay, sent') /\ odd' = odd /\ result' = result'
        /\ at' = (IF result' = NoPicture THEN "idle" ELSE "push")
        /\ since' = (IF since > MaxB THEN since ELSE since + 1)
        /\ pending' = (pending \cup {sent'}) \ {result'.n}
        /\ UNCHANGED <<opened, pict_type, out>>
    BY DEF ChainEncode, Encoded, Accept
  <1>2. /\ sent \in Nat /\ NumFrames \in Nat /\ pending \subseteq 1 .. sent /\ MaxB \in Nat
        /\ since \in 0 .. (MaxB + 1)
        /\ IsFiniteSet(pending) /\ Cardinality(pending) \in Nat
    BY InsideBounds, EncAssumption DEF VideoInv, QueueRises
  <1>3. /\ PendingInside' /\ RequestsInside' /\ ForcedAreKeys'
        /\ result' \in Picture /\ (result'.key => result'.n # 0)
        /\ result'.n \in pending \cup {sent', 0}
    BY EncodeInside
  <1>4. QueueRises'
    BY VideoEncode DEF VideoInv
  <1>5. ~odd' => QueueInWindow' /\ KeysInFront'
    BY <1>1, EncodeQueue
  <1>6. odd' => QueueInWindow' /\ KeysInFront'
    BY DEF QueueInWindow, KeysInFront
  <1>7. LongStreamsDrain' /\ (ClosedGop => KeyframesInTime')
    BY <1>1 DEF LongStreamsDrain, KeyframesInTime
  <1>8. EncInv'
    <2>1. delay' \in Seq(1 .. NumFrames)
      <3>1. delay \in Seq(1 .. NumFrames) /\ sent' \in 1 .. NumFrames
        BY <1>1, <1>2 DEF VideoInv, EncInv
      <3> QED BY <1>1, <3>1
    <2>2. pending' \subseteq 1 .. NumFrames
      <3>1. pending \subseteq 1 .. NumFrames /\ sent' \in 1 .. NumFrames
        BY <1>1, <1>2 DEF VideoInv, EncInv
      <3> QED BY <1>1, <3>1
    <2>3. at' \in {"idle", "push"} /\ (at' = "push" <=> result' # NoPicture)
      BY <1>1
    <2>4. ASSUME ~odd'
          PROVE  Len(delay') = Cardinality(pending') + (IF at' = "push" THEN 1 ELSE 0)
      <3> DEFINE more == pending \cup {sent'}
      <3>1. Len(delay) = Cardinality(pending) /\ delay \in Seq(Nat) /\ sent' \in Nat
        <4>1. Len(delay) = Cardinality(pending) + (IF at = "push" THEN 1 ELSE 0)
          BY <1>1, <2>4 DEF VideoInv, EncInv
        <4>2. delay \in Seq(Nat)
          BY DEF VideoInv, QueueRises
        <4> QED BY <1>1, <1>2, <4>1, <4>2
      <3>2. Len(delay') = Len(delay) + 1
        BY <1>1, <3>1
      <3>3. IsFiniteSet(pending) /\ sent' \notin pending /\ 0 \notin more
        BY <1>1, <1>2
      <3>4. Cardinality(more) = Cardinality(pending) + 1 /\ IsFiniteSet(more)
        BY <3>3, OneMoreOneLess
      <3>5. pending' = more \ {result'.n}
        BY <1>1
      <3>6. result'.n = 0 <=> at' = "idle"
        BY <1>1, <2>4, EncodeQueue
      <3>7. CASE at' = "idle"
        <4>1. pending' = more
          BY <3>3, <3>5, <3>6, <3>7
        <4> QED BY <3>1, <3>2, <3>4, <3>7, <4>1
      <3>8. CASE at' = "push"
        <4>1. result'.n \in more
          BY <1>3, <3>6, <3>8
        <4> HIDE DEF more
        <4>2. Cardinality(pending') = Cardinality(more) - 1
          BY <3>4, <3>5, <4>1, OneMoreOneLess
        <4>3. Cardinality(pending) \in Nat
          BY <3>3, OneMoreOneLess
        <4> QED BY <3>1, <3>2, <3>4, <3>8, <4>2, <4>3
      <3> QED BY <2>3, <3>7, <3>8
    <2> QED BY <1>1, <2>1, <2>2, <2>3, <2>4 DEF VideoInv, EncInv
  <1>9. since' \in 0 .. (MaxB + 1)
    BY <1>1, <1>2
  <1> QED BY <1>3, <1>4, <1>5, <1>6, <1>7, <1>8, <1>9 DEF VideoInv

(* A coded frame leaves, with the time at the head of the queue.           *)
LEMMA NextPush ==
    ASSUME VideoIInv, ChainPush
    PROVE  VideoIInv'
  <1> USE DEF VideoIInv
  <1>1. /\ at = "push" /\ at' = "idle" /\ result' = NoPicture /\ pict_type' = FALSE
        /\ out' = [n |-> result.n, ts |-> Head(delay), key |-> result.key, odd |-> odd]
        /\ delay' = Tail(delay) /\ UNCHANGED <<opened, enc, sent, pending, since, odd, wanted>>
    BY DEF ChainPush, Push
  <1>2. /\ delay # <<>> /\ delay \in Seq(Nat) /\ Len(delay) \in Nat \ {0} /\ sent \in Nat
        /\ Len(delay') = Len(delay) - 1 /\ MaxB \in Nat /\ since \in 0 .. (MaxB + 1)
        /\ \A j \in 1 .. Len(delay') : delay'[j] = delay[j + 1]
    <2>1. delay # <<>> /\ delay \in Seq(Nat) /\ sent \in Nat
      BY <1>1 DEF VideoInv, QueueRises
    <2> QED BY <1>1, <2>1, EncTypes DEF VideoInv
  <1>3. QueueRises'
    <2>1. out'.ts = Head(delay)
      BY <1>1
    <2> QED BY <1>1, <1>2, <2>1, VideoHead DEF VideoInv
  <1>4. PendingInside' /\ LongStreamsDrain' /\ KeysInFront'
    BY <1>1 DEF VideoInv, PendingInside, LongStreamsDrain, KeysInFront
  <1>5. /\ result \in [n : 0 .. sent, key : BOOLEAN] /\ (result.n \in wanted => result.key)
        /\ wanted \subseteq 1 .. (sent + 1) /\ sent + 1 \notin wanted
        /\ \A i \in 0 .. MaxB : enc.input[i].n \in wanted => enc.input[i].key
    BY <1>1 DEF VideoInv, RequestsInside
  <1>6. out'.n = result.n /\ out'.key = result.key /\ out'.ts = Head(delay) /\ out'.odd = odd
    BY <1>1
  <1>7. RequestsInside' /\ ForcedAreKeys'
    <2>1. NoPicture \in [n : 0 .. sent, key : BOOLEAN] /\ NoPicture.n = 0
      BY <1>2 DEF NoPicture
    <2>2. result.n \in 0 .. sent
      BY <1>5
    <2>3. 0 \notin wanted
      BY <1>2, <1>5
    <2>4. out'.n \in -1 .. sent
      BY <1>2, <1>6, <2>2
    <2> QED BY <1>1, <1>5, <1>6, <2>1, <2>3, <2>4 DEF RequestsInside, ForcedAreKeys
  <1>8. ClosedGop => KeyframesInTime'
    BY <1>1, <1>6 DEF VideoInv, KeysInFront, KeyframesInTime
  <1>9. QueueInWindow'
    <2> SUFFICES ASSUME ~odd PROVE QueueInWindow'
      BY <1>1 DEF QueueInWindow
    <2>1. /\ Len(delay) = (IF since <= MaxB THEN since ELSE MaxB) + 1
          /\ \A j \in 1 .. Len(delay) : enc.input[MaxB - Len(delay) + j].n = delay[j]
          /\ since > MaxB /\ enc.input[0].n # 0
      BY <1>1 DEF VideoInv, QueueInWindow
    <2>2. Len(delay) = MaxB + 1 /\ Len(delay') = MaxB
      BY <1>2, <2>1
    <2>3. ASSUME NEW j \in 1 .. MaxB PROVE enc.input[MaxB - MaxB + j].n = delay'[j]
      <3>1. /\ j + 1 \in 1 .. Len(delay) /\ MaxB - Len(delay) + (j + 1) = MaxB - MaxB + j
        BY <1>2, <2>2
      <3> QED BY <1>2, <2>1, <2>2, <3>1
    <2> QED BY <1>1, <1>2, <2>1, <2>2, <2>3 DEF QueueInWindow
  <1>10. EncInv'
    <2>1. delay' \in Seq(1 .. NumFrames)
      <3>1. delay \in Seq(1 .. NumFrames)
        BY DEF VideoInv, EncInv
      <3> QED BY <1>1, <1>2, <3>1
    <2>2. ~odd => Len(delay') = Cardinality(pending)
      <3>1. ~odd => Len(delay) = Cardinality(pending) + 1
        BY <1>1 DEF VideoInv, EncInv
      <3>2. Cardinality(pending) \in Nat
        BY <1>2, InsideBounds DEF VideoInv
      <3> QED BY <1>2, <3>1, <3>2
    <2>3. ~odd => Len(delay') = Cardinality(pending) + 0
      BY <1>2, <2>2
    <2> QED BY <1>1, <2>1, <2>3 DEF VideoInv, EncInv
  <1>11. since' \in 0 .. (MaxB + 1)
    BY <1>1, <1>2
  <1> QED BY <1>3, <1>4, <1>7, <1>8, <1>9, <1>10, <1>11 DEF VideoInv

(* At the end a frame leaves the encoder and none enters.                  *)
LEMMA FlushInside ==
    ASSUME VideoIInv, FlushBuffer, NEW r, r = avcodec_encode_video(enc, NoPicture)
    PROVE  /\ PendingInside' /\ RequestsInside' /\ ForcedAreKeys'
           /\ r.enc.input = Moved(enc, NoPicture)
           /\ enc.reordered # <<>> => /\ r.coded.n = enc.input[0].n /\ ~r.coded.key
                                      /\ Len(r.enc.reordered) = Len(enc.reordered) - 1
           /\ enc.reordered = <<>> /\ r.enc.input[0].n # 0 =>
                /\ ClosedGop /\ r.coded.key => r.coded.n = r.enc.input[0].n
                /\ \A m \in 0 .. MaxB :
                      (\A i \in 0 .. MaxB : r.enc.input[i].n # 0 <=> i <= m) =>
                         r.coded.n # 0 /\ Len(r.enc.reordered) <= m
           /\ r.coded.n \in pending \cup {0}
           /\ WindowInv(r.enc) /\ NoPicture \in Picture
  <1> USE DEF VideoIInv
  <1>1. /\ enc' = r.enc /\ pending' = pending \ {r.coded.n}
        /\ out' = [n |-> r.coded.n, ts |-> Head(delay), key |-> r.coded.key, odd |-> odd]
        /\ UNCHANGED <<sent, wanted, pict_type, result>> /\ at = "drain" /\ at' = "drain"
    BY DEF FlushBuffer
  <1>2. /\ WindowInv(enc) /\ sent \in Nat /\ \A i \in 0 .. MaxB : enc.input[i].n \in 0 .. sent
        /\ pending = Inside(enc) /\ pending \subseteq 1 .. sent
    BY InsideBounds DEF VideoInv, QueueRises, PendingInside
  <1>3. NoPicture \in Picture /\ NoPicture.n = 0 /\ ~NoPicture.key
    BY DEF NoPicture, Picture
  <1>4. WindowInv(r.enc) /\ r.coded \in Picture
    BY <1>2, <1>3, CodecWindow
  <1>5. /\ Inside(r.enc) = (Inside(enc) \cup {NoPicture.n}) \ {0, r.coded.n}
        /\ r.coded.n \in Inside(enc) \cup {NoPicture.n, 0}
    BY <1>2, <1>3, CodecInside
  <1>6. r.enc.input = Moved(enc, NoPicture)
    BY <1>2, <1>3, CodecCases
  <1>7. PendingInside'
    <2>1. pending' = Inside(enc')
      BY <1>1, <1>2, <1>3, <1>5
    <2>2. ASSUME NEW i \in 0 .. MaxB PROVE enc'.input[i].n <= sent'
      <3>1. enc'.input = Moved(enc, NoPicture)
        BY <1>1, <1>6
      <3>2. CASE i = MaxB
        BY <1>1, <1>2, <1>3, <3>1, <3>2, MovedUp
      <3>3. CASE i < MaxB
        <4>1. i + 1 \in 0 .. MaxB /\ enc'.input[i] = enc.input[i + 1]
          BY <1>2, <1>3, <3>1, <3>3, MovedUp
        <4> QED BY <1>1, <1>2, <4>1
      <3> QED BY <3>2, <3>3, EncTypes
    <2> QED BY <1>1, <1>4, <2>1, <2>2 DEF PendingInside
  <1>8. RequestsInside' /\ ForcedAreKeys'
    <2>1. /\ wanted \subseteq 1 .. (sent + 1) /\ (sent + 1 \in wanted => pict_type)
          /\ \A i \in 0 .. MaxB : enc.input[i].n \in wanted => enc.input[i].key
          /\ result \in [n : 0 .. sent, key : BOOLEAN] /\ (result.n \in wanted => result.key)
      BY DEF VideoInv, RequestsInside
    <2>2. 0 \notin wanted /\ (NoPicture.n \in wanted => NoPicture.key)
      BY <1>2, <1>3, <2>1
    <2>3. /\ r.coded.n \in wanted => r.coded.key
          /\ \A i \in 0 .. MaxB : r.enc.input[i].n \in wanted => r.enc.input[i].key
      BY <1>2, <1>3, <2>1, <2>2, CodecCarries
    <2>4. out'.n = r.coded.n /\ out'.key = r.coded.key
      BY <1>1
    <2>5. out'.n \in -1 .. sent
      BY <1>2, <1>3, <1>5, <2>4
    <2> QED BY <1>1, <2>1, <2>3, <2>4, <2>5 DEF RequestsInside, ForcedAreKeys
  <1>9. enc.reordered # <<>> => /\ r.coded.n = enc.input[0].n /\ ~r.coded.key
                                /\ Len(r.enc.reordered) = Len(enc.reordered) - 1
    BY <1>2, <1>3, CodecDue, Zenon
  <1>10. enc.reordered = <<>> /\ r.enc.input[0].n # 0 =>
           /\ ClosedGop /\ r.coded.key => r.coded.n = r.enc.input[0].n
           /\ \A m \in 0 .. MaxB :
                 (\A i \in 0 .. MaxB : r.enc.input[i].n # 0 <=> i <= m) =>
                    r.coded.n # 0 /\ Len(r.enc.reordered) <= m
    <2>1. WindowInv(enc) /\ NoPicture \in Picture /\ (NoPicture.key => NoPicture.n # 0)
      BY <1>2, <1>3
    <2> QED BY <2>1, CodecDue, ZenonT(30)
  <1>11. r.coded.n \in pending \cup {0}
    BY <1>2, <1>3, <1>5
  <1> QED BY <1>3, <1>4, <1>6, <1>7, <1>8, <1>9, <1>10, <1>11, Zenon

(* The queue of a buffer at the end: as long as there is one, the encoder  *)
(* has a frame for it.                                                     *)
LEMMA FlushQueue ==
    ASSUME VideoIInv, FlushBuffer, ~odd, NEW r, r = avcodec_encode_video(enc, NoPicture)
    PROVE  /\ QueueInWindow' /\ r.coded.n # 0
           /\ ClosedGop /\ r.coded.key => r.coded.n = Head(delay)
  <1> USE DEF VideoIInv
  <1>1. /\ at = "drain" /\ at' = "drain" /\ odd' = odd /\ delay' = Tail(delay) /\ delay # <<>>
        /\ enc' = r.enc
    BY DEF FlushBuffer
  <1> DEFINE D == Len(delay)
             x == enc.input
             y == r.enc.input
  <1>2. /\ D <= MaxB /\ Len(enc.reordered) <= D
        /\ \A i \in 1 .. MaxB : x[i].n = IF i <= D THEN delay[i] ELSE 0
        /\ enc.reordered # <<>> => x[0].n # 0
    BY <1>1 DEF VideoInv, QueueInWindow
  <1>3. /\ delay \in Seq(Nat) /\ D \in Nat \ {0} /\ MaxB \in Nat /\ Len(delay') = D - 1
        /\ Head(delay) = delay[1] /\ \A j \in 1 .. D - 1 : delay'[j] = delay[j + 1]
    <2>1. delay \in Seq(Nat)
      BY DEF VideoInv, QueueRises
    <2> QED BY <1>1, <2>1, EncTypes
  <1>4. \A j \in 1 .. D : delay[j] # 0
    <2> TAKE j \in 1 .. D
    <2>1. out.ts \in 0 .. sent /\ out.ts < delay[j] /\ sent \in Nat
      BY DEF VideoInv, QueueRises
    <2> QED BY <2>1
  <1>5. /\ \A i \in 0 .. MaxB : i < MaxB => y[i] = x[i + 1]
        /\ y[MaxB].n = 0
    <2>1. y = Moved(enc, NoPicture) /\ WindowInv(enc) /\ NoPicture \in Picture
      BY FlushInside DEF VideoInv, PendingInside
    <2>2. NoPicture.n = 0
      BY DEF NoPicture
    <2> QED BY <2>1, <2>2, MovedUp
  <1> HIDE DEF D, x, y
  <1>6. ASSUME NEW i \in 0 .. MaxB
        PROVE  y[i].n = IF i + 1 <= D THEN delay[i + 1] ELSE 0
    <2>1. CASE i = MaxB
      BY <1>2, <1>3, <1>5, <2>1
    <2>2. CASE i < MaxB
      <3>1. i + 1 \in 1 .. MaxB
        BY <1>3, <2>2
      <3>2. y[i] = x[i + 1]
        BY <1>5, <2>2
      <3> QED BY <1>2, <3>1, <3>2
    <2> QED BY <1>3, <2>1, <2>2
  <1>7. \A i \in 0 .. MaxB : y[i].n # 0 <=> i <= D - 1
    <2> TAKE i \in 0 .. MaxB
    <2>1. CASE i + 1 <= D
      <3>1. i + 1 \in 1 .. D
        BY <1>3, <2>1
      <3> QED BY <1>3, <1>4, <1>6, <2>1, <3>1
    <2>2. CASE ~(i + 1 <= D)
      BY <1>3, <1>6, <2>2
    <2> QED BY <2>1, <2>2
  <1>8. 0 \in 0 .. MaxB /\ D - 1 \in 0 .. MaxB /\ y[0].n = delay[1] /\ y[0].n # 0
    <2>1. 0 \in 0 .. MaxB /\ D - 1 \in 0 .. MaxB /\ 0 + 1 = 1 /\ 1 <= D /\ 0 <= D - 1
      BY <1>2, <1>3
    <2> QED BY <1>6, <1>7, <2>1
  <1>9. /\ r.coded.n # 0 /\ (ClosedGop /\ r.coded.key => r.coded.n = y[0].n)
        /\ Len(r.enc.reordered) <= D - 1
    <2>1. CASE enc.reordered # <<>>
      <3>1. /\ r.coded.n = x[0].n /\ ~r.coded.key
            /\ Len(r.enc.reordered) = Len(enc.reordered) - 1
        BY <2>1, FlushInside DEF x
      <3>2. Len(enc.reordered) \in Nat
        BY InsideBounds, EncTypes DEF VideoInv, QueueRises
      <3> QED BY <1>2, <1>3, <2>1, <3>1, <3>2
    <2>2. CASE enc.reordered = <<>>
      <3>1. /\ ClosedGop /\ r.coded.key => r.coded.n = y[0].n
            /\ \A m \in 0 .. MaxB :
                  (\A i \in 0 .. MaxB : y[i].n # 0 <=> i <= m) =>
                     r.coded.n # 0 /\ Len(r.enc.reordered) <= m
        BY <1>8, <2>2, FlushInside DEF y
      <3> QED BY <1>7, <1>8, <3>1
    <2> QED BY <2>1, <2>2
  <1>10. QueueInWindow'
    <2>1. \A i \in 1 .. MaxB : y[i].n = IF i <= Len(delay') THEN delay'[i] ELSE 0
      <3> TAKE i \in 1 .. MaxB
      <3>1. i \in 0 .. MaxB /\ i \in Nat \ {0}
        BY <1>3
      <3>2. CASE i + 1 <= D
        <4>1. i \in 1 .. D - 1 /\ i <= Len(delay')
          BY <1>3, <3>1, <3>2
        <4> QED BY <1>3, <1>6, <3>1, <3>2, <4>1
      <3>3. CASE ~(i + 1 <= D)
        <4>1. ~(i <= Len(delay'))
          BY <1>3, <3>1, <3>3
        <4> QED BY <1>6, <3>1, <3>3, <4>1
      <3> QED BY <3>2, <3>3
    <2>2. Len(delay') <= MaxB /\ Len(enc'.reordered) <= Len(delay')
      BY <1>1, <1>2, <1>3, <1>9
    <2>3. enc'.input = y
      BY <1>1 DEF y
    <2> QED BY <1>1, <1>8, <2>1, <2>2, <2>3 DEF QueueInWindow
  <1> QED BY <1>3, <1>8, <1>9, <1>10

(* A buffer at the end leaves with the time at the head of the queue.      *)
LEMMA NextFlush ==
    ASSUME VideoIInv, FlushBuffer
    PROVE  VideoIInv'
  <1> USE DEF VideoIInv
  <1> DEFINE r == avcodec_encode_video(enc, NoPicture)
  <1>1. /\ at = "drain" /\ at' = "drain" /\ delay # <<>> /\ delay' = Tail(delay)
        /\ enc' = r.enc /\ pending' = pending \ {r.coded.n}
        /\ out' = [n |-> r.coded.n, ts |-> Head(delay), key |-> r.coded.key, odd |-> odd]
        /\ UNCHANGED <<opened, pict_type, result, sent, since, odd, wanted>>
    BY DEF FlushBuffer
  <1> HIDE DEF r
  <1>2. r = avcodec_encode_video(enc, NoPicture)
    BY DEF r
  <1>3. out'.n = r.coded.n /\ out'.ts = Head(delay) /\ out'.key = r.coded.key /\ out'.odd = odd
    BY <1>1
  <1>4. PendingInside' /\ RequestsInside' /\ ForcedAreKeys' /\ r.coded.n \in pending \cup {0}
    BY <1>2, FlushInside
  <1>5. QueueRises'
    <2>1. at' # "push"
      BY <1>1
    <2> QED BY <1>1, <1>3, <2>1, VideoHead DEF VideoInv
  <1>6. ~odd => /\ QueueInWindow' /\ r.coded.n # 0
                /\ ClosedGop /\ r.coded.key => r.coded.n = Head(delay)
    BY <1>2, FlushQueue
  <1>7. QueueInWindow' /\ LongStreamsDrain' /\ KeysInFront'
    BY <1>1, <1>6 DEF QueueInWindow, LongStreamsDrain, KeysInFront
  <1>8. ClosedGop => KeyframesInTime'
    BY <1>3, <1>6 DEF KeyframesInTime
  <1>9. EncInv'
    <2>1. delay' \in Seq(1 .. NumFrames) /\ delay \in Seq(Nat)
      <3>1. delay \in Seq(1 .. NumFrames) /\ delay \in Seq(Nat)
        BY DEF VideoInv, EncInv, QueueRises
      <3> QED BY <1>1, <3>1
    <2>2. ~odd => Len(delay') = Cardinality(pending') + 0
      <3> SUFFICES ASSUME ~odd PROVE Len(delay') = Cardinality(pending') + 0
        OBVIOUS
      <3>1. Len(delay) = Cardinality(pending) + 0
        BY <1>1 DEF VideoInv, EncInv
      <3>2. IsFiniteSet(pending) /\ Cardinality(pending) \in Nat
        BY InsideBounds DEF VideoInv, QueueRises
      <3>3. r.coded.n \in pending
        BY <1>4, <1>6
      <3>4. Cardinality(pending') = Cardinality(pending) - 1
        BY <1>1, <3>2, <3>3, OneMoreOneLess
      <3>5. Len(delay') = Len(delay) - 1
        BY <1>1, <2>1
      <3> QED BY <3>1, <3>2, <3>4, <3>5
    <2> QED BY <1>1, <2>1, <2>2 DEF VideoInv, EncInv
  <1>10. since' \in 0 .. (MaxB + 1)
    BY <1>1 DEF VideoInv
  <1> QED BY <1>4, <1>5, <1>7, <1>8, <1>9, <1>10 DEF VideoInv

(* An encoder that was just opened holds nothing.                          *)
LEMMA InitWindow ==
    /\ WindowInv(EncoderInit) /\ Inside(EncoderInit) = {}
    /\ EncoderInit.reordered = <<>> /\ \A i \in 0 .. MaxB : EncoderInit.input[i] = NoPicture
    /\ NoPicture.n = 0 /\ ~NoPicture.key
  <1>1. NoPicture \in [n : Nat, key : BOOLEAN] /\ NoPicture.n = 0 /\ ~NoPicture.key
    BY DEF NoPicture
  <1>2. /\ EncoderInit.reordered = <<>> /\ EncoderInit.input = [i \in 0 .. MaxB |-> NoPicture]
        /\ EncoderInit \in [input : [0 .. MaxB -> [n : Nat, key : BOOLEAN]],
                            reordered : Seq([n : Nat, key : BOOLEAN]), gop : Nat, ref : BOOLEAN]
    BY <1>1 DEF EncoderInit
  <1>3. \A i \in 0 .. MaxB : EncoderInit.input[i] = NoPicture
    BY <1>2
  <1>4. WindowInv(EncoderInit)
    BY <1>1, <1>2, <1>3, EncTypes DEF WindowInv
  <1> QED BY <1>1, <1>2, <1>3, <1>4 DEF Inside

(* The codec is opened again, or the element stops.                        *)
LEMMA NextOpen ==
    ASSUME VideoIInv, gst_ffmpegenc_setcaps \/ gst_ffmpegenc_change_state
    PROVE  VideoIInv'
  <1> USE DEF VideoIInv
  <1>1. /\ at \in {"idle", "eos"} /\ at' = "idle" /\ opened' \in BOOLEAN
        /\ enc' = EncoderInit /\ pending' = {} /\ since' = 0
        /\ UNCHANGED <<pict_type, result, sent, out, wanted>>
        /\ delay' = delay \/ delay' = <<>>
        /\ ~odd' => delay' = <<>>
    BY DEF gst_ffmpegenc_setcaps, gst_ffmpegenc_change_state
  <1>2. sent \in Nat /\ MaxB \in Nat
    BY EncTypes DEF VideoInv, QueueRises
  <1>3. QueueRises'
    <2>1. QueueRises /\ at' # "push"
      BY <1>1 DEF VideoInv
    <2>2. CASE delay' = delay
      BY <1>1, <2>1, <2>2 DEF QueueRises
    <2>3. CASE delay' = <<>>
      <3>1. Len(delay') = 0 /\ delay' \in Seq(Nat)
        BY <2>3
      <3> QED BY <1>1, <2>1, <3>1 DEF QueueRises
    <2> QED BY <1>1, <2>2, <2>3
  <1>4. PendingInside'
    BY <1>1, <1>2, InitWindow DEF PendingInside
  <1>5. RequestsInside' /\ ForcedAreKeys'
    <2>1. /\ wanted \subseteq 1 .. (sent + 1) /\ (sent + 1 \in wanted => pict_type)
          /\ result \in [n : 0 .. sent, key : BOOLEAN] /\ (result.n \in wanted => result.key)
          /\ out.n \in -1 .. sent
      BY DEF VideoInv, RequestsInside
    <2>2. 0 \notin wanted
      BY <1>2, <2>1
    <2> QED BY <1>1, <2>1, <2>2, InitWindow DEF VideoInv, RequestsInside, ForcedAreKeys
  <1>6. QueueInWindow'
    <2> SUFFICES ASSUME ~odd' PROVE QueueInWindow'
      BY DEF QueueInWindow
    <2>1. delay' = <<>> /\ Len(delay') = 0
      BY <1>1
    <2> QED BY <1>1, <1>2, <2>1, InitWindow DEF QueueInWindow
  <1>7. LongStreamsDrain' /\ KeysInFront' /\ (ClosedGop => KeyframesInTime')
    BY <1>1 DEF VideoInv, LongStreamsDrain, KeysInFront, KeyframesInTime
  <1>8. EncInv'
    <2>1. at # "push" /\ result = NoPicture
      BY <1>1 DEF VideoInv, EncInv
    <2>2. ~odd' => Len(delay') = Cardinality(pending') + 0
      BY <1>1, FS_EmptySet
    <2>3. delay' \in Seq(1 .. NumFrames)
      <3>1. delay \in Seq(1 .. NumFrames)
        BY DEF VideoInv, EncInv
      <3>2. CASE delay' = delay
        BY <3>1, <3>2
      <3>3. CASE delay' = <<>>
        BY <3>3
      <3> QED BY <1>1, <3>2, <3>3
    <2> QED BY <1>1, <2>1, <2>2, <2>3 DEF VideoInv, EncInv
  <1>9. since' \in 0 .. (MaxB + 1)
    BY <1>1, <1>2
  <1> QED BY <1>3, <1>4, <1>5, <1>6, <1>7, <1>8, <1>9 DEF VideoInv

(* The encoder refuses a frame.                                            *)
LEMMA NextRefused ==
    ASSUME VideoIInv, ChainRefused
    PROVE  VideoIInv'
  <1> USE DEF VideoIInv
  <1>1. /\ at = "idle" /\ sent' = sent + 1 /\ enc' = [enc EXCEPT !.gop = @ + 1]
        /\ UNCHANGED <<opened, delay, pict_type, at, result, out, pending, since, odd, wanted>>
    BY DEF ChainRefused, Accept, hvars
  <1>2. sent \in Nat /\ MaxB \in Nat
    BY EncTypes DEF VideoInv, QueueRises
  <1>3. WindowInv(enc') /\ enc'.input = enc.input /\ enc'.reordered = enc.reordered
    <2> DEFINE E == [input : [0 .. MaxB -> [n : Nat, key : BOOLEAN]],
                     reordered : Seq([n : Nat, key : BOOLEAN]), gop : Nat, ref : BOOLEAN]
    <2>1. WindowInv(enc)
      BY DEF VideoInv, PendingInside
    <2>2. enc \in E
      BY <2>1 DEF WindowInv
    <2>3. enc' \in E /\ enc'.input = enc.input /\ enc'.reordered = enc.reordered
      <3> DEFINE o == enc.gop + 1
      <3>1. o \in Nat /\ enc' = [enc EXCEPT !.gop = o]
        BY <1>1, <2>2
      <3> HIDE DEF o
      <3> QED BY <2>2, <3>1
    <2> QED BY <2>1, <2>3 DEF WindowInv
  <1>4. QueueRises'
    BY <1>1, <1>2 DEF VideoInv, QueueRises
  <1>5. PendingInside'
    <2>1. \A i \in 0 .. MaxB : enc'.input[i].n <= sent'
      BY <1>1, <1>2, <1>3, InsideBounds DEF VideoInv
    <2> QED BY <1>1, <1>3, <2>1 DEF VideoInv, PendingInside, Inside
  <1>6. RequestsInside' /\ ForcedAreKeys'
    <2>1. /\ wanted \subseteq 1 .. (sent + 1)
          /\ \A i \in 0 .. MaxB : enc.input[i].n \in wanted => enc.input[i].key
          /\ result \in [n : 0 .. sent, key : BOOLEAN] /\ (result.n \in wanted => result.key)
          /\ out.n \in -1 .. sent
      BY DEF VideoInv, RequestsInside
    <2>2. wanted' \subseteq 1 .. (sent' + 1) /\ sent' + 1 \notin wanted /\ out'.n \in -1 .. sent'
      BY <1>1, <1>2, <2>1
    <2>3. result' \in [n : 0 .. sent', key : BOOLEAN]
      <3>1. 0 .. sent \subseteq 0 .. sent'
        BY <1>1, <1>2
      <3> QED BY <1>1, <2>1, <3>1
    <2> QED BY <1>1, <1>3, <2>1, <2>2, <2>3 DEF VideoInv, RequestsInside, ForcedAreKeys
  <1>7. QueueInWindow'
    BY <1>1, <1>3 DEF VideoInv, QueueInWindow
  <1>8. /\ LongStreamsDrain' /\ KeysInFront' /\ EncInv' /\ since' \in 0 .. (MaxB + 1)
        /\ (ClosedGop => KeyframesInTime')
    BY <1>1 DEF VideoInv, LongStreamsDrain, KeysInFront, KeyframesInTime, EncInv
  <1> QED BY <1>4, <1>5, <1>6, <1>7, <1>8 DEF VideoInv

(* A key frame is asked for.                                               *)
LEMMA NextForce ==
    ASSUME VideoIInv, GstForceKeyUnit
    PROVE  VideoIInv'
  <1> USE DEF VideoIInv
  <1>1. /\ pict_type' = TRUE
        /\ wanted' = IF at = "idle" THEN wanted \cup {sent + 1} ELSE wanted
        /\ UNCHANGED <<opened, delay, enc, at, result, sent, out, pending, since, odd>>
    BY DEF GstForceKeyUnit
  <1>2. sent \in Nat /\ MaxB \in Nat
    BY EncTypes DEF VideoInv, QueueRises
  <1>3. RequestsInside' /\ ForcedAreKeys'
    <2>1. /\ wanted \subseteq 1 .. (sent + 1) /\ (sent + 1 \in wanted => at # "push")
          /\ \A i \in 0 .. MaxB : enc.input[i].n \in wanted => enc.input[i].key
          /\ result \in [n : 0 .. sent, key : BOOLEAN] /\ (result.n \in wanted => result.key)
          /\ out.n \in -1 .. sent
      BY DEF VideoInv, RequestsInside
    <2>2. \A i \in 0 .. MaxB : enc.input[i].n # sent + 1
      BY <1>2, InsideBounds DEF VideoInv
    <2>3. result.n # sent + 1 /\ out.n # sent + 1
      BY <1>2, <2>1
    <2>4. wanted' \subseteq 1 .. (sent + 1) /\ (sent + 1 \in wanted' => at # "push")
      BY <1>1, <1>2, <2>1
    <2> QED BY <1>1, <2>1, <2>2, <2>3, <2>4 DEF VideoInv, RequestsInside, ForcedAreKeys
  <1>4. /\ QueueInWindow' /\ LongStreamsDrain' /\ KeysInFront' /\ since' \in 0 .. (MaxB + 1)
        /\ PendingInside' /\ QueueRises' /\ (ClosedGop => KeyframesInTime')
    BY <1>1 DEF VideoInv, QueueInWindow, LongStreamsDrain, KeysInFront, PendingInside, QueueRises,
         KeyframesInTime
  <1>5. EncInv'
    BY <1>1 DEF VideoInv, EncInv
  <1> QED BY <1>3, <1>4, <1>5 DEF VideoInv

(* The stream ends, the event goes on, and a seek goes on behind it.       *)
LEMMA NextEos ==
    ASSUME VideoIInv, EosEvent \/ EosForward \/ Resume
    PROVE  VideoIInv'
  <1> USE DEF VideoIInv
  <1>1. /\ UNCHANGED <<opened, pict_type, enc, result, sent, out, pending, wanted>>
        /\ at # "push" /\ at' # "push" /\ at' \in {"idle", "drain", "eos"}
        /\ odd => odd'
    <2>1. CASE EosEvent
      BY <2>1 DEF EosEvent
    <2>2. CASE EosForward
      BY <2>2 DEF EosForward, hvars
    <2>3. CASE Resume
      BY <2>3 DEF Resume
    <2> QED BY <2>1, <2>2, <2>3
  <1>2. /\ sent \in Nat /\ MaxB \in Nat /\ since \in 0 .. (MaxB + 1) /\ delay \in Seq(Nat)
        /\ IsFiniteSet(pending) /\ Cardinality(pending) \in Nat
        /\ Len(enc.reordered) \in 0 .. MaxB /\ enc.reordered \in Seq(Picture)
    BY EncTypes, InsideBounds DEF VideoInv, QueueRises
  <1>3. ~odd => Len(delay) = Cardinality(pending)
    <2>1. ~odd => Len(delay) = Cardinality(pending) + 0
      BY <1>1 DEF VideoInv, EncInv
    <2> QED BY <1>2, <2>1
  <1>4. /\ delay' = delay \/ (delay' = <<>> /\ at' = "eos")
        /\ ~odd' => delay' = delay
        /\ since' = since \/ since' = 0
        /\ at' = "eos" /\ ~odd' => delay = <<>>
    <2>1. CASE EosEvent
      BY <2>1 DEF EosEvent
    <2>2. CASE EosForward
      <3>1. delay' = <<>> /\ at' = "eos" /\ odd' = odd /\ since' = since /\ (opened => delay = <<>>)
        BY <2>2 DEF EosForward, hvars
      <3>2. ~odd /\ ~opened => delay = <<>>
        <4>1. ~opened => pending = {}
          BY DEF VideoInv, EncInv
        <4> QED BY <1>2, <1>3, <4>1, FS_EmptySet
      <3> QED BY <3>1, <3>2
    <2>3. CASE Resume
      BY <2>3 DEF Resume
    <2> QED BY <2>1, <2>2, <2>3
  <1>5. QueueRises'
    <2>1. QueueRises
      BY DEF VideoInv
    <2>2. CASE delay' = delay
      BY <1>1, <2>1, <2>2 DEF QueueRises
    <2>3. CASE delay' = <<>>
      <3>1. Len(delay') = 0 /\ delay' \in Seq(Nat)
        BY <2>3
      <3> QED BY <1>1, <2>1, <3>1 DEF QueueRises
    <2> QED BY <1>4, <2>2, <2>3
  <1>6. PendingInside' /\ ForcedAreKeys' /\ (ClosedGop => KeyframesInTime') /\ KeysInFront'
    BY <1>1 DEF VideoInv, PendingInside, ForcedAreKeys, KeyframesInTime, KeysInFront
  <1>7. RequestsInside'
    BY <1>1 DEF VideoInv, RequestsInside
  <1>8. LongStreamsDrain'
    <2> SUFFICES ASSUME at' = "eos", ~odd' PROVE pending = {}
      BY <1>1 DEF LongStreamsDrain
    <2>1. Len(delay) = 0
      BY <1>2, <1>4
    <2>2. Cardinality(pending) = 0
      BY <1>1, <1>3, <2>1
    <2> QED BY <1>2, <2>2, FS_EmptySet
  <1>9. EncInv'
    <2>1. ~odd' => Len(delay') = Cardinality(pending) + 0
      BY <1>1, <1>2, <1>3, <1>4
    <2>2. delay' \in Seq(1 .. NumFrames)
      <3>1. delay \in Seq(1 .. NumFrames)
        BY DEF VideoInv, EncInv
      <3>2. CASE delay' = delay
        BY <3>1, <3>2
      <3>3. CASE delay' = <<>>
        BY <3>3
      <3> QED BY <1>4, <3>2, <3>3
    <2>3. result = NoPicture
      BY <1>1 DEF VideoInv, EncInv
    <2> QED BY <1>1, <2>1, <2>2, <2>3 DEF VideoInv, EncInv
  <1>10. QueueInWindow'
    <2> SUFFICES ASSUME ~odd' PROVE QueueInWindow'
      BY DEF QueueInWindow
    <2>1. ~odd /\ delay' = delay
      BY <1>1, <1>4
    <2>2. CASE EosEvent
      <3>1. at = "idle" /\ at' = "drain" /\ ~(since \in 1 .. MaxB)
        BY <2>2 DEF EosEvent
      <3>2. /\ Len(delay) = (IF since <= MaxB THEN since ELSE MaxB) + 0
            /\ \A j \in 1..Len(delay) : enc.input[MaxB - Len(delay) + j].n = delay[j]
            /\ IF since > MaxB THEN enc.input[0].n # 0
               ELSE /\ enc.reordered = <<>>
                    /\ \A i \in 0..(MaxB - since) : enc.input[i].n = 0 \/ (i = 0 /\ since = 0)
        BY <2>1, <3>1 DEF VideoInv, QueueInWindow
      <3>3. CASE since > MaxB
        <4>1. Len(delay) = MaxB /\ enc.input[0].n # 0
          BY <1>2, <3>2, <3>3
        <4>2. \A i \in 1 .. MaxB : MaxB - Len(delay) + i = i /\ i <= Len(delay)
          BY <1>2, <4>1
        <4>3. \A i \in 1 .. MaxB : enc.input[i].n = IF i <= Len(delay) THEN delay[i] ELSE 0
          BY <3>2, <4>1, <4>2
        <4> QED BY <1>1, <1>2, <2>1, <3>1, <4>1, <4>3 DEF QueueInWindow
      <3>4. CASE ~(since > MaxB)
        <4>1. since = 0 /\ Len(delay) = 0 /\ enc.reordered = <<>>
          BY <1>2, <3>1, <3>2, <3>4
        <4>2. \A i \in 1 .. MaxB : i \in 0 .. (MaxB - since) /\ i # 0 /\ ~(i <= Len(delay))
          BY <1>2, <4>1
        <4>3. \A i \in 1 .. MaxB : enc.input[i].n = IF i <= Len(delay) THEN delay[i] ELSE 0
          BY <3>2, <3>4, <4>2
        <4> QED BY <1>1, <1>2, <2>1, <3>1, <4>1, <4>3 DEF QueueInWindow
      <3> QED BY <3>3, <3>4
    <2>3. CASE EosForward
      <3>1. at = "drain" /\ at' = "eos" /\ delay = <<>>
        BY <1>4, <2>3 DEF EosForward
      <3> QED BY <1>1, <2>1, <3>1 DEF VideoInv, QueueInWindow
    <2>4. CASE Resume
      <3>1. at = "eos" /\ at' = "idle" /\ since' = 0
        BY <2>4 DEF Resume
      <3>2. /\ delay = <<>> /\ Len(delay) = 0 /\ Len(enc.reordered) <= Len(delay)
            /\ \A i \in 1 .. MaxB : enc.input[i].n = IF i <= Len(delay) THEN delay[i] ELSE 0
        BY <2>1, <3>1 DEF VideoInv, QueueInWindow
      <3>3. enc.reordered = <<>>
        BY <1>2, <3>2
      <3>4. \A i \in 0 .. (MaxB - 0) : enc.input[i].n = 0 \/ i = 0
        BY <1>2, <3>2
      <3> QED BY <1>1, <1>2, <2>1, <3>1, <3>2, <3>3, <3>4 DEF QueueInWindow
    <2> QED BY <2>2, <2>3, <2>4
  <1>11. since' \in 0 .. (MaxB + 1)
    BY <1>2, <1>4
  <1> QED BY <1>5, <1>6, <1>7, <1>8, <1>9, <1>10, <1>11 DEF VideoInv

(* The initial state satisfies the invariant.                              *)
LEMMA InitVideoInv == Init => VideoIInv
  <1> SUFFICES ASSUME Init PROVE VideoIInv
    OBVIOUS
  <1> USE DEF Init
  <1>1. MaxB \in Nat
    BY EncTypes
  <1>2. QueueRises
    BY InitVideo
  <1>3. PendingInside
    BY InitWindow DEF PendingInside
  <1>4. NoPicture \in [n : 0 .. 0, key : BOOLEAN]
    BY DEF NoPicture
  <1>5. RequestsInside
    BY <1>4, InitWindow DEF RequestsInside
  <1>6. QueueInWindow
    BY <1>1, InitWindow DEF QueueInWindow
  <1>7. EncInv
    <2>1. Len(delay) = 0 /\ Cardinality(pending) = 0
      BY FS_EmptySet
    <2>2. delay \in Seq(1 .. NumFrames)
      OBVIOUS
    <2>3. at # "push" /\ at = "idle" /\ result = NoPicture /\ pending = {}
      OBVIOUS
    <2>4. opened \in BOOLEAN /\ pict_type \in BOOLEAN
      OBVIOUS
    <2> QED BY <2>1, <2>2, <2>3, <2>4 DEF EncInv
  <1>8. ForcedAreKeys /\ LongStreamsDrain /\ KeysInFront /\ KeyframesInTime
    BY DEF ForcedAreKeys, LongStreamsDrain, KeysInFront, KeyframesInTime
  <1> QED BY <1>1, <1>2, <1>3, <1>5, <1>6, <1>7, <1>8 DEF VideoIInv, VideoInv

(* Every step keeps it.                                                    *)
LEMMA NextVideoInv ==
    ASSUME VideoIInv, [Next]_vars
    PROVE  VideoIInv'
  <1>1. CASE UNCHANGED vars
    <2> USE DEF VideoIInv, vars, hvars
    <2>1. EncInv' /\ since' \in 0 .. (MaxB + 1) /\ QueueRises' /\ ForcedAreKeys'
      BY <1>1 DEF VideoInv, EncInv, QueueRises, ForcedAreKeys
    <2>2. PendingInside' /\ QueueInWindow' /\ LongStreamsDrain' /\ RequestsInside' /\ KeysInFront'
      BY <1>1 DEF VideoInv, PendingInside, QueueInWindow, LongStreamsDrain, RequestsInside, KeysInFront
    <2>3. ClosedGop => KeyframesInTime'
      BY <1>1 DEF KeyframesInTime
    <2> QED BY <2>1, <2>2, <2>3 DEF VideoInv
  <1> QED BY <1>1, NextEncode, NextPush, NextFlush, NextOpen, NextRefused, NextForce, NextEos DEF Next

-----------------------------------------------------------------------------
(* The three parts side by side.                                           *)
EncPartsInv == VideoIInv /\ AudioInv /\ MuxInv

(* A step of the composition moves one of the parts.                       *)
LEMMA PartsStep ==
    ASSUME [Video \/ Audio \/ Mux]_<<part, vars, avars, mvars>>
    PROVE  [Next]_vars /\ [A!Next]_A!vars /\ [M!Next]_M!vars
  <1>1. UNCHANGED avars => UNCHANGED A!vars
    BY DEF avars, A!vars, A!avars
  <1>2. UNCHANGED mvars => UNCHANGED M!vars
    BY DEF mvars, M!vars, M!pvars, M!hvars
  <1> QED BY <1>1, <1>2 DEF Video, Audio, Mux

(* Every step of the composition keeps the invariants of the parts.        *)
LEMMA NextParts ==
    EncPartsInv /\ [Video \/ Audio \/ Mux]_<<part, vars, avars, mvars>> => EncPartsInv'
  BY PartsStep, NextVideoInv, NextAudio, NextMux DEF EncPartsInv

(* The parts start in states that satisfy their invariants.                *)
LEMMA InitParts == MCInit => EncPartsInv
  BY InitVideoInv, InitAudio, InitMux DEF MCInit, EncPartsInv

(* The invariants of the three parts hold in every reachable state.        *)
LEMMA PartsInvariant == MCSpec => []EncPartsInv
  BY InitParts, NextParts, PTL DEF MCSpec

(* The queue of delays and the video encoder hold the same frames, a long  *)
(* stream drains and forced key frames come out, for any number of B       *)
(* frames and size of group, open or closed.                               *)
THEOREM VideoInvariant == MCSpec => []VideoInv
  <1>1. EncPartsInv => VideoInv
    BY DEF EncPartsInv, VideoIInv
  <1> QED BY <1>1, PartsInvariant, PTL

(* With closed groups, a key frame carries its own time.                   *)
THEOREM VideoKeyframes ==
    ASSUME ClosedGop
    PROVE  MCSpec => []KeyframesInTime
  <1>1. EncPartsInv => KeyframesInTime
    BY DEF EncPartsInv, VideoIInv
  <1> QED BY <1>1, PartsInvariant, PTL

(* The audio encoder's clock does not drift, for any size of frames and    *)
(* buffers and any rate, over gaps, failed pushes and stops.               *)
THEOREM AudioOnTime == MCSpec => []AudioInv
  <1>1. EncPartsInv => AudioInv
    BY DEF EncPartsInv
  <1> QED BY <1>1, PartsInvariant, PTL

(* A file begins with its header and has each buffer that arrived when its *)
(* trailer is written, for any number of streams; an open file has had its *)
(* header since the last start.                                            *)
THEOREM MuxComplete == MCSpec => []MuxInv
  <1>1. EncPartsInv => MuxInv
    BY DEF EncPartsInv
  <1> QED BY <1>1, PartsInvariant, PTL

(* What the elements push is in order: video over caps, ends and refused   *)
(* frames, audio but for marked gaps, and the buffers of a file.           *)
THEOREM EncInOrder == MCSpec => InOrder
  <1>1. EncPartsInv /\ [Video \/ Audio \/ Mux]_<<part, vars, avars, mvars>>
          => [out' # out => out'.ts > out.ts]_vars
    BY PartsStep, NextVideo DEF EncPartsInv, VideoIInv, VideoInv
  <1>2. EncPartsInv /\ [Video \/ Audio \/ Mux]_<<part, vars, avars, mvars>>
          => [frame' # frame =>
                \/ frame'.discont \/ failed
                \/ /\ frame'.pos = frame.pos + FrameSize
                   /\ frame'.ts - (frame.ts + frame.duration) \in -1..1]_A!vars
    BY PartsStep, NextGapsMarked DEF EncPartsInv
  <1>3. EncPartsInv /\ [Video \/ Audio \/ Mux]_<<part, vars, avars, mvars>>
          => [written' > written /\ ~untimed => packet'.ts >= packet.ts]_M!vars
    BY PartsStep, NextInterleaved DEF EncPartsInv
  <1> QED BY <1>1, <1>2, <1>3, PartsInvariant, PTL
          DEF MCSpec, InOrder, TimesRise, A!GapsMarked, M!Interleaved

=============================================================================
