--------------------------- MODULE PushModeProofs ---------------------------
(***************************************************************************)
(* Proofs about the two elements whose data another thread pushes at them: *)
(* the push mode of the ffmpeg demuxer, for all buffer and read sizes,     *)
(* streams and bounds, and the VP8 decoder, for every file, set of         *)
(* segments and reports.  In both an element shares a few fields with a    *)
(* second thread, and the invariant says what these fields promise.        *)
(***************************************************************************)
EXTENDS FFMpegDemuxPush, VP8Dec, TLAPS

(***************************************************************************)
(* The push mode of the ffmpeg demuxer (FFMpegDemuxPush, FFMpegPipe).      *)
(***************************************************************************)

(* A set of flow results with at least one member has a worst one.         *)
LEMMA WorstIsFlow ==
    ASSUME NEW F, F \subseteq Flow, F # {}
    PROVE  Worst(F) \in F
<1>1. /\ FlowCode["OK"] = 0 /\ FlowCode["NOT_LINKED"] = -1
      /\ FlowCode["WRONG_STATE"] = -2 /\ FlowCode["UNEXPECTED"] = -3
      /\ FlowCode["ERROR"] = -5
  BY DEF FlowCode
<1>2. \E r \in F : \A q \in F : FlowCode[r] <= FlowCode[q]
  <2>1. CASE "ERROR" \in F
    BY <1>1, <2>1 DEF Flow
  <2>2. CASE "ERROR" \notin F /\ "UNEXPECTED" \in F
    BY <1>1, <2>2 DEF Flow
  <2>3. CASE F \subseteq {"OK", "NOT_LINKED", "WRONG_STATE"} /\ "WRONG_STATE" \in F
    BY <1>1, <2>3
  <2>4. CASE F \subseteq {"OK", "NOT_LINKED"} /\ "NOT_LINKED" \in F
    BY <1>1, <2>4
  <2>5. CASE F = {"OK"}
    BY <1>1, <2>5
  <2> QED BY <2>1, <2>2, <2>3, <2>4, <2>5 DEF Flow
<1> QED BY <1>2 DEF Worst

(* gst_ffmpegdemux_aggregated_flow returns a flow result.                  *)
LEMMA AggregatedIsFlow ==
    ASSUME NEW lf \in [Streams -> Flow]
    PROVE  gst_ffmpegdemux_aggregated_flow(lf) \in Flow
<1> DEFINE flows == {lf[s] : s \in Streams} \cup {"OK"}
<1>1. flows \subseteq Flow /\ flows # {}
  BY DEF Flow
<1>2. Worst(flows) \in Flow
  BY <1>1, WorstIsFlow
<1> QED BY <1>2 DEF gst_ffmpegdemux_aggregated_flow, Flow

(* At most one thread sleeps: a sleeping task needs bytes that a sleeping  *)
(* streaming thread says it has, or says it has not asked for.             *)
LEMMA OneAsleep ==
    ASSUME PipeInv
    PROVE  sleeping \in {{}, {"loop"}, {"streaming"}}
<1>1. ~("loop" \in sleeping /\ "streaming" \in sleeping)
  BY PushAssumption DEF PipeInv, TypeOK, PipeTypeOK, LoopTypeOK, LoopSleep, StreamingSleep
<1> QED BY <1>1 DEF PipeInv, TypeOK, PipeTypeOK, Threads

(* Hence a signal finds the thread it is meant for.                        *)
LEMMA SignalWakesAll ==
    ASSUME PipeInv
    PROVE  /\ GST_FFMPEG_PIPE_SIGNAL => sleeping' = {}
           /\ \A t \in Threads : SIGNAL_AND_WAIT(t) => sleeping' = {t}
<1>1. Signalled = {{}}
  <2>1. CASE sleeping = {}
    BY <2>1 DEF Signalled
  <2>2. CASE sleeping \in {{"loop"}, {"streaming"}}
    BY <2>2 DEF Signalled
  <2> QED BY <2>1, <2>2, OneAsleep
<1> QED BY <1>1 DEF GST_FFMPEG_PIPE_SIGNAL, SIGNAL_AND_WAIT

(* The element starts with nobody asleep.                                  *)
LEMMA InitPipeInv == Init => PipeInv
<1> SUFFICES ASSUME Init PROVE PipeInv
  OBVIOUS
<1>1. TypeOK
  <2>1. PipeTypeOK
    BY DEF Init, PipeTypeOK, Flow
  <2>2. LoopTypeOK
    <3>1. frames \in 0 .. MaxFrames
      BY PushAssumption DEF Init
    <3> QED BY <3>1 DEF Init, LoopTypeOK, Flow
  <2>3. DemuxTypeOK
    BY DEF Init, DemuxTypeOK, Flow
  <2>4. EnvTypeOK
    <3>1. /\ buffers \in 0 .. MaxBuffers /\ events \in 0 .. MaxEvents
          /\ flushes \in 0 .. MaxFlushes /\ stops \in 0 .. MaxStops
      BY PushAssumption DEF Init
    <3> QED BY <3>1 DEF Init, EnvTypeOK
  <2> QED BY <2>1, <2>2, <2>3, <2>4 DEF TypeOK
<1>2. LoopSleep /\ StreamingSleep /\ Stages /\ PausedRefuses
  BY DEF Init, LoopSleep, StreamingSleep, Stages, PausedRefuses
<1> QED BY <1>1, <1>2 DEF PipeInv

(* A read from the pipe keeps the types.                                   *)
LEMMA ReadTypes ==
    ASSUME PipeInv, NEW size \in ReadSizes \cup {0}, Read(size), UNCHANGED <<ret, opened>>
    PROVE  PipeTypeOK' /\ LoopTypeOK'
<1>1. size \in Nat
  BY PushAssumption
<1>2. available \in Nat /\ needed \in Nat
  BY DEF PipeInv, TypeOK, PipeTypeOK
<1>3. available' \in Nat /\ needed' \in Nat
  BY <1>1, <1>2 DEF Read, pipe_read_wait, pipe_read_take
<1>4. sleeping' \subseteq Threads
  BY SignalWakesAll DEF Read, pipe_read_wait, pipe_read_take, PipeInv, TypeOK,
        PipeTypeOK, Threads
<1>5. eos' = eos /\ srcresult' = srcresult
  BY DEF Read, pipe_read_wait, pipe_read_take
<1>6. PipeTypeOK'
  BY <1>3, <1>4, <1>5 DEF PipeInv, TypeOK, PipeTypeOK
<1>7. loop' \in {"idle", "open", "frame", "read"} /\ want' \in {size, 0}
  BY DEF Read
<1>8. frames' \in 0 .. MaxFrames
  BY PushAssumption DEF Read, PipeInv, TypeOK, LoopTypeOK
<1>9. short' \in BOOLEAN
  <2>1. CASE short' = short
    BY <2>1 DEF PipeInv, TypeOK, LoopTypeOK
  <2>2. CASE short' = (available < size)
    <3>1. (available < size) \in BOOLEAN
      OBVIOUS
    <3> QED BY <2>2, <3>1, Zenon
  <2> QED BY <2>1, <2>2, Zenon DEF Read
<1> QED BY <1>6, <1>7, <1>8, <1>9 DEF PipeInv, TypeOK, LoopTypeOK

(* Every step keeps the invariant.                                         *)
LEMMA NextPipeInv == PipeInv /\ [Next]_vars => PipeInv'
<1> SUFFICES ASSUME PipeInv, [Next]_vars PROVE PipeInv'
  OBVIOUS
<1> USE PushAssumption DEF PipeInv, TypeOK, LoopSleep, StreamingSleep, Stages,
        PausedRefuses,
        PipeTypeOK, LoopTypeOK, DemuxTypeOK, EnvTypeOK, Threads, Flow,
        pvars, lvars, dvars, fvars, avars, nvars
<1>1. CASE \E size \in BufferSizes : gst_ffmpegdemux_chain(size)
  <2>1. PipeTypeOK'
    <3>1. available' \in Nat
      BY <1>1 DEF gst_ffmpegdemux_chain
    <3>2. sleeping' \subseteq Threads
      BY <1>1, SignalWakesAll DEF gst_ffmpegdemux_chain, ChainWait
    <3> QED BY <1>1, <3>1, <3>2 DEF gst_ffmpegdemux_chain
  <2>2. LoopTypeOK'
    BY <1>1, SignalWakesAll DEF gst_ffmpegdemux_chain, SinkOpen, ChainWait
  <2>3. DemuxTypeOK'
    BY <1>1, SignalWakesAll DEF gst_ffmpegdemux_chain, SinkOpen, ChainWait
  <2>4. EnvTypeOK'
    BY <1>1, SignalWakesAll DEF gst_ffmpegdemux_chain, SinkOpen, ChainWait
  <2>5. LoopSleep'
    BY <1>1, SignalWakesAll DEF gst_ffmpegdemux_chain, SinkOpen, ChainWait
  <2>6. StreamingSleep'
    BY <1>1, SignalWakesAll DEF gst_ffmpegdemux_chain, SinkOpen, ChainWait
  <2>7. Stages' /\ PausedRefuses'
    BY <1>1, SignalWakesAll DEF gst_ffmpegdemux_chain, SinkOpen, ChainWait
  <2> QED BY <2>1, <2>2, <2>3, <2>4, <2>5, <2>6, <2>7
<1>2. CASE ChainWake
  <2>1. PipeTypeOK'
    BY <1>2, SignalWakesAll DEF ChainWake, ChainWait
  <2>2. LoopTypeOK'
    BY <1>2, SignalWakesAll DEF ChainWake, ChainWait
  <2>3. DemuxTypeOK'
    BY <1>2, SignalWakesAll DEF ChainWake, ChainWait
  <2>4. EnvTypeOK'
    BY <1>2, SignalWakesAll DEF ChainWake, ChainWait
  <2>5. LoopSleep'
    BY <1>2, SignalWakesAll DEF ChainWake, ChainWait
  <2>6. StreamingSleep'
    BY <1>2, SignalWakesAll DEF ChainWake, ChainWait
  <2>7. Stages' /\ PausedRefuses'
    BY <1>2, SignalWakesAll DEF ChainWake, ChainWait
  <2> QED BY <2>1, <2>2, <2>3, <2>4, <2>5, <2>6, <2>7
<1>3. CASE SerializedEvent
  <2>1. PipeTypeOK'
    BY <1>3 DEF SerializedEvent, SinkOpen, EventWait, GST_FFMPEG_PIPE_WAIT
  <2>2. LoopTypeOK'
    BY <1>3 DEF SerializedEvent, SinkOpen, EventWait, GST_FFMPEG_PIPE_WAIT
  <2>3. DemuxTypeOK'
    BY <1>3 DEF SerializedEvent, SinkOpen, EventWait, GST_FFMPEG_PIPE_WAIT
  <2>4. EnvTypeOK'
    BY <1>3 DEF SerializedEvent, SinkOpen, EventWait, GST_FFMPEG_PIPE_WAIT
  <2>5. LoopSleep'
    BY <1>3 DEF SerializedEvent, SinkOpen, EventWait, GST_FFMPEG_PIPE_WAIT
  <2>6. StreamingSleep'
    BY <1>3 DEF SerializedEvent, SinkOpen, EventWait, GST_FFMPEG_PIPE_WAIT
  <2>7. Stages' /\ PausedRefuses'
    BY <1>3 DEF SerializedEvent, SinkOpen, EventWait, GST_FFMPEG_PIPE_WAIT
  <2> QED BY <2>1, <2>2, <2>3, <2>4, <2>5, <2>6, <2>7
<1>4. CASE EventWake
  <2>1. PipeTypeOK'
    BY <1>4 DEF EventWake, EventWait, GST_FFMPEG_PIPE_WAIT
  <2>2. LoopTypeOK'
    BY <1>4 DEF EventWake, EventWait, GST_FFMPEG_PIPE_WAIT
  <2>3. DemuxTypeOK'
    BY <1>4 DEF EventWake, EventWait, GST_FFMPEG_PIPE_WAIT
  <2>4. EnvTypeOK'
    BY <1>4 DEF EventWake, EventWait, GST_FFMPEG_PIPE_WAIT
  <2>5. LoopSleep'
    BY <1>4 DEF EventWake, EventWait, GST_FFMPEG_PIPE_WAIT
  <2>6. StreamingSleep'
    BY <1>4 DEF EventWake, EventWait, GST_FFMPEG_PIPE_WAIT
  <2>7. Stages' /\ PausedRefuses'
    BY <1>4 DEF EventWake, EventWait, GST_FFMPEG_PIPE_WAIT
  <2> QED BY <2>1, <2>2, <2>3, <2>4, <2>5, <2>6, <2>7
<1>5. CASE EventAppend
  BY <1>5 DEF EventAppend
<1>6. CASE EosEvent
  <2>1. PipeTypeOK'
    BY <1>6, SignalWakesAll DEF EosEvent, SinkOpen
  <2>2. LoopTypeOK'
    BY <1>6, SignalWakesAll DEF EosEvent, SinkOpen
  <2>3. DemuxTypeOK'
    BY <1>6, SignalWakesAll DEF EosEvent, SinkOpen
  <2>4. EnvTypeOK'
    BY <1>6, SignalWakesAll DEF EosEvent, SinkOpen
  <2>5. LoopSleep'
    BY <1>6, SignalWakesAll DEF EosEvent, SinkOpen
  <2>6. StreamingSleep'
    BY <1>6, SignalWakesAll DEF EosEvent, SinkOpen
  <2>7. Stages' /\ PausedRefuses'
    BY <1>6, SignalWakesAll DEF EosEvent, SinkOpen
  <2> QED BY <2>1, <2>2, <2>3, <2>4, <2>5, <2>6, <2>7
<1>7. CASE LoopStart
  <2>1. PipeTypeOK'
    BY <1>7 DEF LoopStart
  <2>2. LoopTypeOK'
    BY <1>7 DEF LoopStart
  <2>3. DemuxTypeOK'
    BY <1>7 DEF LoopStart
  <2>4. EnvTypeOK'
    BY <1>7 DEF LoopStart
  <2>5. LoopSleep'
    BY <1>7 DEF LoopStart
  <2>6. StreamingSleep'
    BY <1>7 DEF LoopStart
  <2>7. Stages' /\ PausedRefuses'
    BY <1>7 DEF LoopStart
  <2> QED BY <2>1, <2>2, <2>3, <2>4, <2>5, <2>6, <2>7
<1>8. CASE \E size \in ReadSizes : LoopRead(size)
  <2>1. PipeTypeOK'
    BY <1>8, ReadTypes DEF LoopRead
  <2>2. LoopTypeOK'
    BY <1>8, ReadTypes DEF LoopRead
  <2>3. DemuxTypeOK'
    BY <1>8, SignalWakesAll DEF LoopRead, Read, pipe_read_wait, pipe_read_take
  <2>4. EnvTypeOK'
    BY <1>8, SignalWakesAll DEF LoopRead, Read, pipe_read_wait, pipe_read_take
  <2>5. LoopSleep'
    BY <1>8, SignalWakesAll DEF LoopRead, Read, pipe_read_wait, pipe_read_take
  <2>6. StreamingSleep'
    BY <1>8, SignalWakesAll DEF LoopRead, Read, pipe_read_wait, pipe_read_take
  <2>7. Stages' /\ PausedRefuses'
    BY <1>8, SignalWakesAll DEF LoopRead, Read, pipe_read_wait, pipe_read_take
  <2> QED BY <2>1, <2>2, <2>3, <2>4, <2>5, <2>6, <2>7
<1>9. CASE LoopReadWake
  <2>1. PipeTypeOK'
    BY <1>9, ReadTypes DEF LoopReadWake
  <2>2. LoopTypeOK'
    BY <1>9, ReadTypes DEF LoopReadWake
  <2>3. DemuxTypeOK'
    BY <1>9, SignalWakesAll DEF LoopReadWake, Read, pipe_read_wait, pipe_read_take
  <2>4. EnvTypeOK'
    BY <1>9, SignalWakesAll DEF LoopReadWake, Read, pipe_read_wait, pipe_read_take
  <2>5. LoopSleep'
    BY <1>9, SignalWakesAll DEF LoopReadWake, Read, pipe_read_wait, pipe_read_take
  <2>6. StreamingSleep'
    BY <1>9, SignalWakesAll DEF LoopReadWake, Read, pipe_read_wait, pipe_read_take
  <2>7. Stages' /\ PausedRefuses'
    BY <1>9, SignalWakesAll DEF LoopReadWake, Read, pipe_read_wait, pipe_read_take
  <2> QED BY <2>1, <2>2, <2>3, <2>4, <2>5, <2>6, <2>7
<1>10. CASE LoopOpened
  BY <1>10 DEF LoopOpened
<1>11. CASE LoopOpenFailed
  BY <1>11 DEF LoopOpenFailed
<1>12. CASE \E s \in Streams, timed, drop \in BOOLEAN : LoopFrame(s, timed, drop)
  BY <1>12 DEF LoopFrame
<1>13. CASE LoopReadFailed
  BY <1>13 DEF LoopReadFailed
<1>14. CASE \E r \in DownstreamFlow : LoopAlloc(r)
  <2>1. PipeTypeOK'
    BY <1>14, AggregatedIsFlow, SMTT(30) DEF LoopAlloc, Returns
  <2>2. LoopTypeOK'
    BY <1>14, AggregatedIsFlow, ZenonT(60) DEF LoopAlloc, Returns
  <2>3. DemuxTypeOK'
    BY <1>14, AggregatedIsFlow DEF LoopAlloc, Returns
  <2>4. EnvTypeOK'
    BY <1>14, AggregatedIsFlow DEF LoopAlloc, Returns
  <2>5. LoopSleep'
    BY <1>14, AggregatedIsFlow DEF LoopAlloc, Returns
  <2>6. StreamingSleep'
    BY <1>14, AggregatedIsFlow DEF LoopAlloc, Returns
  <2>7. Stages' /\ PausedRefuses'
    BY <1>14, AggregatedIsFlow DEF LoopAlloc, Returns
  <2> QED BY <2>1, <2>2, <2>3, <2>4, <2>5, <2>6, <2>7
<1>15. CASE \E r \in DownstreamFlow : LoopPush(r)
  <2>1. PipeTypeOK'
    BY <1>15, AggregatedIsFlow, SMTT(30) DEF LoopPush, Returns
  <2>2. LoopTypeOK'
    BY <1>15, AggregatedIsFlow, ZenonT(60) DEF LoopPush, Returns
  <2>3. DemuxTypeOK'
    BY <1>15, AggregatedIsFlow DEF LoopPush, Returns
  <2>4. EnvTypeOK'
    BY <1>15, AggregatedIsFlow DEF LoopPush, Returns
  <2>5. LoopSleep'
    BY <1>15, AggregatedIsFlow DEF LoopPush, Returns
  <2>6. StreamingSleep'
    BY <1>15, AggregatedIsFlow DEF LoopPush, Returns
  <2>7. Stages' /\ PausedRefuses'
    BY <1>15, AggregatedIsFlow DEF LoopPush, Returns
  <2> QED BY <2>1, <2>2, <2>3, <2>4, <2>5, <2>6, <2>7
<1>16. CASE LoopPause
  BY <1>16 DEF LoopPause
<1>17. CASE LoopEos
  BY <1>17 DEF LoopEos
<1>18. CASE FlushStart
  BY <1>18 DEF FlushStart
<1>19. CASE FlushStartPipe
  <2>1. PipeTypeOK'
    BY <1>19, SignalWakesAll DEF FlushStartPipe
  <2>2. LoopTypeOK'
    BY <1>19, SignalWakesAll DEF FlushStartPipe
  <2>3. DemuxTypeOK'
    BY <1>19, SignalWakesAll DEF FlushStartPipe
  <2>4. EnvTypeOK'
    BY <1>19, SignalWakesAll DEF FlushStartPipe
  <2>5. LoopSleep'
    BY <1>19, SignalWakesAll DEF FlushStartPipe
  <2>6. StreamingSleep'
    BY <1>19, SignalWakesAll DEF FlushStartPipe
  <2>7. Stages' /\ PausedRefuses'
    BY <1>19, SignalWakesAll DEF FlushStartPipe
  <2> QED BY <2>1, <2>2, <2>3, <2>4, <2>5, <2>6, <2>7
<1>20. CASE FlushStop
  <2>1. PipeTypeOK'
    BY <1>20 DEF FlushStop
  <2>2. LoopTypeOK'
    BY <1>20 DEF FlushStop
  <2>3. DemuxTypeOK'
    BY <1>20 DEF FlushStop
  <2>4. EnvTypeOK'
    BY <1>20 DEF FlushStop
  <2>5. LoopSleep'
    BY <1>20 DEF FlushStop
  <2>6. StreamingSleep'
    BY <1>20 DEF FlushStop
  <2>7. Stages' /\ PausedRefuses'
    BY <1>20 DEF FlushStop
  <2> QED BY <2>1, <2>2, <2>3, <2>4, <2>5, <2>6, <2>7
<1>21. CASE FlushStopPipe
  BY <1>21 DEF FlushStopPipe
<1>22. CASE Stop
  BY <1>22 DEF Stop
<1>23. CASE DeactivatePipe
  <2>1. PipeTypeOK'
    BY <1>23, SignalWakesAll DEF DeactivatePipe
  <2>2. LoopTypeOK'
    BY <1>23, SignalWakesAll DEF DeactivatePipe
  <2>3. DemuxTypeOK'
    BY <1>23, SignalWakesAll DEF DeactivatePipe
  <2>4. EnvTypeOK'
    BY <1>23, SignalWakesAll DEF DeactivatePipe
  <2>5. LoopSleep'
    BY <1>23, SignalWakesAll DEF DeactivatePipe
  <2>6. StreamingSleep'
    BY <1>23, SignalWakesAll DEF DeactivatePipe
  <2>7. Stages' /\ PausedRefuses'
    BY <1>23, SignalWakesAll DEF DeactivatePipe
  <2> QED BY <2>1, <2>2, <2>3, <2>4, <2>5, <2>6, <2>7
<1>24. CASE DeactivateStopTask
  BY <1>24 DEF DeactivateStopTask
<1>25. CASE DeactivateJoin
  BY <1>25 DEF DeactivateJoin
<1>26. CASE Ready
  <2>1. PipeTypeOK'
    BY <1>26 DEF Ready
  <2>2. LoopTypeOK'
    BY <1>26 DEF Ready
  <2>3. DemuxTypeOK'
    BY <1>26 DEF Ready
  <2>4. EnvTypeOK'
    BY <1>26 DEF Ready
  <2>5. LoopSleep'
    BY <1>26 DEF Ready
  <2>6. StreamingSleep'
    BY <1>26 DEF Ready
  <2>7. Stages' /\ PausedRefuses'
    BY <1>26 DEF Ready
  <2> QED BY <2>1, <2>2, <2>3, <2>4, <2>5, <2>6, <2>7
<1>27. CASE Activate
  BY <1>27 DEF Activate
<1>28. CASE UNCHANGED vars
  BY <1>28 DEF vars
<1> QED BY <1>1, <1>2, <1>3, <1>4, <1>5, <1>6, <1>7, <1>8, <1>9, <1>10, <1>11, <1>12,
        <1>13, <1>14, <1>15, <1>16, <1>17, <1>18, <1>19, <1>20, <1>21, <1>22, <1>23,
        <1>24, <1>25, <1>26, <1>27, <1>28
        DEF Next, Upstream, StreamingStep, LoopStep, AppStep

(* In push mode whoever waits on the pipe has reason to, the stages of the *)
(* state change leave nothing running, and a paused task refuses data.     *)
THEOREM PipeInvariant == Spec => []PipeInv
<1>1. Init => PipeInv
  BY InitPipeInv
<1>2. PipeInv /\ [Next]_vars => PipeInv'
  BY NextPipeInv
<1> QED BY <1>1, <1>2, PTL DEF Spec

(* gst_ffmpegdemux_chain, gst_ffmpegdemux_sink_event and                   *)
(* gst_ffmpeg_pipe_read never wait for each other.                         *)
THEOREM PipeNoDeadlock == Spec => []NotBothAsleep
<1>1. PipeInv => NotBothAsleep
  BY OneAsleep DEF NotBothAsleep, Threads
<1> QED BY <1>1, PipeInvariant, PTL

(***************************************************************************)
(* The VP8 decoder (VP8Dec).  VP8Inv is inductive together with the two    *)
(* properties it is for.                                                   *)
(***************************************************************************)

VP8IInv == VP8Inv /\ ReferencesDecoded /\ LateHasReason

(* What the file has at a position in it.                                  *)
LEMMA FrameType ==
    ASSUME NEW p \in 1 .. Len(File)
    PROVE  File[p] \in [key : BOOLEAN, visible : BOOLEAN, ts : Nat \cup {None}]
<1> DEFINE Frames == [key : BOOLEAN, visible : BOOLEAN, ts : Nat \cup {None}]
<1>1. File \in Seq(Frames)
  BY VP8DecAssumption
<1> HIDE DEF Frames
<1>2. File[p] \in Frames
  BY <1>1
<1>3. QED
  BY <1>2 DEF Frames

(* The length of the file is a number.                                     *)
LEMMA FileLength == Len(File) \in Nat
BY VP8DecAssumption

(* The decoder starts in an invariant state.                               *)
LEMMA VP8InitInvariant == VP8Init => VP8IInv
<1> SUFFICES ASSUME VP8Init PROVE VP8IInv
  OBVIOUS
<1>1. NoOut \in [n : 0 .. Len(File), how : Hows, ts : Int, own : Int, running : Int,
                earliest : Nat \cup {None}, base : Nat \cup {None},
                after : Nat \cup {None}, reported : BOOLEAN]
  BY FileLength DEF NoOut, Hows, None
<1>2. VP8TypeOK
  <2>1. /\ segment \in [start : Nat, stop : Nat \cup {None}, accum : Int]
        /\ pos \in 1 .. Len(File) + 1 /\ decoded \in 0 .. Len(File)
    BY FileLength DEF VP8Init
  <2>2. QED
    BY <1>1, <2>1 DEF VP8Init, VP8TypeOK
<1>3. QED
  BY <1>2 DEF VP8Init, NoOut, VP8IInv, VP8Inv, ContextStarted, InOrder, EarliestReported,
     ReferencesDecoded, LateHasReason

(* A segment event keeps the types of what it sets (gst_base_video_decoder_sink_event). *)
LEMMA SegmentTypes ==
    ASSUME VP8TypeOK, NEW update \in BOOLEAN, NEW s \in Segments, NewSegment(update, s)
    PROVE  /\ timestamp_offset' \in Nat \cup {None}
           /\ segment' \in [start : Nat, stop : Nat \cup {None}, accum : Int]
           /\ started' \in BOOLEAN /\ decoder_inited' \in BOOLEAN
           /\ earliest_time' \in Nat \cup {None}
<1>1. s \in [start : Nat, stop : Nat \cup {None}]
  BY VP8DecAssumption
<1>2. Elapsed(update, s) \in Int
  BY <1>1, SMTT(30) DEF Elapsed, VP8TypeOK, None
<1>3. segment.accum + Elapsed(update, s) \in Int
  BY <1>2 DEF VP8TypeOK
<1>4. /\ timestamp_offset' \in Nat \cup {None}
      /\ segment' \in [start : Nat, stop : Nat \cup {None}, accum : Int]
  BY <1>1, <1>3 DEF NewSegment
<1>5. CASE update
  BY <1>4, <1>5 DEF NewSegment, VP8TypeOK
<1>6. CASE ~update
  BY <1>4, <1>6 DEF NewSegment, Reset, EarliestAfter
<1>7. QED
  BY <1>5, <1>6

(* The handling of one frame: the chain function with all that it calls keeps *)
(* the invariant, whatever libvpx and the allocation answer.               *)
LEMMA VP8ChainInvariant == VP8IInv /\ Chain => VP8IInv'
<1> SUFFICES ASSUME VP8IInv, Chain PROVE VP8IInv'
  OBVIOUS
<1> DEFINE f == File[pos]
           fresh == discont \/ ~started
           inited == decoder_inited /\ ~fresh
           base == IF discont THEN None ELSE timestamp_offset
           earliest == EarliestAfter(discont)
           timed(how) == how \in Skipped \cup {"pushed"}
           first(how) == IF Rebased(f, how, base) THEN 0 ELSE field_index
           after(how) == IF timed(how) THEN NewBase(f, how, base) ELSE base
           ts(how) == IF f.ts # None /\ f.ts # base THEN f.ts ELSE after(how) + first(how)
<1>1. PICK how \in HandleFrame(f, inited, Late(earliest, f.ts)) :
        /\ timestamp_offset' = after(how)
        /\ field_index' = IF timed(how) THEN first(how) + 2 ELSE field_index
        /\ decoder_inited' = (inited \/ (f.key /\ how # "noinit"))
        /\ decoded' = IF Decodes(how) THEN pos ELSE 0
        /\ broken' = (broken \/ (inited /\ ~f.key /\ decoded # pos - 1))
        /\ rendering' = (rendering \/ (how = "pushed" /\ Inside(ts(how))))
        /\ upstream' = IF how \in {"noinit", "error", "noalloc"} THEN "failed" ELSE "flowing"
        /\ out' = [n |-> pos,
                   how |-> IF how = "pushed" /\ ~Inside(ts(how)) THEN "clipped" ELSE how,
                   ts |-> Clipped(ts(how)), own |-> Clipped(f.ts),
                   running |-> RunningTime(f.ts), earliest |-> earliest,
                   base |-> base, after |-> after(how), reported |-> reported]
  BY DEF Chain
<1>2. /\ upstream = "flowing" /\ pos \in 1 .. Len(File)
      /\ earliest_time' = earliest
      /\ started' = TRUE /\ packetized' = (packetized \/ fresh)
      /\ pos' = pos + 1 /\ discont' = FALSE
      /\ UNCHANGED <<segment, reported, seeks, reports>>
  BY FileLength DEF Chain, VP8IInv, VP8Inv, VP8TypeOK
<1>3. f \in [key : BOOLEAN, visible : BOOLEAN, ts : Nat \cup {None}]
  BY <1>2, FrameType
<1>4. /\ base \in Nat \cup {None} /\ earliest \in Nat \cup {None}
      /\ how \in Hows \ {"none", "clipped"}
  BY <1>1 DEF VP8IInv, VP8Inv, VP8TypeOK, EarliestAfter, HandleFrame, Hows
<1>5. first(how) \in Nat /\ after(how) \in Nat \cup {None}
  BY <1>3, <1>4 DEF VP8IInv, VP8Inv, VP8TypeOK, NewBase
<1>6. ts(how) \in Int
  BY <1>3, <1>5 DEF None
<1>7. Clipped(ts(how)) \in Int /\ Clipped(f.ts) \in Int /\ RunningTime(f.ts) \in Int
  BY <1>3, <1>6, SMTT(30) DEF Clipped, RunningTime, None, VP8IInv, VP8Inv, VP8TypeOK
<1>8. VP8TypeOK'
  <2>1. out' \in [n : 0 .. Len(File), how : Hows, ts : Int, own : Int, running : Int,
                  earliest : Nat \cup {None}, base : Nat \cup {None},
                  after : Nat \cup {None}, reported : BOOLEAN]
    BY <1>1, <1>2, <1>4, <1>5, <1>7, FileLength DEF VP8IInv, VP8Inv, VP8TypeOK, Hows
  <2>2. /\ timestamp_offset' \in Nat \cup {None} /\ earliest_time' \in Nat \cup {None}
        /\ field_index' \in Nat
    BY <1>1, <1>2, <1>4, <1>5 DEF VP8IInv, VP8Inv, VP8TypeOK
  <2>3. /\ started' \in BOOLEAN /\ packetized' \in BOOLEAN /\ decoder_inited' \in BOOLEAN
        /\ discont' \in BOOLEAN /\ rendering' \in BOOLEAN /\ reported' \in BOOLEAN
        /\ broken' \in BOOLEAN
    BY <1>1, <1>2 DEF VP8IInv, VP8Inv, VP8TypeOK
  <2>4. /\ pos' \in 1 .. Len(File) + 1 /\ decoded' \in 0 .. Len(File)
        /\ upstream' \in {"stopped", "flowing", "failed", "flushed", "eos", "spinning"}
        /\ segment' = segment
    BY <1>1, <1>2, FileLength
  <2>5. QED
    BY <2>1, <2>2, <2>3, <2>4 DEF VP8TypeOK, VP8IInv, VP8Inv
<1>9. ContextStarted'
  BY <1>2 DEF ContextStarted, VP8IInv, VP8Inv
<1>10. InOrder'
  <2>1. decoder_inited' /\ upstream' = "flowing" => Decodes(how)
    BY <1>1, <1>3 DEF HandleFrame, Decodes
  <2>2. QED
    BY <2>1, <1>1, <1>2 DEF InOrder
<1>11. EarliestReported'
  BY <1>1, <1>2 DEF EarliestReported, EarliestAfter, VP8IInv, VP8Inv
<1>12. ReferencesDecoded'
  BY <1>1, <1>2 DEF ReferencesDecoded, VP8IInv, VP8Inv, InOrder
<1>13. LateHasReason'
  <2>1. how = "late" => earliest # None
    BY <1>1 DEF HandleFrame, Late
  <2>2. how = "late" => reported
    BY <2>1, <1>2 DEF EarliestAfter, EarliestReported, VP8IInv, VP8Inv
  <2>3. out'.how = "late" => how = "late"
    BY <1>1
  <2>4. out'.reported = reported
    BY <1>1
  <2>5. QED
    BY <2>2, <2>3, <2>4 DEF LateHasReason
<1>14. QED
  BY <1>8, <1>9, <1>10, <1>11, <1>12, <1>13 DEF VP8IInv, VP8Inv

(* Segments, first and after a seek, at a gap, or moved while they play.   *)
LEMMA VP8SegmentInvariant ==
    ASSUME VP8IInv, NEW s \in Segments,
           (\E p \in 1 .. Len(File) : Seek(s, p)) \/ Gap(s) \/ Update(s)
    PROVE  VP8IInv'
<1>1. CASE \E p \in 1 .. Len(File) : Seek(s, p)
  <2>1. PICK p \in 1 .. Len(File) : Seek(s, p)
    BY <1>1
  <2>2. NewSegment(FALSE, s) /\ Reset
    BY <2>1 DEF Seek, NewSegment
  <2>3. VP8TypeOK'
    <3>1. pos' \in 1 .. Len(File) + 1
      BY <2>1, FileLength DEF Seek
    <3>2. rendering' \in BOOLEAN
      BY <2>1 DEF Seek, VP8TypeOK, VP8IInv, VP8Inv
    <3>3. QED
      BY <2>1, <2>2, <3>1, <3>2, SegmentTypes DEF Seek, VP8TypeOK, VP8IInv, VP8Inv
  <2>4. QED
    BY <2>1, <2>2, <2>3 DEF Seek, Reset, EarliestAfter, VP8IInv, VP8Inv, ContextStarted, InOrder,
       EarliestReported, ReferencesDecoded, LateHasReason
<1>2. CASE Gap(s)
  <2>1. NewSegment(FALSE, s) /\ Reset
    BY <1>2 DEF Gap, NewSegment
  <2>2. VP8TypeOK'
    BY <1>2, <2>1, SegmentTypes DEF Gap, VP8TypeOK, VP8IInv, VP8Inv
  <2>3. QED
    BY <1>2, <2>1, <2>2 DEF Gap, Reset, EarliestAfter, VP8IInv, VP8Inv, ContextStarted, InOrder,
       EarliestReported, ReferencesDecoded, LateHasReason
<1>3. CASE Update(s)
  <2>1. NewSegment(TRUE, s) /\ UNCHANGED <<started, decoder_inited, earliest_time>>
    BY <1>3 DEF Update, NewSegment
  <2>2. VP8TypeOK'
    <3>1. /\ timestamp_offset' \in Nat \cup {None}
          /\ segment' \in [start : Nat, stop : Nat \cup {None}, accum : Int]
      BY <2>1, SegmentTypes DEF VP8IInv, VP8Inv
    <3>2. QED
      BY <1>3, <2>1, <3>1 DEF Update, VP8TypeOK, VP8IInv, VP8Inv
  <2>3. QED
    BY <1>3, <2>1, <2>2 DEF Update, VP8IInv, VP8Inv, ContextStarted, InOrder,
       EarliestReported, ReferencesDecoded, LateHasReason
<1>4. QED
  BY <1>1, <1>2, <1>3

(* Every other step.                                                       *)
LEMMA VP8NextInvariant == VP8IInv /\ [VP8Next]_vp8vars => VP8IInv'
<1> SUFFICES ASSUME VP8IInv, [VP8Next]_vp8vars PROVE VP8IInv'
  OBVIOUS
<1> USE DEF VP8IInv, VP8Inv, ContextStarted, InOrder, EarliestReported, ReferencesDecoded,
            LateHasReason
<1>1. CASE Chain
  BY <1>1, VP8ChainInvariant
<1>2. ASSUME NEW s \in Segments,
             (\E p \in 1 .. Len(File) : Seek(s, p)) \/ Gap(s) \/ Update(s)
      PROVE  VP8IInv'
  BY <1>2, VP8SegmentInvariant
<1>3. CASE SetCaps
  <2>1. VP8TypeOK'
    BY <1>3, ZenonT(60) DEF SetCaps, times, VP8TypeOK
  <2>2. QED
    BY <1>3, <2>1 DEF SetCaps, times
<1>4. CASE FlushStopEvent
  BY <1>4, ZenonT(60) DEF FlushStopEvent, VP8TypeOK
<1>5. CASE Eos
  BY <1>5 DEF Eos, times, VP8TypeOK
<1>6. CASE gst_vp8_dec_stop
  BY <1>6, ZenonT(60) DEF gst_vp8_dec_stop, times, VP8TypeOK
<1>7. ASSUME NEW e \in QoS, Report(e) PROVE VP8IInv'
  <2>1. e \in Nat
    BY <1>7, VP8DecAssumption
  <2>2. reported' \in BOOLEAN
    BY <1>7 DEF Report, VP8TypeOK
  <2>3. VP8TypeOK'
    BY <1>7, <2>1, <2>2 DEF Report, VP8TypeOK
  <2>4. QED
    BY <1>7, <2>3 DEF Report
<1>8. CASE Lose
  BY <1>8, FileLength DEF Lose, times, VP8TypeOK
<1>9. CASE UNCHANGED vp8vars
  BY <1>9 DEF vp8vars, times, VP8TypeOK
<1>10. QED
  BY <1>1, <1>2, <1>3, <1>4, <1>5, <1>6, <1>7, <1>8, <1>9 DEF VP8Next

(* The context, the order of the frames and the reports stay tied to what the *)
(* other threads have done, whatever the file, the segments and the reports. *)
THEOREM VP8Invariant == VP8Spec => []VP8Inv
<1>1. VP8IInv => VP8Inv
  BY DEF VP8IInv
<1>2. QED
  BY <1>1, VP8InitInvariant, VP8NextInvariant, PTL DEF VP8Spec

(* libvpx never gets a frame without having decoded the one before it, unless it *)
(* is a key frame (gst_vp8_dec_handle_frame, gst_base_video_decoder_reset). *)
THEOREM VP8ReferencesDecoded == VP8Spec => []ReferencesDecoded
<1>1. VP8IInv => ReferencesDecoded
  BY DEF VP8IInv
<1>2. QED
  BY <1>1, VP8InitInvariant, VP8NextInvariant, PTL DEF VP8Spec

(* No frame is skipped as late for a report from before the last flush or stop *)
(* (earliest_time).                                                        *)
THEOREM VP8LateHasReason == VP8Spec => []LateHasReason
<1>1. VP8IInv => LateHasReason
  BY DEF VP8IInv
<1>2. QED
  BY <1>1, VP8InitInvariant, VP8NextInvariant, PTL DEF VP8Spec

=============================================================================
