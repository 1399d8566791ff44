-------------------------- MODULE FFMpegDemuxPush --------------------------
(***************************************************************************)
(* gstffmpegdemux.c in push mode.  Three threads:                          *)
(*                                                                         *)
(*   streaming   upstream's thread: gst_ffmpegdemux_chain and the          *)
(*               serialized events of gst_ffmpegdemux_sink_event, under    *)
(*               the stream lock of the sink pad;                          *)
(*   loop        the demuxer's own task, gst_ffmpegdemux_loop, which runs  *)
(*               libavformat; that reads through the pipe;                 *)
(*   app         seeks upstream, which flushes the demuxer, and takes it   *)
(*               to READY and back to PAUSED.                              *)
(*                                                                         *)
(* Of libavformat, which comes with the source, only its reads are here:   *)
(* when it opens the stream or reads a frame it reads from the pipe some   *)
(* number of times, and fails only when the data cannot be opened or after *)
(* a read at the end of the stream.                                        *)
(***************************************************************************)
EXTENDS FFMpegPipe

CONSTANTS
    BufferSizes,    \* sizes of the buffers upstream sends
    ReadSizes,      \* sizes libavformat asks for
    MaxBuffers,     \* bound: buffers in a behaviour
    MaxEvents,      \* bound: serialized events in a behaviour
    MaxFlushes,     \* bound: flushing seeks in a behaviour
    MaxStops,       \* bound: state changes to READY in a behaviour
    MaxFrames,      \* bound: frames libavformat finds in the bytes of one read
    Streams,        \* the streams of the file
    Unknown,        \* those of a type or codec without caps
    DownstreamFlow  \* results of gst_pad_alloc_buffer and gst_pad_push

ASSUME PushAssumption ==
    /\ BufferSizes \subseteq Nat \ {0} /\ ReadSizes \subseteq Nat \ {0}
    /\ MaxBuffers \in Nat /\ MaxEvents \in Nat /\ MaxFlushes \in Nat
    /\ MaxStops \in Nat /\ MaxFrames \in Nat
    /\ Unknown \subseteq Streams /\ DownstreamFlow \subseteq Flow

VARIABLES
    streaming,   \* where the streaming thread is
    loop,        \* where the loop is
    want,        \* size of the read in progress
    short,       \* libavformat saw the end of the stream in this call
    frames,      \* frames libavformat may still find without reading
    ret,         \* result with which the loop pauses
    task,        \* state of demux->task
    opened,      \* demux->opened
    stream,      \* the stream of the frame in the loop's hands
    last_flow,   \* stream->last_flow
    ended,       \* streams with stream->eos set
    outputted,   \* streams with a valid stream->last_ts
    cached,      \* demux->cached_events: none, queued, or freed and dangling
    app,         \* where the application thread is
    upEos,       \* upstream sent EOS
    downEos,     \* the loop sent EOS downstream
    buffers, events, flushes, stops     \* counters for the bounds

lvars == <<loop, want, short, frames, ret>>
fvars == <<stream, last_flow, ended, outputted>>
dvars == <<opened, cached, fvars>>
avars == <<app, upEos, downEos>>
nvars == <<buffers, events, flushes, stops>>

vars == <<pvars, streaming, lvars, task, dvars, avars, nvars>>

LoopTypeOK ==
    /\ loop \in {"idle", "open", "frame", "read", "alloc", "push", "pause", "event"}
    /\ want \in ReadSizes \cup {0} /\ frames \in 0 .. MaxFrames
    /\ short \in BOOLEAN
    /\ ret \in Flow

DemuxTypeOK ==
    /\ task \in {"stopped", "started", "paused"}
    /\ opened \in BOOLEAN
    /\ cached \in {"none", "queued", "dangling"}
    /\ stream \in Streams /\ last_flow \in [Streams -> Flow]
    /\ ended \subseteq Streams /\ outputted \subseteq Streams

EnvTypeOK ==
    /\ streaming \in {"idle", "chain", "event", "append"}
    /\ app \in {"active", "flush_start", "flushing", "flush_stop",
                "src_pads", "stopping", "joining", "draining", "ready"}
    /\ upEos \in BOOLEAN /\ downEos \in BOOLEAN
    /\ buffers \in 0 .. MaxBuffers /\ events \in 0 .. MaxEvents
    /\ flushes \in 0 .. MaxFlushes /\ stops \in 0 .. MaxStops

TypeOK == PipeTypeOK /\ LoopTypeOK /\ DemuxTypeOK /\ EnvTypeOK

(* The element has just been activated in push mode.                       *)
Init ==
    /\ eos = FALSE /\ srcresult = "OK" /\ available = 0 /\ needed = 0
    /\ sleeping = {}
    /\ streaming = "idle" /\ loop = "idle" /\ want = 0 /\ short = FALSE
    /\ frames = 0 /\ ret = "OK" /\ task = "started"
    /\ opened = FALSE /\ cached = "none"
    /\ stream \in Streams /\ last_flow = [s \in Streams |-> "OK"]
    /\ ended = {} /\ outputted = {}
    /\ app = "active" /\ upEos = FALSE /\ downEos = FALSE
    /\ buffers = 0 /\ events = 0 /\ flushes = 0 /\ stops = 0

-----------------------------------------------------------------------------
(* The streaming thread.                                                   *)

(* The sink pad lets data and serialized events in: it is active, not      *)
(* flushing, and no other call holds its stream lock.                      *)
SinkOpen == streaming = "idle" /\ app \in {"active", "src_pads"} /\ ~upEos

(* Mutant: exactly the bytes the task needs are not enough for it.         *)
chain_strict(avail) ==
    IF avail > needed
    THEN streaming' = "chain" /\ SIGNAL_AND_WAIT("streaming")
    ELSE streaming' = "idle" /\ UNCHANGED sleeping

(* The rest of gst_ffmpegdemux_chain once the buffer is in the adapter,    *)
(* which then holds avail bytes: wait until the task needs more.           *)
ChainWait(avail) ==
    IF avail >= needed
    THEN streaming' = "chain" /\ SIGNAL_AND_WAIT("streaming")
    ELSE streaming' = "idle" /\ UNCHANGED sleeping

gst_ffmpegdemux_chain(size) ==
    /\ SinkOpen /\ buffers < MaxBuffers
    /\ buffers' = buffers + 1
    /\ IF eos \/ srcresult # "OK"
       THEN UNCHANGED <<available, streaming, sleeping>>
       ELSE available' = available + size /\ ChainWait(available')
    /\ UNCHANGED <<eos, srcresult, needed, lvars, task, dvars, avars,
                   events, flushes, stops>>

ChainWake ==
    /\ streaming = "chain" /\ "streaming" \notin sleeping
    /\ IF srcresult # "OK"
       THEN streaming' = "idle" /\ UNCHANGED sleeping
       ELSE ChainWait(available)
    /\ UNCHANGED <<eos, srcresult, available, needed, lvars, task, dvars, avars, nvars>>

(* A serialized event of an opened demuxer waits until the task needs      *)
(* data; the event is then forwarded.                                      *)
EventWait ==
    /\ IF needed = 0
       THEN streaming' = "event" /\ GST_FFMPEG_PIPE_WAIT("streaming")
       ELSE streaming' = "idle" /\ UNCHANGED sleeping
    /\ UNCHANGED <<eos, srcresult, available, needed>>

(* demux->opened is read without a lock, ahead of appending the event to   *)
(* cached_events.                                                          *)
SerializedEvent ==
    /\ SinkOpen /\ events < MaxEvents
    /\ events' = events + 1
    /\ IF opened THEN EventWait ELSE streaming' = "append" /\ UNCHANGED pvars
    /\ UNCHANGED <<lvars, task, dvars, avars, buffers, flushes, stops>>

EventWake ==
    /\ streaming = "event" /\ "streaming" \notin sleeping
    /\ EventWait
    /\ UNCHANGED <<lvars, task, dvars, avars, nvars>>

EventAppend ==
    /\ streaming = "append"
    /\ streaming' = "idle"
    /\ cached' = IF cached = "none" THEN "queued" ELSE cached
    /\ UNCHANGED <<pvars, lvars, task, opened, fvars, avars, nvars>>

(* Mutant: the task is not told of the end of the stream.                  *)
eos_unsignalled ==
    /\ SinkOpen
    /\ upEos' = TRUE
    /\ eos' = TRUE
    /\ UNCHANGED <<srcresult, available, needed, sleeping, streaming, lvars, task, dvars,
                   app, downEos, nvars>>

EosEvent ==
    /\ SinkOpen
    /\ upEos' = TRUE
    /\ eos' = TRUE
    /\ GST_FFMPEG_PIPE_SIGNAL
    /\ UNCHANGED <<srcresult, available, needed, streaming, lvars, task, dvars,
                   app, downEos, nvars>>

-----------------------------------------------------------------------------
(* The loop.                                                               *)

LoopStart ==
    /\ task = "started" /\ loop = "idle"
    /\ loop' = IF opened THEN "frame" ELSE "open"
    /\ short' = FALSE
    /\ UNCHANGED <<pvars, streaming, want, frames, ret, task, dvars, avars, nvars>>

(* libavformat reads from the pipe.                                        *)
Read(size) ==
    \/ /\ pipe_read_wait(size)
       /\ loop' = "read" /\ want' = size
       /\ UNCHANGED <<short, frames>>
    \/ /\ pipe_read_take(size)
       /\ loop' = IF opened THEN "frame" ELSE "open"
       /\ want' = 0
       /\ short' = (available < size)
       /\ frames' = IF available > 0 THEN MaxFrames ELSE frames

LoopRead(size) ==
    /\ loop \in {"open", "frame"} /\ ~short
    /\ Read(size)
    /\ UNCHANGED <<streaming, ret, task, dvars, avars, nvars>>

LoopReadWake ==
    /\ loop = "read" /\ "loop" \notin sleeping
    /\ Read(want)
    /\ UNCHANGED <<streaming, ret, task, dvars, avars, nvars>>

(* gst_ffmpegdemux_open succeeds: it makes the streams, takes the cached   *)
(* events, under the object lock, and sends them after the new segment.    *)
LoopOpened ==
    /\ loop = "open" /\ frames > 0
    /\ opened' = TRUE /\ cached' = "none"
    /\ last_flow' = [s \in Streams |-> "OK"] /\ ended' = {} /\ outputted' = {}
    /\ loop' = "frame"
    /\ UNCHANGED <<pvars, streaming, want, short, frames, ret, task, stream, avars, nvars>>

LoopOpenFailed ==
    /\ loop = "open" /\ (short \/ frames > 0)
    /\ ret' = "ERROR"
    /\ loop' = "pause"
    /\ frames' = 0
    /\ UNCHANGED <<pvars, streaming, want, short, task, dvars, avars, nvars>>

gst_ffmpegdemux_is_eos(E) == Streams \subseteq E

gst_ffmpegdemux_has_outputted == outputted # {}

(* A frame of stream s was read.  It is skipped when the stream is         *)
(* unknown; timed says that it has a timestamp, and drop that it lies      *)
(* before the start time or after the segment, which ends its stream.      *)
LoopFrame(s, timed, drop) ==
    /\ loop = "frame" /\ frames > 0
    /\ frames' = frames - 1
    /\ stream' = s
    /\ outputted' = IF timed /\ s \notin Unknown THEN outputted \cup {s} ELSE outputted
    /\ ended' = IF drop /\ s \notin Unknown THEN ended \cup {s} ELSE ended
    /\ \/ s \in Unknown /\ loop' = "idle" /\ UNCHANGED ret
       \/ /\ s \notin Unknown /\ drop
          /\ IF gst_ffmpegdemux_is_eos(ended')
             THEN loop' = "pause" /\ ret' = "UNEXPECTED"
             ELSE loop' = "idle" /\ UNCHANGED ret
       \/ s \notin Unknown /\ ~drop /\ loop' = "alloc" /\ UNCHANGED ret
    /\ UNCHANGED <<pvars, streaming, want, short, task, opened, cached, last_flow,
                   avars, nvars>>

(* av_read_frame fails at the end of the stream.                           *)
LoopReadFailed ==
    /\ loop = "frame" /\ short
    /\ ret' = IF gst_ffmpegdemux_has_outputted \/ gst_ffmpegdemux_is_eos(ended)
              THEN "UNEXPECTED" ELSE "ERROR"
    /\ loop' = "pause"
    /\ UNCHANGED <<pvars, streaming, want, short, frames, task, dvars, avars, nvars>>

(* The GstFlowReturn codes: the lower, the worse.                          *)
FlowCode == [OK |-> 0, NOT_LINKED |-> -1, WRONG_STATE |-> -2, UNEXPECTED |-> -3,
             ERROR |-> -5]

Worst(F) == CHOOSE r \in F : \A q \in F : FlowCode[r] <= FlowCode[q]

(* NOT_LINKED is OK, if at least one pad is linked                         *)
gst_ffmpegdemux_aggregated_flow(lf) ==
    LET flows == {lf[s] : s \in Streams}
        res   == Worst(flows \cup {"OK"})
    IN IF res = "NOT_LINKED" /\ "OK" \in flows THEN "OK" ELSE res

(* Downstream flushes between the two flush events, and its pads are       *)
(* deactivated first in a state change.                                    *)
DownstreamFlushing == app \notin {"active", "flush_stop"}

Returns(r) ==
    /\ r = "WRONG_STATE" => DownstreamFlushing
    /\ last_flow' = [last_flow EXCEPT ![stream] = r]

(* gst_pad_alloc_buffer_and_set_caps.  The flow of every stream counts.    *)
LoopAlloc(r) ==
    /\ loop = "alloc"
    /\ Returns(r)
    /\ LET res == gst_ffmpegdemux_aggregated_flow(last_flow') IN
       /\ ret' = res
       /\ loop' = IF res # "OK" THEN "pause" ELSE IF r # "OK" THEN "idle" ELSE "push"
    /\ UNCHANGED <<pvars, streaming, want, short, frames, task, opened, cached, stream,
                   ended, outputted, avars, nvars>>

(* gst_pad_push.                                                           *)
LoopPush(r) ==
    /\ loop = "push"
    /\ Returns(r)
    /\ LET res == gst_ffmpegdemux_aggregated_flow(last_flow') IN
       IF r # "OK" /\ res # "OK" THEN ret' = res /\ loop' = "pause"
                                 ELSE UNCHANGED ret /\ loop' = "idle"
    /\ UNCHANGED <<pvars, streaming, want, short, frames, task, opened, cached, stream,
                   ended, outputted, avars, nvars>>

(* The pause label: stop the task and publish the result, under tlock.     *)
LoopPause ==
    /\ loop = "pause"
    /\ srcresult' = ret
    /\ task' = "paused"
    /\ loop' = IF ret = "WRONG_STATE" THEN "idle" ELSE "event"
    /\ UNCHANGED <<eos, available, needed, sleeping, streaming, want, short, frames, ret,
                   dvars, avars, nvars>>

(* A fatal result is followed by EOS.                                      *)
LoopEos ==
    /\ loop = "event"
    /\ downEos' = TRUE
    /\ loop' = "idle"
    /\ UNCHANGED <<pvars, streaming, want, short, frames, ret, task, dvars,
                   app, upEos, nvars>>

-----------------------------------------------------------------------------
(* The application thread.                                                 *)

(* FLUSH_START is forwarded, and the sink pad flushes.                     *)
FlushStart ==
    /\ app = "active" /\ flushes < MaxFlushes
    /\ flushes' = flushes + 1
    /\ app' = "flush_start"
    /\ UNCHANGED <<pvars, streaming, lvars, task, dvars, upEos, downEos,
                   buffers, events, stops>>

(* now unblock the chain function                                          *)
FlushStartPipe ==
    /\ app = "flush_start"
    /\ app' = "flushing"
    /\ srcresult' = "WRONG_STATE"
    /\ GST_FFMPEG_PIPE_SIGNAL
    /\ UNCHANGED <<eos, available, needed, streaming, lvars, task, dvars,
                   upEos, downEos, nvars>>

(* FLUSH_STOP takes the stream lock, is forwarded, and frees the cached    *)
(* events but leaves the pointer to them.                                  *)
FlushStop ==
    /\ app = "flushing" /\ streaming = "idle"
    /\ app' = "flush_stop"
    /\ cached' = IF cached = "queued" THEN "dangling" ELSE cached
    /\ upEos' = FALSE /\ downEos' = FALSE
    /\ UNCHANGED <<pvars, streaming, lvars, task, opened, fvars, nvars>>

(* The part under tlock restarts the loop.                                 *)
FlushStopPipe ==
    /\ app = "flush_stop"
    /\ app' = "active"
    /\ available' = 0
    /\ srcresult' = "OK"
    /\ task' = "started"
    /\ UNCHANGED <<eos, needed, sleeping, streaming, lvars, dvars, upEos, downEos, nvars>>

(* PAUSED to READY: the source pads, then the sink pad are deactivated.    *)
Stop ==
    /\ app = "active" /\ stops < MaxStops
    /\ stops' = stops + 1
    /\ app' = "src_pads"
    /\ UNCHANGED <<pvars, streaming, lvars, task, dvars, upEos, downEos,
                   buffers, events, flushes>>

(* Mutant: ffmpeg does not see the end of the stream.                      *)
stop_without_eos ==
    /\ app = "src_pads"
    /\ app' = "stopping"
    /\ srcresult' = "WRONG_STATE"
    /\ GST_FFMPEG_PIPE_SIGNAL
    /\ UNCHANGED <<eos, available, needed, streaming, lvars, task, dvars, upEos, downEos,
                   nvars>>

(* gst_ffmpegdemux_sink_activate_push (FALSE): release chain and loop ...  *)
DeactivatePipe ==
    /\ app = "src_pads"
    /\ app' = "stopping"
    /\ srcresult' = "WRONG_STATE"
    /\ eos' = TRUE
    /\ GST_FFMPEG_PIPE_SIGNAL
    /\ UNCHANGED <<available, needed, streaming, lvars, task, dvars, upEos, downEos, nvars>>

(* ... stop the task ...                                                   *)
DeactivateStopTask ==
    /\ app = "stopping"
    /\ app' = "joining"
    /\ task' = "stopped"
    /\ UNCHANGED <<pvars, streaming, lvars, dvars, upEos, downEos, nvars>>

(* ... and join it when the loop has returned.                             *)
DeactivateJoin ==
    /\ app = "joining" /\ loop = "idle"
    /\ app' = "draining"
    /\ task' = "stopped"
    /\ UNCHANGED <<pvars, streaming, lvars, dvars, upEos, downEos, nvars>>

(* The deactivation of the pad ends when its stream lock is free; the      *)
(* state change then closes the demuxer.                                   *)
Ready ==
    /\ app = "draining" /\ streaming = "idle"
    /\ app' = "ready"
    /\ opened' = FALSE
    /\ last_flow' = [s \in Streams |-> "OK"] /\ ended' = {} /\ outputted' = {}
    /\ available' = 0 /\ cached' = "none" /\ frames' = 0
    /\ UNCHANGED <<eos, srcresult, needed, sleeping, streaming, loop, want, short, ret,
                   stream, task, upEos, downEos, nvars>>

(* READY to PAUSED: gst_ffmpegdemux_sink_activate_push (TRUE).             *)
Activate ==
    /\ app = "ready"
    /\ app' = "active"
    /\ eos' = FALSE /\ srcresult' = "OK" /\ needed' = 0
    /\ task' = "started"
    /\ upEos' = FALSE /\ downEos' = FALSE
    /\ UNCHANGED <<available, sleeping, streaming, lvars, dvars, nvars>>

-----------------------------------------------------------------------------
Upstream == \/ \E size \in BufferSizes : gst_ffmpegdemux_chain(size)
            \/ SerializedEvent \/ EosEvent

StreamingStep == ChainWake \/ EventWake \/ EventAppend

LoopStep == \/ LoopStart \/ LoopReadWake
            \/ \E size \in ReadSizes : LoopRead(size)
            \/ LoopOpened \/ LoopOpenFailed \/ LoopReadFailed
            \/ \E s \in Streams, timed, drop \in BOOLEAN : LoopFrame(s, timed, drop)
            \/ \E r \in DownstreamFlow : LoopAlloc(r) \/ LoopPush(r)
            \/ LoopPause \/ LoopEos

AppStep == \/ FlushStartPipe \/ FlushStop \/ FlushStopPipe
           \/ DeactivatePipe \/ DeactivateStopTask \/ DeactivateJoin \/ Ready

Next == Upstream \/ StreamingStep \/ LoopStep
           \/ FlushStart \/ Stop \/ AppStep \/ Activate

(* The scheduler runs every thread that can move; libavformat and          *)
(* downstream return from the calls of the loop.  Upstream need not send   *)
(* anything, nor the application do anything, of their own accord.         *)
Fairness == WF_vars(StreamingStep) /\ WF_vars(LoopStep) /\ WF_vars(AppStep)

Spec == Init /\ [][Next]_vars /\ Fairness

-----------------------------------------------------------------------------
(* Whoever sleeps has reason to, and the other thread does not: the task   *)
(* waits only for bytes that are missing from the adapter and that it has  *)
(* asked for, a chain call only while the task has enough, an event only   *)
(* while the task asks for nothing.                                        *)
LoopSleep ==
    "loop" \in sleeping => loop = "read" /\ available < want /\ needed = want /\ ~eos

StreamingSleep ==
    "streaming" \in sleeping => \/ streaming = "chain" /\ available >= needed
                                \/ streaming = "event" /\ needed = 0

(* The stages of the state change: the task is joined before the pad is    *)
(* drained, and nothing runs in READY.                                     *)
Stages ==
    /\ app \in {"joining", "draining", "ready"} => task # "started"
    /\ app \in {"stopping", "joining", "draining", "ready"} => srcresult # "OK" /\ eos
    /\ app \in {"draining", "ready"} => loop = "idle"
    /\ app \in {"flush_stop", "ready"} => streaming = "idle"

(* A task that pauses has published the result for which it does: chain    *)
(* then refuses data instead of filling the adapter for nobody.            *)
PausedRefuses ==
    /\ task = "paused" => srcresult # "OK"
    /\ loop = "pause" => ret # "OK"

(* The inductive invariant of the pipe protocol.  One condition serves     *)
(* both threads, g_cond_signal wakes one of them, and nobody broadcasts.   *)
PipeInv == TypeOK /\ LoopSleep /\ StreamingSleep /\ Stages /\ PausedRefuses

(* The streaming thread and the task never wait for each other: a signal   *)
(* meant for one thread cannot be taken by the other.                      *)
NotBothAsleep == sleeping # Threads

(* A chain call comes back as long as the task runs: it returns, or the    *)
(* task has paused or is being stopped.                                    *)
ChainReturns == streaming = "chain" ~> streaming = "idle" \/ task # "started"

(* After EOS the task ends the streams downstream ("eat this event for     *)
(* now, task will send eos when finished"), unless a flush or a state      *)
(* change comes between or the task has ended itself with WRONG_STATE.     *)
EosEndsTask ==
    upEos ~> downEos \/ app # "active" \/ srcresult = "WRONG_STATE"

(* "release chain and loop", "make sure streaming ends": the state change  *)
(* to READY completes unless a serialized event waits for the task.        *)
StopEndsStreaming == app = "stopping" ~> app = "ready" \/ streaming = "event"

-----------------------------------------------------------------------------
(* What a comment says and the code does not keep.                         *)

(* "release chain and loop": the state change to READY completes.          *)
StopCompletes == app = "stopping" ~> app = "ready"

=============================================================================
