--------------------------- MODULE FFMpegEncAudio ---------------------------
(***************************************************************************)
(* gstffmpegenc.c, audio with a codec of fixed frame size: the buffers of  *)
(* upstream, of any size, go through an adapter and come out in frames     *)
(* whose times are counted in samples from the start of the adapter.       *)
(*                                                                         *)
(* A sample is its position in the stream.  Upstream stamps a buffer with  *)
(* the time of its first sample, cut to whole units as in                  *)
(* gst_util_uint64_scale, and marks a gap in the stream as a discont.      *)
(***************************************************************************)
EXTENDS Integers

CONSTANTS
    FrameSize,      \* ctx->frame_size, in samples, more than 1
    SampleRate,     \* ctx->sample_rate
    GST_SECOND,     \* time units of a second
    BufferSizes,    \* samples of a buffer
    Gaps,           \* samples that may be missing between two buffers
    MaxPos          \* bound: samples of the stream

VARIABLES
    available,          \* samples in ffmpegenc->adapter
    adapter_ts, adapter_consumed, discont,      \* ffmpegenc's
    timestamp,          \* the chain function's
    next,               \* the first sample of upstream's next buffer
    resync,             \* upstream's next buffer is a discont
    out,                \* history: the last frame pushed
    failed              \* history: the encoder failed since

avars == <<available, adapter_ts, adapter_consumed, discont, timestamp>>
vars == <<avars, next, resync, out, failed>>

NoFrame == [ts |-> 0, duration |-> 0, discont |-> TRUE, pos |-> 0]

Init ==
    /\ available = 0 /\ adapter_ts = 0 /\ adapter_consumed = 0 /\ discont = FALSE
    /\ timestamp = 0
    /\ next = 0 /\ resync = TRUE
    /\ out = NoFrame /\ failed = FALSE

-----------------------------------------------------------------------------
Time(samples) == (samples * GST_SECOND) \div SampleRate

(* The sample at the head of the adapter.                                  *)
HeadPos == next - available

(* The chain function returns when less than a frame is left, or when a    *)
(* push has failed.                                                        *)
ChainReturned == available < FrameSize \/ resync

(* A buffer of upstream, behind a gap or not.                              *)
Buffers == {b \in [first : {next} \cup {next + g : g \in Gaps}, size : BufferSizes] :
                b.first + b.size <= MaxPos}

Discont(b) == resync \/ b.first # next

(* A buffer enters an adapter that holds `kept' samples.  An empty one     *)
(* takes its time.                                                         *)
Enter(b, kept) ==
    /\ ChainReturned
    /\ IF kept = 0
       THEN /\ adapter_ts' = Time(b.first) /\ adapter_consumed' = 0
            /\ timestamp' = Time(b.first)
       ELSE /\ timestamp' = adapter_ts + Time(adapter_consumed)
            /\ UNCHANGED <<adapter_ts, adapter_consumed>>
    /\ available' = kept + b.size
    /\ next' = b.first + b.size
    /\ resync' = FALSE
    /\ UNCHANGED <<out, failed>>

Kept(b) == IF Discont(b) THEN 0 ELSE available      \* a discont clears the adapter

(* Mutant: a discont leaves the rest of the last buffer in the adapter.    *)
chain_keeps_rest ==
    \E b \in Buffers : Enter(b, available) /\ discont' = (discont \/ Discont(b))

gst_ffmpegenc_chain_audio ==
    \E b \in Buffers : Enter(b, Kept(b)) /\ discont' = (discont \/ Discont(b))

Duration == Time(adapter_consumed + FrameSize) - (timestamp - adapter_ts)

(* A frame of the adapter is encoded and pushed.  An encoder that fails    *)
(* counts as a push; after a push that failed upstream comes back with a   *)
(* discont, behind a flush.                                                *)
Consume ==
    /\ ~ChainReturned
    /\ adapter_consumed' = adapter_consumed + FrameSize
    /\ available' = available - FrameSize
    /\ UNCHANGED <<adapter_ts, next>>

Advance ==
    /\ Consume
    /\ timestamp' = timestamp + Duration
    /\ discont' = FALSE
    /\ UNCHANGED resync

EncodePushed ==
    /\ Advance
    /\ out' = [ts |-> timestamp, duration |-> Duration, discont |-> discont, pos |-> HeadPos]
    /\ failed' = FALSE

EncodeFailed ==
    /\ Advance
    /\ failed' = TRUE
    /\ UNCHANGED out

PushFailed ==
    /\ Consume
    /\ resync' = TRUE
    /\ UNCHANGED <<timestamp, discont, out, failed>>

(* PAUSED to READY: the stream that follows begins anew.                   *)
gst_ffmpegenc_change_state ==
    /\ ChainReturned
    /\ available' = 0
    /\ resync' = TRUE
    /\ UNCHANGED <<adapter_ts, adapter_consumed, discont, timestamp, next, out, failed>>

Next ==
    \/ gst_ffmpegenc_chain_audio \/ EncodePushed \/ EncodeFailed \/ PushFailed
    \/ gst_ffmpegenc_change_state

Spec == Init /\ [][Next]_vars

-----------------------------------------------------------------------------
Near(t, pos) == t \in Time(pos) - 1 .. Time(pos)

(* The adapter is counted from its start: the head is what has been        *)
(* consumed after the first sample, whose time is adapter_ts; and the      *)
(* clock of the chain function is the time of the head, counted that way.  *)
AdapterInv ==
    /\ {available, adapter_ts, adapter_consumed, timestamp, next} \subseteq Nat
    /\ discont \in BOOLEAN /\ resync \in BOOLEAN /\ failed \in BOOLEAN
    /\ out \in [ts : Nat, duration : Nat, discont : BOOLEAN, pos : Nat]
    /\ ~resync => /\ adapter_consumed <= HeadPos
                  /\ adapter_ts = Time(HeadPos - adapter_consumed)
                  /\ timestamp = adapter_ts + Time(adapter_consumed)

(* Unless a discont is due or the encoder failed, the last frame ends      *)
(* where the adapter begins.                                               *)
Continued ==
    ~resync /\ ~discont /\ ~failed => /\ out.pos + FrameSize = HeadPos
                                      /\ Near(out.ts + out.duration, HeadPos)

(* A frame carries the time of its samples: rounding makes it early by at  *)
(* most one unit and never adds up, also over failed pushes, disconts and  *)
(* a stop, and its end is that of its last sample.                         *)
OnTime ==
    out # NoFrame => /\ Near(out.ts, out.pos)
                     /\ Near(out.ts + out.duration, out.pos + FrameSize)

(* Frames that are not marked as a discont follow the last one without a   *)
(* gap, unless the encoder failed between them.                            *)
GapsMarked ==
    [][out' # out =>
        \/ out'.discont \/ failed
        \/ /\ out'.pos = out.pos + FrameSize
           /\ out'.ts - (out.ts + out.duration) \in -1..1]_vars

=============================================================================
