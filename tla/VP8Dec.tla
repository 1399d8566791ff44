------------------------------- MODULE VP8Dec -------------------------------
(***************************************************************************)
(* The VP8 decoder: gstvp8dec.c on top of the base class that the plugin   *)
(* brings along, ext/vp8/gst/video/gstbasevideodecoder.c.  Upstream pushes *)
(* the frames of a file, seeks and loses some; downstream reports how late *)
(* it is, from its own thread.                                             *)
(*                                                                         *)
(* libvpx (external) decodes one frame per buffer.  Times are in fields,   *)
(* two of which make a frame; None + k stands for the 64-bit sum, which    *)
(* wraps to just below k.  A call of the chain function is one step: the   *)
(* one field it shares with the other thread, earliest_time, it reads once.*)
(***************************************************************************)
EXTENDS Integers, Sequences

CONSTANTS
    File,       \* the frames upstream has: key, visible, ts
    Segments,   \* segments upstream may send
    QoS,        \* the running times downstream may report
    MaxSeeks,   \* bound: segments and stops in a behaviour
    MaxQoS      \* bound: reports in a behaviour

None == -1      \* GST_CLOCK_TIME_NONE

ASSUME VP8DecAssumption ==
    /\ File \in Seq([key : BOOLEAN, visible : BOOLEAN, ts : Nat \cup {None}])
    /\ Segments \subseteq [start : Nat, stop : Nat \cup {None}]
    /\ QoS \subseteq Nat
    /\ MaxSeeks \in Nat /\ MaxQoS \in Nat

VARIABLES
    started, packetized, decoder_inited,    \* fields of the decoder
    timestamp_offset, field_index, earliest_time, segment,
    upstream,       \* what the thread that pushes is doing
    pos, discont,   \* the frame it pushes next, and the DISCONT flag of it
    rendering,      \* downstream may still have a frame to report about
    reported,       \* history: downstream reported since the last flush or stop
    decoded,        \* history: the last frame libvpx decoded in its context, or 0
    broken,         \* history: libvpx got a frame without the one before it
    out,            \* history: what became of the last frame
    seeks, reports  \* counters for the bounds

times == <<timestamp_offset, field_index, earliest_time>>
vp8vars == <<started, packetized, decoder_inited, times, segment, upstream, pos, discont,
             rendering, reported, decoded, broken, out, seeks, reports>>

Hows == {"none", "nokey", "noinit", "error", "invisible", "late", "noalloc", "pushed", "clipped"}

NoOut == [n |-> 0, how |-> "none", ts |-> None, own |-> None, running |-> None,
          earliest |-> None, base |-> None, after |-> None, reported |-> FALSE]

\* gst_base_video_decoder_init; upstream has sent no segment yet.
VP8Init ==
    /\ started = FALSE /\ packetized = FALSE /\ decoder_inited = FALSE
    /\ timestamp_offset = None /\ field_index = 0 /\ earliest_time = None
    /\ segment = [start |-> 0, stop |-> None, accum |-> 0]
    /\ upstream = "stopped" /\ pos = 1 /\ discont = TRUE
    /\ rendering = FALSE /\ reported = FALSE
    /\ decoded = 0 /\ broken = FALSE /\ out = NoOut
    /\ seeks = 0 /\ reports = 0

-----------------------------------------------------------------------------
\* gst_segment_to_running_time (external)
RunningTime(t) ==
    IF t = None \/ t < segment.start \/ (segment.stop # None /\ t > segment.stop)
    THEN None ELSE t - segment.start + segment.accum

\* gst_segment_clip of a frame that starts at t (external)
Inside(t) == t = None \/ /\ t + 2 > segment.start
                         /\ segment.stop = None \/ t < segment.stop
Clipped(t) == IF t # None /\ t < segment.start THEN segment.start ELSE t

\* GST_CLOCK_DIFF wraps: a frame with no running time is before any deadline.
Late(earliest, t) == earliest # None /\ RunningTime(t) < earliest

\* What gst_vp8_dec_handle_frame may do with frame f: libvpx and the buffer
\* allocation may fail.
HandleFrame(f, inited, late) ==
    IF ~inited /\ ~f.key THEN {"nokey"}
    ELSE (IF inited THEN {} ELSE {"noinit"}) \cup {"error"} \cup
         (IF ~f.visible THEN {"invisible"} ELSE IF late THEN {"late"} ELSE {"noalloc", "pushed"})

\* Mutant: the deadline comes before the decoder.
decodes_late_later(how) == how \notin {"nokey", "noinit", "error", "late"}

\* The frames libvpx has decoded, late ones included.
Decodes(how) == how \notin {"nokey", "noinit", "error"}

\* The frames that end in gst_base_video_decoder_skip_frame.
Skipped == {"nokey", "invisible", "late", "noalloc"}

\* No timestamp, and gst_vp8_dec_handle_frame marked it a sync point.
UntimedSync(f, how) == f.ts = None /\ f.key /\ how # "nokey"

\* The test for a base timestamp in finish_frame, and the one in skip_frame.
TakesSegmentStart(f, how, base) ==
    UntimedSync(f, how) /\ (IF how \in Skipped THEN base # None ELSE base = None)

Rebased(f, how, base) == (f.ts # None /\ f.ts # base) \/ TakesSegmentStart(f, how, base)

NewBase(f, how, base) ==
    CASE f.ts # None /\ f.ts # base -> f.ts
      [] TakesSegmentStart(f, how, base) -> segment.start
      [] OTHER -> base

\* earliest_time, after gst_base_video_decoder_reset if that is called
EarliestAfter(reset) == IF reset THEN None ELSE earliest_time

\* gst_base_video_decoder_chain with frame f = File[pos]: the reset of a DISCONT
\* buffer, the start of the subclass, have_frame_2, handle_frame, and
\* finish_frame or skip_frame.
Chain ==
    LET f == File[pos]
        fresh == discont \/ ~started
        inited == decoder_inited /\ ~fresh
        base == IF discont THEN None ELSE timestamp_offset
        earliest == EarliestAfter(discont)
    IN
    /\ upstream = "flowing" /\ pos <= Len(File)
    /\ \E how \in HandleFrame(f, inited, Late(earliest, f.ts)) :
         LET timed == how \in Skipped \cup {"pushed"}
             first == IF Rebased(f, how, base) THEN 0 ELSE field_index
             after == IF timed THEN NewBase(f, how, base) ELSE base
             ts == IF f.ts # None /\ f.ts # base THEN f.ts ELSE after + first
         IN
         /\ timestamp_offset' = after
         /\ field_index' = IF timed THEN first + 2 ELSE field_index
         /\ decoder_inited' = (inited \/ (f.key /\ how # "noinit"))
         /\ decoded' = IF Decodes(how) THEN pos ELSE 0
         /\ broken' = (broken \/ (inited /\ ~f.key /\ decoded # pos - 1))
         /\ rendering' = (rendering \/ (how = "pushed" /\ Inside(ts)))
         /\ upstream' = IF how \in {"noinit", "error", "noalloc"} THEN "failed" ELSE "flowing"
         /\ out' = [n |-> pos, how |-> IF how = "pushed" /\ ~Inside(ts) THEN "clipped" ELSE how,
                    ts |-> Clipped(ts), own |-> Clipped(f.ts), running |-> RunningTime(f.ts),
                    earliest |-> earliest, base |-> base, after |-> after, reported |-> reported]
    /\ earliest_time' = earliest
    /\ started' = TRUE /\ packetized' = (packetized \/ fresh)
    /\ pos' = pos + 1 /\ discont' = FALSE
    /\ UNCHANGED <<segment, reported, seeks, reports>>

\* gst_base_video_decoder_sink_setcaps: the subclass starts again, which
\* forgets its context.
SetCaps ==
    /\ upstream = "flowing"
    /\ packetized' = TRUE /\ decoder_inited' = FALSE
    /\ UNCHANGED <<started, times, segment, upstream, pos, discont, rendering, reported,
                   decoded, broken, out, seeks, reports>>

-----------------------------------------------------------------------------
\* Mutant: the context survives.
reset_keeps_context == /\ started' = FALSE /\ UNCHANGED decoder_inited
                       /\ earliest_time' = EarliestAfter(TRUE)

\* gst_base_video_decoder_reset
Reset == /\ started' = FALSE /\ decoder_inited' = FALSE
         /\ earliest_time' = EarliestAfter(TRUE)

\* The time a segment has played when the next one comes, which
\* gst_segment_set_newsegment_full (external) adds to accum.
Elapsed(update, s) ==
    CASE update -> IF s.start > segment.start THEN s.start - segment.start ELSE 0
      [] ~update /\ segment.stop # None -> segment.stop - segment.start
      [] OTHER -> 0

\* gst_base_video_decoder_sink_event, NEWSEGMENT
NewSegment(update, s) ==
    /\ IF update THEN UNCHANGED <<started, decoder_inited, earliest_time>> ELSE Reset
    /\ timestamp_offset' = s.start
    /\ segment' = [start |-> s.start, stop |-> s.stop,
                   accum |-> segment.accum + Elapsed(update, s)]
    /\ seeks' = seeks + 1

\* Upstream starts, or goes on after a seek, at frame p.
Seek(s, p) ==
    /\ upstream \notin {"eos", "spinning"} /\ seeks < MaxSeeks
    /\ NewSegment(FALSE, s)
    /\ upstream' = "flowing" /\ pos' = p /\ discont' = TRUE
    /\ rendering' = (rendering /\ upstream \notin {"flushed", "stopped"})
    /\ UNCHANGED <<packetized, field_index, reported, decoded, broken, out, reports>>

\* Upstream jumps a gap in the file: the next frame starts a segment, and is not
\* marked.
Gap(s) ==
    /\ upstream = "flowing" /\ seeks < MaxSeeks
    /\ pos <= Len(File) /\ s.start = File[pos].ts
    /\ NewSegment(FALSE, s)
    /\ UNCHANGED <<packetized, field_index, upstream, pos, discont, rendering, reported, decoded,
                   broken, out, reports>>

\* Upstream moves the segment that is playing: it closes it before a gap, or
\* advances a stream that is behind the others.
Update(s) ==
    /\ upstream = "flowing" /\ seeks < MaxSeeks /\ s.start >= segment.start
    /\ NewSegment(TRUE, s)
    /\ UNCHANGED <<packetized, field_index, upstream, pos, discont, rendering, reported,
                   decoded, broken, out, reports>>

\* gst_base_video_decoder_sink_event, FLUSH_STOP
FlushStopEvent ==
    /\ upstream \in {"flowing", "failed", "eos"}
    /\ earliest_time' = None
    /\ upstream' = "flushed" /\ reported' = FALSE
    /\ UNCHANGED <<started, packetized, decoder_inited, timestamp_offset, field_index, segment,
                   pos, discont, rendering, decoded, broken, out, seeks, reports>>

\* gst_base_video_decoder_sink_event, EOS: gst_vp8_dec_parse_data always says
\* OK, so the event of a decoder that is not packetized never gets out.
Eos ==
    /\ upstream = "flowing" /\ pos > Len(File)
    /\ upstream' = IF packetized THEN "eos" ELSE "spinning"
    /\ UNCHANGED <<started, packetized, decoder_inited, times, segment, pos, discont, rendering,
                   reported, decoded, broken, out, seeks, reports>>

\* gst_base_video_decoder_change_state, PAUSED to READY: gst_vp8_dec_stop, with
\* the threads of both neighbours stopped.
gst_vp8_dec_stop ==
    /\ upstream # "spinning" /\ seeks < MaxSeeks /\ seeks' = seeks + 1
    /\ decoder_inited' = FALSE
    /\ upstream' = "stopped" /\ rendering' = FALSE /\ reported' = FALSE
    /\ UNCHANGED <<started, packetized, times, segment, pos, discont, decoded, broken, out,
                   reports>>

\* gst_base_video_decoder_src_event, QoS, from the thread of downstream.  A
\* report may cross the flush: it is stale when it gets here.
Report(e) ==
    /\ rendering /\ reports < MaxQoS /\ reports' = reports + 1
    /\ earliest_time' = e
    /\ reported' = (reported \/ upstream # "flushed")
    /\ UNCHANGED <<started, packetized, decoder_inited, timestamp_offset, field_index, segment,
                   upstream, pos, discont, rendering, decoded, broken, out, seeks>>

\* A frame is lost upstream, which marks the next one.
Lose ==
    /\ upstream = "flowing" /\ pos <= Len(File)
    /\ pos' = pos + 1 /\ discont' = TRUE
    /\ UNCHANGED <<started, packetized, decoder_inited, times, segment, upstream, rendering,
                   reported, decoded, broken, out, seeks, reports>>

VP8Next ==
    \/ Chain
    \/ SetCaps
    \/ \E s \in Segments : (\E p \in 1 .. Len(File) : Seek(s, p)) \/ Gap(s) \/ Update(s)
    \/ FlushStopEvent
    \/ Eos
    \/ gst_vp8_dec_stop
    \/ \E e \in QoS : Report(e)
    \/ Lose

VP8Spec == VP8Init /\ [][VP8Next]_vp8vars

-----------------------------------------------------------------------------
VP8TypeOK ==
    /\ started \in BOOLEAN /\ packetized \in BOOLEAN /\ decoder_inited \in BOOLEAN
    /\ timestamp_offset \in Nat \cup {None} /\ earliest_time \in Nat \cup {None}
    /\ field_index \in Nat
    /\ segment \in [start : Nat, stop : Nat \cup {None}, accum : Int]
    /\ upstream \in {"stopped", "flowing", "failed", "flushed", "eos", "spinning"}
    /\ pos \in 1 .. Len(File) + 1 /\ discont \in BOOLEAN
    /\ rendering \in BOOLEAN /\ reported \in BOOLEAN
    /\ decoded \in 0 .. Len(File) /\ broken \in BOOLEAN
    /\ out \in [n : 0 .. Len(File), how : Hows, ts : Int, own : Int, running : Int,
                earliest : Nat \cup {None}, base : Nat \cup {None}, after : Nat \cup {None},
                reported : BOOLEAN]

\* A context belongs to a started decoder, which is packetized.
ContextStarted == (decoder_inited => started) /\ (started => packetized)

\* While frames flow unmarked, the context has decoded the last one.
InOrder == decoder_inited /\ ~discont /\ upstream = "flowing" => decoded = pos - 1

\* A report that counts was made since the last flush or stop, or a reset is due.
EarliestReported == earliest_time # None => reported \/ upstream \in {"flushed", "stopped"}

\* The state of the decoder: types, and what ties the context, the order of the
\* frames and the reports to what the other threads have done.
VP8Inv == VP8TypeOK /\ ContextStarted /\ InOrder /\ EarliestReported

\* libvpx predicts a frame from the one before it: whatever is lost, skipped as
\* late, sought or renegotiated, the context never gets a frame that is not a key
\* frame without having decoded its predecessor in the file
\* (gst_vp8_dec_handle_frame, which decodes before it looks at the deadline, and
\* gst_base_video_decoder_reset on DISCONT).
ReferencesDecoded == ~broken

\* A report of downstream is about the frames before the flush or the restart
\* that follows it: no frame is skipped as late without a report made since,
\* although one may cross the flush (earliest_time, which FLUSH_STOP, the reset
\* and gst_base_video_decoder_src_event all write).
LateHasReason == out.how = "late" => out.reported

=============================================================================
