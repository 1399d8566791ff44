------------------------------ MODULE FFMpegDec ------------------------------
(***************************************************************************)
(* gstffmpegdec.c, video without a parser: the times, marks and order of   *)
(* the frames a reordering decoder gives back, with QoS, DTS as            *)
(* timestamps, reverse playback, flushes and restarts.                     *)
(*                                                                         *)
(* Frames last one unit of time and are named by their place in display    *)
(* order.  The codec is the MPEG-4 decoder of the libavcodec that comes    *)
(* with the source, which holds one reference picture until the next one;  *)
(* the picture it makes up for a P frame without a reference is left out,  *)
(* a frame of no stream.  chain, events and setcaps hold the stream lock,  *)
(* so each is one step; a QoS event changes only what do_qos reads once    *)
(* per buffer and may fall between any two.  Of a step, `pushed' keeps the *)
(* frames that went downstream.                                            *)
(***************************************************************************)
EXTENDS Integers, Sequences, FiniteSets

CONSTANT Streams    \* the kinds of streams, of which a behaviour has one

(* Of a kind:                                                              *)
(*   MaxPos       bound: frames of the stream                              *)
(*   MaxB         B frames between two references                          *)
(*   Modes        what upstream writes as timestamps: "pts", "dts"         *)
(*   Untimed      delta frames may come without a timestamp, and then no   *)
(*                B frame is missing                                       *)
(*   AnyStart     streams may begin, or go on behind a gap, with delta     *)
(*                frames                                                   *)
(*   OpenGop      B frames may refer to pictures before the key frame they *)
(*                follow                                                   *)
(*   KeySize      bytes of a key frame; others have one                    *)
(*   Late         do_qos: two seconds                                      *)
(*   Earliest     values of timestamp + diff in a QoS event                *)
(*   Starts, Stops   where segments start and stop, if they do             *)
(*   Reverse      segments may have a negative rate                        *)
(*   MaxRuns      bound: disconts                                          *)
(*   MaxEpochs    bound: flushes and restarts                              *)
(*   MaxSegments  bound: segments that follow another without a flush      *)
(*   MaxErrors    bound: corrupt frames and failures downstream            *)
(*   MaxQos       bound: QoS events                                        *)
(*   MaxCaps      bound: caps that change while the stream runs            *)
ASSUME DecAssumption ==
    \A s \in Streams :
        /\ {s.MaxPos, s.MaxB, s.Late, s.MaxRuns, s.MaxEpochs, s.MaxSegments, s.MaxErrors, s.MaxQos,
            s.MaxCaps} \cup s.Starts \cup s.Stops \subseteq Nat
        /\ s.KeySize \in Nat \ {0} /\ s.Earliest \subseteq Int
        /\ s.Modes \subseteq {"pts", "dts"}
        /\ {s.Untimed, s.AnyStart, s.OpenGop, s.Reverse} \subseteq BOOLEAN

NONE == -1

VARIABLES
    stream,     \* what kind of stream it is
    dec,        \* the element and its codec
    down,       \* downstream takes buffers
    up,         \* upstream: what it sent, what must come next
    pushed,     \* history: frames pushed in the last step
    prev,       \* history: the last frame pushed before that step
    count       \* counters for the bounds

decvars == <<stream, dec, down, up, pushed, prev, count>>

(* A picture: its references in the stream, whether it was decoded from    *)
(* them, and where upstream sent it                                        *)
NoPic == [disp |-> NONE, kind |-> "none", refs |-> {}, intact |-> FALSE, ts |-> NONE,
          run |-> 0, epoch |-> 0, seg |-> 0]
NoOutput == [disp |-> NONE, kind |-> "none", ts |-> NONE, intact |-> FALSE,
            run |-> 0, epoch |-> 0, seg |-> 0, discont |-> FALSE]

(* gst_segment_init *)
OpenSegment == [start |-> 0, stop |-> NONE, rate |-> 1]

CodecInit == [next |-> NoPic, last |-> NoPic]

(* gst_ffmpegdec_open, with what setcaps resets before it *)
Opened(d) == [d EXCEPT
    !.codec = CodecInit, !.last_out = NONE, !.next_ts = NONE, !.earliest_time = NONE,
    !.slow = TRUE, !.hurry_up = 0, !.ts_is_dts = FALSE, !.has_b_frames = FALSE]

DecInit ==
    /\ dec = Opened([codec |-> CodecInit, waiting_for_key |-> TRUE, discont |-> FALSE,
                     next_ts |-> NONE, last_out |-> NONE, ts_is_dts |-> FALSE,
                     has_b_frames |-> FALSE, slow |-> TRUE, earliest_time |-> NONE, hurry_up |-> 0,
                     segment |-> OpenSegment, ts_handler |-> <<>>, queued |-> <<>>])
    /\ stream \in Streams /\ down = TRUE
    /\ \E m \in stream.Modes :
         up = [mode |-> m, pos |-> NONE, ref |-> NONE, bs |-> {}, limit |-> stream.MaxPos, low |-> NONE,
               mark |-> TRUE, key |-> ~stream.AnyStart, segment |-> FALSE, eos |-> FALSE,
               run |-> 0, epoch |-> 0, seg |-> 0, flushed |-> TRUE]
    /\ pushed = <<>> /\ prev = NoOutput
    /\ count = [errors |-> 0, qos |-> 0, caps |-> 0]

-----------------------------------------------------------------------------
(* libavcodec: the picture that comes out when `pic' goes in, NoPic at the *)
(* end; a reference waits for the next, a B frame needs both of its own    *)
(* and is dropped in a hurry.  A corrupt picture is an error.              *)
From(pic, have) ==
    [pic EXCEPT !.intact = \A d \in pic.refs : \E h \in have : h.disp = d /\ h.intact]

Decode(c, pic, size, hurry) ==
    CASE pic = NoPic -> [codec |-> [c EXCEPT !.next = NoPic], len |-> 0, pic |-> c.next]
      [] pic.kind = "bad" -> [codec |-> c, len |-> -1, pic |-> NoPic]
      [] pic.kind = "B" -> [codec |-> c, len |-> size,
                            pic |-> IF c.last # NoPic /\ c.next # NoPic /\ hurry = 0
                                    THEN From(pic, {c.last, c.next}) ELSE NoPic]
      [] OTHER -> [codec |-> [next |-> From(pic, {c.next}), last |-> c.next], len |-> size, pic |-> c.next]

(* gst_ts_handler_append; the map is a queue, far from its 256 entries *)
Append_ts(q, ts, size) ==
    IF ts # NONE \/ q = <<>> THEN Append(q, [ts |-> ts, size |-> size])
    ELSE [q EXCEPT ![Len(q)].size = @ + size]

(* gst_ts_handler_get_ts takes the timestamp and leaves the bytes *)
get_ts(q) == IF q = <<>> THEN NONE ELSE q[1].ts
Taken(q) == IF q = <<>> THEN q ELSE [q EXCEPT ![1].ts = NONE]

(* Mutant: an entry with exactly that many bytes stays. *)
consume_less(q, len) ==
    IF len > 0 /\ q # <<>> THEN [q EXCEPT ![1].size = IF @ > len THEN @ - len ELSE 0] ELSE q

(* gst_ts_handler_consume: whole entries, then a part of one; an error     *)
(* takes one entry whatever its size                                       *)
consume(q, len) ==
    LET Bytes[i \in 0..Len(q)] == IF i = 0 THEN 0 ELSE Bytes[i - 1] + q[i].size
        eaten == CHOOSE i \in 0..Len(q) : Bytes[i] <= len /\ (i = Len(q) \/ Bytes[i + 1] > len)
        rest == SubSeq(q, eaten + 1, Len(q))
    IN CASE len > 0 /\ rest # <<>> -> [rest EXCEPT ![1].size = @ - (len - Bytes[eaten])]
         [] len > 0 /\ rest = <<>> -> <<>>
         [] len = -1 /\ q # <<>> -> Tail(q)
         [] OTHER -> q

(* gst_segment_to_running_time *)
RunningTime(s, ts) ==
    IF ts < s.start \/ (s.stop # NONE /\ ts > s.stop) THEN NONE
    ELSE IF s.rate > 0 THEN ts - s.start ELSE s.stop - ts

(* gst_ffmpegdec_do_qos: where it goes for a buffer at ts *)
QosLabel(d, ts) ==
    LET qostime == RunningTime(d.segment, ts)
        diff == d.earliest_time - qostime
    IN CASE ts = NONE -> "no_qos"
         [] ts # NONE /\ d.earliest_time = NONE -> "no_observation"
         [] ts # NONE /\ d.earliest_time # NONE /\ qostime = NONE -> "no_qos"
         [] OTHER ->
              IF ~d.slow /\ diff < 0 THEN "normal_mode"
              ELSE IF diff > stream.Late /\ ~d.waiting_for_key THEN "skip_to_keyframe"
              ELSE IF diff >= 0 /\ d.waiting_for_key THEN "skipping"
              ELSE IF diff >= 0 THEN "hurry_up" ELSE "no_qos"

(* and what it leaves there *)
Qos(d, label) ==
    LET hurry == CASE label \in {"normal_mode", "no_observation"} -> 0
                   [] label \in {"skip_to_keyframe", "hurry_up"} -> 1
                   [] OTHER -> d.hurry_up
    IN [decode |-> label \notin {"skipping", "skip_to_keyframe"},
        mode_switch |-> label = "skip_to_keyframe"
                        \/ (label \in {"normal_mode", "hurry_up"} /\ hurry # d.hurry_up),
        dec |-> [d EXCEPT !.hurry_up = hurry,
                          !.waiting_for_key = @ \/ label = "skip_to_keyframe"]]

do_qos(d, ts) == Qos(d, QosLabel(d, ts))

(* clip_video_buffer; a frame at the stop keeps the last nanosecond *)
InSegment(s, ts) == ts = NONE \/ (s.start <= ts /\ (s.stop = NONE \/ ts <= s.stop))

(* gst_ffmpegdec_video_frame, from the picture the codec gives back: its   *)
(* time, unless timestamps turn out to be DTS, *)
Timed(d, pic, in_ts) ==
    LET dts == d.ts_is_dts \/ (d.last_out # NONE /\ pic.ts # NONE /\ d.last_out > pic.ts)
        zeros == pic.ts = 0 /\ d.last_out = 0
        b == d.has_b_frames \/ pic.kind = "B"
        pts == IF zeros \/ (dts /\ b /\ pic.kind # "B" /\ d.next_ts # NONE) THEN NONE ELSE pic.ts
    IN [ts |-> IF pts # NONE THEN pts ELSE IF ~zeros /\ d.next_ts # NONE THEN d.next_ts ELSE in_ts,
        dec |-> [d EXCEPT !.has_b_frames = b, !.ts_is_dts = dts,
                          !.next_ts = IF zeros THEN NONE ELSE @,
                          !.last_out = IF zeros THEN @ ELSE pic.ts]]

(* and its way out: it is lost when a key frame is awaited and it is none, *)
(* when it finds no buffer, or when it lies outside the segment.           *)
Output(d, pic, time) ==
    IF d.waiting_for_key /\ pic.kind # "I" THEN [dec |-> d, out |-> NoOutput]
    ELSE IF ~down THEN [dec |-> [d EXCEPT !.waiting_for_key = FALSE], out |-> NoOutput]
    ELSE [dec |-> [d EXCEPT !.waiting_for_key = FALSE,
                            !.next_ts = IF time # NONE THEN time + 1 ELSE @],
          out |-> IF InSegment(d.segment, time)
                  THEN [disp |-> pic.disp, kind |-> pic.kind, ts |-> time, intact |-> pic.intact,
                        run |-> pic.run, epoch |-> pic.epoch, seg |-> pic.seg, discont |-> FALSE]
                  ELSE NoOutput]

Presented(pic, timed) == Output(timed.dec, pic, timed.ts)

(* A codec that is told to skip may give an error or nothing *)
Skipped(d, r, skips) ==
    IF r.len > 0 /\ r.pic = NoPic /\ skips
    THEN [d EXCEPT !.ts_is_dts = FALSE, !.last_out = NONE] ELSE d

Decoded(d, r, skips, in_ts) ==
    IF r.pic = NoPic THEN [dec |-> Skipped(d, r, skips), out |-> NoOutput]
    ELSE Presented(r.pic, Timed(d, r.pic, in_ts))

Received(r, qos, in_ts) ==
    Decoded([qos.dec EXCEPT !.codec = r.codec, !.ts_handler = consume(Taken(@), r.len)],
            r, qos.mode_switch \/ qos.dec.hurry_up # 0, in_ts)

(* gst_ffmpegdec_video_frame: QoS, the timestamp for the picture, the codec *)
Decoding(d, qos, pic, size, in_ts) ==
    Received(Decode(d.codec, IF pic = NoPic THEN pic ELSE [pic EXCEPT !.ts = get_ts(d.ts_handler)],
                    size, IF qos.decode THEN qos.dec.hurry_up ELSE 2), qos, in_ts)

video_frame(d, pic, size, in_ts) == Decoding(d, do_qos(d, in_ts), pic, size, in_ts)

(* Mutant: the queue of reverse playback grows at its end. *)
Delivered_append(v) ==
    IF v.out = NoOutput THEN [dec |-> v.dec, got |-> FALSE, pushed |-> <<>>]
    ELSE IF v.dec.segment.rate > 0 THEN [dec |-> v.dec, got |-> TRUE, pushed |-> <<v.out>>]
    ELSE [dec |-> [v.dec EXCEPT !.queued = Append(@, v.out)], got |-> TRUE, pushed |-> <<>>]

(* gst_ffmpegdec_frame: pushed, or in front of the others for reverse playback *)
Delivered(v) ==
    LET d == v.dec
        out == [v.out EXCEPT !.discont = d.discont]
    IN IF v.out = NoOutput THEN [dec |-> d, got |-> FALSE, pushed |-> <<>>]
       ELSE IF d.segment.rate > 0 THEN [dec |-> [d EXCEPT !.discont = FALSE], got |-> TRUE, pushed |-> <<out>>]
       ELSE [dec |-> [d EXCEPT !.discont = FALSE, !.queued = <<out>> \o @], got |-> TRUE, pushed |-> <<>>]

Frame(d, pic, size, in_ts) == Delivered(video_frame(d, pic, size, in_ts))

(* flush_queued, in reverse *)
flush_queued(d, frames) ==
    IF d.segment.rate < 0 THEN [dec |-> [d EXCEPT !.queued = <<>>], pushed |-> d.queued]
    ELSE [dec |-> d, pushed |-> frames]

(* Mutant: the picture the codec holds is left in it. *)
drain_queue(d) == flush_queued(d, <<>>)

Again(one) == IF one.got THEN Frame(one.dec, NoPic, 0, NONE).dec ELSE one.dec
Twice(one) == flush_queued(Again(one), one.pushed)

(* gst_ffmpegdec_drain: the codec holds one picture, so the second call    *)
(* gives none; then the frames queued in reverse                           *)
drain(d) == Twice(Frame(d, NoPic, 0, NONE))

(* gst_ffmpegdec_chain on a discont *)
Discontinued(d) == [d EXCEPT !.codec = CodecInit, !.discont = TRUE, !.last_out = NONE, !.next_ts = NONE]
Before(d, discont) ==
    IF discont THEN [drain(d) EXCEPT !.dec = Discontinued(@)] ELSE [dec |-> d, pushed |-> <<>>]

(* gst_ffmpegdec_chain, a buffer with one picture: frames it pushes follow `before' *)
Consume(d, before, pic, size, ts) ==
    IF d.waiting_for_key /\ pic.delta THEN [dec |-> d, got |-> FALSE, pushed |-> before]
    ELSE LET f == Frame([d EXCEPT !.waiting_for_key = FALSE], pic.pic, size, ts)
         IN [f EXCEPT !.pushed = before \o @]

Arrived(b, pic, size, ts) ==
    Consume([b.dec EXCEPT !.ts_handler = Append_ts(@, ts, size)], b.pushed, pic, size, ts)

chain(d, pic, size, ts, discont) == Arrived(Before(d, discont), pic, size, ts)

-----------------------------------------------------------------------------
(* What a step pushed; nothing arrives when downstream refuses it *)
Push(frames) ==
    /\ prev' = IF pushed = <<>> THEN prev ELSE pushed[Len(pushed)]
    /\ pushed' = IF down THEN frames ELSE <<>>

(* The picture `disp', behind a discont of the next run *)
Sent(kind, disp, refs) ==
    [disp |-> disp, kind |-> kind, refs |-> refs, intact |-> FALSE, ts |-> NONE,
     run |-> IF up.mark THEN up.run + 1 ELSE up.run, epoch |-> up.epoch, seg |-> up.seg]

(* gst_ffmpegdec_chain for this picture: `dts' is its place in coding order *)
Chain(kind, disp, refs, dts) ==
    \E bad \in {b \in BOOLEAN : b => count.errors < stream.MaxErrors},
       timed \in {t \in BOOLEAN : t \/ (stream.Untimed /\ kind # "I" /\ ~up.mark /\ up.mode = "pts")} :
       \E r \in {chain(dec, [pic |-> Sent(IF bad THEN "bad" ELSE kind, disp, refs), delta |-> kind # "I"],
                       IF kind = "I" THEN stream.KeySize ELSE 1,
                       IF ~timed THEN NONE ELSE IF up.mode = "dts" THEN dts ELSE disp, up.mark)} :
          /\ dec' = r.dec
          /\ Push(r.pushed)
          /\ count' = [count EXCEPT !.errors = IF bad THEN @ + 1 ELSE @]
          /\ UNCHANGED down

(* Upstream sends a reference and the B frames shown before it, *)
SendReference ==
    \E kind \in {"I", "P"}, b \in 0..stream.MaxB :
        LET disp == up.pos + b + 1
        IN /\ up.segment /\ ~up.eos /\ up.bs = {}
           /\ disp < up.limit
           /\ up.key => kind = "I"
           /\ kind = "I" /\ ~stream.OpenGop => b = 0
           /\ Chain(kind, disp, IF kind = "I" THEN {} ELSE {up.pos}, up.pos + 1)
           /\ up' = [up EXCEPT !.pos = disp, !.ref = up.pos, !.bs = (up.pos + 1)..(disp - 1), !.key = FALSE,
                               !.mark = FALSE, !.run = IF up.mark THEN @ + 1 ELSE @]

(* then these, *)
SendB ==
    \E disp \in up.bs :
        /\ up.segment /\ ~up.eos
        /\ \A other \in up.bs : disp <= other
        /\ Chain("B", disp, {up.ref, up.pos}, disp + 1)
        /\ up' = [up EXCEPT !.bs = @ \ {disp}, !.mark = FALSE, !.run = IF up.mark THEN @ + 1 ELSE @]

(* and goes on behind a gap, or in reverse with an earlier group, whose    *)
(* first buffer is marked.  A stream that begins with key frames goes on   *)
(* with one: a P frame there has no reference, and the picture libavcodec  *)
(* shows in its place takes its time.                                      *)
Jump ==
    /\ up.segment /\ ~up.eos /\ ~up.mark /\ up.run < stream.MaxRuns /\ (stream.Untimed => up.bs = {})
    /\ \E pos \in NONE..(stream.MaxPos - 1) :
         /\ IF dec.segment.rate > 0 THEN pos = up.pos + 1 ELSE pos < up.low
         /\ up' = [up EXCEPT !.pos = pos, !.low = pos, !.bs = {}, !.mark = TRUE,
                             !.limit = IF dec.segment.rate > 0 THEN @ ELSE up.low + 1,
                             !.key = dec.segment.rate < 0 \/ ~stream.AnyStart]
    /\ Push(<<>>)
    /\ UNCHANGED <<dec, down, count>>

(* gst_ffmpegdec_sink_event, NEWSEGMENT: after a flush, or behind a group  *)
NewSegment ==
    /\ up.bs = {}
    /\ up.segment => up.seg < stream.MaxSegments
    /\ \E start \in stream.Starts \cup {up.pos + 1}, stop \in {NONE} \cup stream.Stops,
          rate \in (IF stream.Reverse THEN {1, -1} ELSE {1}), pos \in NONE..(stream.MaxPos - 1) :
         /\ stop # NONE => start < stop
         /\ rate < 0 => stop # NONE /\ start = 0
         /\ up.segment => rate = dec.segment.rate
         /\ up.segment /\ rate > 0 => pos = up.pos /\ start = up.pos + 1
         /\ up.segment /\ rate < 0 => pos < up.low
         /\ ~up.segment /\ rate > 0 => pos \in {start - 1, start - 2}
         /\ \E r \in {drain(dec)} :
            /\ dec' = [r.dec EXCEPT !.segment = [start |-> start, stop |-> stop, rate |-> rate]]
            /\ Push(r.pushed)
         /\ up' = [up EXCEPT !.segment = TRUE, !.eos = FALSE, !.pos = pos, !.low = pos,
                             !.key = ~stream.AnyStart \/ up.segment \/ rate < 0,
                             !.mark = @ \/ rate < 0,
                             !.limit = IF rate > 0 THEN stream.MaxPos ELSE IF up.segment THEN up.low + 1 ELSE stop,
                             !.seg = IF up.segment THEN @ + 1 ELSE @]
    /\ UNCHANGED <<down, count>>

(* gst_ffmpegdec_sink_event, EOS *)
Eos ==
    /\ up.segment /\ ~up.eos /\ (stream.Untimed => up.bs = {})
    /\ \E r \in {drain(dec)} : dec' = r.dec /\ Push(r.pushed)
    /\ up' = [up EXCEPT !.eos = TRUE]
    /\ UNCHANGED <<down, count>>

(* A flush or a restart: upstream begins anew *)
Anew(flushed) ==
    /\ up.epoch < stream.MaxEpochs
    /\ up' = [up EXCEPT !.bs = {}, !.mark = TRUE, !.key = ~stream.AnyStart, !.segment = FALSE, !.eos = FALSE,
                        !.run = 0, !.epoch = @ + 1, !.seg = 0, !.flushed = flushed]
    /\ down' = TRUE
    /\ prev' = NoOutput /\ pushed' = <<>>
    /\ UNCHANGED count

(* clear_queued *)
clear_queued(d) == [d EXCEPT !.queued = <<>>]

(* Mutant: a flush does not wait for a key frame. *)
flush_nokey(d) ==
    [clear_queued(d) EXCEPT
        !.codec = CodecInit, !.last_out = NONE, !.next_ts = NONE, !.slow = TRUE, !.earliest_time = NONE,
        !.ts_handler = <<>>, !.segment = OpenSegment]

(* gst_ffmpegdec_sink_event, FLUSH_STOP *)
flush_stop(d) ==
    [clear_queued(d) EXCEPT
        !.codec = CodecInit, !.last_out = NONE, !.next_ts = NONE, !.slow = TRUE, !.earliest_time = NONE,
        !.ts_handler = <<>>, !.waiting_for_key = TRUE, !.segment = OpenSegment]

FlushStop == Anew(TRUE) /\ dec' = flush_stop(dec)

(* gst_ffmpegdec_change_state to READY, and setcaps of the next run *)
Restart == Anew(FALSE) /\ dec' = Opened(clear_queued(dec))

(* gst_ffmpegdec_setcaps while the stream runs; a key frame follows, *)
(* in reverse at the start of a group                                      *)
SetCaps ==
    /\ up.segment /\ ~up.eos /\ up.bs = {} /\ count.caps < stream.MaxCaps
    /\ IF dec.segment.rate > 0 THEN ~up.key ELSE up.mark
    /\ \E r \in {drain(dec)} : dec' = Opened(r.dec) /\ Push(r.pushed)
    /\ up' = [up EXCEPT !.key = TRUE]
    /\ count' = [count EXCEPT !.caps = @ + 1]
    /\ UNCHANGED down

(* gst_ffmpegdec_src_event: QoS, from the thread that shows the frames *)
QosEvent ==
    /\ count.qos < stream.MaxQos /\ up.segment
    /\ \E earliest \in stream.Earliest, slow \in BOOLEAN :
         dec' = [dec EXCEPT !.earliest_time = earliest, !.slow = slow]
    /\ count' = [count EXCEPT !.qos = @ + 1]
    /\ Push(<<>>)
    /\ UNCHANGED <<down, up>>

(* Downstream: no buffers any more, until a flush or a restart *)
DownFails ==
    /\ down /\ count.errors < stream.MaxErrors
    /\ down' = FALSE
    /\ count' = [count EXCEPT !.errors = @ + 1]
    /\ prev' = (IF pushed = <<>> THEN prev ELSE pushed[Len(pushed)]) /\ pushed' = <<>>
    /\ UNCHANGED <<dec, up>>

DecNext ==
    /\ UNCHANGED stream
    /\ \/ SendReference \/ SendB \/ Jump \/ NewSegment \/ Eos
       \/ FlushStop \/ Restart \/ SetCaps \/ QosEvent \/ DownFails

DecSpec == DecInit /\ [][DecNext]_decvars

-----------------------------------------------------------------------------
(* The frames of the last step behind the one before it *)
Shown == (IF prev = NoOutput THEN <<>> ELSE <<prev>>) \o pushed
Neighbours == {<<Shown[i], Shown[i + 1]>> : i \in 1..(Len(Shown) - 1)}

(* What an element and a place of upstream are made of; of the fields that *)
(* have no type here none matters below.                                   *)
Frames(q) == {q[i] : i \in 1..Len(q)}

Element(d) ==
    /\ d \in [codec : {d.codec}, waiting_for_key : BOOLEAN, discont : BOOLEAN, next_ts : {d.next_ts},
              last_out : {d.last_out}, ts_is_dts : {d.ts_is_dts}, has_b_frames : {d.has_b_frames},
              slow : {d.slow}, earliest_time : {d.earliest_time}, hurry_up : {0, 1},
              segment : {d.segment}, ts_handler : {d.ts_handler}, queued : Seq(Frames(d.queued))]
    /\ d.codec \in [next : {d.codec.next}, last : {d.codec.last}]
    /\ d.segment.rate \in {1, -1}

Upstream(u) ==
    u \in [mode : {u.mode}, pos : {u.pos}, ref : {u.ref}, bs : {u.bs}, limit : {u.limit}, low : {u.low},
           mark : BOOLEAN, key : {u.key}, segment : BOOLEAN, eos : BOOLEAN, run : Nat,
           epoch : {u.epoch}, seg : {u.seg}, flushed : {u.flushed}]

DecTypeOK == Element(dec) /\ Upstream(up) /\ down \in BOOLEAN

(* A picture the codec holds or a frame that waits for reverse playback is *)
(* of the segment and the run that upstream is sending; what came before   *)
(* has left at the discont, the segment or the end, and at the end nothing *)
(* is left.                                                                *)
HeldIsCurrent ==
    /\ dec.segment.rate > 0 => dec.queued = <<>>
    /\ \A p \in ({dec.codec.next} \ {NoPic}) \cup Frames(dec.queued) :
          p.epoch = up.epoch /\ p.seg = up.seg /\ p.run = up.run /\ ~up.eos

(* A run begins with a discont, before which nothing of it is held and     *)
(* nothing of the stream shown.                                            *)
RunBegins ==
    /\ up.run = 0 => /\ up.mark /\ dec.codec.next = NoPic /\ dec.queued = <<>>
                     /\ pushed = <<>> /\ prev = NoOutput
    /\ ~up.segment => up.run = 0

(* Forward: the mark of a run is due until a frame of the run is pushed.   *)
Last == IF pushed = <<>> THEN prev ELSE pushed[Len(pushed)]

MarkDue ==
    dec.segment.rate > 0 /\ down =>
        /\ pushed \in {<<>>, <<Last>>} /\ Last.run \in 0..up.run
        /\ up.run > 0 => (dec.discont <=> Last.run # up.run)

(* Forward: the first frame behind a discont carries the mark, and no      *)
(* other does.                                                             *)
DiscontMarked ==
    dec.segment.rate > 0 /\ down =>
        /\ \A n \in Neighbours : n[2].discont <=> n[1].run # n[2].run
        /\ prev = NoOutput /\ pushed # <<>> => pushed[1].discont

(* No frame from before a flush or a restart is shown after it.            *)
NothingOld == \A f \in Frames(pushed) : f.epoch = up.epoch

(* Frames held or shown and marks belong to the run of the stream they     *)
(* came in.                                                                *)
RunsInv == DecTypeOK /\ HeldIsCurrent /\ RunBegins /\ MarkDue /\ DiscontMarked /\ NothingOld

-----------------------------------------------------------------------------
(* Where upstream is: the B frames it has yet to send lie between the two  *)
(* references it sent last.                                                *)
Places ==
    /\ stream \in Streams /\ up.mode \in {"pts", "dts"}
    /\ up.pos \in Nat \cup {NONE} /\ up.low \in Int /\ up.limit \in Int
    /\ \A b \in up.bs : b \in Nat /\ up.ref \in Int /\ up.ref < b /\ b < up.pos
    /\ up.bs # {} => ~up.mark /\ ~up.key
    /\ count \in [errors : Nat, qos : Nat, caps : Nat] /\ (down \/ count.errors > 0)

(* What left the codec, and what it holds *)
Out == IF dec.segment.rate > 0 THEN {Last} \ {NoOutput} ELSE Frames(dec.queued)
Held == {dec.codec.next} \ {NoPic}

(* What the codec holds comes behind what left it, before the B frames     *)
(* that upstream has yet to send what is shown before them.                *)
OutOrder ==
    /\ \A p \in Held \cup Out \cup ({Last} \ {NoOutput}) : p.disp \in Nat
    /\ \A p \in Held, x \in Out : x.disp < p.disp
    /\ ~up.mark \/ dec.segment.rate > 0 => \A p \in Held \cup Out : p.disp <= up.pos
    /\ ~dec.waiting_for_key /\ ~up.eos =>
          \A p \in Held, b \in up.bs : p.disp = up.pos /\ \A x \in Out : x.disp < b

Falling(q) == \A i, j \in 1..Len(q) : i < j => q[i].disp > q[j].disp

(* In reverse a group lies below what was shown, and a group that is due   *)
(* below the one the element holds.                                        *)
GroupOrder ==
    dec.segment.rate < 0 =>
        /\ up.low <= up.pos /\ (up.run > 0 => up.low < up.limit)
        /\ \A b \in up.bs : up.low < b /\ b < up.limit
        /\ Falling(dec.queued)
        /\ \A p \in Held \cup Out :
              IF up.mark THEN p.disp >= up.limit ELSE up.low < p.disp /\ p.disp < up.limit
        /\ Last # NoOutput =>
              /\ up.low < Last.disp /\ (~up.eos => up.limit <= Last.disp)
              /\ \A p \in Held \cup Out : p.disp < Last.disp

OrderInv == count.errors = 0 => OutOrder /\ GroupOrder

-----------------------------------------------------------------------------
(* No frame comes late enough for its group to be skipped.                 *)
NoSkips(s) == \A e \in s.Earliest : e <= s.Late

(* Without events from downstream nothing is late.                         *)
QosTimes == count.errors = 0 =>
    /\ dec.earliest_time \in {NONE} \cup stream.Earliest
    /\ dec.segment.start \in Int /\ dec.segment.stop \in Int
    /\ dec.segment.rate < 0 => dec.segment.stop # NONE
    /\ stream.MaxQos = 0 => dec.earliest_time = NONE /\ dec.hurry_up = 0

(* After a flush, until upstream loses data.                               *)
Clean ==
    /\ up.flushed /\ count.errors = 0 /\ (stream.OpenGop => NoSkips(stream))
    /\ dec.segment.rate > 0 => up.run <= 1

(* What waits to be shown is intact, and so are the references of the B    *)
(* frames that upstream has yet to send, while the element decodes them.   *)
IntactInv ==
    Clean =>
        /\ \A p \in Held \cup Frames(dec.queued) : p.intact
        /\ up.run = 0 => dec.waiting_for_key
        /\ dec.segment.rate < 0 /\ up.mark /\ up.segment => up.key
        /\ ~dec.waiting_for_key /\ ~up.key /\ ~up.mark /\ ~up.eos =>
              dec.codec.next # NoPic /\ dec.codec.next.disp = up.pos
        /\ ~dec.waiting_for_key /\ ~up.eos /\ up.bs # {} /\ NoPic \notin {dec.codec.next, dec.codec.last} =>
              dec.codec.last.disp = up.ref /\ dec.codec.last.intact
        /\ stream.OpenGop =>
              /\ dec.waiting_for_key => dec.codec.next = NoPic
              /\ ~up.mark /\ ~up.eos => \A p \in Held : p.disp = up.pos

(* After a flush frames are shown only when all they refer to was decoded, *)
(* also when the stream begins with delta frames and QoS drops frames,     *)
(* until upstream loses data; and no frame from before it is.  Where a     *)
(* group is skipped the next one must not refer to it.                     *)
FlushedAway ==
    /\ NothingOld
    /\ up.flushed /\ count.errors = 0 /\ (stream.OpenGop => NoSkips(stream)) =>
        \A f \in Frames(pushed) : (dec.segment.rate > 0 => f.run = 1) => f.intact

(* Frames come in display order, in reverse in the opposite order, over    *)
(* gaps, frames dropped for QoS and segments that follow each other: only  *)
(* a corrupt reference lets B frames overtake the one before it.           *)
DisplayOrder ==
    count.errors = 0 => \A n \in Neighbours :
        IF dec.segment.rate > 0 THEN n[1].disp < n[2].disp ELSE n[1].disp > n[2].disp

-----------------------------------------------------------------------------
(* A frame that is not decoded leaves its time behind, a B frame that is   *)
(* dropped leaves a time that the next untimed one would get.              *)
Aligned(s) == ~s.AnyStart /\ NoSkips(s) /\ (s.Untimed => s.MaxQos = 0)

(* No time is left over from a run that ended, and none is queued.         *)
TimesKnown ==
    /\ dec.ts_handler = <<>>
    /\ dec.waiting_for_key => up.run = 0
    /\ up.run = 0 => up.key /\ dec.last_out = NONE /\ dec.next_ts = NONE
    /\ ~up.key /\ ~up.mark /\ ~up.eos => dec.codec.next # NoPic
    /\ \A p \in Held : p.kind # "B"
    /\ {dec.last_out, dec.next_ts} \subseteq Nat \cup {NONE}

(* With presentation times: the picture held has its own or will get it,   *)
(* the B frames that are due lie between next_ts and its place.            *)
PtsTimes ==
    /\ TimesKnown
    /\ ~dec.ts_is_dts
    /\ \A p \in Held : p.ts \in {NONE, p.disp} /\ dec.last_out < p.disp
    /\ \A f \in Frames(dec.queued) : f.ts = f.disp
    /\ Last # NoOutput => Last.ts = Last.disp
    /\ ~up.mark \/ dec.segment.rate > 0 => dec.last_out <= up.pos
    /\ ~up.mark /\ ~up.eos => \A p \in Held : p.disp = up.pos /\ \A b \in up.bs : dec.last_out < b
    /\ \A p \in Held : p.ts = NONE => stream.Untimed /\ dec.codec.last # NoPic
    /\ stream.Untimed /\ dec.codec.last # NoPic =>
          \A p \in Held : dec.next_ts \in Nat /\ dec.next_ts <= p.disp /\ up.bs = dec.next_ts..(p.disp - 1)

PtsInv == count.errors = 0 /\ Aligned(stream) /\ up.mode = "pts" => PtsTimes

(* Each frame has its own presentation time: the one upstream gave it, or, *)
(* when it gave none, the time the frames before it leave.                 *)
OwnTime ==
    up.mode = "pts" => \A f \in Frames(pushed) : f.ts = f.disp

(* The frame o comes before what leaves the element d next                 *)
Behind(o, d) ==
    /\ d.next_ts # NONE /\ o.ts \in Nat /\ o.ts < d.next_ts
    /\ ~d.ts_is_dts => d.last_out # NONE /\ o.ts <= d.last_out

(* With decoding times: the frame shown last comes before what is held,    *)
(* whether the element takes its time for one or notices that it is not.   *)
DtsTimes ==
    /\ TimesKnown
    /\ \A p \in Held : p.ts \in Nat /\ p.ts <= p.disp /\ dec.last_out # p.ts
                       /\ (dec.last_out < p.ts \/ dec.has_b_frames)
    /\ dec.ts_is_dts => dec.has_b_frames
    /\ ~up.mark /\ ~up.eos => \A p \in Held : p.ts = up.ref + 1 /\ p.disp = up.pos
    /\ ~up.mark \/ dec.segment.rate > 0 => dec.last_out <= up.pos /\ dec.next_ts <= up.pos + 2
    /\ \A p \in Held : dec.next_ts <= p.disp + 1 /\ \A b \in up.bs : dec.next_ts <= b + 1 /\ dec.last_out <= b
    /\ dec.segment.rate > 0 /\ up.run > 0 /\ Last.run = up.run => Behind(Last, dec)

DtsInv ==
    count.errors = 0 /\ Aligned(stream) /\ stream.MaxQos = 0 /\ stream.MaxCaps = 0 /\ up.mode = "dts" => DtsTimes

(* Times of frames shown one after the other rise, also when upstream      *)
(* gives decoding times.                                                   *)
TimesRise ==
    \A n \in Neighbours :
        dec.segment.rate > 0 /\ n[1].run = n[2].run => n[1].ts < n[2].ts

(* Frames have their own time, unless whole groups are skipped for QoS,    *)
(* and the times of frames in a row rise; with decoding times only while   *)
(* no frame is dropped and the caps stay.                                  *)
TimesHold ==
    count.errors = 0 /\ Aligned(stream) =>
        /\ OwnTime
        /\ up.mode = "pts" \/ (stream.MaxQos = 0 /\ stream.MaxCaps = 0) => TimesRise

(* What the element holds belongs to the run of the stream, in its place,  *)
(* with what it was decoded from and a time that is known.                 *)
DecInv == RunsInv /\ Places /\ OrderInv /\ QosTimes /\ IntactInv /\ PtsInv /\ DtsInv

=============================================================================
