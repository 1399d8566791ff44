-------------------------- MODULE FFMpegDemuxPull --------------------------
(***************************************************************************)
(* gstffmpegdemux.c in pull mode.  The task of the sink pad runs           *)
(* gst_ffmpegdemux_loop and holds the pad's stream lock as long as it is   *)
(* started; any thread may seek (gst_ffmpegdemux_perform_seek), and so     *)
(* does the task itself, with the seek cached in READY, when it opens the  *)
(* file.  The application deactivates the pads on the way back to READY.   *)
(*                                                                         *)
(* The file is a sequence of frames, of which the libavformat that comes   *)
(* with the source reads the next and seeks to one at or before a time.    *)
(* Downstream is what its pads have in common: whether they flush, the     *)
(* segment they are in, and whether they got EOS.                          *)
(***************************************************************************)
EXTENDS Integers, Sequences

CONSTANTS
    Streams,         \* streams of the file
    Unknown,         \* those without pad
    File,            \* the frames: their stream and ts
    StartTime,       \* demux->start_time
    Seekers,         \* threads that seek
    SeekRequests,    \* what they ask for
    DownstreamFlow,  \* results of a push that downstream does not flush
    MaxSeeks,        \* bound: seeks in a behaviour
    MaxStarts        \* bound: activations in a behaviour

None == -1           \* no time: GST_CLOCK_TIME_NONE, or no stop

Request == [flush : BOOLEAN, start : Nat, stop : Nat \cup {None}, segment : BOOLEAN]

ASSUME PullAssumption ==
    /\ Unknown \subseteq Streams
    /\ File \in Seq([stream : Streams, ts : Nat \cup {None}])
    /\ StartTime \in Nat
    /\ SeekRequests \subseteq Request
    /\ DownstreamFlow \subseteq {"OK", "NOT_LINKED", "ERROR"}
    /\ MaxSeeks \in Nat /\ MaxStarts \in Nat
    /\ "loop" \notin Seekers /\ "none" \notin Seekers

VARIABLES
    task,       \* the sink pad's task; "wrong" is one that gets the pad for the demuxer
    loop,       \* where the task is
    lock,       \* who holds the stream lock of the sink pad
    opened, running, flushing,          \* fields of the demuxer
    segment,    \* demux->segment, with its SEGMENT flag
    seek_event, \* demux->seek_event
    pos,        \* index of the frame libavformat reads next
    frame,      \* the frame in the loop's hands, and the epoch it was read in
    ret,        \* result with which the loop pauses
    last_flow, ended, discont, outputted,   \* per stream: last_flow, eos, discont, last_ts
    at,         \* where each executor of perform_seek is
    req,        \* its request
    res,        \* result of its do_seek
    upFlush,    \* upstream is flushing
    downFlush, downSeg, downEos,        \* downstream: flushing, segment, got EOS
    app,        \* where the state change is
    epoch,      \* history: number of flushes downstream has seen the end of
    out,        \* history: the last buffer downstream accepted, and its context
    owed,       \* history: streams of which downstream saw nothing since the last seek
    upto,       \* history: the latest time downstream got in the segment
    failed,     \* history: some seek failed
    refused,    \* history: the last read failed because upstream flushes
    seeks, starts                       \* counters for the bounds

Executors == Seekers \cup {"loop"}

dvars == <<opened, running, flushing, segment, seek_event>>
fvars == <<last_flow, ended, discont, outputted>>
lvars == <<loop, pos, frame, ret>>
svars == <<at, req, res>>
downvars == <<downFlush, downSeg, downEos>>
hvars == <<epoch, out, owed, upto, failed, refused>>
nvars == <<seeks, starts>>

vars == <<task, lock, dvars, fvars, lvars, svars, upFlush, downvars, app, hvars, nvars>>

NoReq == [flush |-> FALSE, start |-> 0, stop |-> None, segment |-> FALSE]

NoFrame == [stream |-> None, ts |-> None, epoch |-> 0]

Flow == {"OK", "NOT_LINKED", "WRONG_STATE", "UNEXPECTED", "ERROR"}

Segment == [start : Nat, stop : Nat \cup {None}, last : Nat, segment : BOOLEAN]

SegmentInit == [start |-> 0, stop |-> None, last |-> 0, segment |-> FALSE]

LockedAt == {"stop_up", "seek", "close", "segment", "restart"}

TypeOK ==
    /\ task \in {"none", "started", "paused", "wrong"}
    /\ loop \in {"idle", "top", "open", "seeking", "read", "push", "pause", "eos"}
    /\ lock \in Executors \cup {"none"}
    /\ owed \subseteq Streams /\ failed \in BOOLEAN
    /\ opened \in BOOLEAN /\ running \in BOOLEAN /\ flushing \in BOOLEAN
    /\ segment \in Segment /\ seek_event \in Request
    /\ pos \in Nat \ {0} /\ ret \in Flow
    /\ last_flow \in [Streams -> Flow]
    /\ ended \subseteq Streams /\ discont \subseteq Streams /\ outputted \subseteq Streams
    /\ at \in [Executors -> {"none", "flag", "up", "down", "pause", "lock"} \cup LockedAt]
    /\ req \in [Executors -> Request]
    /\ res \in [Executors -> BOOLEAN]
    /\ upFlush \in BOOLEAN /\ downFlush \in BOOLEAN /\ downEos \in BOOLEAN
    /\ app \in {"ready", "active", "src_pads", "joining"}

Init ==
    /\ task = "none" /\ loop = "idle" /\ lock = "none"
    /\ opened = FALSE /\ running = FALSE /\ flushing = FALSE
    /\ segment = SegmentInit /\ seek_event = NoReq
    /\ pos = 1 /\ frame = NoFrame /\ ret = "OK"
    /\ last_flow = [s \in Streams |-> "OK"] /\ ended = {} /\ discont = Streams
    /\ outputted = {}
    /\ at = [p \in Executors |-> "none"] /\ req = [p \in Executors |-> NoReq]
    /\ res = [p \in Executors |-> FALSE]
    /\ upFlush = FALSE /\ downFlush = FALSE /\ downSeg = {} /\ downEos = FALSE
    /\ app = "ready"
    /\ epoch = 0 /\ out = [seg |-> {SegmentInit}, stale |-> FALSE, marked |-> TRUE] /\ owed = Streams /\ upto = 0
    /\ failed = FALSE /\ refused = FALSE
    /\ seeks = 0 /\ starts = 0

-----------------------------------------------------------------------------
(* Starting, stopping and pausing the task of a pad.  Once a task was      *)
(* stopped, a start makes a new one, with the argument it is given.        *)
gst_pad_start_task(argument) ==
    task' = CASE task = "none" /\ argument = "demux" -> "started"
              [] task = "none" /\ argument # "demux" -> "wrong"
              [] task = "paused" -> "started"
              [] OTHER -> task

gst_pad_pause_task == task' = IF task = "started" THEN "paused" ELSE task

(* A push event reaches source pads that are active.                       *)
PadsActive == app = "active"

NewSegment(seg) ==
    downSeg' = IF PadsActive /\ ~downFlush THEN {seg} ELSE downSeg

-----------------------------------------------------------------------------
(* gst_ffmpegdemux_perform_seek, by executor p.                            *)

FirstStep(r) == IF r.flush THEN "flag" ELSE "pause"

(* A thread sends a seek: gst_ffmpegdemux_send_event caches it until the   *)
(* file is open.  Before activation and after deactivation the demuxer is  *)
(* not seekable.                                                           *)
SeekEvent(p, r) ==
    /\ at[p] = "none" /\ seeks < MaxSeeks /\ app \in {"ready", "active"}
    /\ seeks' = seeks + 1
    /\ \/ ~opened /\ seek_event' = r /\ UNCHANGED svars
       \/ /\ opened /\ app = "active"
          /\ at' = [at EXCEPT ![p] = FirstStep(r)] /\ req' = [req EXCEPT ![p] = r]
          /\ UNCHANGED <<seek_event, res>>
    /\ UNCHANGED <<task, lock, opened, running, flushing, segment, fvars, lvars, upFlush,
                   downvars, app, hvars, starts>>

SeekFlag(p) ==
    /\ at[p] = "flag"
    /\ flushing' = TRUE
    /\ at' = [at EXCEPT ![p] = "up"]
    /\ UNCHANGED <<task, lock, opened, running, segment, seek_event, fvars, lvars, req, res,
                   upFlush, downvars, app, hvars, nvars>>

SeekFlushStartUp(p) ==
    /\ at[p] = "up"
    /\ upFlush' = TRUE
    /\ at' = [at EXCEPT ![p] = "down"]
    /\ UNCHANGED <<task, lock, dvars, fvars, lvars, req, res, downvars, app, hvars, nvars>>

SeekFlushStartDown(p) ==
    /\ at[p] = "down"
    /\ downFlush' = (downFlush \/ PadsActive)
    /\ at' = [at EXCEPT ![p] = "lock"]
    /\ UNCHANGED <<task, lock, dvars, fvars, lvars, req, res, upFlush, downSeg, downEos, app,
                   hvars, nvars>>

SeekPause(p) ==
    /\ at[p] = "pause"
    /\ gst_pad_pause_task
    /\ at' = [at EXCEPT ![p] = "lock"]
    /\ UNCHANGED <<lock, dvars, fvars, lvars, req, res, upFlush, downvars, app, hvars, nvars>>

(* Mutant: the seek does not wait for the streaming thread.                *)
seek_unlocked(p) ==
    /\ at[p] = "lock" /\ (lock = "loop" => loop # "idle")
    /\ lock' = lock
    /\ at' = [at EXCEPT ![p] = IF req[p].flush THEN "stop_up" ELSE "seek"]
    /\ UNCHANGED <<task, dvars, fvars, lvars, req, res, upFlush, downvars, app, hvars, nvars>>

(* GST_PAD_STREAM_LOCK, a recursive lock that the task may hold already.   *)
SeekLock(p) ==
    /\ at[p] = "lock" /\ lock \in {"none", p}
    /\ lock' = p
    /\ at' = [at EXCEPT ![p] = IF req[p].flush THEN "stop_up" ELSE "seek"]
    /\ UNCHANGED <<task, dvars, fvars, lvars, req, res, upFlush, downvars, app, hvars, nvars>>

SeekFlushStopUp(p) ==
    /\ at[p] = "stop_up"
    /\ flushing' = FALSE /\ upFlush' = FALSE
    /\ at' = [at EXCEPT ![p] = "seek"]
    /\ UNCHANGED <<task, lock, opened, running, segment, seek_event, fvars, lvars, req, res,
                   downvars, app, hvars, nvars>>

(* The frames at which av_seek_frame, asked for time t with                *)
(* AVSEEK_FLAG_BACKWARD, may end.                                          *)
SeekPoints(t) == {i \in DOMAIN File : i = 1 \/ (File[i].ts # None /\ File[i].ts <= t)}

(* The position sought: as asked, or with KEY_UNIT the time of an earlier  *)
(* keyframe of the index.                                                  *)
Targets(t) == {t} \cup {File[i].ts : i \in {j \in DOMAIN File : File[j].ts \in 0 .. t}}

(* gst_ffmpegdemux_do_seek.  It may fail, for want of an index or because  *)
(* upstream refuses to be read.                                            *)
gst_ffmpegdemux_do_seek(p) ==
    /\ at[p] = "seek"
    /\ \/ res' = [res EXCEPT ![p] = FALSE] /\ failed' = TRUE /\ UNCHANGED <<pos, req>>
       \/ /\ res' = [res EXCEPT ![p] = TRUE]
          /\ pos' \in SeekPoints(req[p].start)
          /\ req' \in {[req EXCEPT ![p].start = t] : t \in Targets(req[p].start)}
          /\ UNCHANGED failed
    /\ at' = [at EXCEPT ![p] = "close"]
    /\ UNCHANGED <<task, lock, dvars, fvars, loop, frame, ret, upFlush, downvars, app,
                   epoch, out, owed, upto, refused, nvars>>

(* A flush ends downstream, which forgets its segment; otherwise the       *)
(* running segment is closed at segment.last_stop.                         *)
SeekClose(p) ==
    /\ at[p] = "close"
    /\ at' = [at EXCEPT ![p] = "segment"]
    /\ IF req[p].flush
       THEN /\ downFlush' = FALSE /\ downSeg' = {} /\ downEos' = FALSE
            /\ last_flow' = [s \in Streams |-> "OK"]
            /\ epoch' = epoch + 1
       ELSE /\ downSeg' = IF res[p] /\ running /\ PadsActive /\ ~downFlush
                          THEN {[start |-> segment.start, stop |-> segment.last]}
                          ELSE downSeg
            /\ UNCHANGED <<downFlush, downEos, last_flow, epoch>>
    /\ UNCHANGED <<task, lock, dvars, ended, discont, outputted, lvars, req, res, upFlush, app,
                   out, owed, upto, failed, refused, nvars>>

(* "if successfull seek, we update our real segment and push out the new   *)
(* segment".                                                               *)
SeekSegment(p) ==
    /\ at[p] = "segment"
    /\ at' = [at EXCEPT ![p] = "restart"]
    /\ IF res[p]
       THEN /\ segment' = [start |-> req[p].start, last |-> req[p].start,
                           stop |-> req[p].stop, segment |-> req[p].segment]
            /\ NewSegment([start |-> req[p].start, stop |-> req[p].stop])
            /\ upto' = 0
       ELSE UNCHANGED <<segment, downSeg, upto>>
    /\ UNCHANGED <<task, lock, opened, running, flushing, seek_event, fvars, lvars, req, res,
                   upFlush, downFlush, downEos, app, epoch, out, owed, failed, refused, nvars>>

(* Mutant: a seek that fails leaves the task as it is.                     *)
restart_on_success(p) ==
    /\ at[p] = "restart"
    /\ discont' = Streams /\ owed' = Streams /\ ended' = {}
    /\ running' = TRUE
    /\ IF res[p] THEN gst_pad_start_task("pad") ELSE UNCHANGED task
    /\ at' = [at EXCEPT ![p] = "none"]
    /\ req' = [req EXCEPT ![p] = NoReq] /\ res' = [res EXCEPT ![p] = FALSE]
    /\ IF p = "loop" THEN loop' = "read" /\ UNCHANGED lock
                     ELSE lock' = "none" /\ UNCHANGED loop
    /\ UNCHANGED <<opened, flushing, segment, seek_event, last_flow, outputted, pos, frame, ret,
                   upFlush, downvars, app, epoch, out, upto, failed, refused, nvars>>

(* Mutant: the streams are not marked DISCONT.                             *)
restart_unmarked(p) ==
    /\ at[p] = "restart"
    /\ owed' = Streams /\ ended' = {}
    /\ running' = TRUE
    /\ gst_pad_start_task("pad")
    /\ at' = [at EXCEPT ![p] = "none"]
    /\ req' = [req EXCEPT ![p] = NoReq] /\ res' = [res EXCEPT ![p] = FALSE]
    /\ IF p = "loop" THEN loop' = "read" /\ UNCHANGED lock
                     ELSE lock' = "none" /\ UNCHANGED loop
    /\ UNCHANGED <<opened, flushing, segment, seek_event, last_flow, discont, outputted, pos,
                   frame, ret, upFlush, downvars, app, epoch, out, upto, failed, refused, nvars>>

(* Mark DISCONT, remove EOS, restart the task and release the lock.        *)
SeekRestart(p) ==
    /\ at[p] = "restart"
    /\ discont' = Streams /\ owed' = Streams /\ ended' = {}
    /\ running' = TRUE
    /\ gst_pad_start_task("pad")
    /\ at' = [at EXCEPT ![p] = "none"]
    /\ req' = [req EXCEPT ![p] = NoReq] /\ res' = [res EXCEPT ![p] = FALSE]
    /\ IF p = "loop" THEN loop' = "read" /\ UNCHANGED lock
                     ELSE lock' = "none" /\ UNCHANGED loop
    /\ UNCHANGED <<opened, flushing, segment, seek_event, last_flow, outputted, pos, frame, ret,
                   upFlush, downvars, app, epoch, out, upto, failed, refused, nvars>>

-----------------------------------------------------------------------------
(* The task.  It takes the stream lock when it is started and gives it     *)
(* back when, between two calls of the loop, it is not started any more.   *)
LoopLock ==
    /\ task = "started" /\ loop = "idle" /\ lock = "none"
    /\ lock' = "loop" /\ loop' = "top"
    /\ UNCHANGED <<task, dvars, fvars, pos, frame, ret, svars, upFlush, downvars, app,
                   hvars, nvars>>

LoopIterate ==
    /\ loop = "top"
    /\ IF task = "started"
       THEN loop' = (IF opened THEN "read" ELSE "open") /\ UNCHANGED lock
       ELSE loop' = "idle" /\ lock' = "none"
    /\ UNCHANGED <<task, dvars, fvars, pos, frame, ret, svars, upFlush, downvars, app,
                   hvars, nvars>>

(* gst_ffmpegdemux_open: performs the seek cached in READY, or sends the   *)
(* new segment.                                                            *)
LoopOpened ==
    /\ loop = "open"
    /\ opened' = TRUE /\ seek_event' = NoReq /\ pos' = 1
    /\ last_flow' = [s \in Streams |-> "OK"] /\ ended' = {} /\ discont' = Streams
    /\ outputted' = {} /\ owed' = Streams /\ upto' = 0
    /\ IF seek_event # NoReq
       THEN /\ loop' = "seeking"
            /\ at' = [at EXCEPT !["loop"] = FirstStep(seek_event)]
            /\ req' = [req EXCEPT !["loop"] = seek_event]
            /\ UNCHANGED downSeg
       ELSE /\ loop' = "read"
            /\ NewSegment([start |-> segment.start, stop |-> segment.stop])
            /\ UNCHANGED <<at, req>>
    /\ UNCHANGED <<task, lock, running, flushing, segment, frame, ret, res, upFlush, downFlush,
                   downEos, app, epoch, out, failed, refused, nvars>>

(* The file cannot be read: it ended, or upstream flushes.                 *)
Unreadable == upFlush \/ app # "active"

LoopOpenFailed ==
    /\ loop = "open"
    /\ ret' = "ERROR" /\ loop' = "pause" /\ refused' = FALSE
    /\ UNCHANGED <<task, lock, dvars, fvars, pos, frame, svars, upFlush, downvars, app, epoch,
                   out, owed, upto, failed, nvars>>

gst_ffmpegdemux_is_eos(E) == Streams \subseteq E

gst_ffmpegdemux_has_outputted == outputted # {}

(* What happens to frame f: streams without pad are skipped, times before  *)
(* the start time or behind the stop end their stream.  Times are          *)
(* unsigned, and no time is the latest.                                    *)
TooEarly(f) == f.ts # None /\ StartTime > f.ts
Late(f) == segment.stop # None /\ (f.ts = None \/ f.ts - StartTime > segment.stop)

LoopRead ==
    /\ loop = "read" /\ pos <= Len(File)
    /\ LET f == File[pos] s == File[pos].stream IN
       /\ pos' = pos + 1
       /\ refused' = FALSE
       /\ outputted' = IF s \notin Unknown /\ f.ts # None THEN outputted \cup {s} ELSE outputted
       /\ IF s \notin Unknown /\ (TooEarly(f) \/ Late(f))
          THEN ended' = ended \cup {s}
          ELSE UNCHANGED ended
       /\ \/ s \in Unknown /\ loop' = "top" /\ UNCHANGED <<ret, frame>>
          \/ /\ s \notin Unknown /\ (TooEarly(f) \/ Late(f))
             /\ IF gst_ffmpegdemux_is_eos(ended')
                THEN loop' = "pause" /\ ret' = "UNEXPECTED"
                ELSE loop' = "top" /\ UNCHANGED ret
             /\ UNCHANGED frame
          \/ /\ s \notin Unknown /\ ~TooEarly(f) /\ ~Late(f)
             /\ frame' = [stream |-> s, epoch |-> epoch,
                          ts |-> IF f.ts = None THEN None ELSE f.ts - StartTime]
             /\ loop' = "push" /\ UNCHANGED ret
    /\ UNCHANGED <<task, lock, dvars, last_flow, discont, svars, upFlush, downvars, app, epoch,
                   out, owed, upto, failed, nvars>>

(* av_read_frame fails; flushing is read under the object lock.            *)
LoopReadFailed ==
    /\ loop = "read" /\ (pos > Len(File) \/ Unreadable)
    /\ ret' = IF flushing THEN "WRONG_STATE"
              ELSE IF gst_ffmpegdemux_has_outputted \/ gst_ffmpegdemux_is_eos(ended)
              THEN "UNEXPECTED" ELSE "ERROR"
    /\ refused' = upFlush
    /\ loop' = "pause"
    /\ UNCHANGED <<task, lock, dvars, fvars, pos, frame, svars, upFlush, downvars, app, epoch,
                   out, owed, upto, failed, nvars>>

(* The GstFlowReturn codes: the lower, the worse.                          *)
FlowCode == [OK |-> 0, NOT_LINKED |-> -1, WRONG_STATE |-> -2, UNEXPECTED |-> -3,
             ERROR |-> -5]

Worst(F) == CHOOSE r \in F : \A q \in F : FlowCode[r] <= FlowCode[q]

gst_ffmpegdemux_aggregated_flow(lf) ==
    LET worst == Worst({lf[s] : s \in Streams} \cup {"OK"}) IN
        IF worst = "NOT_LINKED" /\ \E s \in Streams : lf[s] = "OK" THEN "OK" ELSE worst

(* What downstream answers to a buffer: WRONG_STATE if it flushes or its   *)
(* pads are not active.                                                    *)
Answers(r) == IF downFlush \/ ~PadsActive THEN r = "WRONG_STATE" ELSE r \in DownstreamFlow

(* gst_pad_alloc_buffer_and_set_caps is refused.                           *)
LoopAllocFailed(r) ==
    /\ loop = "push" /\ Answers(r) /\ r # "OK"
    /\ frame' = NoFrame
    /\ last_flow' = [last_flow EXCEPT ![frame.stream] = r]
    /\ LET agg == gst_ffmpegdemux_aggregated_flow(last_flow') IN
       IF agg # "OK" THEN loop' = "pause" /\ ret' = agg
                     ELSE loop' = "top" /\ UNCHANGED ret
    /\ UNCHANGED <<task, lock, dvars, ended, discont, outputted, pos, svars, upFlush,
                   downvars, app, hvars, nvars>>

(* The allocation succeeds, and so does the push or not.  Buffers are sent *)
(* only when no stream has a bad flow.                                     *)
LoopPush(r) ==
    /\ loop = "push" /\ Answers(r)
    /\ frame' = NoFrame
    /\ LET s == frame.stream
           allocated == [last_flow EXCEPT ![s] = "OK"]
           before == gst_ffmpegdemux_aggregated_flow(allocated)
           after == gst_ffmpegdemux_aggregated_flow([last_flow EXCEPT ![s] = r])
       IN
       IF before # "OK"
       THEN /\ last_flow' = allocated /\ ret' = before /\ loop' = "pause"
            /\ UNCHANGED <<discont, out, owed, upto>>
       ELSE /\ last_flow' = [last_flow EXCEPT ![s] = r]
            /\ discont' = discont \ {s}
            /\ IF r = "OK"
               THEN /\ out' = [seg |-> downSeg, stale |-> frame.epoch # epoch,
                               marked |-> (s \in owed => s \in discont)]
                    /\ upto' = IF frame.ts > upto THEN frame.ts ELSE upto
               ELSE UNCHANGED <<out, upto>>
            /\ owed' = IF r = "WRONG_STATE" THEN owed ELSE owed \ {s}
            /\ IF r # "OK" /\ after # "OK" THEN loop' = "pause" /\ ret' = after
                                           ELSE loop' = "top" /\ UNCHANGED ret
    /\ UNCHANGED <<task, lock, dvars, ended, outputted, pos, svars, upFlush, downvars,
                   app, epoch, failed, refused, nvars>>

(* Mutant: only the flag tells that the loop ended.                        *)
pause_flag_only ==
    /\ loop = "pause"
    /\ running' = FALSE
    /\ loop' = IF ret = "WRONG_STATE" THEN "top" ELSE "eos"
    /\ UNCHANGED <<task, lock, opened, flushing, segment, seek_event, fvars, pos, frame, ret,
                   svars, upFlush, downvars, app, hvars, nvars>>

(* The pause label.  A fatal result is followed by EOS, or by SEGMENT_DONE *)
(* if the segment ended and was asked for as one.                          *)
LoopPause ==
    /\ loop = "pause"
    /\ running' = FALSE
    /\ gst_pad_pause_task
    /\ loop' = IF ret = "WRONG_STATE" THEN "top" ELSE "eos"
    /\ UNCHANGED <<lock, opened, flushing, segment, seek_event, fvars, pos, frame, ret, svars,
                   upFlush, downvars, app, hvars, nvars>>

SegmentDone == ret = "UNEXPECTED" /\ segment.segment

LoopEos ==
    /\ loop = "eos"
    /\ downEos' = (downEos \/ (~SegmentDone /\ PadsActive /\ ~downFlush))
    /\ loop' = "top"
    /\ UNCHANGED <<task, lock, dvars, fvars, pos, frame, ret, svars, upFlush, downFlush, downSeg,
                   app, hvars, nvars>>

-----------------------------------------------------------------------------
(* The application's state changes.  Sinks change state first, and hold    *)
(* their state lock while they send a seek upstream: a state change finds  *)
(* no thread in a seek, other than the task.                               *)
Activate ==
    /\ app = "ready" /\ starts < MaxStarts /\ task = "none"
    /\ starts' = starts + 1
    /\ app' = "active"
    /\ running' = TRUE
    /\ gst_pad_start_task("demux")
    /\ upFlush' = FALSE /\ downFlush' = FALSE /\ downSeg' = {} /\ downEos' = FALSE
    /\ UNCHANGED <<lock, opened, flushing, segment, seek_event, fvars, lvars, svars, hvars, seeks>>

StopSrcPads ==
    /\ app = "active" /\ \A p \in Seekers : at[p] = "none"
    /\ app' = "src_pads"
    /\ UNCHANGED <<task, lock, dvars, fvars, lvars, svars, upFlush, downvars, hvars, nvars>>

(* gst_ffmpegdemux_sink_activate_pull (FALSE): the task is detached from   *)
(* the pad, and told to stop ...                                           *)
StopTask ==
    /\ app = "src_pads"
    /\ app' = "joining"
    /\ running' = FALSE
    /\ task' = "none"
    /\ UNCHANGED <<lock, opened, flushing, segment, seek_event, fvars, lvars, svars, upFlush,
                   downvars, hvars, nvars>>

(* ... and joined; the state change then closes the demuxer.               *)
StopJoin ==
    /\ app = "joining" /\ lock = "none" /\ loop = "idle"
    /\ app' = "ready"
    /\ opened' = FALSE
    /\ IF opened THEN segment' = SegmentInit /\ seek_event' = NoReq
                 ELSE UNCHANGED <<segment, seek_event>>
    /\ UNCHANGED <<task, lock, running, flushing, fvars, lvars, svars, upFlush, downvars, hvars,
                   nvars>>

-----------------------------------------------------------------------------
Seek(p) == \/ SeekFlag(p) \/ SeekFlushStartUp(p) \/ SeekFlushStartDown(p) \/ SeekPause(p)
           \/ SeekLock(p) \/ SeekFlushStopUp(p) \/ gst_ffmpegdemux_do_seek(p)
           \/ SeekClose(p) \/ SeekSegment(p) \/ SeekRestart(p)

LoopStep == \/ LoopLock \/ LoopIterate \/ LoopOpened \/ LoopOpenFailed
            \/ LoopRead \/ LoopReadFailed
            \/ \E r \in Flow : LoopAllocFailed(r) \/ LoopPush(r)
            \/ LoopPause \/ LoopEos
            \/ Seek("loop")

AppStep == StopTask \/ StopJoin

Next == \/ \E p \in Seekers : Seek(p) \/ \E r \in SeekRequests : SeekEvent(p, r)
        \/ LoopStep
        \/ Activate \/ StopSrcPads \/ AppStep

(* Threads that can run do so; libavformat, upstream and downstream return *)
(* from the calls made to them.  Nobody has to seek or to change state.    *)
Fairness ==
    /\ \A p \in Seekers : WF_vars(Seek(p))
    /\ WF_vars(LoopStep) /\ WF_vars(AppStep)

Spec == Init /\ [][Next]_vars /\ Fairness

-----------------------------------------------------------------------------
(* Who holds the stream lock is the one who does what needs it: the task   *)
(* between idle and idle, a seek from its lock to its unlock.              *)
LockDiscipline ==
    /\ lock = "loop" <=> loop # "idle"
    /\ \A p \in Seekers : at[p] \in LockedAt <=> lock = p
    /\ at["loop"] # "none" <=> loop = "seeking"

(* A started task has a demuxer that runs, unless it is being stopped; in  *)
(* READY nothing runs; frames are read and seeks done in an open file.     *)
TaskRuns ==
    /\ app = "active" /\ task = "started" /\ loop \notin {"pause"} => running
    /\ app = "active" => task # "none"
    /\ app = "ready" => loop = "idle" /\ task \in {"none", "wrong"} /\ ~opened
    /\ app = "joining" => task \in {"none", "wrong"}
    /\ app # "active" => \A p \in Seekers : at[p] = "none"
    /\ loop = "eos" => task # "started"
    /\ loop = "open" => ~opened
    /\ loop \in {"read", "push", "seeking"} => opened
    /\ \A p \in Seekers : at[p] # "none" => opened

(* Executor p will end its flush downstream and reset the flows.           *)
EndsFlush(p) == req[p].flush /\ at[p] \in {"lock", "stop_up", "seek", "close"}

(* Whatever says that a flush is on has a seek that is going to end it.    *)
FlushHasSeek ==
    /\ flushing => \E p \in Executors :
                      req[p].flush /\ at[p] \in {"up", "down", "lock", "stop_up"}
    /\ app = "active" /\ downFlush => \E p \in Executors : EndsFlush(p)
    /\ app = "active" /\ opened /\ (\E s \in Streams : last_flow[s] = "WRONG_STATE")
           => \E p \in Executors : EndsFlush(p)
    /\ \A p \in Executors :
           /\ at[p] \in {"flag", "up", "down", "stop_up"} => req[p].flush
           /\ at[p] \in {"close", "segment"} /\ ~res[p] => failed

(* A task pauses because of its seek, another seek, or with a word to      *)
(* downstream.                                                             *)
PauseHasCause ==
    /\ app = "active" /\ loop = "pause" /\ ret = "WRONG_STATE"
           => \E p \in Executors : at[p] # "none"
    /\ app = "active" /\ task = "paused"
           => \/ downEos \/ loop = "eos"
              \/ SegmentDone /\ loop \in {"idle", "top"}
              \/ \E p \in Executors : at[p] # "none"

(* Downstream is in a segment, or is about to be told one.                 *)
SegmentSent ==
    app = "active" /\ opened /\ ~downFlush
        => \/ downSeg # {} \/ failed
           \/ at["loop"] \notin {"none", "restart"}
           \/ \E p \in Executors : at[p] = "segment" /\ res[p]

(* The frame in hand is of this epoch, and a stream that owes its first    *)
(* buffer still has its mark, or cannot send before the next seek.         *)
FrameFresh ==
    /\ loop = "push" => frame.epoch = epoch /\ frame.stream \in Streams
    /\ \/ owed \subseteq discont
       \/ loop \in {"pause", "eos", "open"}
       \/ loop \in {"top", "idle"} /\ (task # "started" \/ ~opened)

PullInv ==
    TypeOK /\ LockDiscipline /\ TaskRuns /\ FlushHasSeek /\ PauseHasCause /\ SegmentSent
    /\ FrameFresh

(* Downstream never gets a buffer outside of a segment, unless a seek has  *)
(* failed after it made downstream flush.                                  *)
DataInSegment == out.seg = {} => failed

(* No buffer that was read ahead of a flushing seek gets downstream after  *)
(* it: the task is out of the way before downstream stops flushing.        *)
NoStaleData == ~out.stale

(* The first buffer of each stream after a seek is marked DISCONT.         *)
DiscontAfterSeek == out.marked

(* The task never ends silently: when nobody seeks any more, a paused task *)
(* has told downstream, by EOS or as the end of a segment.                 *)
NeverSilentlyPaused ==
    app = "active" /\ task = "paused" /\ loop = "idle" /\ (\A p \in Executors : at[p] = "none")
        => downEos \/ SegmentDone

(* Every seek gets the lock, since the task stops on a flush, a pause or   *)
(* the end of the file, and comes to an end.                               *)
SeekReturns ==
    \A p \in Seekers : at[p] # "none" ~> at[p] = "none"

(* A task that runs comes to the end of the file, unless somebody seeks or *)
(* stops it.                                                               *)
PlaysToEnd ==
    task = "started" ~> downEos \/ loop = "eos" \/ app # "active" \/ \E p \in Seekers : at[p] # "none"

(* Neither a seek nor the task hangs.                                      *)
Progress == SeekReturns /\ PlaysToEnd

=============================================================================
