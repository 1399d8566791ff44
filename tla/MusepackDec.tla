----------------------------- MODULE MusepackDec -----------------------------
(***************************************************************************)
(* gstmusepackdec.c: a decoder that pulls.  The task of the sink pad runs  *)
(* gst_musepackdec_loop under the stream lock of the pad; any thread may   *)
(* send a seek, and the application stops the element.                     *)
(*                                                                         *)
(* libmpcdec (external) decodes one unit of samples after the other and    *)
(* seeks to any of them; times are counted in these units.                 *)
(***************************************************************************)
EXTENDS Integers

CONSTANTS
    Duration,       \* of the file, in units of samples
    Seekers,        \* threads that seek
    SeekRequests,   \* what they ask for
    MaxSeeks,       \* bound: seeks in a behaviour
    MaxStarts       \* bound: activations in a behaviour

None == -1          \* no stop; duration of a file that is not open

Request == [flush : BOOLEAN, start : Nat, stop : Nat \cup {None}, segment : BOOLEAN]

ASSUME MusepackAssumption ==
    /\ Duration \in Nat \ {0} /\ MaxSeeks \in Nat /\ MaxStarts \in Nat
    /\ SeekRequests \subseteq Request
    /\ \A r \in SeekRequests : r.stop = None \/ r.start < r.stop
    /\ "loop" \notin Seekers /\ "none" \notin Seekers

VARIABLES
    task,       \* the sink pad's task
    loop,       \* where it is
    lock,       \* who holds the stream lock of the sink pad
    rate,       \* the sample rate is known: the file is open
    segment,    \* dec->segment: start, stop, last_stop and the SEGMENT flag
    pos,        \* what libmpcdec decodes next
    frame,      \* the buffer in the loop's hands
    at, req,    \* where each thread is in gst_musepackdec_handle_seek_event, its request
    downFlush, downSeg, downEos,    \* downstream: flushing, segment, got EOS
    app,        \* where the state change is
    out,        \* history: the last buffer downstream accepted
    epoch,      \* history: number of flushes downstream has seen the end of
    astray,     \* history: a seek failed in libmpcdec, and none has succeeded since
    quiet,      \* history: the loop paused for an error of its own
    turned,     \* history: it paused since downstream turned it down, not flushing
    failed,     \* history: the last seek to end has failed
    seeks, starts       \* counters for the bounds

lvars == <<loop, frame, pos>>
svars == <<at, req>>
downvars == <<downFlush, downSeg, downEos>>
hvars == <<out, epoch, astray, quiet, turned, failed>>
nvars == <<seeks, starts>>
vars == <<task, lock, rate, segment, lvars, svars, downvars, app, hvars, nvars>>

NoReq == [flush |-> FALSE, start |-> 0, stop |-> None, segment |-> FALSE]
SegmentInit == [start |-> 0, stop |-> None, last_stop |-> 0, segment |-> FALSE]
NoFrame == [ts |-> 0, pos |-> 0, epoch |-> 0]

Init ==
    /\ task = "none" /\ loop = "idle" /\ lock = "none"
    /\ rate = FALSE /\ segment = SegmentInit
    /\ pos = 0 /\ frame = NoFrame
    /\ at = [p \in Seekers |-> "none"] /\ req = [p \in Seekers |-> NoReq]
    /\ downFlush = FALSE /\ downSeg = {} /\ downEos = FALSE
    /\ app = "ready"
    /\ out = [frame |-> NoFrame, seg |-> {SegmentInit}, ok |-> TRUE]
    /\ epoch = 0 /\ astray = FALSE /\ quiet = FALSE
    /\ turned = FALSE /\ failed = FALSE
    /\ seeks = 0 /\ starts = 0

-----------------------------------------------------------------------------
(* The task of a pad, and the segment that is sent downstream.             *)
gst_pad_start_task == task' = "started"
gst_pad_pause_task == task' = IF task = "started" THEN "paused" ELSE task

gst_musepackdec_send_newsegment(seg) ==
    downSeg' = IF app = "active" /\ ~downFlush THEN {[start |-> seg.start, stop |-> seg.stop]}
               ELSE downSeg

(* What becomes of a request: times are scaled by the rate, which is 0     *)
(* before the file is open; samples are not.                               *)
Scaled(r) ==
    IF rate THEN {r} ELSE {r, [r EXCEPT !.start = 0, !.stop = IF @ = None THEN None ELSE 0]}

(* gst_musepackdec_handle_seek_event.  A flushing seek makes downstream    *)
(* refuse what the loop pushes, another pauses the task.                   *)
SeekEvent(p, r) ==
    /\ at[p] = "none" /\ app = "active" /\ seeks < MaxSeeks
    /\ seeks' = seeks + 1
    /\ at' = [at EXCEPT ![p] = "lock"]
    /\ req' \in {[req EXCEPT ![p] = s] : s \in Scaled(r)}
    /\ IF r.flush THEN downFlush' = TRUE /\ UNCHANGED task
                  ELSE gst_pad_pause_task /\ UNCHANGED downFlush
    /\ UNCHANGED <<lock, rate, segment, lvars, downSeg, downEos, app, hvars, starts>>

SeekLock(p) ==
    /\ at[p] = "lock" /\ lock = "none"
    /\ lock' = p
    /\ at' = [at EXCEPT ![p] = "seek"]
    /\ UNCHANGED <<task, rate, segment, lvars, req, downvars, app, hvars, nvars>>

(* The seek is out of bounds, also while the duration is not known ...     *)
OutOfBounds(r) == ~rate \/ r.start >= Duration

(* Mutant: the failure path returns with the lock.                         *)
failed_keeps_lock(p) ==
    /\ at[p] = "seek"
    /\ \/ OutOfBounds(req[p]) /\ UNCHANGED <<pos, astray>>
       \/ /\ ~OutOfBounds(req[p])
          /\ pos' \in 0 .. Duration /\ astray' = TRUE
    /\ failed' = TRUE
    /\ at' = [at EXCEPT ![p] = "none"] /\ req' = [req EXCEPT ![p] = NoReq]
    /\ UNCHANGED <<task, lock, rate, segment, loop, frame, downvars, app, out, epoch, quiet,
                   turned, nvars>>

(* ... or libmpcdec fails, and may have moved.  The lock is released and   *)
(* that is all.                                                            *)
SeekFailed(p) ==
    /\ at[p] = "seek"
    /\ \/ OutOfBounds(req[p]) /\ UNCHANGED <<pos, astray>>
       \/ /\ ~OutOfBounds(req[p])
          /\ pos' \in 0 .. Duration /\ astray' = TRUE
    /\ failed' = TRUE
    /\ lock' = "none"
    /\ at' = [at EXCEPT ![p] = "none"] /\ req' = [req EXCEPT ![p] = NoReq]
    /\ UNCHANGED <<task, rate, segment, loop, frame, downvars, app, out, epoch, quiet, turned,
                   nvars>>

(* libmpcdec is where it should be, and the flush ends.                    *)
SeekDone(p) ==
    /\ at[p] = "seek" /\ ~OutOfBounds(req[p])
    /\ pos' = req[p].start /\ astray' = FALSE
    /\ IF req[p].flush
       THEN downFlush' = FALSE /\ downSeg' = {} /\ downEos' = FALSE /\ epoch' = epoch + 1
       ELSE UNCHANGED <<downvars, epoch>>
    /\ at' = [at EXCEPT ![p] = "segment"]
    /\ UNCHANGED <<task, lock, rate, segment, loop, frame, req, app, out, quiet, turned, failed,
                   nvars>>

(* Mutant: only the start and the stop of the segment are taken over.      *)
segment_without_position(p) ==
    /\ at[p] = "segment"
    /\ segment' = [start |-> req[p].start, stop |-> req[p].stop,
                   last_stop |-> segment.last_stop, segment |-> req[p].segment]
    /\ gst_musepackdec_send_newsegment(segment')
    /\ at' = [at EXCEPT ![p] = "start"]
    /\ UNCHANGED <<task, lock, rate, lvars, req, downFlush, downEos, app, hvars, nvars>>

SeekSegment(p) ==
    /\ at[p] = "segment"
    /\ segment' = [start |-> req[p].start, stop |-> req[p].stop, last_stop |-> req[p].start,
                   segment |-> req[p].segment]
    /\ gst_musepackdec_send_newsegment(segment')
    /\ at' = [at EXCEPT ![p] = "start"]
    /\ UNCHANGED <<task, lock, rate, lvars, req, downFlush, downEos, app, hvars, nvars>>

SeekStart(p) ==
    /\ at[p] = "start"
    /\ gst_pad_start_task /\ quiet' = FALSE /\ turned' = FALSE /\ failed' = FALSE
    /\ lock' = "none"
    /\ at' = [at EXCEPT ![p] = "none"] /\ req' = [req EXCEPT ![p] = NoReq]
    /\ UNCHANGED <<rate, segment, lvars, downvars, app, out, epoch, astray, nvars>>

-----------------------------------------------------------------------------
(* The task keeps the stream lock until, between two calls of the loop, it *)
(* is not started any more.                                                *)
LoopLock ==
    /\ task = "started" /\ loop = "idle" /\ lock = "none"
    /\ lock' = "loop" /\ loop' = "top"
    /\ UNCHANGED <<task, rate, segment, pos, frame, svars, downvars, app, hvars, nvars>>

LoopIterate ==
    /\ loop = "top"
    /\ IF task = "started"
       THEN loop' = (IF rate THEN "decode" ELSE "init") /\ UNCHANGED lock
       ELSE loop' = "idle" /\ lock' = "none"
    /\ UNCHANGED <<task, rate, segment, pos, frame, svars, downvars, app, hvars, nvars>>

(* gst_musepack_stream_init: a new decoder begins at the start of the      *)
(* file.  Then the first segment.                                          *)
LoopInit ==
    /\ loop = "init"
    /\ rate' = TRUE /\ pos' = 0 /\ astray' = FALSE
    /\ segment' = [segment EXCEPT !.last_stop = 0]
    /\ gst_musepackdec_send_newsegment(segment')
    /\ loop' = "decode"
    /\ UNCHANGED <<task, lock, frame, svars, downFlush, downEos, app, out, epoch, quiet, turned,
                   failed, nvars>>

(* The file cannot be opened, or a frame not be decoded.                   *)
LoopFailed ==
    /\ loop \in {"init", "decode"}
    /\ loop' = "pause" /\ quiet' = TRUE
    /\ UNCHANGED <<task, lock, rate, segment, pos, frame, svars, downvars, app, out, epoch,
                   astray, turned, failed, nvars>>

(* While it flushes and behind a stop downstream refuses all that comes;   *)
(* otherwise it may refuse a buffer at any time, with any flow but OK: not *)
(* linked, not negotiated, at its end or broken.                           *)
Flushing == downFlush \/ app # "active"
TurnDown == turned' = (turned \/ ~Flushing)

(* No buffer is to be had from downstream: a pause, whatever the flow, and *)
(* nobody is told.                                                         *)
LoopAllocFailed ==
    /\ loop = "decode"
    /\ loop' = "pause" /\ TurnDown
    /\ UNCHANGED <<task, lock, rate, segment, pos, frame, svars, downvars, app, out, epoch,
                   astray, quiet, failed, nvars>>

LoopDecode ==
    /\ loop = "decode" /\ pos < Duration
    /\ frame' = [ts |-> segment.last_stop, pos |-> pos, epoch |-> epoch]
    /\ pos' = pos + 1
    /\ segment' = [segment EXCEPT !.last_stop = @ + 1]
    /\ loop' = "push"
    /\ UNCHANGED <<task, lock, rate, svars, downvars, app, hvars, nvars>>

LoopDecodeEnd ==
    /\ loop = "decode" /\ pos = Duration
    /\ loop' = "eos"
    /\ UNCHANGED <<task, lock, rate, segment, pos, frame, svars, downvars, app, hvars, nvars>>

(* The buffer is pushed; the end of a segment is noticed behind it.        *)
SegmentEnd == segment.stop # None /\ segment.last_stop >= segment.stop

LoopPush ==
    /\ loop = "push" /\ ~Flushing
    /\ out' = [frame |-> frame, seg |-> downSeg,
               ok |-> frame.epoch = epoch /\ (frame.ts = frame.pos \/ astray)]
    /\ loop' = IF ~SegmentEnd THEN "top" ELSE IF segment.segment THEN "pause" ELSE "eos"
    /\ UNCHANGED <<task, lock, rate, segment, pos, frame, svars, downvars, app, epoch, astray,
                   quiet, turned, failed, nvars>>

(* Or it is refused, and is lost: the same silent pause.                   *)
LoopPushRefused ==
    /\ loop = "push"
    /\ loop' = "pause" /\ TurnDown
    /\ UNCHANGED <<task, lock, rate, segment, pos, frame, svars, downvars, app, out, epoch,
                   astray, quiet, failed, nvars>>

LoopEos ==
    /\ loop = "eos"
    /\ downEos' = (downEos \/ ~Flushing)
    /\ loop' = "pause"
    /\ UNCHANGED <<task, lock, rate, segment, pos, frame, svars, downFlush, downSeg, app, hvars,
                   nvars>>

LoopPause ==
    /\ loop = "pause"
    /\ gst_pad_pause_task
    /\ loop' = "top"
    /\ UNCHANGED <<lock, rate, segment, pos, frame, svars, downvars, app, hvars, nvars>>

-----------------------------------------------------------------------------
(* State changes.  Sinks change state first, and hold their state lock     *)
(* while they send a seek upstream: a stop finds no thread in a seek.      *)
Activate ==
    /\ app = "ready" /\ starts < MaxStarts
    /\ starts' = starts + 1
    /\ app' = "active"
    /\ segment' = SegmentInit
    /\ gst_pad_start_task
    /\ downFlush' = FALSE /\ downSeg' = {} /\ downEos' = FALSE
    /\ quiet' = FALSE /\ turned' = FALSE /\ failed' = FALSE
    /\ UNCHANGED <<lock, rate, lvars, svars, out, epoch, astray, seeks>>

(* The source pad first, then the task of the sink pad ...                 *)
StopSrcPad ==
    /\ app = "active" /\ \A p \in Seekers : at[p] = "none"
    /\ app' = "src_pad"
    /\ UNCHANGED <<task, lock, rate, segment, lvars, svars, downvars, hvars, nvars>>

StopTask ==
    /\ app = "src_pad"
    /\ app' = "joining"
    /\ task' = "none"
    /\ UNCHANGED <<lock, rate, segment, lvars, svars, downvars, hvars, nvars>>

(* ... which is joined before gst_musepackdec_change_state resets.         *)
StopJoin ==
    /\ app = "joining" /\ loop = "idle"
    /\ app' = "ready"
    /\ rate' = FALSE /\ segment' = SegmentInit
    /\ UNCHANGED <<task, lock, lvars, svars, downvars, hvars, nvars>>

Seek(p) == SeekLock(p) \/ SeekFailed(p) \/ SeekDone(p) \/ SeekSegment(p) \/ SeekStart(p)

LoopStep == \/ LoopLock \/ LoopIterate \/ LoopInit \/ LoopFailed \/ LoopAllocFailed
            \/ LoopDecode \/ LoopDecodeEnd \/ LoopPush \/ LoopPushRefused
            \/ LoopEos \/ LoopPause

AppStep == StopTask \/ StopJoin

Next == \/ \E p \in Seekers : Seek(p) \/ \E r \in SeekRequests : SeekEvent(p, r)
        \/ LoopStep
        \/ Activate \/ StopSrcPad \/ AppStep

(* Threads that can run do so, and the library, upstream and downstream    *)
(* return from calls.  Nobody has to seek or to stop.                      *)
Fairness ==
    /\ \A p \in Seekers : WF_vars(Seek(p))
    /\ WF_vars(LoopStep) /\ WF_vars(AppStep)

Spec == Init /\ [][Next]_vars /\ Fairness

-----------------------------------------------------------------------------
TypeOK ==
    /\ task \in {"none", "started", "paused"}
    /\ loop \in {"idle", "top", "init", "decode", "push", "eos", "pause"}
    /\ lock \in Seekers \cup {"loop", "none"}
    /\ rate \in BOOLEAN /\ astray \in BOOLEAN
    /\ quiet \in BOOLEAN /\ turned \in BOOLEAN /\ failed \in BOOLEAN
    /\ segment \in [start : Nat, stop : Nat \cup {None}, last_stop : Nat, segment : BOOLEAN]
    /\ pos \in 0 .. Duration /\ frame \in [ts : Nat, pos : Nat, epoch : Nat] /\ epoch \in Nat
    /\ at \in [Seekers -> {"none", "lock", "seek", "segment", "start"}]
    /\ req \in [Seekers -> Request]
    /\ downFlush \in BOOLEAN /\ downEos \in BOOLEAN
    /\ app \in {"ready", "active", "src_pad", "joining"}

(* The loop, from idle to idle, and a seek, from its lock to its unlock,   *)
(* exclude each other, and the task is gone before the element is reset.   *)
LockDiscipline ==
    /\ lock = "loop" <=> loop # "idle"
    /\ \A p \in Seekers : at[p] \in {"seek", "segment", "start"} <=> lock = p
    /\ app = "ready" => task = "none" /\ loop = "idle" /\ ~rate
    /\ loop \in {"decode", "push", "eos"} => rate

(* A stop finds no thread in a seek, and takes the task away; a seek goes  *)
(* through only in an open file, and a file that is not open has played    *)
(* nothing.                                                                *)
Stages ==
    /\ \A p \in Seekers : at[p] # "none" => app = "active"
    /\ \A p \in Seekers : at[p] \in {"segment", "start"} => rate
    /\ app = "joining" => task = "none"
    /\ loop = "init" => ~rate
    /\ ~rate => segment = SegmentInit

(* The seek that has moved the decoder and not yet the clock.              *)
BeforeSegment == \E p \in Seekers : at[p] = "segment"

(* The clock of the element is the position of the decoder, a seek that    *)
(* has moved the decoder moves the clock there, and a buffer in the loop's *)
(* hands was decoded behind the last flush.                                *)
ClockAgrees ==
    /\ rate /\ ~BeforeSegment => segment.last_stop = pos \/ astray
    /\ \A p \in Seekers : at[p] = "segment" => pos = req[p].start
    /\ loop = "push" => frame.epoch = epoch /\ (frame.ts = frame.pos \/ astray)

(* A buffer downstream has the time of the samples in it, and was decoded  *)
(* behind the last flush: two seeks that overlap, a restart and a seek     *)
(* that fails in its bounds do not part the clock of the element from the  *)
(* position of the decoder.                                                *)
ClockFollowsDecoder == out.ok

(* A time in a segment; an empty one has its start.                        *)
Within(t, s) == s.start <= t /\ (s.stop = None \/ t < s.stop \/ t = s.start)

(* Where the loop may decode, the clock is in the segment, and downstream  *)
(* has that one unless it will refuse the buffer.                          *)
ClockInSegment ==
    /\ loop = "decode" \/ (loop \in {"idle", "top"} /\ task = "started")
         => Within(segment.last_stop, segment)
    /\ \A p \in Seekers : at[p] = "start" => Within(segment.last_stop, segment)
    /\ loop = "push" => Within(frame.ts, segment) /\ segment.last_stop = frame.ts + 1
    /\ app = "active" /\ ~downFlush /\ rate /\ ~BeforeSegment
         => downSeg = {[start |-> segment.start, stop |-> segment.stop]}

(* A buffer downstream lies in the segment downstream has, also after a    *)
(* restart and after a seek that failed: only an empty segment, as after a *)
(* seek that was scaled before the rate was known, gets one buffer at its  *)
(* start.                                                                  *)
DataInSegment == \E s \in out.seg : Within(out.frame.ts, s)

(* Why a task may stay paused: somebody was told of the end of the file or *)
(* segment or of an error of the element, or nobody was told: downstream   *)
(* turned a buffer down, or a seek failed, and if it was a flushing one    *)
(* left downstream flushing for the seeks that come after it.              *)
Told == downEos \/ quiet \/ (SegmentEnd /\ segment.segment)
Cause == Told \/ turned \/ failed \/ downFlush

(* A seek is on its way, which ends with a failure or starts the task.     *)
Seeking == \E p \in Seekers : at[p] # "none"

(* The loop neither pauses nor stays paused but for a cause, or for a seek *)
(* that will start it again.                                               *)
PauseHasCause == app = "active" /\ (task = "paused" \/ loop = "pause") => Cause \/ Seeking

(* A task that has paused while nobody seeks has been at an end, in error, *)
(* turned down by downstream, or failed by a seek: a pause one seek asked  *)
(* for, or its flush caused, does not outlive the seeks.  The last two are *)
(* silent in the code: whoever waits for an EOS or an error waits for ever.*)
NeverSilentlyPaused ==
    app = "active" /\ task = "paused" /\ loop = "idle" /\ ~Seeking => Cause

(* Two seekers, the loop and the application leave the clock, the segment  *)
(* of downstream and the task as the parts say.                            *)
MusepackInv ==
    /\ TypeOK /\ LockDiscipline /\ Stages
    /\ ClockAgrees /\ ClockFollowsDecoder
    /\ ClockInSegment /\ DataInSegment
    /\ PauseHasCause

(* Every seek comes to an end, also one that waits while the task runs.    *)
SeekReturns == \A p \in Seekers : at[p] # "none" ~> at[p] = "none"

=============================================================================
