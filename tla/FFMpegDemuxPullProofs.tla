----------------------- MODULE FFMpegDemuxPullProofs -----------------------
(***************************************************************************)
(* Proofs about the pull mode of the ffmpeg demuxer, for any number of     *)
(* threads that seek, streams, frames, seeks and activations.              *)
(***************************************************************************)
EXTENDS FFMpegDemuxPull, TLAPS

(* The initial request and segment are of their types.                     *)
LEMMA InitTypes == NoReq \in Request /\ SegmentInit \in Segment
BY DEF NoReq, Request, SegmentInit, Segment

(* A set of flow results with at least one member has a worst one.         *)
LEMMA WorstIsFlow ==
    ASSUME NEW F, F \subseteq Flow, F # {}
    PROVE  Worst(F) \in F /\ \A q \in F : FlowCode[Worst(F)] <= FlowCode[q]
<1>1. /\ FlowCode["OK"] = 0 /\ FlowCode["NOT_LINKED"] = -1
      /\ FlowCode["WRONG_STATE"] = -2 /\ FlowCode["UNEXPECTED"] = -3
      /\ FlowCode["ERROR"] = -5
  BY DEF FlowCode
<1>2. \E r \in F : \A q \in F : FlowCode[r] <= FlowCode[q]
  <2>1. CASE "ERROR" \in F
    BY <1>1, <2>1 DEF Flow
  <2>2. CASE "ERROR" \notin F /\ "UNEXPECTED" \in F
    BY <1>1, <2>2 DEF Flow
  <2>3. CASE F \subseteq {"OK", "NOT_LINKED", "WRONG_STATE"} /\ "WRONG_STATE" \in F
    BY <1>1, <2>3
  <2>4. CASE F \subseteq {"OK", "NOT_LINKED"} /\ "NOT_LINKED" \in F
    BY <1>1, <2>4
  <2>5. CASE F = {"OK"}
    BY <1>1, <2>5
  <2> QED BY <2>1, <2>2, <2>3, <2>4, <2>5 DEF Flow
<1> QED BY <1>2 DEF Worst

(* The aggregated flow is a flow result; WRONG_STATE of one stream never   *)
(* aggregates to OK, and comes from a stream.                              *)
LEMMA Aggregated ==
    ASSUME NEW lf \in [Streams -> Flow]
    PROVE  LET agg == gst_ffmpegdemux_aggregated_flow(lf) IN
           /\ agg \in Flow
           /\ (\E s \in Streams : lf[s] = "WRONG_STATE") => agg # "OK"
           /\ agg = "WRONG_STATE" => \E s \in Streams : lf[s] = "WRONG_STATE"
<1> DEFINE F == {lf[s] : s \in Streams} \cup {"OK"}
<1>1. F \subseteq Flow /\ F # {}
  BY DEF Flow
<1>2. Worst(F) \in F /\ \A q \in F : FlowCode[Worst(F)] <= FlowCode[q]
  BY <1>1, WorstIsFlow
<1>3. (\E s \in Streams : lf[s] = "WRONG_STATE") => Worst(F) \notin {"OK", "NOT_LINKED"}
  <2> SUFFICES ASSUME NEW s \in Streams, lf[s] = "WRONG_STATE"
               PROVE  Worst(F) \notin {"OK", "NOT_LINKED"}
    OBVIOUS
  <2>1. "WRONG_STATE" \in F
    OBVIOUS
  <2>2. FlowCode[Worst(F)] <= FlowCode["WRONG_STATE"]
    BY <1>2, <2>1
  <2> QED BY <2>2 DEF FlowCode
<1>4. Worst(F) = "WRONG_STATE" => \E s \in Streams : lf[s] = "WRONG_STATE"
  BY <1>2
<1> HIDE DEF F
<1> QED BY <1>1, <1>2, <1>3, <1>4 DEF gst_ffmpegdemux_aggregated_flow, F, Flow

(* Each frame of the file has a stream and a time, or none.                *)
LEMMA FileFrames ==
    \A i \in DOMAIN File : File[i] \in [stream : Streams, ts : Nat \cup {None}]
<1> DEFINE S == [stream : Streams, ts : Nat \cup {None}]
<1>1. File \in Seq(S)
  BY PullAssumption
<1> HIDE DEF S
<1>2. \A i \in DOMAIN File : File[i] \in S
  BY <1>1
<1> QED BY <1>2 DEF S

(* A seek that is cached or begins to be performed keeps the invariant: it *)
(* takes no lock and moves no data.                                        *)
LEMMA SeekEvent_Inv ==
    ASSUME PullInv, NEW p \in Seekers, NEW r \in SeekRequests, SeekEvent(p, r)
    PROVE  PullInv'
<1> USE PullAssumption DEF dvars, fvars, lvars, svars, downvars, hvars, nvars
<1>1. TypeOK'
  <2>1. r \in Request
    BY PullAssumption
  <2>2. at' \in [Executors -> {"none", "flag", "up", "down", "pause", "lock"} \cup LockedAt]
    BY DEF PullInv, TypeOK, SeekEvent, FirstStep
  <2>3. req' \in [Executors -> Request] /\ seek_event' \in Request
    BY <2>1 DEF PullInv, TypeOK, SeekEvent
  <2> QED BY <2>1, <2>2, <2>3 DEF PullInv, TypeOK, SeekEvent, Flow, LockedAt, Executors
<1>2. LockDiscipline'
  BY DEF PullInv, TypeOK, LockDiscipline, SeekEvent, FirstStep, LockedAt, Executors
<1>3. TaskRuns'
  BY DEF PullInv, TaskRuns, SeekEvent
<1>4. FlushHasSeek'
  BY DEF PullInv, TypeOK, FlushHasSeek, SeekEvent, FirstStep, EndsFlush
<1>5. PauseHasCause'
  BY DEF PullInv, TypeOK, PauseHasCause, SeekEvent, SegmentDone
<1>6. SegmentSent'
  BY DEF PullInv, TypeOK, SegmentSent, SeekEvent, Executors
<1>7. FrameFresh'
  BY DEF PullInv, FrameFresh, SeekEvent
<1> QED BY <1>1, <1>2, <1>3, <1>4, <1>5, <1>6, <1>7 DEF PullInv

(* So does setting the flushing flag, of which the invariant only says     *)
(* that it has a seek behind it.                                           *)
LEMMA SeekFlag_Inv ==
    ASSUME PullInv, NEW p \in Executors, SeekFlag(p)
    PROVE  PullInv'
<1> USE PullAssumption DEF dvars, fvars, lvars, svars, downvars, hvars, nvars
<1>1. TypeOK'
  BY InitTypes DEF PullInv, TypeOK, SeekFlag
<1>2. LockDiscipline'
  BY DEF PullInv, LockDiscipline, SeekFlag, LockedAt
<1>3. TaskRuns'
  BY DEF PullInv, TaskRuns, SeekFlag
<1>4. FlushHasSeek'
  BY DEF PullInv, TypeOK, FlushHasSeek, SeekFlag, EndsFlush
<1>5. PauseHasCause'
  BY DEF PauseHasCause, SeekFlag
<1>6. SegmentSent'
  BY DEF PullInv, SegmentSent, SeekFlag
<1>7. FrameFresh'
  BY DEF PullInv, FrameFresh, SeekFlag
<1> QED BY <1>1, <1>2, <1>3, <1>4, <1>5, <1>6, <1>7 DEF PullInv

(* FLUSH_START upstream: the seek that sent it will take it back.          *)
LEMMA SeekFlushStartUp_Inv ==
    ASSUME PullInv, NEW p \in Executors, SeekFlushStartUp(p)
    PROVE  PullInv'
<1> USE PullAssumption DEF dvars, fvars, lvars, svars, downvars, hvars, nvars
<1>1. TypeOK'
  BY InitTypes DEF PullInv, TypeOK, SeekFlushStartUp
<1>2. LockDiscipline'
  BY DEF PullInv, LockDiscipline, SeekFlushStartUp, LockedAt
<1>3. TaskRuns'
  BY DEF PullInv, TaskRuns, SeekFlushStartUp
<1>4. FlushHasSeek'
  BY DEF PullInv, FlushHasSeek, SeekFlushStartUp, EndsFlush
<1>5. PauseHasCause'
  BY DEF PauseHasCause, SeekFlushStartUp
<1>6. SegmentSent'
  BY DEF PullInv, SegmentSent, SeekFlushStartUp
<1>7. FrameFresh'
  BY DEF PullInv, FrameFresh, SeekFlushStartUp
<1> QED BY <1>1, <1>2, <1>3, <1>4, <1>5, <1>6, <1>7 DEF PullInv

(* FLUSH_START downstream: likewise, unless the pads are deactivated.      *)
LEMMA SeekFlushStartDown_Inv ==
    ASSUME PullInv, NEW p \in Executors, SeekFlushStartDown(p)
    PROVE  PullInv'
<1> USE PullAssumption DEF dvars, fvars, lvars, svars, downvars, hvars, nvars
<1>1. TypeOK'
  BY InitTypes DEF PullInv, TypeOK, SeekFlushStartDown
<1>2. LockDiscipline'
  BY DEF PullInv, LockDiscipline, SeekFlushStartDown, LockedAt
<1>3. TaskRuns'
  BY DEF PullInv, TaskRuns, SeekFlushStartDown
<1>4. FlushHasSeek'
  BY DEF PullInv, TypeOK, FlushHasSeek, SeekFlushStartDown, EndsFlush
<1>5. PauseHasCause'
  BY DEF PauseHasCause, SeekFlushStartDown
<1>6. SegmentSent'
  BY DEF SegmentSent, SeekFlushStartDown, PadsActive
<1>7. FrameFresh'
  BY DEF PullInv, FrameFresh, SeekFlushStartDown
<1> QED BY <1>1, <1>2, <1>3, <1>4, <1>5, <1>6, <1>7 DEF PullInv

(* The pause of a non-flushing seek: it has a cause, the seek.             *)
LEMMA SeekPause_Inv ==
    ASSUME PullInv, NEW p \in Executors, SeekPause(p)
    PROVE  PullInv'
<1> USE PullAssumption DEF dvars, fvars, lvars, svars, downvars, hvars, nvars
<1>1. TypeOK'
  BY InitTypes DEF PullInv, TypeOK, SeekPause, gst_pad_pause_task
<1>2. LockDiscipline'
  BY DEF PullInv, LockDiscipline, SeekPause, gst_pad_pause_task, LockedAt
<1>3. TaskRuns'
  BY DEF PullInv, TaskRuns, SeekPause, gst_pad_pause_task
<1>4. FlushHasSeek'
  BY DEF PullInv, FlushHasSeek, SeekPause, gst_pad_pause_task, EndsFlush
<1>5. PauseHasCause'
  BY DEF PauseHasCause, SeekPause, gst_pad_pause_task
<1>6. SegmentSent'
  BY DEF PullInv, SegmentSent, SeekPause, gst_pad_pause_task
<1>7. FrameFresh'
  BY DEF PullInv, FrameFresh, SeekPause, gst_pad_pause_task
<1> QED BY <1>1, <1>2, <1>3, <1>4, <1>5, <1>6, <1>7 DEF PullInv

(* The stream lock goes from nobody, or from the task that seeks itself,   *)
(* to the seek.                                                            *)
LEMMA SeekLock_Inv ==
    ASSUME PullInv, NEW p \in Executors, SeekLock(p)
    PROVE  PullInv'
<1> USE PullAssumption DEF dvars, fvars, lvars, svars, downvars, hvars, nvars
<1>1. TypeOK'
  BY InitTypes DEF PullInv, TypeOK, SeekLock, LockedAt
<1>2. LockDiscipline'
  BY DEF PullInv, TypeOK, LockDiscipline, SeekLock, LockedAt
<1>3. TaskRuns'
  BY DEF PullInv, TaskRuns, SeekLock
<1>4. FlushHasSeek'
  <2>1. \A q \in Executors : EndsFlush(q) => EndsFlush(q)'
    BY DEF SeekLock, EndsFlush
  <2>2. \A q \in Executors : req[q].flush /\ at[q] \in {"up", "down", "lock", "stop_up"} =>
       at'[q] \in {"up", "down", "lock", "stop_up"}
    BY DEF SeekLock
  <2>3. \A q \in Executors : at'[q] \in {"flag", "up", "down", "stop_up"} => req[q].flush
    BY DEF PullInv, FlushHasSeek, SeekLock
  <2>4. \A q \in Executors : at'[q] \in {"close", "segment"} /\ ~res[q] => failed
    BY DEF PullInv, FlushHasSeek, SeekLock
  <2> QED BY <2>1, <2>2, <2>3, <2>4 DEF PullInv, FlushHasSeek, SeekLock
<1>5. PauseHasCause'
  BY DEF PauseHasCause, SeekLock
<1>6. SegmentSent'
  BY DEF PullInv, SegmentSent, SeekLock
<1>7. FrameFresh'
  BY DEF PullInv, FrameFresh, SeekLock
<1> QED BY <1>1, <1>2, <1>3, <1>4, <1>5, <1>6, <1>7 DEF PullInv

(* FLUSH_STOP upstream: only the owner of the stream lock sends it.        *)
LEMMA SeekFlushStopUp_Inv ==
    ASSUME PullInv, NEW p \in Executors, SeekFlushStopUp(p)
    PROVE  PullInv'
<1> USE PullAssumption DEF dvars, fvars, lvars, svars, downvars, hvars, nvars
<1>1. TypeOK'
  <2>1. flushing' \in BOOLEAN
    BY Zenon DEF SeekFlushStopUp
  <2>2. upFlush' \in BOOLEAN
    BY Zenon DEF SeekFlushStopUp
  <2> QED BY <2>1, <2>2 DEF PullInv, TypeOK, SeekFlushStopUp, Flow, LockedAt, Executors
<1>2. LockDiscipline'
  BY DEF PullInv, LockDiscipline, SeekFlushStopUp, LockedAt
<1>3. TaskRuns'
  BY DEF PullInv, TaskRuns, SeekFlushStopUp
<1>4. FlushHasSeek'
  BY DEF PullInv, FlushHasSeek, SeekFlushStopUp, EndsFlush
<1>5. PauseHasCause'
  BY DEF PauseHasCause, SeekFlushStopUp
<1>6. SegmentSent'
  BY DEF PullInv, SegmentSent, SeekFlushStopUp
<1>7. FrameFresh'
  BY DEF PullInv, FrameFresh, SeekFlushStopUp
<1> QED BY <1>1, <1>2, <1>3, <1>4, <1>5, <1>6, <1>7 DEF PullInv

(* libavformat's seek: the segment and the position change, under the      *)
(* lock.                                                                   *)
LEMMA gst_ffmpegdemux_do_seek_Inv ==
    ASSUME PullInv, NEW p \in Executors, gst_ffmpegdemux_do_seek(p)
    PROVE  PullInv'
<1> USE PullAssumption DEF dvars, fvars, lvars, svars, downvars, hvars, nvars
<1>1. TypeOK'
  <2>1. pos' \in Nat \ {0}
    BY PullAssumption DEF PullInv, TypeOK, SeekPoints, gst_ffmpegdemux_do_seek
  <2>2. \A t \in Targets(req[p].start) : t \in Nat
    BY PullAssumption DEF PullInv, TypeOK, Targets, Request
  <2>3. \A t \in Nat : [req[p] EXCEPT !.start = t] \in Request
    BY DEF PullInv, TypeOK, Request
  <2>4. req' \in [Executors -> Request]
    BY <2>2, <2>3 DEF PullInv, TypeOK, gst_ffmpegdemux_do_seek
  <2>5. failed' \in BOOLEAN
    BY Zenon DEF PullInv, TypeOK, gst_ffmpegdemux_do_seek
  <2>6. res' \in [Executors -> BOOLEAN]
    BY DEF PullInv, TypeOK, gst_ffmpegdemux_do_seek
  <2> QED BY <2>1, <2>2, <2>3, <2>4, <2>5, <2>6 DEF PullInv, TypeOK, gst_ffmpegdemux_do_seek,
       Flow, LockedAt, Executors
<1>2. LockDiscipline'
  BY DEF PullInv, LockDiscipline, gst_ffmpegdemux_do_seek, LockedAt
<1>3. TaskRuns'
  BY DEF PullInv, TaskRuns, gst_ffmpegdemux_do_seek
<1>4. FlushHasSeek'
  <2>1. \A q \in Executors : req'[q].flush = req[q].flush
    BY DEF PullInv, TypeOK, Request, gst_ffmpegdemux_do_seek
  <2>2. \A q \in Executors : EndsFlush(q) => EndsFlush(q)'
    BY <2>1 DEF gst_ffmpegdemux_do_seek, EndsFlush
  <2>3. \A q \in Executors : at[q] \in {"up", "down", "lock", "stop_up"} => at'[q] \in {"up",
       "down", "lock", "stop_up"}
    BY DEF gst_ffmpegdemux_do_seek
  <2>4. \A q \in Executors : at'[q] \in {"flag", "up", "down", "stop_up"} => req'[q].flush
    BY <2>1 DEF PullInv, FlushHasSeek, gst_ffmpegdemux_do_seek
  <2>5. \A q \in Executors : at'[q] \in {"close", "segment"} /\ ~res'[q] => failed'
    BY DEF PullInv, TypeOK, FlushHasSeek, gst_ffmpegdemux_do_seek
  <2> QED BY <2>1, <2>2, <2>3, <2>4, <2>5 DEF PullInv, FlushHasSeek, dvars, downvars, fvars,
       gst_ffmpegdemux_do_seek
<1>5. PauseHasCause'
  BY DEF PauseHasCause, gst_ffmpegdemux_do_seek
<1>6. SegmentSent'
  BY DEF PullInv, TypeOK, SegmentSent, gst_ffmpegdemux_do_seek
<1>7. FrameFresh'
  BY DEF PullInv, FrameFresh, gst_ffmpegdemux_do_seek
<1> QED BY <1>1, <1>2, <1>3, <1>4, <1>5, <1>6, <1>7 DEF PullInv

(* The end of the flush, or the closing segment, under the lock: the       *)
(* frames in hand are those of the epoch that begins.                      *)
LEMMA SeekClose_Inv ==
    ASSUME PullInv, NEW p \in Executors, SeekClose(p)
    PROVE  PullInv'
<1> USE PullAssumption DEF dvars, fvars, lvars, svars, downvars, hvars, nvars
<1>1. TypeOK'
  <2>1. downFlush' \in BOOLEAN /\ downEos' \in BOOLEAN
    BY Zenon DEF PullInv, TypeOK, SeekClose
  <2>2. last_flow' \in [Streams -> Flow]
    BY DEF PullInv, TypeOK, SeekClose, Flow
  <2> QED BY <2>1, <2>2 DEF PullInv, TypeOK, SeekClose, PadsActive, Flow, LockedAt, Executors
<1>2. LockDiscipline'
  BY DEF PullInv, LockDiscipline, SeekClose, LockedAt
<1>3. TaskRuns'
  BY DEF PullInv, TaskRuns, SeekClose
<1>4. FlushHasSeek'
  BY DEF PullInv, FlushHasSeek, SeekClose, EndsFlush
<1>5. PauseHasCause'
  BY DEF PauseHasCause, SeekClose
<1>6. SegmentSent'
  BY DEF PullInv, TypeOK, FlushHasSeek, SegmentSent, SeekClose
<1>7. FrameFresh'
  BY DEF PullInv, TypeOK, LockDiscipline, FrameFresh, Executors, SeekClose
<1> QED BY <1>1, <1>2, <1>3, <1>4, <1>5, <1>6, <1>7 DEF PullInv

(* The new segment, if the seek went well.                                 *)
LEMMA SeekSegment_Inv ==
    ASSUME PullInv, NEW p \in Executors, SeekSegment(p)
    PROVE  PullInv'
<1> USE PullAssumption DEF dvars, fvars, lvars, svars, downvars, hvars, nvars
<1>1. TypeOK'
  BY DEF PullInv, TypeOK, SeekSegment, NewSegment, Request, Segment, SegmentInit, NoReq, LockedAt
<1>2. LockDiscipline'
  BY DEF PullInv, LockDiscipline, SeekSegment, NewSegment, LockedAt
<1>3. TaskRuns'
  BY DEF PullInv, TaskRuns, SeekSegment, NewSegment
<1>4. FlushHasSeek'
  BY DEF PullInv, FlushHasSeek, SeekSegment, NewSegment, EndsFlush
<1>5. PauseHasCause'
  BY DEF PauseHasCause, SeekSegment, NewSegment
<1>6. SegmentSent'
  <2>1. res[p] /\ app = "active" /\ ~downFlush => downSeg' # {}
    BY DEF SeekSegment, NewSegment, PadsActive
  <2>2. ~res[p] => failed
    BY DEF PullInv, FlushHasSeek, SeekSegment
  <2>3. failed' = failed /\ app' = app /\ downFlush' = downFlush
    BY DEF SeekSegment, dvars
  <2> QED BY <2>1, <2>2, <2>3 DEF SegmentSent
<1>7. FrameFresh'
  BY DEF PullInv, FrameFresh, SeekSegment, NewSegment
<1> QED BY <1>1, <1>2, <1>3, <1>4, <1>5, <1>6, <1>7 DEF PullInv

(* The seek restarts the task and releases the lock: a task that is paused *)
(* after this has another cause.                                           *)
LEMMA SeekRestart_Inv ==
    ASSUME PullInv, NEW p \in Executors, SeekRestart(p)
    PROVE  PullInv'
<1> USE PullAssumption DEF dvars, fvars, lvars, svars, downvars, hvars, nvars
<1>1. TypeOK'
  BY InitTypes DEF PullInv, TypeOK, SeekRestart, gst_pad_start_task
<1>2. LockDiscipline'
  BY DEF PullInv, TypeOK, LockDiscipline, SeekRestart, gst_pad_start_task, LockedAt, Executors
<1>3. TaskRuns'
  BY DEF PullInv, TypeOK, LockDiscipline, TaskRuns, SeekRestart, gst_pad_start_task, Executors
<1>4. FlushHasSeek'
  BY DEF PullInv, FlushHasSeek, SeekRestart, gst_pad_start_task, EndsFlush
<1>5. PauseHasCause'
  BY DEF PullInv, TypeOK, LockDiscipline, PauseHasCause, SeekRestart, gst_pad_start_task,
       Executors
<1>6. SegmentSent'
  BY DEF PullInv, SegmentSent, SeekRestart, gst_pad_start_task
<1>7. FrameFresh'
  BY DEF PullInv, FrameFresh, SeekRestart, gst_pad_start_task
<1> QED BY <1>1, <1>2, <1>3, <1>4, <1>5, <1>6, <1>7 DEF PullInv

(* The task takes the stream lock to begin.                                *)
LEMMA LoopLock_Inv ==
    ASSUME PullInv, LoopLock
    PROVE  PullInv'
<1> USE PullAssumption DEF dvars, fvars, lvars, svars, downvars, hvars, nvars
<1>1. TypeOK'
  BY InitTypes DEF PullInv, TypeOK, LoopLock, Executors
<1>2. LockDiscipline'
  BY DEF PullInv, LockDiscipline, LoopLock
<1>3. TaskRuns'
  BY DEF PullInv, TaskRuns, LoopLock
<1>4. FlushHasSeek'
  BY DEF PullInv, FlushHasSeek, LoopLock, EndsFlush
<1>5. PauseHasCause'
  BY DEF PauseHasCause, LoopLock
<1>6. SegmentSent'
  BY DEF PullInv, SegmentSent, LoopLock
<1>7. FrameFresh'
  BY DEF PullInv, FrameFresh, LoopLock
<1> QED BY <1>1, <1>2, <1>3, <1>4, <1>5, <1>6, <1>7 DEF PullInv

(* The loop begins an iteration or lets go of the lock after a pause.      *)
LEMMA LoopIterate_Inv ==
    ASSUME PullInv, LoopIterate
    PROVE  PullInv'
<1> USE PullAssumption DEF dvars, fvars, lvars, svars, downvars, hvars, nvars
<1>1. TypeOK'
  BY InitTypes DEF PullInv, TypeOK, LoopIterate
<1>2. LockDiscipline'
  BY DEF PullInv, LockDiscipline, LoopIterate
<1>3. TaskRuns'
  BY DEF PullInv, TaskRuns, LoopIterate
<1>4. FlushHasSeek'
  BY DEF PullInv, FlushHasSeek, LoopIterate, EndsFlush
<1>5. PauseHasCause'
  BY DEF PullInv, PauseHasCause, LoopIterate, SegmentDone
<1>6. SegmentSent'
  BY DEF PullInv, SegmentSent, LoopIterate
<1>7. FrameFresh'
  BY DEF PullInv, FrameFresh, LoopIterate
<1> QED BY <1>1, <1>2, <1>3, <1>4, <1>5, <1>6, <1>7 DEF PullInv

(* The open sends the first segment, or begins the cached seek.            *)
LEMMA LoopOpened_Inv ==
    ASSUME PullInv, LoopOpened
    PROVE  PullInv'
<1> USE PullAssumption DEF dvars, fvars, lvars, svars, downvars, hvars, nvars
<1>1. TypeOK'
  BY InitTypes DEF PullInv, TypeOK, LoopOpened, NewSegment, FirstStep, Flow
<1>2. LockDiscipline'
  BY DEF PullInv, TypeOK, LockDiscipline, LoopOpened, NewSegment, FirstStep, Executors
<1>3. TaskRuns'
  BY DEF PullInv, TypeOK, TaskRuns, LoopOpened, NewSegment, FirstStep, Executors
<1>4. FlushHasSeek'
  BY DEF PullInv, TypeOK, LockDiscipline, FlushHasSeek, LoopOpened, PadsActive, NewSegment,
       FirstStep, EndsFlush
<1>5. PauseHasCause'
  BY DEF PullInv, TypeOK, PauseHasCause, LoopOpened, NewSegment, FirstStep
<1>6. SegmentSent'
  <2>1. CASE seek_event # NoReq
    BY <2>1 DEF PullInv, TypeOK, SegmentSent, Executors, LoopOpened, FirstStep
  <2>2. seek_event = NoReq /\ app = "active" /\ ~downFlush => downSeg' # {}
    BY DEF LoopOpened, NewSegment, PadsActive
  <2>3. CASE seek_event = NoReq
    BY <2>2, <2>3 DEF SegmentSent, LoopOpened
  <2> QED BY <2>1, <2>2, <2>3 DEF SegmentSent
<1>7. FrameFresh'
  BY DEF FrameFresh, LoopOpened, NewSegment, FirstStep
<1> QED BY <1>1, <1>2, <1>3, <1>4, <1>5, <1>6, <1>7 DEF PullInv

(* An open that fails pauses the task with a result that is reported.      *)
LEMMA LoopOpenFailed_Inv ==
    ASSUME PullInv, LoopOpenFailed
    PROVE  PullInv'
<1> USE PullAssumption DEF dvars, fvars, lvars, svars, downvars, hvars, nvars
<1>1. TypeOK'
  BY InitTypes DEF PullInv, TypeOK, LoopOpenFailed, Flow
<1>2. LockDiscipline'
  BY DEF PullInv, LockDiscipline, LoopOpenFailed
<1>3. TaskRuns'
  BY DEF PullInv, TaskRuns, LoopOpenFailed
<1>4. FlushHasSeek'
  BY DEF PullInv, FlushHasSeek, LoopOpenFailed, EndsFlush
<1>5. PauseHasCause'
  BY DEF PullInv, PauseHasCause, LoopOpenFailed
<1>6. SegmentSent'
  BY DEF PullInv, SegmentSent, LoopOpenFailed
<1>7. FrameFresh'
  BY DEF FrameFresh, LoopOpenFailed
<1> QED BY <1>1, <1>2, <1>3, <1>4, <1>5, <1>6, <1>7 DEF PullInv

(* The loop reads a frame in the epoch of the moment; downstream's flush   *)
(* cannot end while it holds it.                                           *)
LEMMA LoopRead_Inv ==
    ASSUME PullInv, LoopRead
    PROVE  PullInv'
<1> USE PullAssumption DEF dvars, fvars, lvars, svars, downvars, hvars, nvars
<1>1. TypeOK'
  <2>1. pos \in DOMAIN File /\ pos' \in Nat \ {0}
    BY PullAssumption DEF PullInv, TypeOK, LoopRead
  <2>2. File[pos].stream \in Streams
    BY <2>1, FileFrames
  <2>3. ended' \subseteq Streams /\ outputted' \subseteq Streams
    BY <2>2 DEF PullInv, TypeOK, LoopRead
  <2>4. ret' \in Flow
    BY DEF PullInv, TypeOK, LoopRead, Flow
  <2>5. loop' \in {"top", "pause", "push"}
    BY DEF LoopRead
  <2> QED BY <2>1, <2>2, <2>3, <2>4, <2>5 DEF PullInv, TypeOK, LoopRead, Flow, LockedAt, Executors
<1>2. LockDiscipline'
  BY DEF PullInv, LockDiscipline, LoopRead
<1>3. TaskRuns'
  BY DEF PullInv, TaskRuns, LoopRead
<1>4. FlushHasSeek'
  BY DEF PullInv, FlushHasSeek, LoopRead, EndsFlush
<1>5. PauseHasCause'
  BY DEF PullInv, PauseHasCause, LoopRead
<1>6. SegmentSent'
  BY DEF PullInv, SegmentSent, LoopRead
<1>7. FrameFresh'
  <2>1. pos \in DOMAIN File
    BY PullAssumption DEF PullInv, TypeOK, LoopRead
  <2>2. File[pos].stream \in Streams
    BY <2>1, FileFrames
  <2>3. loop' = "push" => frame'.epoch = epoch /\ frame'.stream \in Streams
    BY <2>2 DEF LoopRead
  <2>4. owed \subseteq discont
    BY DEF PullInv, FrameFresh, LoopRead
  <2> QED BY <2>1, <2>2, <2>3, <2>4 DEF FrameFresh, LoopRead, fvars, hvars
<1> QED BY <1>1, <1>2, <1>3, <1>4, <1>5, <1>6, <1>7 DEF PullInv

(* A read that fails is the end of the file or a flush.                    *)
LEMMA LoopReadFailed_Inv ==
    ASSUME PullInv, LoopReadFailed
    PROVE  PullInv'
<1> USE PullAssumption DEF dvars, fvars, lvars, svars, downvars, hvars, nvars
<1>1. TypeOK'
  BY InitTypes DEF PullInv, TypeOK, LoopReadFailed, Flow
<1>2. LockDiscipline'
  BY DEF PullInv, LockDiscipline, LoopReadFailed
<1>3. TaskRuns'
  BY DEF PullInv, TaskRuns, LoopReadFailed
<1>4. FlushHasSeek'
  BY DEF PullInv, FlushHasSeek, LoopReadFailed, EndsFlush
<1>5. PauseHasCause'
  BY DEF PullInv, FlushHasSeek, PauseHasCause, LoopReadFailed
<1>6. SegmentSent'
  BY DEF PullInv, SegmentSent, LoopReadFailed
<1>7. FrameFresh'
  BY DEF FrameFresh, LoopReadFailed
<1> QED BY <1>1, <1>2, <1>3, <1>4, <1>5, <1>6, <1>7 DEF PullInv

(* An allocation that fails: the aggregated flow is the result.            *)
LEMMA LoopAllocFailed_Inv ==
    ASSUME PullInv, NEW r \in Flow, LoopAllocFailed(r)
    PROVE  PullInv'
<1> USE PullAssumption DEF dvars, fvars, lvars, svars, downvars, hvars, nvars
<1> DEFINE allocated == [last_flow EXCEPT ![frame.stream] = "OK"]
           pushed == [last_flow EXCEPT ![frame.stream] = r]
<1>1. TypeOK'
  <2>1. allocated \in [Streams -> Flow] /\ pushed \in [Streams -> Flow]
    BY DEF PullInv, TypeOK, Flow
  <2>2. gst_ffmpegdemux_aggregated_flow(allocated) \in Flow /\
       gst_ffmpegdemux_aggregated_flow(pushed) \in Flow
    BY <2>1, Aggregated, Zenon
  <2>3. last_flow' \in [Streams -> Flow]
    BY <2>1, Zenon DEF LoopAllocFailed
  <2>4. ret' \in Flow
    BY <2>2 DEF PullInv, TypeOK, LoopAllocFailed
  <2>5. discont' \subseteq Streams /\ owed' \subseteq Streams
    BY DEF PullInv, TypeOK, hvars, fvars, LoopAllocFailed
  <2> QED BY <2>1, <2>2, <2>3, <2>4, <2>5 DEF PullInv, TypeOK, LoopAllocFailed, Flow, LockedAt,
       Executors
<1>2. LockDiscipline'
  BY DEF PullInv, LockDiscipline, LoopAllocFailed, Answers
<1>3. TaskRuns'
  BY DEF PullInv, TaskRuns, LoopAllocFailed, Answers
<1>4. FlushHasSeek'
  BY DEF PullInv, FlushHasSeek, LoopAllocFailed, Answers, PadsActive, EndsFlush
<1>5. PauseHasCause'
  <2>1. allocated \in [Streams -> Flow] /\ pushed \in [Streams -> Flow]
    BY DEF PullInv, TypeOK, Flow
  <2>2. \A s \in Streams : allocated[s] = "WRONG_STATE" => last_flow[s] = "WRONG_STATE"
    BY DEF PullInv
  <2>3. \A s \in Streams : pushed[s] = "WRONG_STATE" => last_flow[s] = "WRONG_STATE" \/ r =
       "WRONG_STATE"
    BY DEF PullInv
  <2>4. app = "active" /\ r = "WRONG_STATE" => downFlush
    BY PullAssumption DEF LoopAllocFailed, Answers, PadsActive
  <2>5. app = "active" /\ (r = "WRONG_STATE" \/ \E s \in Streams : last_flow[s] =
       "WRONG_STATE") => \E q \in Executors : EndsFlush(q)
    BY <2>4 DEF PullInv, TaskRuns, FlushHasSeek, LoopAllocFailed
  <2>6. ret' = "WRONG_STATE" /\ loop' = "pause" =>
       gst_ffmpegdemux_aggregated_flow(allocated) =
       "WRONG_STATE" \/ gst_ffmpegdemux_aggregated_flow(pushed) = "WRONG_STATE"
    BY Zenon DEF LoopAllocFailed
  <2>7. ret' = "WRONG_STATE" /\ loop' = "pause" => r =
       "WRONG_STATE" \/ \E s \in Streams : last_flow[s] = "WRONG_STATE"
    BY <2>1, <2>2, <2>3, <2>6, Aggregated
  <2>8. app = "active" /\ loop' = "pause" /\ ret' = "WRONG_STATE" =>
       \E q \in Executors : at[q] # "none"
    BY <2>5, <2>7 DEF EndsFlush
  <2>9. app = "active" /\ task = "paused" => downEos \/ \E q \in Executors : at[q] # "none"
    BY DEF PullInv, PauseHasCause, LoopAllocFailed
  <2> QED BY <2>1, <2>2, <2>3, <2>4, <2>5, <2>6, <2>7, <2>8, <2>9 DEF PauseHasCause, svars,
       downvars, LoopAllocFailed
<1>6. SegmentSent'
  BY DEF PullInv, SegmentSent, LoopAllocFailed, Answers
<1>7. FrameFresh'
  BY DEF PullInv, FrameFresh, LoopAllocFailed, Answers
<1> QED BY <1>1, <1>2, <1>3, <1>4, <1>5, <1>6, <1>7 DEF PullInv

(* A frame is pushed: a WRONG_STATE result comes from a flush or from      *)
(* inactive pads.                                                          *)
LEMMA LoopPush_Inv ==
    ASSUME PullInv, NEW r \in Flow, LoopPush(r)
    PROVE  PullInv'
<1> USE PullAssumption DEF dvars, fvars, lvars, svars, downvars, hvars, nvars
<1> DEFINE allocated == [last_flow EXCEPT ![frame.stream] = "OK"]
           pushed == [last_flow EXCEPT ![frame.stream] = r]
<1>1. TypeOK'
  <2>1. allocated \in [Streams -> Flow] /\ pushed \in [Streams -> Flow]
    BY DEF PullInv, TypeOK, Flow
  <2>2. gst_ffmpegdemux_aggregated_flow(allocated) \in Flow /\
       gst_ffmpegdemux_aggregated_flow(pushed) \in Flow
    BY <2>1, Aggregated, Zenon
  <2>3. last_flow' \in [Streams -> Flow]
    BY <2>1, Zenon DEF LoopPush
  <2>4. ret' \in Flow
    BY <2>2 DEF PullInv, TypeOK, LoopPush
  <2>5. discont' \subseteq Streams /\ owed' \subseteq Streams
    BY DEF PullInv, TypeOK, hvars, fvars, LoopPush
  <2> QED BY <2>1, <2>2, <2>3, <2>4, <2>5 DEF PullInv, TypeOK, LoopPush, Flow, LockedAt, Executors
<1>2. LockDiscipline'
  BY DEF PullInv, LockDiscipline, LoopPush, Answers
<1>3. TaskRuns'
  BY DEF PullInv, TaskRuns, LoopPush, Answers
<1>4. FlushHasSeek'
  BY DEF PullInv, TypeOK, FlushHasSeek, LoopPush, Answers, PadsActive, EndsFlush
<1>5. PauseHasCause'
  <2>1. allocated \in [Streams -> Flow] /\ pushed \in [Streams -> Flow]
    BY DEF PullInv, TypeOK, Flow
  <2>2. \A s \in Streams : allocated[s] = "WRONG_STATE" => last_flow[s] = "WRONG_STATE"
    BY DEF PullInv
  <2>3. \A s \in Streams : pushed[s] = "WRONG_STATE" => last_flow[s] = "WRONG_STATE" \/ r =
       "WRONG_STATE"
    BY DEF PullInv
  <2>4. app = "active" /\ r = "WRONG_STATE" => downFlush
    BY PullAssumption DEF LoopPush, Answers, PadsActive
  <2>5. app = "active" /\ (r = "WRONG_STATE" \/ \E s \in Streams : last_flow[s] =
       "WRONG_STATE") => \E q \in Executors : EndsFlush(q)
    BY <2>4 DEF PullInv, TaskRuns, FlushHasSeek, LoopPush
  <2>6. ret' = "WRONG_STATE" /\ loop' = "pause" =>
       gst_ffmpegdemux_aggregated_flow(allocated) =
       "WRONG_STATE" \/ gst_ffmpegdemux_aggregated_flow(pushed) = "WRONG_STATE"
    BY Zenon DEF LoopPush
  <2>7. ret' = "WRONG_STATE" /\ loop' = "pause" => r =
       "WRONG_STATE" \/ \E s \in Streams : last_flow[s] = "WRONG_STATE"
    BY <2>1, <2>2, <2>3, <2>6, Aggregated
  <2>8. app = "active" /\ loop' = "pause" /\ ret' = "WRONG_STATE" =>
       \E q \in Executors : at[q] # "none"
    BY <2>5, <2>7 DEF EndsFlush
  <2>9. app = "active" /\ task = "paused" => downEos \/ \E q \in Executors : at[q] # "none"
    BY DEF PullInv, PauseHasCause, LoopPush
  <2> QED BY <2>1, <2>2, <2>3, <2>4, <2>5, <2>6, <2>7, <2>8, <2>9 DEF PauseHasCause, svars,
       downvars, LoopPush
<1>6. SegmentSent'
  BY DEF PullInv, SegmentSent, LoopPush, Answers
<1>7. FrameFresh'
  <2>1. frame.stream \in Streams /\ owed \subseteq discont
    BY DEF PullInv, FrameFresh, LoopPush
  <2>2. pushed \in [Streams -> Flow] /\ pushed[frame.stream] = r
    BY <2>1 DEF PullInv, TypeOK
  <2>3. r = "WRONG_STATE" => gst_ffmpegdemux_aggregated_flow(pushed) # "OK"
    BY <2>1, <2>2, Aggregated
  <2>4. r = "WRONG_STATE" => loop' = "pause"
    BY <2>3 DEF LoopPush
  <2>5. r # "WRONG_STATE" => owed' \subseteq discont'
    BY <2>1 DEF LoopPush
  <2>6. loop' # "push"
    BY DEF LoopPush
  <2> QED BY <2>1, <2>2, <2>3, <2>4, <2>5, <2>6 DEF FrameFresh
<1> QED BY <1>1, <1>2, <1>3, <1>4, <1>5, <1>6, <1>7 DEF PullInv

(* The task pauses: with WRONG_STATE because of a flush, else it goes on   *)
(* to report the end.                                                      *)
LEMMA LoopPause_Inv ==
    ASSUME PullInv, LoopPause
    PROVE  PullInv'
<1> USE PullAssumption DEF dvars, fvars, lvars, svars, downvars, hvars, nvars
<1>1. TypeOK'
  <2>1. running' \in BOOLEAN
    BY Zenon DEF LoopPause
  <2> QED BY <2>1 DEF PullInv, TypeOK, LoopPause, gst_pad_pause_task, Flow, LockedAt, Executors
<1>2. LockDiscipline'
  BY DEF PullInv, LockDiscipline, LoopPause, gst_pad_pause_task
<1>3. TaskRuns'
  BY DEF PullInv, TaskRuns, LoopPause, gst_pad_pause_task
<1>4. FlushHasSeek'
  BY DEF PullInv, FlushHasSeek, LoopPause, gst_pad_pause_task, EndsFlush
<1>5. PauseHasCause'
  BY DEF PullInv, PauseHasCause, LoopPause, gst_pad_pause_task
<1>6. SegmentSent'
  BY DEF PullInv, SegmentSent, LoopPause, gst_pad_pause_task
<1>7. FrameFresh'
  BY DEF FrameFresh, LoopPause, gst_pad_pause_task
<1> QED BY <1>1, <1>2, <1>3, <1>4, <1>5, <1>6, <1>7 DEF PullInv

(* The end is reported, as EOS or SEGMENT_DONE.                            *)
LEMMA LoopEos_Inv ==
    ASSUME PullInv, LoopEos
    PROVE  PullInv'
<1> USE PullAssumption DEF dvars, fvars, lvars, svars, downvars, hvars, nvars
<1>1. TypeOK'
  BY InitTypes DEF PullInv, TypeOK, LoopEos
<1>2. LockDiscipline'
  BY DEF PullInv, LockDiscipline, LoopEos
<1>3. TaskRuns'
  BY DEF PullInv, TaskRuns, LoopEos
<1>4. FlushHasSeek'
  BY DEF PullInv, FlushHasSeek, LoopEos, EndsFlush
<1>5. PauseHasCause'
  <2>1. CASE downEos'
    BY <2>1, Zenon DEF PauseHasCause, LoopEos
  <2>2. CASE ~downEos' /\ SegmentDone
    BY <2>2 DEF PauseHasCause, LoopEos, SegmentDone, svars, lvars, dvars
  <2>3. CASE ~downEos' /\ ~SegmentDone
    BY <2>3 DEF PullInv, FlushHasSeek, PauseHasCause, LoopEos, PadsActive, EndsFlush, svars
  <2> QED BY <2>1, <2>2, <2>3 DEF PauseHasCause
<1>6. SegmentSent'
  BY DEF PullInv, SegmentSent, LoopEos
<1>7. FrameFresh'
  BY DEF PullInv, TaskRuns, FrameFresh, LoopEos
<1> QED BY <1>1, <1>2, <1>3, <1>4, <1>5, <1>6, <1>7 DEF PullInv

(* Activation starts a task that waits for the stream lock.                *)
LEMMA Activate_Inv ==
    ASSUME PullInv, Activate
    PROVE  PullInv'
<1> USE PullAssumption DEF dvars, fvars, lvars, svars, downvars, hvars, nvars
<1>1. TypeOK'
  BY InitTypes DEF PullInv, TypeOK, Activate, gst_pad_start_task
<1>2. LockDiscipline'
  BY DEF PullInv, LockDiscipline, Activate, gst_pad_start_task
<1>3. TaskRuns'
  BY DEF PullInv, TaskRuns, Activate, gst_pad_start_task
<1>4. FlushHasSeek'
  BY DEF PullInv, TaskRuns, FlushHasSeek, Activate, gst_pad_start_task
<1>5. PauseHasCause'
  BY DEF PullInv, TaskRuns, PauseHasCause, Activate, gst_pad_start_task
<1>6. SegmentSent'
  BY DEF PullInv, TaskRuns, SegmentSent, Activate, gst_pad_start_task
<1>7. FrameFresh'
  BY DEF PullInv, TaskRuns, FrameFresh, Activate, gst_pad_start_task
<1> QED BY <1>1, <1>2, <1>3, <1>4, <1>5, <1>6, <1>7 DEF PullInv

(* Deactivated source pads explain every flush and pause that is left.     *)
LEMMA StopSrcPads_Inv ==
    ASSUME PullInv, StopSrcPads
    PROVE  PullInv'
<1> USE PullAssumption DEF dvars, fvars, lvars, svars, downvars, hvars, nvars
<1>1. TypeOK'
  BY InitTypes DEF PullInv, TypeOK, StopSrcPads
<1>2. LockDiscipline'
  BY DEF PullInv, LockDiscipline, StopSrcPads
<1>3. TaskRuns'
  BY DEF PullInv, TaskRuns, StopSrcPads
<1>4. FlushHasSeek'
  BY DEF PullInv, FlushHasSeek, StopSrcPads
<1>5. PauseHasCause'
  BY DEF PauseHasCause, StopSrcPads
<1>6. SegmentSent'
  BY DEF SegmentSent, StopSrcPads
<1>7. FrameFresh'
  BY DEF PullInv, FrameFresh, StopSrcPads
<1> QED BY <1>1, <1>2, <1>3, <1>4, <1>5, <1>6, <1>7 DEF PullInv

(* The task is told to stop; it ends after its iteration.                  *)
LEMMA StopTask_Inv ==
    ASSUME PullInv, StopTask
    PROVE  PullInv'
<1> USE PullAssumption DEF dvars, fvars, lvars, svars, downvars, hvars, nvars
<1>1. TypeOK'
  <2>1. running' \in BOOLEAN
    BY Zenon DEF StopTask
  <2> QED BY <2>1 DEF PullInv, TypeOK, StopTask, Flow, LockedAt, Executors
<1>2. LockDiscipline'
  BY DEF PullInv, LockDiscipline, StopTask
<1>3. TaskRuns'
  BY DEF PullInv, TaskRuns, StopTask
<1>4. FlushHasSeek'
  BY DEF PullInv, FlushHasSeek, StopTask
<1>5. PauseHasCause'
  BY DEF PauseHasCause, StopTask
<1>6. SegmentSent'
  BY DEF SegmentSent, StopTask
<1>7. FrameFresh'
  BY DEF PullInv, FrameFresh, StopTask
<1> QED BY <1>1, <1>2, <1>3, <1>4, <1>5, <1>6, <1>7 DEF PullInv

(* The task has ended, and close puts the demuxer back to its initial      *)
(* state.                                                                  *)
LEMMA StopJoin_Inv ==
    ASSUME PullInv, StopJoin
    PROVE  PullInv'
<1> USE PullAssumption DEF dvars, fvars, lvars, svars, downvars, hvars, nvars
<1>1. TypeOK'
  <2>1. opened' \in BOOLEAN
    BY Zenon DEF StopJoin
  <2> QED BY <2>1, InitTypes DEF PullInv, TypeOK, StopJoin, Flow, LockedAt, Executors
<1>2. LockDiscipline'
  BY DEF PullInv, LockDiscipline, StopJoin
<1>3. TaskRuns'
  BY DEF PullInv, TaskRuns, StopJoin
<1>4. FlushHasSeek'
  BY DEF PullInv, FlushHasSeek, StopJoin
<1>5. PauseHasCause'
  BY DEF PauseHasCause, StopJoin
<1>6. SegmentSent'
  BY DEF SegmentSent, StopJoin
<1>7. FrameFresh'
  BY DEF FrameFresh, StopJoin
<1> QED BY <1>1, <1>2, <1>3, <1>4, <1>5, <1>6, <1>7 DEF PullInv

-----------------------------------------------------------------------------
(* The system starts with the invariant.                                   *)
LEMMA InitPullInv == Init => PullInv
<1> SUFFICES ASSUME Init PROVE PullInv
  OBVIOUS
<1>1. TypeOK
  <2>1. /\ opened \in BOOLEAN /\ running \in BOOLEAN /\ flushing \in BOOLEAN /\ failed \in BOOLEAN
        /\ upFlush \in BOOLEAN /\ downFlush \in BOOLEAN /\ downEos \in BOOLEAN
    BY Zenon DEF Init
  <2>2. /\ at \in [Executors -> {"none"}] /\ req \in [Executors -> Request]
        /\ res \in [Executors -> BOOLEAN] /\ last_flow \in [Streams -> Flow]
    BY InitTypes DEF Init, Flow
  <2>3. segment \in Segment /\ seek_event \in Request
    BY InitTypes DEF Init
  <2> QED BY <2>1, <2>2, <2>3 DEF Init, TypeOK, Flow
<1>2. LockDiscipline /\ TaskRuns
  BY PullAssumption DEF Init, LockDiscipline, TaskRuns, LockedAt, Executors
<1>3. FlushHasSeek /\ PauseHasCause /\ SegmentSent /\ FrameFresh
  BY DEF Init, FlushHasSeek, PauseHasCause, SegmentSent, FrameFresh
<1> QED BY <1>1, <1>2, <1>3 DEF PullInv

(* Every step keeps it.                                                    *)
LEMMA NextPullInv == PullInv /\ [Next]_vars => PullInv'
<1> SUFFICES ASSUME PullInv, [Next]_vars PROVE PullInv'
  OBVIOUS
<1>1. ASSUME NEW p \in Executors, Seek(p) PROVE PullInv'
  BY <1>1, SeekFlag_Inv, SeekFlushStartUp_Inv, SeekFlushStartDown_Inv, SeekPause_Inv,
     SeekLock_Inv, SeekFlushStopUp_Inv, gst_ffmpegdemux_do_seek_Inv, SeekClose_Inv,
     SeekSegment_Inv, SeekRestart_Inv DEF Seek
<1>2. CASE \E p \in Seekers : Seek(p)
  BY <1>1, <1>2 DEF Executors
<1>3. CASE \E p \in Seekers : \E r \in SeekRequests : SeekEvent(p, r)
  BY <1>3, SeekEvent_Inv
<1>4. CASE LoopStep
  <2>1. CASE LoopLock \/ LoopIterate \/ LoopOpened \/ LoopOpenFailed
    BY <2>1, LoopLock_Inv, LoopIterate_Inv, LoopOpened_Inv, LoopOpenFailed_Inv
  <2>2. CASE LoopRead \/ LoopReadFailed \/ LoopPause \/ LoopEos
    BY <2>2, LoopRead_Inv, LoopReadFailed_Inv, LoopPause_Inv, LoopEos_Inv
  <2>3. CASE \E r \in Flow : LoopAllocFailed(r) \/ LoopPush(r)
    BY <2>3, LoopAllocFailed_Inv, LoopPush_Inv
  <2>4. CASE Seek("loop")
    BY <2>4, <1>1 DEF Executors
  <2> QED BY <1>4, <2>1, <2>2, <2>3, <2>4 DEF LoopStep
<1>5. CASE Activate \/ StopSrcPads \/ AppStep
  BY <1>5, Activate_Inv, StopSrcPads_Inv, StopTask_Inv, StopJoin_Inv DEF AppStep
<1>6. CASE UNCHANGED vars
  <2> USE <1>6 DEF vars, dvars, fvars, lvars, svars, downvars, hvars, nvars
  <2>1. TypeOK' /\ LockDiscipline' /\ TaskRuns'
    BY DEF PullInv, TypeOK, LockDiscipline, TaskRuns
  <2>2. FlushHasSeek'
    BY DEF PullInv, FlushHasSeek, EndsFlush
  <2>3. PauseHasCause' /\ SegmentSent' /\ FrameFresh'
    BY DEF PullInv, PauseHasCause, SegmentDone, SegmentSent, FrameFresh
  <2> QED BY <2>1, <2>2, <2>3 DEF PullInv
<1> QED BY <1>2, <1>3, <1>4, <1>5, <1>6 DEF Next

(* The stream lock has one owner, every flush a seek that ends it, and     *)
(* every pause a cause, in perform_seek, the loop and the state changes.   *)
THEOREM PullInvariant == Spec => []PullInv
<1> QED BY InitPullInv, NextPullInv, PTL DEF Spec

-----------------------------------------------------------------------------
(* What is recorded of a buffer when downstream accepts it.                *)
LEMMA AcceptedBuffer ==
    ASSUME PullInv, NEW r \in Flow, LoopPush(r), out' # out
    PROVE  out'.stale = FALSE /\ out'.marked = TRUE /\ (out'.seg # {} \/ failed)
<1>1. /\ out' = [seg |-> downSeg, stale |-> frame.epoch # epoch,
                 marked |-> (frame.stream \in owed => frame.stream \in discont)]
      /\ r = "OK"
  BY DEF LoopPush
<1>2. app = "active" /\ ~downFlush
  BY <1>1 DEF LoopPush, Answers, PadsActive
<1>3. downSeg # {} \/ failed
  BY <1>2 DEF PullInv, TypeOK, LockDiscipline, TaskRuns, SegmentSent, Executors, LoopPush
<1>4. frame.epoch = epoch /\ owed \subseteq discont
  BY DEF PullInv, FrameFresh, LoopPush
<1>5. (frame.epoch # epoch) = FALSE
  BY <1>4
<1>6. (frame.stream \in owed => frame.stream \in discont) = TRUE
  BY <1>4
<1> QED BY <1>1, <1>3, <1>5, <1>6

(* Nothing else records one, and no seek unfails.                          *)
LEMMA OnlyPushRecords ==
    ASSUME [Next]_vars
    PROVE  /\ failed => failed'
           /\ out' # out => \E r \in Flow : LoopPush(r)
<1> USE DEF vars, dvars, fvars, lvars, svars, downvars, hvars, nvars
<1>1. ASSUME NEW p, Seek(p) PROVE (failed => failed') /\ out' = out
  BY <1>1 DEF Seek, SeekFlag, SeekFlushStartUp, SeekFlushStartDown, SeekPause, SeekLock,
     SeekFlushStopUp, gst_ffmpegdemux_do_seek, SeekClose, SeekSegment, SeekRestart
<1>2. CASE \E p \in Seekers : Seek(p) \/ \E r \in SeekRequests : SeekEvent(p, r)
  BY <1>1, <1>2 DEF SeekEvent
<1>3. CASE LoopLock \/ LoopIterate \/ LoopOpened \/ LoopOpenFailed \/ LoopRead \/ LoopReadFailed
  BY <1>3 DEF LoopLock, LoopIterate, LoopOpened, LoopOpenFailed, LoopRead, LoopReadFailed
<1>4. CASE LoopPause \/ LoopEos \/ Seek("loop")
  BY <1>1, <1>4 DEF LoopPause, LoopEos
<1>5. CASE \E r \in Flow : LoopAllocFailed(r) \/ LoopPush(r)
  BY <1>5 DEF LoopAllocFailed, LoopPush
<1>6. CASE Activate \/ StopSrcPads \/ AppStep
  BY <1>6 DEF Activate, StopSrcPads, AppStep, StopTask, StopJoin
<1>7. CASE UNCHANGED vars
  BY <1>7
<1> QED BY <1>2, <1>3, <1>4, <1>5, <1>6, <1>7 DEF Next, LoopStep

(* No buffer read before a flushing seek comes out after its FLUSH_STOP.   *)
THEOREM PullNoStaleData == Spec => []NoStaleData
<1>1. Init => NoStaleData
  BY DEF Init, NoStaleData
<1>2. PullInv /\ NoStaleData /\ [Next]_vars => NoStaleData'
  BY OnlyPushRecords, AcceptedBuffer DEF NoStaleData
<1> QED BY <1>1, <1>2, PullInvariant, PTL DEF Spec

(* The first buffer of a stream after a seek is marked DISCONT, also when  *)
(* the mark was spent on a buffer that downstream refused.                 *)
THEOREM PullDiscontAfterSeek == Spec => []DiscontAfterSeek
<1>1. Init => DiscontAfterSeek
  BY DEF Init, DiscontAfterSeek
<1>2. PullInv /\ DiscontAfterSeek /\ [Next]_vars => DiscontAfterSeek'
  BY OnlyPushRecords, AcceptedBuffer DEF DiscontAfterSeek
<1> QED BY <1>1, <1>2, PullInvariant, PTL DEF Spec

(* Only a failed seek lets a buffer out without a segment.                 *)
THEOREM PullDataInSegment == Spec => []DataInSegment
<1>1. Init => DataInSegment
  BY DEF Init, DataInSegment
<1>2. PullInv /\ DataInSegment /\ [Next]_vars => DataInSegment'
  BY OnlyPushRecords, AcceptedBuffer DEF DataInSegment
<1> QED BY <1>1, <1>2, PullInvariant, PTL DEF Spec

(* A task that paused has told downstream, or a seek is on.                *)
THEOREM PullNeverSilentlyPaused == Spec => []NeverSilentlyPaused
<1>1. PullInv => NeverSilentlyPaused
  BY DEF PullInv, PauseHasCause, NeverSilentlyPaused
<1> QED BY <1>1, PullInvariant, PTL

=============================================================================
