---------------------------- MODULE DecoderProofs ----------------------------
(***************************************************************************)
(* MusepackDec: two or more seekers, the loop and the application leave    *)
(* the clock of the decoder, the segment of downstream and the task as     *)
(* they should be, for any duration and any requests.                      *)
(*                                                                         *)
(* FFMpegDec, for any kinds of streams: what the codec and the reverse     *)
(* queue hold belongs to the run of the stream upstream is sending, and    *)
(* the first frame of each run carries the mark; frames leave in display   *)
(* order, intact after a flush, and with their own times.  First come the  *)
(* runs, for which it matters only what may leave the codec; then what     *)
(* each step does to a picture while nothing fails (the predicates that    *)
(* end in Sent), and from these the order, the references and the times.   *)
(***************************************************************************)
EXTENDS MusepackDec, FFMpegDec, SequenceTheorems, TLAPS

-----------------------------------------------------------------------------
(* MusepackDec                                                             *)
USE MusepackAssumption DEF None

(* The initial state satisfies the invariant.                              *)
LEMMA InitMusepackInv == Init => MusepackInv
  <1> SUFFICES ASSUME Init PROVE MusepackInv
    OBVIOUS
  <1>1. NoReq \in Request /\ NoFrame \in [ts : Nat, pos : Nat, epoch : Nat]
        /\ SegmentInit \in [start : Nat, stop : Nat \cup {None}, last_stop : Nat, segment : BOOLEAN]
    BY DEF Request, NoReq, NoFrame, SegmentInit
  <1>2. TypeOK
    <2>1. /\ req \in [Seekers -> Request]
          /\ at \in [Seekers -> {"none", "lock", "seek", "segment", "start"}]
      BY <1>1 DEF Init
    <2>2. pos \in 0 .. Duration
      BY DEF Init
    <2> QED BY <1>1, <2>1, <2>2 DEF Init, TypeOK
  <1>3. LockDiscipline /\ Stages /\ ClockAgrees /\ ClockFollowsDecoder /\ PauseHasCause
    BY DEF Init, LockDiscipline, Stages, ClockAgrees, ClockFollowsDecoder, PauseHasCause,
         BeforeSegment, Seeking
  <1>4. ClockInSegment /\ DataInSegment
    BY DEF Init, ClockInSegment, DataInSegment, Within, SegmentInit, NoFrame
  <1> QED BY <1>2, <1>3, <1>4 DEF MusepackInv

(* What a seek asks for is a request, scaled or not.                       *)
LEMMA ScaledType ==
    ASSUME NEW r \in SeekRequests, NEW q \in Scaled(r)
    PROVE  q \in Request
  <1>1. r \in Request
    OBVIOUS
  <1>2. q = r \/ q = [r EXCEPT !.start = 0, !.stop = IF r.stop = None THEN None ELSE 0]
    BY DEF Scaled
  <1>3. [r EXCEPT !.start = 0, !.stop = IF r.stop = None THEN None ELSE 0] \in Request
    <2>1. (IF r.stop = None THEN None ELSE 0) \in Nat \cup {None}
      OBVIOUS
    <2> QED BY <1>1, <2>1 DEF Request
  <1> QED BY <1>1, <1>2, <1>3

(* Requests have the type of the record.                                   *)
LEMMA RequestType ==
    ASSUME TypeOK, NEW p \in Seekers
    PROVE  /\ NoReq \in Request /\ req[p] \in Request
           /\ req[p].start \in Nat /\ req[p].stop \in Nat \cup {None} /\ req[p].segment \in BOOLEAN
  BY DEF TypeOK, Request, NoReq

(* Every step keeps the types.                                             *)
LEMMA NextKinds ==
    ASSUME MusepackInv, [Next]_vars
    PROVE  TypeOK'
  <1> USE DEF MusepackInv, TypeOK,
             svars, downvars, hvars, nvars, lvars
  <1>1. CASE \/ LoopLock \/ LoopIterate \/ LoopFailed \/ LoopAllocFailed
            \/ LoopDecodeEnd \/ LoopPushRefused \/ LoopEos \/ LoopPause
    <2>1. UNCHANGED <<rate, segment, pos, frame, epoch, at, req, downFlush, app, astray, failed>>
      BY <1>1 DEF LoopLock, LoopIterate, LoopFailed, LoopAllocFailed, LoopDecodeEnd,
         LoopPushRefused, LoopEos, LoopPause
    <2>2. /\ lock' \in Seekers \cup {"loop", "none"} /\ quiet' \in BOOLEAN /\ turned' \in BOOLEAN
          /\ loop' \in {"idle", "top", "init", "decode", "push", "eos", "pause"}
      BY <1>1 DEF LoopLock, LoopIterate, LoopFailed, LoopAllocFailed, LoopDecodeEnd,
         LoopPushRefused, LoopEos, LoopPause, TurnDown
    <2>3. task' \in {"none", "started", "paused"} /\ downEos' \in BOOLEAN
      BY <1>1 DEF LoopLock, LoopIterate, LoopFailed, LoopAllocFailed, LoopDecodeEnd,
         LoopPushRefused, LoopEos, LoopPause, TurnDown, Flushing, gst_pad_pause_task
    <2> QED BY <2>1, <2>2, <2>3
  <1>2. CASE LoopInit
    <2>1. /\ UNCHANGED <<task, lock, frame, at, req, downFlush, downEos, app, epoch, quiet, turned, failed>>
          /\ rate' \in BOOLEAN /\ astray' \in BOOLEAN /\ pos' = 0 /\ loop' = "decode"
      BY <1>2 DEF LoopInit
    <2>2. segment' \in [start : Nat, stop : Nat \cup {None}, last_stop : Nat, segment : BOOLEAN]
      BY <1>2 DEF LoopInit
    <2>3. 0 \in 0 .. Duration
      BY MusepackAssumption
    <2> QED BY <2>1, <2>2, <2>3
  <1>3. CASE LoopDecode
    BY <1>3 DEF LoopDecode
  <1>4. CASE LoopPush
    BY <1>4 DEF LoopPush, Flushing, SegmentEnd
  <1>5. CASE Activate
    BY <1>5 DEF Activate, gst_pad_start_task, SegmentInit
  <1>6. CASE StopSrcPad \/ StopTask \/ StopJoin \/ UNCHANGED vars
    <2>1. /\ UNCHANGED <<lock, pos, frame, epoch, at, req, loop, quiet, turned, downFlush,
                       downEos, astray, failed>>
          /\ app' \in {"ready", "active", "src_pad", "joining"}
          /\ task' \in {"none", "started", "paused"} /\ rate' \in BOOLEAN
      BY <1>6 DEF StopSrcPad, StopTask, StopJoin, vars
    <2>2. segment' = segment \/ segment' = SegmentInit
      BY <1>6 DEF StopSrcPad, StopTask, StopJoin, vars
    <2>3. SegmentInit \in [start : Nat, stop : Nat \cup {None}, last_stop : Nat, segment : BOOLEAN]
      BY DEF SegmentInit
    <2>4. segment' \in [start : Nat, stop : Nat \cup {None}, last_stop : Nat, segment : BOOLEAN]
      BY <2>2, <2>3
    <2> QED BY <2>1, <2>4
  <1>7. ASSUME NEW p \in Seekers, NEW r \in SeekRequests, SeekEvent(p, r)
        PROVE  TypeOK'
    <2>1. PICK s \in Scaled(r) : req' = [req EXCEPT ![p] = s]
      BY <1>7 DEF SeekEvent
    <2>2. s \in Request
      BY ScaledType
    <2>3. req' \in [Seekers -> Request]
      BY <2>1, <2>2
    <2>4. at' \in [Seekers -> {"none", "lock", "seek", "segment", "start"}]
      BY <1>7 DEF SeekEvent
    <2>5. task' \in {"none", "started", "paused"} /\ downFlush' \in BOOLEAN
      BY <1>7 DEF SeekEvent, gst_pad_pause_task
    <2>6. UNCHANGED <<lock, rate, segment, loop, frame, pos, downEos, app, epoch,
                     astray, quiet, turned, failed>>
      BY <1>7 DEF SeekEvent, lvars, hvars
    <2> QED BY <2>3, <2>4, <2>5, <2>6
  <1>8. ASSUME NEW p \in Seekers, SeekLock(p)
        PROVE  TypeOK'
    BY <1>8 DEF SeekLock
  <1>9. ASSUME NEW p \in Seekers, SeekFailed(p)
        PROVE  TypeOK'
    <2>1. req' \in [Seekers -> Request]
      BY <1>9, RequestType DEF SeekFailed
    <2>2. at' \in [Seekers -> {"none", "lock", "seek", "segment", "start"}]
      BY <1>9 DEF SeekFailed
    <2>3. pos' \in 0 .. Duration /\ astray' \in BOOLEAN
      BY <1>9 DEF SeekFailed
    <2>4. /\ UNCHANGED <<task, rate, segment, loop, frame, downFlush, downEos, app, epoch,
                         quiet, turned>>
          /\ lock' = "none" /\ failed' = TRUE
      BY <1>9 DEF SeekFailed, downvars
    <2> QED BY <2>1, <2>2, <2>3, <2>4
  <1>10. ASSUME NEW p \in Seekers, SeekDone(p)
        PROVE  TypeOK'
    <2>1. pos' \in 0 .. Duration
      BY <1>10, RequestType DEF SeekDone, OutOfBounds
    <2>2. at' \in [Seekers -> {"none", "lock", "seek", "segment", "start"}]
      BY <1>10 DEF SeekDone
    <2>3. downFlush' \in BOOLEAN /\ downEos' \in BOOLEAN /\ epoch' \in Nat
      <3>1. CASE req[p].flush
        <4>1. downFlush' = FALSE /\ downEos' = FALSE /\ epoch' = epoch + 1
          BY <1>10, <3>1 DEF SeekDone
        <4>2. epoch' \in Nat
          BY <4>1
        <4> QED BY <4>1, <4>2, Zenon
      <3>2. CASE ~req[p].flush
        BY <1>10, <3>2 DEF SeekDone, downvars
      <3> QED BY <3>1, <3>2
    <2>4. UNCHANGED <<task, lock, rate, segment, loop, frame, req, app, quiet, turned,
                      failed>>
          /\ astray' \in BOOLEAN
      BY <1>10 DEF SeekDone
    <2> QED BY <2>1, <2>2, <2>3, <2>4
  <1>11. ASSUME NEW p \in Seekers, SeekSegment(p)
        PROVE  TypeOK'
    BY <1>11, RequestType DEF SeekSegment, gst_musepackdec_send_newsegment, SegmentInit
  <1>12. ASSUME NEW p \in Seekers, SeekStart(p)
        PROVE  TypeOK'
    <2>1. quiet' \in BOOLEAN /\ turned' \in BOOLEAN /\ failed' \in BOOLEAN
      BY <1>12, Zenon DEF SeekStart
    <2>2. NoReq \in Request
      BY <1>12, RequestType
    <2>3. at' \in [Seekers -> {"none", "lock", "seek", "segment", "start"}]
          /\ req' \in [Seekers -> Request]
      BY <1>12, <2>2 DEF SeekStart
    <2> QED BY <1>12, <2>1, <2>3 DEF SeekStart, gst_pad_start_task, lvars, downvars
  <1> QED BY <1>1, <1>2, <1>3, <1>4, <1>5, <1>6, <1>7, <1>8, <1>9, <1>10, <1>11, <1>12
         DEF Next, LoopStep, AppStep, Seek

(* The stream lock keeps the loop and the seeks apart, whichever thread    *)
(* moves.                                                                  *)
LEMMA NextLocks ==
    ASSUME MusepackInv, [Next]_vars
    PROVE  LockDiscipline' /\ Stages'
  <1> USE DEF MusepackInv, TypeOK, LockDiscipline, Stages,
             svars, downvars, hvars, nvars, lvars
  <1>1. CASE \/ LoopLock \/ LoopIterate \/ LoopFailed \/ LoopAllocFailed
            \/ LoopDecodeEnd \/ LoopPushRefused \/ LoopEos \/ LoopPause
    BY <1>1 DEF LoopLock, LoopIterate, LoopFailed, LoopAllocFailed, LoopDecodeEnd,
         LoopPushRefused, LoopEos, LoopPause, TurnDown, Flushing, gst_pad_pause_task
  <1>2. CASE LoopInit
    BY <1>2 DEF LoopInit, gst_musepackdec_send_newsegment, SegmentInit
  <1>3. CASE LoopDecode
    BY <1>3 DEF LoopDecode
  <1>4. CASE LoopPush
    BY <1>4 DEF LoopPush, Flushing, SegmentEnd
  <1>5. CASE Activate
    BY <1>5 DEF Activate, gst_pad_start_task, SegmentInit
  <1>6. CASE StopSrcPad \/ StopTask \/ StopJoin \/ UNCHANGED vars
    BY <1>6 DEF StopSrcPad, StopTask, StopJoin, SegmentInit, vars
  <1>7. ASSUME NEW p \in Seekers, NEW r \in SeekRequests, SeekEvent(p, r)
        PROVE  LockDiscipline' /\ Stages'
    BY <1>7, ScaledType DEF SeekEvent, gst_pad_pause_task
  <1>8. ASSUME NEW p \in Seekers, SeekLock(p)
        PROVE  LockDiscipline' /\ Stages'
    BY <1>8 DEF SeekLock
  <1>9. ASSUME NEW p \in Seekers, SeekFailed(p)
        PROVE  LockDiscipline' /\ Stages'
    BY <1>9 DEF SeekFailed, OutOfBounds, NoReq
  <1>10. ASSUME NEW p \in Seekers, SeekDone(p)
        PROVE  LockDiscipline' /\ Stages'
    BY <1>10 DEF SeekDone, OutOfBounds
  <1>11. ASSUME NEW p \in Seekers, SeekSegment(p)
        PROVE  LockDiscipline' /\ Stages'
    BY <1>11 DEF SeekSegment, gst_musepackdec_send_newsegment, SegmentInit
  <1>12. ASSUME NEW p \in Seekers, SeekStart(p)
        PROVE  LockDiscipline' /\ Stages'
    BY <1>12 DEF SeekStart, gst_pad_start_task, NoReq
  <1> QED BY <1>1, <1>2, <1>3, <1>4, <1>5, <1>6, <1>7, <1>8, <1>9, <1>10, <1>11, <1>12
         DEF Next, LoopStep, AppStep, Seek

(* Clock and decoder move together: the lock is held from the move of      *)
(* the decoder to the move of the clock.                                   *)
LEMMA NextClock ==
    ASSUME MusepackInv, [Next]_vars
    PROVE  ClockAgrees' /\ ClockFollowsDecoder'
  <1> USE DEF MusepackInv, TypeOK, LockDiscipline, Stages, ClockAgrees,
             ClockFollowsDecoder, BeforeSegment,
             svars, downvars, hvars, nvars, lvars
  <1>1. CASE \/ LoopLock \/ LoopIterate \/ LoopFailed \/ LoopAllocFailed
            \/ LoopDecodeEnd \/ LoopPushRefused \/ LoopEos \/ LoopPause
    BY <1>1 DEF LoopLock, LoopIterate, LoopFailed, LoopAllocFailed, LoopDecodeEnd,
         LoopPushRefused, LoopEos, LoopPause, TurnDown, Flushing, gst_pad_pause_task
  <1>2. CASE LoopInit
    BY <1>2 DEF LoopInit, gst_musepackdec_send_newsegment, SegmentInit
  <1>3. CASE LoopDecode
    BY <1>3 DEF LoopDecode
  <1>4. CASE LoopPush
    BY <1>4 DEF LoopPush, Flushing, SegmentEnd
  <1>5. CASE Activate
    BY <1>5 DEF Activate, gst_pad_start_task, SegmentInit
  <1>6. CASE StopSrcPad \/ StopTask \/ StopJoin \/ UNCHANGED vars
    BY <1>6 DEF StopSrcPad, StopTask, StopJoin, SegmentInit, vars
  <1>7. ASSUME NEW p \in Seekers, NEW r \in SeekRequests, SeekEvent(p, r)
        PROVE  ClockAgrees' /\ ClockFollowsDecoder'
    BY <1>7, ScaledType DEF SeekEvent, gst_pad_pause_task
  <1>8. ASSUME NEW p \in Seekers, SeekLock(p)
        PROVE  ClockAgrees' /\ ClockFollowsDecoder'
    BY <1>8 DEF SeekLock
  <1>9. ASSUME NEW p \in Seekers, SeekFailed(p)
        PROVE  ClockAgrees' /\ ClockFollowsDecoder'
    BY <1>9 DEF SeekFailed, OutOfBounds, NoReq
  <1>10. ASSUME NEW p \in Seekers, SeekDone(p)
        PROVE  ClockAgrees' /\ ClockFollowsDecoder'
    BY <1>10 DEF SeekDone, OutOfBounds
  <1>11. ASSUME NEW p \in Seekers, SeekSegment(p)
        PROVE  ClockAgrees' /\ ClockFollowsDecoder'
    BY <1>11 DEF SeekSegment, gst_musepackdec_send_newsegment, SegmentInit
  <1>12. ASSUME NEW p \in Seekers, SeekStart(p)
        PROVE  ClockAgrees' /\ ClockFollowsDecoder'
    BY <1>12 DEF SeekStart, gst_pad_start_task, NoReq
  <1> QED BY <1>1, <1>2, <1>3, <1>4, <1>5, <1>6, <1>7, <1>8, <1>9, <1>10, <1>11, <1>12
         DEF Next, LoopStep, AppStep, Seek

(* The loop does not decode outside its segment, which is the one that     *)
(* downstream has.                                                         *)
LEMMA NextSegment ==
    ASSUME MusepackInv, [Next]_vars
    PROVE  ClockInSegment'
  <1> USE DEF MusepackInv, TypeOK, LockDiscipline, Stages, ClockInSegment, Within,
             BeforeSegment,
             svars, downvars, hvars, nvars, lvars
  <1>1. CASE \/ LoopLock \/ LoopIterate \/ LoopFailed \/ LoopAllocFailed
            \/ LoopDecodeEnd \/ LoopPushRefused \/ LoopEos \/ LoopPause
    BY <1>1 DEF LoopLock, LoopIterate, LoopFailed, LoopAllocFailed, LoopDecodeEnd,
         LoopPushRefused, LoopEos, LoopPause, TurnDown, Flushing, gst_pad_pause_task
  <1>2. CASE LoopInit
    BY <1>2 DEF LoopInit, gst_musepackdec_send_newsegment, SegmentInit
  <1>3. CASE LoopDecode
    BY <1>3 DEF LoopDecode
  <1>4. CASE LoopPush
    BY <1>4 DEF LoopPush, Flushing, SegmentEnd
  <1>5. CASE Activate
    BY <1>5 DEF Activate, gst_pad_start_task, SegmentInit
  <1>6. CASE StopSrcPad \/ StopTask \/ StopJoin \/ UNCHANGED vars
    BY <1>6 DEF StopSrcPad, StopTask, StopJoin, SegmentInit, vars
  <1>7. ASSUME NEW p \in Seekers, NEW r \in SeekRequests, SeekEvent(p, r)
        PROVE  ClockInSegment'
    BY <1>7, ScaledType DEF SeekEvent, gst_pad_pause_task
  <1>8. ASSUME NEW p \in Seekers, SeekLock(p)
        PROVE  ClockInSegment'
    BY <1>8 DEF SeekLock
  <1>9. ASSUME NEW p \in Seekers, SeekFailed(p)
        PROVE  ClockInSegment'
    BY <1>9 DEF SeekFailed, OutOfBounds, NoReq
  <1>10. ASSUME NEW p \in Seekers, SeekDone(p)
        PROVE  ClockInSegment'
    BY <1>10 DEF SeekDone, OutOfBounds
  <1>11. ASSUME NEW p \in Seekers, SeekSegment(p)
        PROVE  ClockInSegment'
    <2>1. /\ req[p].start \in Nat /\ lock = p /\ loop = "idle" /\ ~BeforeSegment' /\ app = "active"
          /\ app' = app /\ loop' = loop /\ downFlush' = downFlush
      BY <1>11, RequestType DEF SeekSegment, lvars
    <2>2. segment' = [start |-> req[p].start, stop |-> req[p].stop, last_stop |-> req[p].start,
                      segment |-> req[p].segment]
      BY <1>11 DEF SeekSegment
    <2>3. downSeg' = IF app = "active" /\ ~downFlush
                     THEN {[start |-> segment'.start, stop |-> segment'.stop]} ELSE downSeg
      BY <1>11 DEF SeekSegment, gst_musepackdec_send_newsegment
    <2> QED BY <2>1, <2>2, <2>3
  <1>12. ASSUME NEW p \in Seekers, SeekStart(p)
        PROVE  ClockInSegment'
    BY <1>12 DEF SeekStart, gst_pad_start_task, NoReq
  <1> QED BY <1>1, <1>2, <1>3, <1>4, <1>5, <1>6, <1>7, <1>8, <1>9, <1>10, <1>11, <1>12
         DEF Next, LoopStep, AppStep, Seek

(* What downstream accepts lies in the segment it has.                     *)
LEMMA NextData ==
    ASSUME MusepackInv, [Next]_vars
    PROVE  DataInSegment'
  <1> USE DEF MusepackInv, TypeOK, LockDiscipline, Stages, ClockInSegment,
             DataInSegment, Within, BeforeSegment,
             svars, downvars, hvars, nvars, lvars
  <1>1. CASE \/ LoopLock \/ LoopIterate \/ LoopFailed \/ LoopAllocFailed
            \/ LoopDecodeEnd \/ LoopPushRefused \/ LoopEos \/ LoopPause
    BY <1>1 DEF LoopLock, LoopIterate, LoopFailed, LoopAllocFailed, LoopDecodeEnd,
         LoopPushRefused, LoopEos, LoopPause, TurnDown, Flushing, gst_pad_pause_task
  <1>2. CASE LoopInit
    BY <1>2 DEF LoopInit, gst_musepackdec_send_newsegment, SegmentInit
  <1>3. CASE LoopDecode
    BY <1>3 DEF LoopDecode
  <1>4. CASE LoopPush
    <2>1. ~BeforeSegment /\ rate /\ app = "active" /\ ~downFlush /\ loop = "push"
      BY <1>4 DEF LoopPush, Flushing
    <2>2. downSeg = {[start |-> segment.start, stop |-> segment.stop]}
      BY <2>1
    <2>3. out'.seg = downSeg /\ out'.frame.ts = frame.ts
      BY <1>4 DEF LoopPush
    <2> QED BY <2>1, <2>2, <2>3
  <1>5. CASE Activate
    BY <1>5 DEF Activate, gst_pad_start_task, SegmentInit
  <1>6. CASE StopSrcPad \/ StopTask \/ StopJoin \/ UNCHANGED vars
    BY <1>6 DEF StopSrcPad, StopTask, StopJoin, SegmentInit, vars
  <1>7. ASSUME NEW p \in Seekers, NEW r \in SeekRequests, SeekEvent(p, r)
        PROVE  DataInSegment'
    BY <1>7, ScaledType DEF SeekEvent, gst_pad_pause_task
  <1>8. ASSUME NEW p \in Seekers, SeekLock(p)
        PROVE  DataInSegment'
    BY <1>8 DEF SeekLock
  <1>9. ASSUME NEW p \in Seekers, SeekFailed(p)
        PROVE  DataInSegment'
    BY <1>9 DEF SeekFailed, OutOfBounds, NoReq
  <1>10. ASSUME NEW p \in Seekers, SeekDone(p)
        PROVE  DataInSegment'
    BY <1>10 DEF SeekDone, OutOfBounds
  <1>11. ASSUME NEW p \in Seekers, SeekSegment(p)
        PROVE  DataInSegment'
    BY <1>11 DEF SeekSegment, gst_musepackdec_send_newsegment, SegmentInit
  <1>12. ASSUME NEW p \in Seekers, SeekStart(p)
        PROVE  DataInSegment'
    BY <1>12 DEF SeekStart, gst_pad_start_task, NoReq
  <1> QED BY <1>1, <1>2, <1>3, <1>4, <1>5, <1>6, <1>7, <1>8, <1>9, <1>10, <1>11, <1>12
         DEF Next, LoopStep, AppStep, Seek

(* The task pauses for a reason, or for a seek that is on its way.         *)
LEMMA NextCause ==
    ASSUME MusepackInv, [Next]_vars
    PROVE  PauseHasCause'
  <1> USE DEF MusepackInv, TypeOK, LockDiscipline, Stages, PauseHasCause, Cause, Told,
             Seeking, SegmentEnd,
             svars, downvars, hvars, nvars, lvars
  <1>1. CASE \/ LoopLock \/ LoopIterate \/ LoopFailed \/ LoopAllocFailed
            \/ LoopDecodeEnd \/ LoopPushRefused \/ LoopEos \/ LoopPause
    BY <1>1 DEF LoopLock, LoopIterate, LoopFailed, LoopAllocFailed, LoopDecodeEnd,
         LoopPushRefused, LoopEos, LoopPause, TurnDown, Flushing, gst_pad_pause_task
  <1>2. CASE LoopInit
    BY <1>2 DEF LoopInit, gst_musepackdec_send_newsegment, SegmentInit
  <1>3. CASE LoopDecode
    BY <1>3 DEF LoopDecode
  <1>4. CASE LoopPush
    BY <1>4 DEF LoopPush, Flushing, SegmentEnd
  <1>5. CASE Activate
    BY <1>5 DEF Activate, gst_pad_start_task, SegmentInit
  <1>6. CASE StopSrcPad \/ StopTask \/ StopJoin \/ UNCHANGED vars
    BY <1>6 DEF StopSrcPad, StopTask, StopJoin, SegmentInit, vars
  <1>7. ASSUME NEW p \in Seekers, NEW r \in SeekRequests, SeekEvent(p, r)
        PROVE  PauseHasCause'
    BY <1>7, ScaledType DEF SeekEvent, gst_pad_pause_task
  <1>8. ASSUME NEW p \in Seekers, SeekLock(p)
        PROVE  PauseHasCause'
    BY <1>8 DEF SeekLock
  <1>9. ASSUME NEW p \in Seekers, SeekFailed(p)
        PROVE  PauseHasCause'
    BY <1>9 DEF SeekFailed, OutOfBounds, NoReq
  <1>10. ASSUME NEW p \in Seekers, SeekDone(p)
        PROVE  PauseHasCause'
    BY <1>10 DEF SeekDone, OutOfBounds
  <1>11. ASSUME NEW p \in Seekers, SeekSegment(p)
        PROVE  PauseHasCause'
    BY <1>11 DEF SeekSegment, gst_musepackdec_send_newsegment, SegmentInit
  <1>12. ASSUME NEW p \in Seekers, SeekStart(p)
        PROVE  PauseHasCause'
    BY <1>12 DEF SeekStart, gst_pad_start_task, NoReq
  <1> QED BY <1>1, <1>2, <1>3, <1>4, <1>5, <1>6, <1>7, <1>8, <1>9, <1>10, <1>11, <1>12
         DEF Next, LoopStep, AppStep, Seek

(* gst_musepackdec_loop, gst_musepackdec_handle_seek_event and the state   *)
(* changes keep the invariant, for any number of threads that seek.        *)
THEOREM MusepackInvariant == Spec => []MusepackInv
  <1>1. MusepackInv /\ [Next]_vars => MusepackInv'
    BY NextKinds, NextLocks, NextClock, NextSegment, NextData, NextCause DEF MusepackInv
  <1> QED BY InitMusepackInv, <1>1, PTL DEF Spec

(* A buffer that downstream accepts has the time of its samples, was       *)
(* decoded behind the last flush, and lies in the segment downstream has.  *)
THEOREM MusepackClock == Spec => [](ClockFollowsDecoder /\ DataInSegment)
  <1>1. MusepackInv => ClockFollowsDecoder /\ DataInSegment
    BY DEF MusepackInv
  <1> QED BY <1>1, MusepackInvariant, PTL

(* While nobody seeks, the task is paused only behind an end or an error   *)
(* that others were told of, a buffer that downstream turned down, or a    *)
(* seek that failed: what a seek or its flush paused is started again.     *)
THEOREM MusepackPause == Spec => []NeverSilentlyPaused
  <1>1. MusepackInv => NeverSilentlyPaused
    BY DEF MusepackInv, PauseHasCause, NeverSilentlyPaused
  <1> QED BY <1>1, MusepackInvariant, PTL

-----------------------------------------------------------------------------
(* FFMpegDec                                                               *)
HIDE MusepackAssumption DEF None

(* The run, flush and segment of a picture or frame.                       *)
Like(p, q) == p.run = q.run /\ p.epoch = q.epoch /\ p.seg = q.seg

(* Pictures and frames have all their fields.                              *)
Picture(p) ==
    p \in [disp : {p.disp}, kind : {p.kind}, refs : {p.refs}, intact : {p.intact}, ts : {p.ts},
           run : {p.run}, epoch : {p.epoch}, seg : {p.seg}]

(* So do the frames that are pushed.                                       *)
Shot(o) ==
    o \in [disp : {o.disp}, kind : {o.kind}, ts : {o.ts}, intact : {o.intact}, run : {o.run},
           epoch : {o.epoch}, seg : {o.seg}, discont : BOOLEAN]

(* What the steps of the decoder leave alone.                              *)
Kept(d, e) ==
    /\ Element(e) /\ e.codec = d.codec
    /\ e.segment = d.segment /\ e.discont = d.discont /\ e.queued = d.queued

(* A sequence is one of its own elements.                                  *)
LEMMA FramesOf ==
    ASSUME NEW S, NEW q \in Seq(S)
    PROVE  Frames(q) \subseteq S /\ q \in Seq(Frames(q))
  <1>1. Len(q) \in Nat /\ q \in [1 .. Len(q) -> S]
    OBVIOUS
  <1>2. q \in [1 .. Len(q) -> Frames(q)]
    BY <1>1 DEF Frames
  <1>3. q \in Seq(Frames(q))
    BY <1>1, <1>2, SeqDef
  <1>4. Frames(q) \subseteq S
    BY <1>1 DEF Frames
  <1> QED BY <1>3, <1>4

(* What is put in front of a queue.                                        *)
LEMMA InFront ==
    ASSUME NEW q, q \in Seq(Frames(q)), NEW o
    PROVE  /\ (<<o>> \o q) \in Seq(Frames(<<o>> \o q))
           /\ Frames(<<o>> \o q) \subseteq Frames(q) \cup {o}
  <1> DEFINE S == Frames(q) \cup {o}
             z == <<o>> \o q
  <1>1. q \in Seq(S)
    <2>1. \A i \in 1 .. Len(q) : q[i] \in Frames(q)
      BY DEF Frames
    <2> QED BY <2>1
  <1>2. <<o>> \in Seq(S)
    OBVIOUS
  <1>3. z \in Seq(S)
    BY <1>1, <1>2
  <1> HIDE DEF S, z
  <1>4. Frames(z) \subseteq S /\ z \in Seq(Frames(z))
    BY <1>3, FramesOf
  <1> QED BY <1>4 DEF S, z

(* What do_qos leaves in the element.                                      *)
LEMMA QosKept ==
    ASSUME NEW d, Element(d), NEW label
    PROVE  Kept(d, Qos(d, label).dec)
  <1> DEFINE h == CASE label \in {"normal_mode", "no_observation"} -> 0
                    [] label \in {"skip_to_keyframe", "hurry_up"} -> 1
                    [] OTHER -> d.hurry_up
             w == d.waiting_for_key \/ label = "skip_to_keyframe"
             e == [d EXCEPT !.hurry_up = h, !.waiting_for_key = w]
  <1>1. Qos(d, label).dec = e
    BY DEF Qos
  <1>2. h \in {0, 1}
    BY DEF Element
  <1>3. w \in BOOLEAN
    BY DEF Element
  <1> HIDE DEF h, w
  <1>4. Kept(d, e)
    BY <1>2, <1>3 DEF Kept, Element
  <1> QED BY <1>1, <1>4

(* What the codec holds and gives.                                         *)
Codec(c) == c \in [next : {c.next}, last : {c.last}]

(* What the codec holds and gives back is of the runs of what it had.      *)
CodecStep(c, pic, r) ==
    /\ Codec(r.codec)
    /\ pic = NoPic => r.codec.next = NoPic /\ r.pic = c.next
    /\ pic # NoPic => /\ r.codec.next = c.next \/ Like(r.codec.next, pic)
                      /\ r.pic = NoPic \/ r.pic = c.next \/ Like(r.pic, pic)
                      /\ c.next = NoPic => r.pic = NoPic

(* A picture that is decoded stays of its run.                             *)
LEMMA FromLike ==
    ASSUME NEW pic, Picture(pic), NEW have
    PROVE  Like(From(pic, have), pic)
  <1> DEFINE b == \A d \in pic.refs : \E h \in have : h.disp = d /\ h.intact
  <1>1. From(pic, have) = [pic EXCEPT !.intact = b]
    BY DEF From
  <1> HIDE DEF b
  <1> QED BY <1>1 DEF Picture, Like

(* What comes out was held, or is of the run of the picture that went in.  *)
LEMMA DecodeStep ==
    ASSUME NEW c, Codec(c), NEW pic, pic = NoPic \/ (Picture(pic) /\ pic.kind # "none"),
           NEW size, NEW hurry
    PROVE  CodecStep(c, pic, Decode(c, pic, size, hurry))
  <1> DEFINE r == Decode(c, pic, size, hurry)
  <1>1. CASE pic = NoPic
    <2>1. r = [codec |-> [c EXCEPT !.next = NoPic], len |-> 0, pic |-> c.next]
      <3>1. pic.kind = "none"
        BY <1>1 DEF NoPic
      <3> QED BY <1>1, <3>1, Zenon DEF Decode
    <2> QED BY <1>1, <2>1 DEF CodecStep, Codec
  <1>2. CASE pic # NoPic /\ pic.kind = "bad"
    <2>1. r = [codec |-> c, len |-> -1, pic |-> NoPic]
      BY <1>2 DEF Decode
    <2> QED BY <1>2, <2>1 DEF CodecStep
  <1>3. CASE pic # NoPic /\ pic.kind = "B"
    <2> DEFINE x == IF c.last # NoPic /\ c.next # NoPic /\ hurry = 0
                    THEN From(pic, {c.last, c.next}) ELSE NoPic
    <2>1. r = [codec |-> c, len |-> size, pic |-> x]
      BY <1>3 DEF Decode
    <2>2. x = NoPic \/ (c.next # NoPic /\ Like(x, pic))
      BY <1>3, FromLike
    <2> HIDE DEF x
    <2>3. r.codec = c /\ r.pic = x
      BY <2>1
    <2> QED BY <1>3, <2>2, <2>3 DEF CodecStep
  <1>4. CASE pic # NoPic /\ pic.kind \notin {"bad", "B"}
    <2> DEFINE x == From(pic, {c.next})
    <2>1. r = [codec |-> [next |-> x, last |-> c.next], len |-> size, pic |-> c.next]
      BY <1>4 DEF Decode
    <2>2. Like(x, pic)
      BY <1>4, FromLike
    <2> HIDE DEF x
    <2>3. r.codec = [next |-> x, last |-> c.next] /\ r.pic = c.next
      BY <2>1
    <2>4. Codec(r.codec) /\ r.codec.next = x
      BY <2>3 DEF Codec
    <2> QED BY <1>4, <2>2, <2>3, <2>4 DEF CodecStep
  <1> QED BY <1>1, <1>2, <1>3, <1>4

(* The way of a picture out of the element.                                *)
Leaves(d, p, v) ==
    /\ Kept(d, v.dec)
    /\ v.out = NoOutput \/ (p # NoPic /\ Shot(v.out) /\ Like(v.out, p) /\ v.out.discont = FALSE)

(* The time of a picture changes nothing that is held or due.              *)
LEMMA TimedKept ==
    ASSUME NEW d, Element(d), NEW p, NEW in_ts
    PROVE  Kept(d, Timed(d, p, in_ts).dec)
  <1> DEFINE t == Timed(d, p, in_ts).dec
  <1>1. \E b, dts, next, last : t = [d EXCEPT !.has_b_frames = b, !.ts_is_dts = dts,
                                              !.next_ts = next, !.last_out = last]
    BY Zenon DEF Timed
  <1> HIDE DEF t
  <1>2. Kept(d, t)
    BY <1>1 DEF Kept, Element
  <1> QED BY <1>2 DEF t

(* A picture leaves as a frame of its run, or is lost.                     *)
LEMMA OutputLeaves ==
    ASSUME NEW d, Element(d), NEW p, p # NoPic, NEW time
    PROVE  Leaves(d, p, Output(d, p, time))
  <1> DEFINE v == Output(d, p, time)
             e == [d EXCEPT !.waiting_for_key = FALSE]
             next == IF time # NONE THEN time + 1 ELSE d.next_ts
             f == [d EXCEPT !.waiting_for_key = FALSE, !.next_ts = next]
             o == [disp |-> p.disp, kind |-> p.kind, ts |-> time, intact |-> p.intact,
                   run |-> p.run, epoch |-> p.epoch, seg |-> p.seg, discont |-> FALSE]
  <1>1. \/ v = [dec |-> d, out |-> NoOutput]
        \/ v = [dec |-> e, out |-> NoOutput]
        \/ v = [dec |-> f, out |-> NoOutput]
        \/ v = [dec |-> f, out |-> o]
    BY DEF Output
  <1>2. Kept(d, d) /\ Kept(d, e)
    BY DEF Kept, Element
  <1>3. Kept(d, f)
    <2> HIDE DEF next
    <2> QED BY DEF Kept, Element
  <1>4. Shot(o) /\ Like(o, p) /\ o.discont = FALSE
    BY DEF Shot, Like
  <1> HIDE DEF v, e, f, o
  <1>5. /\ v.dec \in {d, e, f}
        /\ v.out \in {NoOutput, o}
    BY <1>1
  <1> QED BY <1>2, <1>3, <1>4, <1>5 DEF Leaves, v

(* What the codec gives back leaves as that, if it gives anything.         *)
LEMMA DecodedLeaves ==
    ASSUME NEW d, Element(d), NEW r, NEW skips, NEW in_ts
    PROVE  Leaves(d, r.pic, Decoded(d, r, skips, in_ts))
  <1>1. CASE r.pic = NoPic
    <2> DEFINE e == [d EXCEPT !.ts_is_dts = FALSE, !.last_out = NONE]
    <2>1. Skipped(d, r, skips) \in {d, e}
      BY DEF Skipped
    <2>2. Kept(d, d) /\ Kept(d, e)
      BY DEF Kept, Element
    <2>3. Decoded(d, r, skips, in_ts) = [dec |-> Skipped(d, r, skips), out |-> NoOutput]
      BY <1>1 DEF Decoded
    <2> QED BY <2>1, <2>2, <2>3 DEF Leaves
  <1>2. CASE r.pic # NoPic
    <2> DEFINE t == Timed(d, r.pic, in_ts)
    <2>1. Decoded(d, r, skips, in_ts) = Output(t.dec, r.pic, t.ts)
      BY <1>2 DEF Decoded, Presented
    <2>2. Kept(d, t.dec)
      BY TimedKept
    <2> HIDE DEF t
    <2>3. Leaves(t.dec, r.pic, Output(t.dec, r.pic, t.ts))
      BY <1>2, <2>2, OutputLeaves DEF Kept
    <2> QED BY <2>1, <2>2, <2>3 DEF Leaves, Kept
  <1> QED BY <1>1, <1>2

(* A frame is pushed, or queued in reverse, with the mark that was due.    *)
Gives(d, f, p) ==
    /\ Element(f.dec) /\ f.dec.segment = d.segment
    /\ \/ /\ ~f.got /\ f.pushed = <<>> /\ f.dec.discont = d.discont /\ f.dec.queued = d.queued
       \/ /\ f.got /\ p # NoPic /\ ~f.dec.discont
          /\ \E o : /\ Like(o, p) /\ o.discont = d.discont
                    /\ IF d.segment.rate > 0 THEN f.pushed = <<o>> /\ f.dec.queued = d.queued
                       ELSE f.pushed = <<>> /\ f.dec.queued = <<o>> \o d.queued

(* gst_ffmpegdec_frame: the mark is spent on the frame that leaves.        *)
LEMMA DeliveredGives ==
    ASSUME NEW d, Element(d), NEW p, NEW v, Leaves(d, p, v)
    PROVE  Gives(d, Delivered(v), p) /\ Delivered(v).dec.codec = d.codec
  <1> DEFINE e == v.dec
             o == [v.out EXCEPT !.discont = e.discont]
             f == Delivered(v)
             e1 == [e EXCEPT !.discont = FALSE]
             z == <<o>> \o e.queued
             e2 == [e EXCEPT !.discont = FALSE, !.queued = z]
  <1>1. /\ Element(e) /\ e.segment = d.segment /\ e.discont = d.discont /\ e.queued = d.queued
        /\ e.codec = d.codec
    BY DEF Leaves, Kept
  <1>2. CASE v.out = NoOutput
    <2>1. f = [dec |-> e, got |-> FALSE, pushed |-> <<>>]
      BY <1>2 DEF Delivered
    <2>2. f.dec = e /\ f.got = FALSE /\ f.pushed = <<>>
      BY <2>1
    <2> HIDE DEF f, e
    <2>3. Gives(d, f, p) /\ f.dec.codec = d.codec
      BY <1>1, <2>2 DEF Gives
    <2> QED BY <2>3 DEF f
  <1>3. CASE v.out # NoOutput
    <2>1. p # NoPic /\ Shot(v.out) /\ Like(v.out, p)
      BY <1>3 DEF Leaves
    <2>2. Like(o, p) /\ o.discont = d.discont
      <3>1. e.discont \in BOOLEAN
        BY <1>1 DEF Element
      <3> HIDE DEF e
      <3> QED BY <1>1, <2>1, <3>1 DEF Shot, Like
    <2>3. CASE d.segment.rate > 0
      <3>1. f = [dec |-> e1, got |-> TRUE, pushed |-> <<o>>]
        BY <1>1, <1>3, <2>3 DEF Delivered
      <3> HIDE DEF o
      <3>2. f.dec = e1 /\ f.got = TRUE /\ f.pushed = <<o>>
        BY <3>1
      <3>3. /\ Element(e1) /\ e1.segment = d.segment /\ ~e1.discont /\ e1.queued = d.queued
            /\ e1.codec = d.codec
        <4> HIDE DEF e
        <4> QED BY <1>1 DEF Element
      <3> HIDE DEF f, e1
      <3>4. Gives(d, f, p) /\ f.dec.codec = d.codec
        BY <2>1, <2>2, <2>3, <3>2, <3>3 DEF Gives
      <3> QED BY <3>4 DEF f
    <2>4. CASE ~(d.segment.rate > 0)
      <3>1. f = [dec |-> e2, got |-> TRUE, pushed |-> <<>>]
        BY <1>1, <1>3, <2>4 DEF Delivered
      <3> HIDE DEF o
      <3>2. f.dec = e2 /\ f.got = TRUE /\ f.pushed = <<>>
        BY <3>1
      <3>3. z \in Seq(Frames(z))
        BY <1>1, InFront DEF Element
      <3>4. /\ Element(e2) /\ e2.segment = d.segment /\ ~e2.discont /\ e2.queued = z
            /\ e2.codec = d.codec
        <4> HIDE DEF e, z
        <4> QED BY <1>1, <3>3 DEF Element
      <3>5. z = <<o>> \o d.queued
        BY <1>1
      <3> HIDE DEF f, e2, z
      <3>6. Gives(d, f, p) /\ f.dec.codec = d.codec
        BY <2>1, <2>2, <2>4, <3>2, <3>4, <3>5 DEF Gives
      <3> QED BY <3>6 DEF f
    <2> QED BY <2>3, <2>4
  <1> QED BY <1>2, <1>3

(* A picture, or none at the end, through the whole function.              *)
LEMMA FrameGives ==
    ASSUME NEW d, Element(d), NEW pic, pic = NoPic \/ (Picture(pic) /\ pic.kind # "none"),
           NEW size, NEW in_ts
    PROVE  \E r : /\ CodecStep(d.codec, pic, r)
                  /\ Gives(d, Frame(d, pic, size, in_ts), r.pic)
                  /\ Frame(d, pic, size, in_ts).dec.codec = r.codec
  <1> DEFINE q == do_qos(d, in_ts)
             p == IF pic = NoPic THEN pic ELSE [pic EXCEPT !.ts = get_ts(d.ts_handler)]
             h == IF q.decode THEN q.dec.hurry_up ELSE 2
             r == Decode(d.codec, p, size, h)
             c == r.codec
             t == consume(Taken(q.dec.ts_handler), r.len)
             e == [q.dec EXCEPT !.codec = c, !.ts_handler = t]
             s == q.mode_switch \/ q.dec.hurry_up # 0
             v == Decoded(e, r, s, in_ts)
  <1>1. video_frame(d, pic, size, in_ts) = v
    BY DEF video_frame, Decoding, Received
  <1>2. Kept(d, q.dec)
    BY QosKept DEF do_qos
  <1>3. CodecStep(d.codec, pic, r)
    <2>1. CASE pic = NoPic
      <3>1. p = NoPic
        BY <2>1
      <3> HIDE DEF p, h
      <3> QED BY <2>1, <3>1, DecodeStep DEF Codec, Element
    <2>2. CASE pic # NoPic
      <3> DEFINE x == get_ts(d.ts_handler)
      <3>1. p = [pic EXCEPT !.ts = x] /\ Picture(pic) /\ pic.kind # "none"
        BY <2>2
      <3> HIDE DEF x, p, h
      <3>2. Picture(p) /\ Like(p, pic) /\ p.kind # "none"
        BY <3>1 DEF Picture, Like
      <3>3. p # NoPic
        BY <3>2 DEF NoPic
      <3>4. CodecStep(d.codec, p, r)
        BY <3>2, DecodeStep DEF Codec, Element
      <3> HIDE DEF r
      <3> QED BY <2>2, <3>2, <3>3, <3>4 DEF CodecStep, Like
    <2> QED BY <2>1, <2>2
  <1> HIDE DEF q, p, h, r, t, s, c
  <1>4. Codec(c)
    BY <1>3 DEF CodecStep, c
  <1>5. /\ Element(e) /\ e.codec = c /\ e.segment = d.segment /\ e.discont = d.discont
        /\ e.queued = d.queued
    BY <1>2, <1>4 DEF Kept, Element, Codec
  <1> HIDE DEF e
  <1>6. Leaves(e, r.pic, v)
    BY <1>5, DecodedLeaves
  <1>7. Gives(e, Delivered(v), r.pic) /\ Delivered(v).dec.codec = e.codec
    <2> HIDE DEF v
    <2> QED BY <1>5, <1>6, DeliveredGives
  <1>8. Frame(d, pic, size, in_ts) = Delivered(v)
    BY <1>1 DEF Frame
  <1> HIDE DEF v
  <1>9. Gives(d, Delivered(v), r.pic) /\ Delivered(v).dec.codec = r.codec
    BY <1>5, <1>7 DEF Gives, c
  <1> QED BY <1>3, <1>8, <1>9

(* A drain leaves nothing, and pushes what was held.                       *)
Drained(d, r) ==
    /\ Element(r.dec) /\ r.dec.segment = d.segment /\ r.dec.codec.next = NoPic
    /\ IF d.segment.rate > 0
       THEN /\ r.dec.queued = d.queued
            /\ \/ r.pushed = <<>> /\ r.dec.discont = d.discont
               \/ /\ d.codec.next # NoPic /\ ~r.dec.discont
                  /\ \E o : r.pushed = <<o>> /\ Like(o, d.codec.next) /\ o.discont = d.discont
       ELSE /\ r.dec.queued = <<>>
            /\ d.queued = <<>> /\ d.codec.next = NoPic => r.pushed = <<>>
            /\ r.pushed \in Seq(Frames(r.pushed))
            /\ \A x \in Frames(r.pushed) \ Frames(d.queued) :
                  d.codec.next # NoPic /\ Like(x, d.codec.next)

(* gst_ffmpegdec_drain leaves nothing.                                     *)
LEMMA DrainDrained ==
    ASSUME NEW d, Element(d)
    PROVE  Drained(d, drain(d))
  <1> DEFINE f == Frame(d, NoPic, 0, NONE)
             g == Frame(f.dec, NoPic, 0, NONE)
             e == Again(f)
             r == flush_queued(e, f.pushed)
  <1>1. Gives(d, f, d.codec.next) /\ f.dec.codec.next = NoPic
    <2>1. PICK x : CodecStep(d.codec, NoPic, x) /\ Gives(d, f, x.pic) /\ f.dec.codec = x.codec
      <3>1. \E x : /\ CodecStep(d.codec, NoPic, x)
                   /\ Gives(d, Frame(d, NoPic, 0, NONE), x.pic)
                   /\ Frame(d, NoPic, 0, NONE).dec.codec = x.codec
        BY FrameGives
      <3> QED BY <3>1
    <2> HIDE DEF f
    <2> QED BY <2>1 DEF CodecStep
  <1>2. Element(f.dec)
    <2> HIDE DEF f
    <2> QED BY <1>1 DEF Gives
  <1>3. Gives(f.dec, g, NoPic) /\ g.dec.codec.next = NoPic
    <2> HIDE DEF f
    <2>1. PICK x : CodecStep(f.dec.codec, NoPic, x) /\ Gives(f.dec, g, x.pic) /\ g.dec.codec = x.codec
      <3>1. \E x : /\ CodecStep(f.dec.codec, NoPic, x)
                   /\ Gives(f.dec, Frame(f.dec, NoPic, 0, NONE), x.pic)
                   /\ Frame(f.dec, NoPic, 0, NONE).dec.codec = x.codec
        BY <1>2, FrameGives
      <3> QED BY <3>1
    <2> HIDE DEF g
    <2> QED BY <1>1, <2>1 DEF CodecStep
  <1>4. e = IF f.got THEN g.dec ELSE f.dec
    BY DEF Again
  <1>5. drain(d) = r
    BY DEF drain, Twice
  <1> HIDE DEF f, g, e
  <1>6. /\ Element(e) /\ e.segment = d.segment /\ e.codec.next = NoPic
        /\ e.discont = f.dec.discont /\ e.queued = f.dec.queued
    BY <1>1, <1>3, <1>4 DEF Gives
  <1>7. CASE d.segment.rate > 0
    <2>1. ~(e.segment.rate < 0)
      BY <1>6, <1>7 DEF Element
    <2>2. r = [dec |-> e, pushed |-> f.pushed]
      BY <2>1 DEF flush_queued
    <2>3. r.dec = e /\ r.pushed = f.pushed
      BY <2>2
    <2> HIDE DEF r
    <2>4. Drained(d, r)
      BY <1>1, <1>6, <1>7, <2>3 DEF Drained, Gives
    <2> QED BY <1>5, <2>4
  <1>8. CASE ~(d.segment.rate > 0)
    <2> DEFINE e0 == [e EXCEPT !.queued = <<>>]
    <2>1. e.segment.rate < 0
      BY <1>6, <1>8 DEF Element
    <2>2. r = [dec |-> e0, pushed |-> e.queued]
      BY <2>1 DEF flush_queued
    <2>3. r.dec = e0 /\ r.pushed = e.queued
      BY <2>2
    <2>4. Element(e0) /\ e0.segment = d.segment /\ e0.codec.next = NoPic /\ e0.queued = <<>>
      <3>1. <<>> \in Seq(Frames(<<>>))
        OBVIOUS
      <3> QED BY <1>6, <3>1 DEF Element
    <2>5. d.queued = <<>> /\ d.codec.next = NoPic => e.queued = <<>>
      BY <1>1, <1>6 DEF Gives
    <2>6. e.queued \in Seq(Frames(e.queued))
      BY <1>6 DEF Element
    <2>7. \A x \in Frames(e.queued) \ Frames(d.queued) : d.codec.next # NoPic /\ Like(x, d.codec.next)
      <3>1. CASE e.queued = d.queued
        BY <3>1
      <3>2. CASE e.queued # d.queued
        <4>1. PICK o : /\ d.codec.next # NoPic /\ Like(o, d.codec.next)
                       /\ e.queued = <<o>> \o d.queued
          BY <1>1, <1>6, <1>8, <3>2 DEF Gives
        <4>2. Frames(e.queued) \subseteq Frames(d.queued) \cup {o}
          BY <4>1, InFront DEF Element
        <4> QED BY <4>1, <4>2
      <3> QED BY <3>1, <3>2
    <2> HIDE DEF r, e0
    <2>8. Drained(d, r)
      BY <1>8, <2>3, <2>4, <2>5, <2>6, <2>7 DEF Drained
    <2> QED BY <1>5, <2>8
  <1> QED BY <1>7, <1>8

(* A buffer with the picture p.                                            *)
Takes(d, p, f, before) ==
    /\ Element(f.dec) /\ f.dec.segment = d.segment
    /\ f.dec.codec.next = d.codec.next \/ Like(f.dec.codec.next, p)
    /\ \/ /\ f.dec.discont = d.discont /\ f.dec.queued = d.queued
          /\ f.pushed \in {before, before \o <<>>}
       \/ /\ d.codec.next # NoPic /\ ~f.dec.discont
          /\ \E o : /\ Like(o, p) \/ Like(o, d.codec.next)
                    /\ o.discont = d.discont
                    /\ IF d.segment.rate > 0 THEN f.pushed = before \o <<o>> /\ f.dec.queued = d.queued
                       ELSE f.pushed = before \o <<>> /\ f.dec.queued = <<o>> \o d.queued

(* gst_ffmpegdec_chain for a buffer that was queued.                       *)
LEMMA ConsumeTakes ==
    ASSUME NEW d, Element(d), NEW p, Picture(p), p.kind # "none", NEW delta, NEW before,
           NEW size, NEW ts
    PROVE  Takes(d, p, Consume(d, before, [pic |-> p, delta |-> delta], size, ts), before)
  <1> DEFINE b == [pic |-> p, delta |-> delta]
             w == [d EXCEPT !.waiting_for_key = FALSE]
             g == Frame(w, p, size, ts)
             f == [g EXCEPT !.pushed = before \o g.pushed]
             c == Consume(d, before, b, size, ts)
  <1>1. CASE d.waiting_for_key /\ delta
    <2>1. c = [dec |-> d, got |-> FALSE, pushed |-> before]
      BY <1>1 DEF Consume
    <2>2. c.dec = d /\ c.pushed = before
      BY <2>1
    <2> HIDE DEF c
    <2>3. Takes(d, p, c, before)
      BY <2>2 DEF Takes
    <2> QED BY <2>3 DEF c
  <1>2. CASE ~(d.waiting_for_key /\ delta)
    <2>1. c = f
      BY <1>2 DEF Consume
    <2>2. /\ Element(w) /\ w.codec = d.codec /\ w.segment = d.segment /\ w.discont = d.discont
          /\ w.queued = d.queued
      BY DEF Element
    <2> HIDE DEF w
    <2>3. p # NoPic
      BY DEF NoPic
    <2>4. PICK x : CodecStep(w.codec, p, x) /\ Gives(w, g, x.pic) /\ g.dec.codec = x.codec
      <3>1. \E x : /\ CodecStep(w.codec, p, x)
                   /\ Gives(w, Frame(w, p, size, ts), x.pic)
                   /\ Frame(w, p, size, ts).dec.codec = x.codec
        BY <2>2, FrameGives
      <3> QED BY <3>1
    <2>5. g \in [dec : {g.dec}, got : {g.got}, pushed : {g.pushed}]
      <3>1. \E e, t, q : Delivered(video_frame(w, p, size, ts)) = [dec |-> e, got |-> t, pushed |-> q]
        BY Zenon DEF Delivered
      <3> QED BY <3>1 DEF Frame
    <2> HIDE DEF g
    <2>6. f.dec = g.dec /\ f.pushed = before \o g.pushed
      BY <2>5
    <2> HIDE DEF f, c
    <2>7. Takes(d, p, f, before)
      <3>1. /\ Element(f.dec) /\ f.dec.segment = d.segment
            /\ f.dec.codec.next = d.codec.next \/ Like(f.dec.codec.next, p)
        BY <2>2, <2>3, <2>4, <2>6 DEF Gives, CodecStep
      <3>2. CASE ~g.got
        BY <2>2, <2>4, <2>6, <3>1, <3>2 DEF Takes, Gives
      <3>3. CASE g.got
        <4>1. x.pic # NoPic /\ ~g.dec.discont
          BY <2>4, <3>3 DEF Gives
        <4>2. d.codec.next # NoPic /\ (x.pic = d.codec.next \/ Like(x.pic, p))
          BY <2>2, <2>3, <2>4, <4>1 DEF CodecStep
        <4>3. PICK o : /\ Like(o, x.pic) /\ o.discont = w.discont
                       /\ IF w.segment.rate > 0 THEN g.pushed = <<o>> /\ g.dec.queued = w.queued
                          ELSE g.pushed = <<>> /\ g.dec.queued = <<o>> \o w.queued
          BY <2>4, <3>3 DEF Gives
        <4>4. Like(o, p) \/ Like(o, d.codec.next)
          BY <4>2, <4>3 DEF Like
        <4> QED BY <2>2, <2>6, <3>1, <4>1, <4>2, <4>3, <4>4 DEF Takes
      <3> QED BY <3>2, <3>3
    <2> QED BY <2>1, <2>7 DEF c
  <1> QED BY <1>1, <1>2

(* What goes downstream.                                                   *)
LEMMA PushNothing ==
    ASSUME pushed' = <<>>, prev' = Last
    PROVE  Last' = Last /\ Neighbours' = {}
  <1>1. Last' = Last
    BY DEF Last
  <1>2. Shown' = <<>> \/ Shown' = <<prev'>>
    BY DEF Shown
  <1>3. Len(Shown') = 0 \/ Len(Shown') = 1
    BY <1>2
  <1>4. Neighbours' = {}
    <2> SUFFICES ASSUME NEW i \in 1 .. (Len(Shown') - 1) PROVE FALSE
      BY DEF Neighbours
    <2> DEFINE n == Len(Shown')
    <2>1. i \in 1 .. (n - 1) /\ (n = 0 \/ n = 1)
      BY <1>3
    <2> HIDE DEF n
    <2> QED BY <2>1
  <1> QED BY <1>1, <1>4

(* One frame is pushed, behind the last of the steps before.               *)
LEMMA PushOne ==
    ASSUME NEW o, pushed' = <<o>>, prev' = Last
    PROVE  Last' = o /\ \A n \in Neighbours' : n[1] = Last /\ n[2] = o
  <1>1. Last' = o
    BY DEF Last
  <1>2. Shown' = <<o>> \/ Shown' = <<prev', o>>
    <2>1. <<>> \o <<o>> = <<o>>
      <3>1. <<o>> \in Seq({o})
        OBVIOUS
      <3> QED BY <3>1
    <2>2. <<prev'>> \o <<o>> = <<prev', o>>
      <3> DEFINE s == <<prev'>> \o <<o>>
                 T == {prev', o}
      <3>1. <<prev'>> \in Seq(T) /\ <<o>> \in Seq(T) /\ Len(<<prev'>>) = 1 /\ Len(<<o>>) = 1
        OBVIOUS
      <3>2. s \in Seq(T) /\ Len(s) = 2
        BY <3>1, ConcatProperties
      <3>3. s[1] = prev' /\ s[2] = o
        BY <3>1, ConcatProperties
      <3> HIDE DEF s
      <3>4. s = <<prev', o>>
        BY <3>2, <3>3
      <3> QED BY <3>4 DEF s
    <2> QED BY <2>1, <2>2 DEF Shown
  <1>3. ASSUME NEW n \in Neighbours' PROVE n[1] = Last /\ n[2] = o
    <2>1. PICK i \in 1 .. (Len(Shown') - 1) : n = <<Shown'[i], Shown'[i + 1]>>
      BY <1>3 DEF Neighbours
    <2>2. Shown' = <<prev', o>> /\ i = 1
      BY <1>2, <2>1
    <2> QED BY <2>1, <2>2
  <1> QED BY <1>1, <1>3

(* Nothing is pushed: the mark stays due, or becomes due for a new run.    *)
LEMMA QuietMark ==
    ASSUME MarkDue, DecTypeOK, DecTypeOK', dec'.segment.rate = dec.segment.rate, down' => down,
           pushed' = <<>>, prev' = Last,
           \/ up'.run = up.run /\ dec'.discont = dec.discont
           \/ up'.run = up.run + 1 /\ dec'.discont = TRUE
    PROVE  MarkDue' /\ DiscontMarked'
  <1>1. Last' = Last /\ Neighbours' = {}
    BY PushNothing
  <1>2. DiscontMarked'
    BY <1>1 DEF DiscontMarked
  <1>3. up.run \in Nat
    BY DEF DecTypeOK, Upstream
  <1>4. MarkDue'
    <2> SUFFICES ASSUME dec'.segment.rate > 0, down' PROVE MarkDue'
      BY DEF MarkDue
    <2>1. Last.run \in 0 .. up.run /\ (up.run > 0 => (dec.discont <=> Last.run # up.run))
      BY DEF MarkDue
    <2> QED BY <1>1, <1>3, <2>1 DEF MarkDue
  <1> QED BY <1>2, <1>4

(* A frame of the run is pushed with the mark that was due.                *)
LEMMA FrameMark ==
    ASSUME MarkDue, DecTypeOK, DecTypeOK', dec.segment.rate > 0, down, up.run > 0,
           NEW o, pushed' = <<o>>, prev' = Last, o.run = up.run, o.discont = dec.discont,
           \/ up'.run = up.run /\ ~dec'.discont
           \/ up'.run = up.run + 1 /\ dec'.discont = TRUE
    PROVE  MarkDue' /\ DiscontMarked'
  <1>1. Last' = o /\ \A n \in Neighbours' : n[1] = Last /\ n[2] = o
    BY PushOne
  <1>2. Last.run \in 0 .. up.run /\ (dec.discont <=> Last.run # up.run)
    BY DEF MarkDue
  <1>3. up.run \in Nat
    BY DEF DecTypeOK, Upstream
  <1>4. prev' = NoOutput => o.discont
    BY <1>2 DEF NoOutput
  <1>5. DiscontMarked'
    BY <1>1, <1>2, <1>4 DEF DiscontMarked
  <1>6. MarkDue'
    BY <1>1, <1>3 DEF MarkDue
  <1> QED BY <1>5, <1>6

(* What a buffer does, behind a discont and without.                       *)
LEMMA ArrivedTakes ==
    ASSUME NEW b, Element(b.dec), NEW p, Picture(p), p.kind # "none", NEW delta, NEW size, NEW ts
    PROVE  \E w : /\ Kept(b.dec, w)
                  /\ Takes(w, p, Arrived(b, [pic |-> p, delta |-> delta], size, ts), b.pushed)
  <1> DEFINE q == Append_ts(b.dec.ts_handler, ts, size)
             w == [b.dec EXCEPT !.ts_handler = q]
  <1>1. Arrived(b, [pic |-> p, delta |-> delta], size, ts)
          = Consume(w, b.pushed, [pic |-> p, delta |-> delta], size, ts)
    BY DEF Arrived
  <1>2. Kept(b.dec, w)
    <2> HIDE DEF q
    <2> QED BY DEF Kept, Element
  <1> HIDE DEF w
  <1>3. Takes(w, p, Consume(w, b.pushed, [pic |-> p, delta |-> delta], size, ts), b.pushed)
    BY <1>2, ConsumeTakes DEF Kept
  <1> QED BY <1>1, <1>2, <1>3

(* A discont drains, then makes the mark due.                              *)
LEMMA BeforeDiscont ==
    ASSUME NEW d, Element(d)
    PROVE  /\ Before(d, FALSE) = [dec |-> d, pushed |-> <<>>]
           /\ LET b == Before(d, TRUE) IN
              /\ Element(b.dec) /\ b.dec.segment = d.segment /\ b.dec.codec.next = NoPic
              /\ b.dec.discont = TRUE /\ b.dec.queued = drain(d).dec.queued
              /\ b.pushed = drain(d).pushed
  <1> DEFINE r == drain(d)
             e == Discontinued(r.dec)
             b == [r EXCEPT !.dec = e]
  <1>1. Before(d, FALSE) = [dec |-> d, pushed |-> <<>>] /\ Before(d, TRUE) = b
    BY DEF Before
  <1>2. Element(r.dec)
    BY DrainDrained DEF Drained
  <1>3. r \in [dec : {r.dec}, pushed : {r.pushed}]
    <2>1. \E x, y : drain(d) = [dec |-> x, pushed |-> y]
      BY Zenon DEF drain, Twice, flush_queued
    <2> QED BY <2>1
  <1> HIDE DEF r
  <1>4. /\ Element(e) /\ e.segment = r.dec.segment /\ e.codec.next = NoPic
        /\ e.discont = TRUE /\ e.queued = r.dec.queued
    <2>1. CodecInit \in [next : {CodecInit.next}, last : {CodecInit.last}] /\ CodecInit.next = NoPic
      BY DEF CodecInit
    <2> QED BY <1>2, <2>1 DEF Element, Discontinued
  <1> HIDE DEF e
  <1>5. b.dec = e /\ b.pushed = r.pushed
    BY <1>3
  <1>6. r.dec.segment = d.segment
    BY DrainDrained DEF Drained, r
  <1> QED BY <1>1, <1>4, <1>5, <1>6 DEF r

(* What a drain pushes was held, and so belongs to the stream.             *)
LEMMA DrainedCurrent ==
    ASSUME RunsInv, NEW r, Drained(dec, r)
    PROVE  (\A x \in Frames(r.pushed) : x.epoch = up.epoch) /\ r.pushed \o <<>> = r.pushed
  <1>1. CASE dec.segment.rate > 0
    <2>1. r.pushed = <<>> \/ \E o : r.pushed = <<o>> /\ o.epoch = up.epoch
      BY <1>1 DEF Drained, RunsInv, HeldIsCurrent, Like
    <2>2. r.pushed \in Seq(Frames(r.pushed))
      <3>1. \E S : r.pushed \in Seq(S)
        <4>1. <<>> \in Seq({}) /\ \A o : <<o>> \in Seq({o})
          OBVIOUS
        <4> QED BY <2>1, <4>1
      <3> QED BY <3>1, FramesOf
    <2>3. \A x \in Frames(r.pushed) : x.epoch = up.epoch
      BY <2>1 DEF Frames
    <2> QED BY <2>2, <2>3, ConcatEmptySeq
  <1>2. CASE ~(dec.segment.rate > 0)
    <2>1. \A x \in Frames(r.pushed) : x.epoch = up.epoch
      BY <1>2 DEF Drained, RunsInv, HeldIsCurrent, Like
    <2>2. r.pushed \in Seq(Frames(r.pushed))
      BY <1>2 DEF Drained
    <2> QED BY <2>1, <2>2, ConcatEmptySeq
  <1> QED BY <1>1, <1>2

(* A step in which a buffer arrives.                                       *)
LEMMA ChainStep ==
    ASSUME RunsInv, up.segment, ~up.eos, NEW kind \in {"I", "P", "B"}, NEW disp, NEW refs, NEW dts,
           Chain(kind, disp, refs, dts),
           Upstream(up'), up'.segment, ~up'.eos, up'.run = IF up.mark THEN up.run + 1 ELSE up.run,
           up'.epoch = up.epoch, up'.seg = up.seg
    PROVE  RunsInv'
  <1>1. PICK bad \in {x \in BOOLEAN : x => count.errors < stream.MaxErrors},
             timed \in {x \in BOOLEAN : x \/ (stream.Untimed /\ kind # "I" /\ ~up.mark /\ up.mode = "pts")} :
          \E r \in {chain(dec, [pic |-> Sent(IF bad THEN "bad" ELSE kind, disp, refs), delta |-> kind # "I"],
                          IF kind = "I" THEN stream.KeySize ELSE 1,
                          IF ~timed THEN NONE ELSE IF up.mode = "dts" THEN dts ELSE disp, up.mark)} :
             dec' = r.dec /\ Push(r.pushed) /\ down' = down
    BY Zenon DEF Chain
  <1> DEFINE size == IF kind = "I" THEN stream.KeySize ELSE 1
             ts == IF ~timed THEN NONE ELSE IF up.mode = "dts" THEN dts ELSE disp
             p == Sent(IF bad THEN "bad" ELSE kind, disp, refs)
             b == Before(dec, up.mark)
             r == Arrived(b, [pic |-> p, delta |-> kind # "I"], size, ts)
  <1> HIDE DEF size, ts
  <1>2. r = chain(dec, [pic |-> p, delta |-> kind # "I"], size, ts, up.mark)
    BY DEF chain
  <1>3. dec' = r.dec /\ Push(r.pushed) /\ down' = down
    <2> HIDE DEF r, p
    <2> QED BY <1>1, <1>2 DEF p, size, ts
  <1>4. Picture(p) /\ p.kind # "none" /\ Like(p, up')
    BY DEF Picture, Like, Sent
  <1> HIDE DEF p
  <1>5. Element(dec) /\ Upstream(up) /\ up.run \in Nat /\ down \in BOOLEAN
    BY DEF RunsInv, DecTypeOK, Upstream
  <1>6. /\ prev' = Last
        /\ pushed' = IF down THEN r.pushed ELSE <<>>
    BY <1>3 DEF Push, Last
  <1>7. Element(b.dec) /\ b.dec.segment = dec.segment
    <2>1. CASE up.mark = TRUE
      BY <1>5, <2>1, BeforeDiscont
    <2>2. CASE up.mark = FALSE
      <3>1. b = [dec |-> dec, pushed |-> <<>>]
        BY <1>5, <2>2, BeforeDiscont
      <3> QED BY <1>5, <3>1
    <2> QED BY <1>5, <2>1, <2>2 DEF Upstream
  <1>8. PICK w : Kept(b.dec, w) /\ Takes(w, p, r, b.pushed)
    BY <1>4, <1>7, ArrivedTakes
  <1> HIDE DEF r
  <1>9. DecTypeOK' /\ dec'.segment = dec.segment
    BY <1>3, <1>5, <1>7, <1>8 DEF DecTypeOK, Takes, Kept
  <1>10. CASE ~up.mark
    <2>1. up.run > 0 /\ up'.run = up.run /\ Like(up', up)
      BY <1>5, <1>10 DEF RunsInv, RunBegins, Like
    <2>2. /\ b.dec = dec /\ b.pushed = <<>>
      <3>1. up.mark = FALSE
        BY <1>5, <1>10 DEF Upstream
      <3>2. b = [dec |-> dec, pushed |-> <<>>]
        BY <1>5, <3>1, BeforeDiscont
      <3> QED BY <3>2
    <2> HIDE DEF b
    <2>3. <<>> \o <<>> = <<>> /\ \A o : <<>> \o <<o>> = <<o>>
      <3>1. \A o : <<o>> \in Seq({o})
        OBVIOUS
      <3>2. <<>> \in Seq({})
        OBVIOUS
      <3> QED BY <3>1, <3>2, ConcatEmptySeq
    <2>4. /\ dec'.codec.next = dec.codec.next \/ Like(dec'.codec.next, p)
          /\ \/ dec'.discont = dec.discont /\ dec'.queued = dec.queued /\ r.pushed = <<>>
             \/ /\ dec.codec.next # NoPic /\ ~dec'.discont
                /\ \E o : /\ Like(o, p) \/ Like(o, dec.codec.next)
                          /\ o.discont = dec.discont
                          /\ IF dec.segment.rate > 0 THEN r.pushed = <<o>> /\ dec'.queued = dec.queued
                             ELSE r.pushed = <<>> /\ dec'.queued = <<o>> \o dec.queued
      BY <1>3, <1>8, <2>2, <2>3 DEF Takes, Kept
    <2>5. dec.codec.next # NoPic => Like(dec.codec.next, up')
      BY <2>1 DEF RunsInv, HeldIsCurrent, Like
    <2>6. \A x \in Frames(dec.queued) : Like(x, up')
      BY <2>1 DEF RunsInv, HeldIsCurrent, Like
    <2>7. HeldIsCurrent'
      <3>1. dec'.codec.next # NoPic => Like(dec'.codec.next, up')
        BY <1>4, <2>4, <2>5 DEF Like
      <3>2. \A x \in Frames(dec'.queued) : Like(x, up')
        <4>1. CASE dec'.queued = dec.queued
          BY <2>6, <4>1
        <4>2. CASE dec'.queued # dec.queued
          <5>1. PICK o : /\ Like(o, p) \/ (dec.codec.next # NoPic /\ Like(o, dec.codec.next))
                         /\ dec'.queued = <<o>> \o dec.queued
            BY <2>4, <4>2
          <5>2. Like(o, up')
            BY <1>4, <2>5, <5>1 DEF Like
          <5>3. Frames(dec'.queued) \subseteq Frames(dec.queued) \cup {o}
            BY <1>5, <5>1, InFront DEF Element
          <5> QED BY <2>6, <5>2, <5>3
        <4> QED BY <4>1, <4>2
      <3>3. dec'.segment.rate > 0 => dec'.queued = <<>>
        BY <1>9, <2>4 DEF RunsInv, HeldIsCurrent
      <3> QED BY <3>1, <3>2, <3>3 DEF HeldIsCurrent, Like
    <2>8. RunBegins'
      BY <2>1 DEF RunBegins
    <2>9. MarkDue' /\ DiscontMarked'
      <3> SUFFICES ASSUME dec'.segment.rate > 0, down' PROVE MarkDue' /\ DiscontMarked'
        BY DEF MarkDue, DiscontMarked
      <3>1. down /\ dec.segment.rate > 0 /\ pushed' = r.pushed /\ DecTypeOK /\ MarkDue
        BY <1>3, <1>6, <1>9 DEF RunsInv
      <3>2. CASE dec'.discont = dec.discont /\ r.pushed = <<>>
        BY <1>3, <1>6, <1>9, <2>1, <3>1, <3>2, QuietMark
      <3>3. CASE ~(dec'.discont = dec.discont /\ r.pushed = <<>>)
        <4>1. PICK o : /\ Like(o, p) \/ (dec.codec.next # NoPic /\ Like(o, dec.codec.next))
                       /\ o.discont = dec.discont /\ r.pushed = <<o>>
          BY <2>4, <3>1, <3>3
        <4>2. ~dec'.discont
          BY <2>4, <3>3
        <4>3. o.run = up.run
          BY <1>4, <2>1, <2>5, <4>1 DEF Like
        <4> QED BY <1>6, <1>9, <2>1, <3>1, <4>1, <4>2, <4>3, FrameMark
      <3> QED BY <3>2, <3>3
    <2>10. NothingOld'
      <3>1. \/ pushed' = <<>>
            \/ \E o : /\ Like(o, p) \/ (dec.codec.next # NoPic /\ Like(o, dec.codec.next))
                     /\ pushed' = <<o>>
        BY <1>6, <2>4
      <3>2. pushed' = <<>> \/ \E o : o.epoch = up'.epoch /\ pushed' = <<o>>
        BY <1>4, <2>5, <3>1 DEF Like
      <3>3. \A x \in Frames(pushed') : x.epoch = up'.epoch
        BY <3>2 DEF Frames
      <3> QED BY <3>3 DEF NothingOld
    <2> QED BY <1>9, <2>7, <2>8, <2>9, <2>10 DEF RunsInv
  <1>11. CASE up.mark
    <2> DEFINE z == drain(dec)
    <2>1. Drained(dec, z)
      BY <1>5, DrainDrained
    <2>2. b.dec.codec.next = NoPic /\ b.dec.discont = TRUE /\ b.dec.queued = z.dec.queued /\ b.pushed = z.pushed
      <3>1. up.mark = TRUE
        BY <1>5, <1>11 DEF Upstream
      <3> QED BY <1>5, <3>1, BeforeDiscont
    <2> HIDE DEF b, z
    <2>3. z.dec.queued = <<>>
      BY <2>1 DEF Drained, RunsInv, HeldIsCurrent
    <2>4. /\ dec'.codec.next = NoPic \/ Like(dec'.codec.next, p)
          /\ dec'.discont = TRUE /\ dec'.queued = <<>> /\ r.pushed \in {z.pushed, z.pushed \o <<>>}
      BY <1>3, <1>8, <2>2, <2>3 DEF Takes, Kept
    <2>5. up'.run = up.run + 1 /\ up'.run > 0
      BY <1>5, <1>11
    <2>6. HeldIsCurrent'
      <3>1. Frames(<<>>) = {}
        BY DEF Frames
      <3> QED BY <1>4, <2>4, <3>1 DEF HeldIsCurrent, Like
    <2>7. RunBegins'
      BY <2>5 DEF RunBegins
    <2>8. MarkDue' /\ DiscontMarked'
      <3> SUFFICES ASSUME dec'.segment.rate > 0, down' PROVE MarkDue' /\ DiscontMarked'
        BY DEF MarkDue, DiscontMarked
      <3>1. down /\ dec.segment.rate > 0 /\ pushed' = r.pushed /\ DecTypeOK /\ MarkDue
        BY <1>3, <1>6, <1>9 DEF RunsInv
      <3>2. CASE z.pushed = <<>>
        <4>1. r.pushed = <<>>
          BY <2>4, <3>2
        <4> QED BY <1>3, <1>6, <1>9, <2>4, <2>5, <3>1, <4>1, QuietMark
      <3>3. CASE z.pushed # <<>>
        <4>1. PICK o : z.pushed = <<o>> /\ Like(o, dec.codec.next) /\ o.discont = dec.discont
          BY <2>1, <3>1, <3>3 DEF Drained
        <4>2. dec.codec.next # NoPic
          BY <2>1, <3>1, <3>3 DEF Drained
        <4>3. o.run = up.run /\ up.run > 0
          BY <1>5, <4>1, <4>2 DEF Like, RunsInv, HeldIsCurrent, RunBegins
        <4>4. r.pushed = <<o>>
          <5>1. <<o>> \in Seq({o})
            OBVIOUS
          <5>2. <<o>> \o <<>> = <<o>>
            BY <5>1, ConcatEmptySeq
          <5> QED BY <2>4, <4>1, <5>2
        <4> QED BY <1>6, <1>9, <2>4, <2>5, <3>1, <4>1, <4>3, <4>4, FrameMark
      <3> QED BY <3>2, <3>3
    <2>9. NothingOld'
      <3>1. (\A x \in Frames(z.pushed) : x.epoch = up.epoch) /\ z.pushed \o <<>> = z.pushed
        BY <2>1, DrainedCurrent
      <3>2. pushed' = <<>> \/ pushed' = z.pushed
        BY <1>6, <2>4, <3>1
      <3>3. Frames(<<>>) = {}
        BY DEF Frames
      <3> QED BY <3>1, <3>2, <3>3 DEF NothingOld
    <2> QED BY <1>9, <2>6, <2>7, <2>8, <2>9 DEF RunsInv
  <1> QED BY <1>10, <1>11

(* A step that drains: at the end, at a segment and where the caps change. *)
LEMMA DrainStep ==
    ASSUME RunsInv, NEW r, r = drain(dec), Push(r.pushed), down' = down,
           Element(dec'), dec'.codec.next = NoPic, dec'.queued = r.dec.queued,
           dec'.discont = r.dec.discont, dec'.segment.rate = dec.segment.rate \/ up.run = 0,
           Upstream(up'), up'.segment, up'.run = up.run, up'.epoch = up.epoch, up.mark => up'.mark
    PROVE  RunsInv'
  <1>1. Element(dec) /\ up.run \in Nat /\ down \in BOOLEAN
    BY DEF RunsInv, DecTypeOK, Upstream
  <1>2. Drained(dec, r)
    BY <1>1, DrainDrained
  <1>3. prev' = Last /\ pushed' = IF down THEN r.pushed ELSE <<>>
    BY DEF Push, Last
  <1>4. DecTypeOK'
    BY <1>1 DEF DecTypeOK
  <1>5. dec'.queued = <<>>
    BY <1>2 DEF Drained, RunsInv, HeldIsCurrent
  <1>6. HeldIsCurrent'
    <2>1. Frames(<<>>) = {}
      BY DEF Frames
    <2> QED BY <1>5, <2>1 DEF HeldIsCurrent
  <1>7. NothingOld'
    <2>1. \A x \in Frames(r.pushed) : x.epoch = up.epoch
      BY <1>2, DrainedCurrent
    <2>2. Frames(<<>>) = {}
      BY DEF Frames
    <2> QED BY <1>3, <2>1, <2>2 DEF NothingOld
  <1>8. CASE up.run = 0
    <2>1. /\ up.mark /\ dec.codec.next = NoPic /\ dec.queued = <<>>
          /\ pushed = <<>> /\ prev = NoOutput
      BY <1>8 DEF RunsInv, RunBegins
    <2>2. pushed' = <<>>
      BY <1>2, <1>3, <2>1 DEF Drained
    <2>3. prev' = NoOutput
      BY <1>3, <2>1 DEF Last
    <2>4. Last' = NoOutput /\ Neighbours' = {}
      BY <1>3, <2>2, <2>3, PushNothing
    <2>5. RunBegins'
      BY <1>5, <2>1, <2>2, <2>3 DEF RunBegins
    <2>6. NoOutput.run = 0
      BY DEF NoOutput
    <2>7. MarkDue' /\ DiscontMarked'
      BY <1>8, <2>2, <2>4, <2>6 DEF MarkDue, DiscontMarked
    <2> QED BY <1>4, <1>6, <1>7, <2>5, <2>7 DEF RunsInv
  <1>9. CASE up.run # 0
    <2>1. RunBegins'
      BY <1>9 DEF RunBegins
    <2>2. MarkDue' /\ DiscontMarked'
      <3> SUFFICES ASSUME dec'.segment.rate > 0, down' PROVE MarkDue' /\ DiscontMarked'
        BY DEF MarkDue, DiscontMarked
      <3>1. /\ down /\ dec.segment.rate > 0 /\ pushed' = r.pushed /\ DecTypeOK /\ MarkDue
            /\ dec'.segment.rate = dec.segment.rate /\ up.run > 0
        <4>1. up.run > 0 /\ dec'.segment.rate = dec.segment.rate
          BY <1>1, <1>9
        <4>2. dec.segment.rate > 0
          BY <4>1
        <4>3. down
          OBVIOUS
        <4> QED BY <1>3, <4>1, <4>2, <4>3 DEF RunsInv
      <3>2. CASE r.pushed = <<>> /\ r.dec.discont = dec.discont
        BY <1>3, <1>4, <3>1, <3>2, QuietMark
      <3>3. CASE ~(r.pushed = <<>> /\ r.dec.discont = dec.discont)
        <4>1. /\ dec.codec.next # NoPic /\ ~dec'.discont
              /\ \E o : r.pushed = <<o>> /\ Like(o, dec.codec.next) /\ o.discont = dec.discont
          BY <1>2, <3>1, <3>3 DEF Drained
        <4>2. PICK o : r.pushed = <<o>> /\ Like(o, dec.codec.next) /\ o.discont = dec.discont
          BY <4>1
        <4>3. o.run = up.run
          BY <4>1, <4>2 DEF Like, RunsInv, HeldIsCurrent
        <4> QED BY <1>3, <1>4, <3>1, <4>1, <4>2, <4>3, FrameMark
      <3> QED BY <3>2, <3>3
    <2> QED BY <1>4, <1>6, <1>7, <2>1, <2>2 DEF RunsInv
  <1> QED BY <1>8, <1>9

(* A step that pushes nothing and keeps what is held.                      *)
LEMMA QuietStep ==
    ASSUME RunsInv, pushed' = <<>>, prev' = Last, down' \in BOOLEAN, down' => down,
           Element(dec'), dec'.codec.next = dec.codec.next, dec'.queued = dec.queued,
           dec'.discont = dec.discont, dec'.segment = dec.segment,
           Upstream(up'), up'.segment = up.segment, up'.eos = up.eos, up'.run = up.run,
           up'.epoch = up.epoch, up'.seg = up.seg, up.mark => up'.mark
    PROVE  RunsInv'
  <1>1. DecTypeOK'
    BY DEF DecTypeOK
  <1>2. HeldIsCurrent'
    BY DEF RunsInv, HeldIsCurrent
  <1>3. RunBegins'
    BY PushNothing DEF RunsInv, RunBegins, Last
  <1>4. MarkDue' /\ DiscontMarked'
    BY <1>1, QuietMark DEF RunsInv
  <1>5. NothingOld'
    BY DEF NothingOld, Frames
  <1> QED BY <1>1, <1>2, <1>3, <1>4, <1>5 DEF RunsInv

(* What begins with nothing held and nothing shown.                        *)
LEMMA FreshInv ==
    ASSUME Element(dec), dec.codec.next = NoPic, dec.queued = <<>>, Upstream(up), up.run = 0, up.mark,
           down \in BOOLEAN, pushed = <<>>, prev = NoOutput
    PROVE  RunsInv
  <1>1. Frames(<<>>) = {} /\ NoOutput.run = 0
    BY DEF Frames, NoOutput
  <1>2. Last = NoOutput
    BY DEF Last
  <1>3. Neighbours = {}
    <2>1. Shown = <<>>
      BY DEF Shown
    <2>2. Len(Shown) = 0
      BY <2>1
    <2> QED BY <2>2 DEF Neighbours
  <1>4. MarkDue /\ DiscontMarked
    BY <1>1, <1>2, <1>3 DEF MarkDue, DiscontMarked
  <1>5. HeldIsCurrent
    BY <1>1 DEF HeldIsCurrent
  <1>6. RunBegins
    BY DEF RunBegins
  <1>7. NothingOld
    BY <1>1 DEF NothingOld
  <1> QED BY <1>4, <1>5, <1>6, <1>7 DEF RunsInv, DecTypeOK

(* An element that is opened holds nothing that was decoded.               *)
LEMMA OpenedElement ==
    ASSUME NEW d, Element(d)
    PROVE  /\ Element(Opened(d)) /\ Opened(d).codec.next = NoPic /\ Opened(d).queued = d.queued
           /\ Opened(d).segment = d.segment /\ Opened(d).discont = d.discont
  <1>1. CodecInit \in [next : {CodecInit.next}, last : {CodecInit.last}] /\ CodecInit.next = NoPic
    BY DEF CodecInit
  <1> QED BY <1>1 DEF Element, Opened

(* clear_queued empties the queue of reverse playback.                     *)
LEMMA ClearedElement ==
    ASSUME NEW d, Element(d)
    PROVE  Element(clear_queued(d)) /\ clear_queued(d).queued = <<>>
  <1>1. <<>> \in Seq(Frames(<<>>))
    OBVIOUS
  <1> QED BY <1>1 DEF Element, clear_queued

(* FLUSH_STOP leaves nothing held.                                         *)
LEMMA FlushedElement ==
    ASSUME NEW d, Element(d)
    PROVE  Element(flush_stop(d)) /\ flush_stop(d).codec.next = NoPic /\ flush_stop(d).queued = <<>>
  <1> DEFINE e == clear_queued(d)
  <1>1. CodecInit \in [next : {CodecInit.next}, last : {CodecInit.last}] /\ CodecInit.next = NoPic
    BY DEF CodecInit
  <1>2. OpenSegment.rate = 1
    BY DEF OpenSegment
  <1>3. Element(e) /\ e.queued = <<>>
    BY ClearedElement
  <1>4. flush_stop(d) = [e EXCEPT
            !.codec = CodecInit, !.last_out = NONE, !.next_ts = NONE, !.slow = TRUE, !.earliest_time = NONE,
            !.ts_handler = <<>>, !.waiting_for_key = TRUE, !.segment = OpenSegment]
    BY DEF flush_stop
  <1> HIDE DEF e
  <1> QED BY <1>1, <1>2, <1>3, <1>4 DEF Element

(* The initial state satisfies the invariant.                              *)
LEMMA DecInitial == DecInit => RunsInv
  <1> SUFFICES ASSUME DecInit PROVE RunsInv
    OBVIOUS
  <1> DEFINE d == [codec |-> CodecInit, waiting_for_key |-> TRUE, discont |-> FALSE,
                   next_ts |-> NONE, last_out |-> NONE, ts_is_dts |-> FALSE,
                   has_b_frames |-> FALSE, slow |-> TRUE, earliest_time |-> NONE, hurry_up |-> 0,
                   segment |-> OpenSegment, ts_handler |-> <<>>, queued |-> <<>>]
  <1>1. dec = Opened(d)
    BY DEF DecInit
  <1>2. Element(d) /\ d.queued = <<>>
    <2>1. <<>> \in Seq(Frames(<<>>))
      OBVIOUS
    <2>2. CodecInit \in [next : {CodecInit.next}, last : {CodecInit.last}] /\ OpenSegment.rate = 1
      BY DEF CodecInit, OpenSegment
    <2> QED BY <2>1, <2>2 DEF Element
  <1> HIDE DEF d
  <1>3. Element(dec) /\ dec.codec.next = NoPic /\ dec.queued = <<>>
    BY <1>1, <1>2, OpenedElement
  <1>4. PICK m : up = [mode |-> m, pos |-> NONE, ref |-> NONE, bs |-> {}, limit |-> stream.MaxPos, low |-> NONE,
                       mark |-> TRUE, key |-> ~stream.AnyStart, segment |-> FALSE, eos |-> FALSE,
                       run |-> 0, epoch |-> 0, seg |-> 0, flushed |-> TRUE]
    BY DEF DecInit
  <1>5. Upstream(up) /\ up.run = 0 /\ up.mark
    BY <1>4 DEF Upstream
  <1>6. down \in BOOLEAN /\ pushed = <<>> /\ prev = NoOutput
    BY DEF DecInit
  <1> QED BY <1>3, <1>5, <1>6, FreshInv

(* Each step keeps the invariant.                                          *)
LEMMA SendReferenceStep == RunsInv /\ SendReference => RunsInv'
  <1> SUFFICES ASSUME RunsInv, SendReference PROVE RunsInv'
    OBVIOUS
  <1>1. PICK kind \in {"I", "P"}, b \in 0 .. stream.MaxB :
          LET disp == up.pos + b + 1
          IN /\ up.segment /\ ~up.eos
             /\ Chain(kind, disp, IF kind = "I" THEN {} ELSE {up.pos}, up.pos + 1)
             /\ up' = [up EXCEPT !.pos = disp, !.ref = up.pos, !.bs = (up.pos + 1)..(disp - 1), !.key = FALSE,
                                 !.mark = FALSE, !.run = IF up.mark THEN @ + 1 ELSE @]
    BY Zenon DEF SendReference
  <1> DEFINE disp == up.pos + b + 1
             refs == IF kind = "I" THEN {} ELSE {up.pos}
             dts == up.pos + 1
             ref == up.pos
             bs == (up.pos + 1)..(disp - 1)
             run == IF up.mark THEN up.run + 1 ELSE up.run
  <1>2. /\ up.segment /\ ~up.eos /\ Chain(kind, disp, refs, dts)
        /\ up' = [up EXCEPT !.pos = disp, !.ref = ref, !.bs = bs, !.key = FALSE, !.mark = FALSE, !.run = run]
    BY <1>1
  <1>3. Upstream(up) /\ up.run \in Nat
    BY DEF RunsInv, DecTypeOK, Upstream
  <1>4. run \in Nat
    BY <1>3
  <1> HIDE DEF disp, refs, dts, ref, bs
  <1>5. /\ Upstream(up') /\ up'.segment = up.segment /\ up'.eos = up.eos /\ up'.run = run
        /\ up'.epoch = up.epoch /\ up'.seg = up.seg
    <2> HIDE DEF run
    <2> QED BY <1>2, <1>3, <1>4 DEF Upstream
  <1> QED BY <1>2, <1>5, ChainStep

(* A B frame.                                                              *)
LEMMA SendBStep == RunsInv /\ SendB => RunsInv'
  <1> SUFFICES ASSUME RunsInv, SendB PROVE RunsInv'
    OBVIOUS
  <1>1. PICK disp \in up.bs :
          /\ up.segment /\ ~up.eos
          /\ Chain("B", disp, {up.ref, up.pos}, disp + 1)
          /\ up' = [up EXCEPT !.bs = @ \ {disp}, !.mark = FALSE, !.run = IF up.mark THEN @ + 1 ELSE @]
    BY Zenon DEF SendB
  <1> DEFINE refs == {up.ref, up.pos}
             dts == disp + 1
             bs == up.bs \ {disp}
             run == IF up.mark THEN up.run + 1 ELSE up.run
  <1>2. /\ up.segment /\ ~up.eos /\ Chain("B", disp, refs, dts)
        /\ up' = [up EXCEPT !.bs = bs, !.mark = FALSE, !.run = run]
    BY <1>1
  <1>3. Upstream(up) /\ up.run \in Nat
    BY DEF RunsInv, DecTypeOK, Upstream
  <1>4. run \in Nat
    BY <1>3
  <1> HIDE DEF refs, dts, bs
  <1>5. /\ Upstream(up') /\ up'.segment = up.segment /\ up'.eos = up.eos /\ up'.run = run
        /\ up'.epoch = up.epoch /\ up'.seg = up.seg
    <2> HIDE DEF run
    <2> QED BY <1>2, <1>3, <1>4 DEF Upstream
  <1> QED BY <1>2, <1>5, ChainStep

(* A gap, or an earlier group in reverse.                                  *)
LEMMA JumpStep == RunsInv /\ Jump => RunsInv'
  <1> SUFFICES ASSUME RunsInv, Jump PROVE RunsInv'
    OBVIOUS
  <1>1. PICK place : up' = [up EXCEPT !.pos = place, !.low = place, !.bs = {}, !.mark = TRUE,
                                    !.limit = IF dec.segment.rate > 0 THEN @ ELSE up.low + 1,
                                    !.key = dec.segment.rate < 0 \/ ~stream.AnyStart]
    BY Zenon DEF Jump
  <1> DEFINE limit == IF dec.segment.rate > 0 THEN up.limit ELSE up.low + 1
             key == dec.segment.rate < 0 \/ ~stream.AnyStart
  <1>2. up' = [up EXCEPT !.pos = place, !.low = place, !.bs = {}, !.mark = TRUE, !.limit = limit, !.key = key]
    BY <1>1
  <1> HIDE DEF limit, key
  <1>3. Upstream(up) /\ Element(dec) /\ down \in BOOLEAN
    BY DEF RunsInv, DecTypeOK
  <1>4. /\ Upstream(up') /\ up'.segment = up.segment /\ up'.eos = up.eos /\ up'.run = up.run
        /\ up'.epoch = up.epoch /\ up'.seg = up.seg /\ up'.mark
    BY <1>2, <1>3 DEF Upstream
  <1>5. pushed' = <<>> /\ prev' = Last /\ dec' = dec /\ down' = down
    BY DEF Jump, Push, Last
  <1> QED BY <1>3, <1>4, <1>5, QuietStep

(* NEWSEGMENT: of another rate only before the first buffer.               *)
LEMMA NewSegmentStep == RunsInv /\ NewSegment => RunsInv'
  <1> SUFFICES ASSUME RunsInv, NewSegment PROVE RunsInv'
    OBVIOUS
  <1>1. PICK start \in stream.Starts \cup {up.pos + 1}, stop \in {NONE} \cup stream.Stops,
             speed \in (IF stream.Reverse THEN {1, -1} ELSE {1}), place \in NONE..(stream.MaxPos - 1) :
         /\ stop # NONE => start < stop
         /\ speed < 0 => stop # NONE /\ start = 0
         /\ up.segment => speed = dec.segment.rate
         /\ up.segment /\ speed > 0 => place = up.pos /\ start = up.pos + 1
         /\ up.segment /\ speed < 0 => place < up.low
         /\ ~up.segment /\ speed > 0 => place \in {start - 1, start - 2}
         /\ \E r \in {drain(dec)} :
            /\ dec' = [r.dec EXCEPT !.segment = [start |-> start, stop |-> stop, rate |-> speed]]
            /\ Push(r.pushed)
         /\ up' = [up EXCEPT !.segment = TRUE, !.eos = FALSE, !.pos = place, !.low = place,
                             !.key = ~stream.AnyStart \/ up.segment \/ speed < 0,
                             !.mark = @ \/ speed < 0,
                             !.limit = IF speed > 0 THEN stream.MaxPos ELSE IF up.segment THEN up.low + 1 ELSE stop,
                             !.seg = IF up.segment THEN @ + 1 ELSE @]
    BY Zenon DEF NewSegment
  <1> DEFINE span == [start |-> start, stop |-> stop, rate |-> speed]
             key == ~stream.AnyStart \/ up.segment \/ speed < 0
             mark == up.mark \/ speed < 0
             limit == IF speed > 0 THEN stream.MaxPos ELSE IF up.segment THEN up.low + 1 ELSE stop
             seg == IF up.segment THEN up.seg + 1 ELSE up.seg
             r == drain(dec)
  <1>2. up' = [up EXCEPT !.segment = TRUE, !.eos = FALSE, !.pos = place, !.low = place, !.key = key,
                         !.mark = mark, !.limit = limit, !.seg = seg]
    BY <1>1
  <1>3. dec' = [r.dec EXCEPT !.segment = span] /\ Push(r.pushed)
    <2> HIDE DEF span
    <2> QED BY <1>1 DEF span
  <1>4. Upstream(up) /\ Element(dec) /\ down' = down
    BY DEF RunsInv, DecTypeOK, NewSegment
  <1>5. speed \in {1, -1} /\ span.rate = speed
    BY <1>1
  <1>6. mark \in BOOLEAN /\ (up.mark => mark)
    BY <1>4 DEF Upstream
  <1> HIDE DEF span, key, mark, limit, seg, r
  <1>7. /\ Upstream(up') /\ up'.segment /\ up'.run = up.run /\ up'.epoch = up.epoch /\ (up.mark => up'.mark)
    BY ZenonT(40), <1>2, <1>4, <1>6 DEF Upstream
  <1>8. Drained(dec, r)
    BY <1>4, DrainDrained DEF r
  <1>9. /\ Element(dec') /\ dec'.codec.next = NoPic /\ dec'.queued = r.dec.queued
        /\ dec'.discont = r.dec.discont /\ dec'.segment = span
    BY <1>3, <1>5, <1>8 DEF Drained, Element
  <1>10. dec'.segment.rate = dec.segment.rate \/ up.run = 0
    BY <1>1, <1>5, <1>9 DEF RunsInv, RunBegins
  <1> QED BY <1>3, <1>4, <1>7, <1>9, <1>10, DrainStep DEF r

(* EOS.                                                                    *)
LEMMA EosStep == RunsInv /\ Eos => RunsInv'
  <1> SUFFICES ASSUME RunsInv, Eos PROVE RunsInv'
    OBVIOUS
  <1> DEFINE r == drain(dec)
  <1>1. dec' = r.dec /\ Push(r.pushed) /\ up.segment /\ up' = [up EXCEPT !.eos = TRUE] /\ down' = down
    <2> HIDE DEF r
    <2> QED BY DEF Eos, r
  <1> HIDE DEF r
  <1>2. Upstream(up) /\ Element(dec)
    BY DEF RunsInv, DecTypeOK
  <1>3. Drained(dec, r)
    BY <1>2, DrainDrained DEF r
  <1>4. Upstream(up') /\ up'.segment /\ up'.run = up.run /\ up'.epoch = up.epoch /\ (up.mark => up'.mark)
    BY <1>1, <1>2 DEF Upstream
  <1>5. Element(dec') /\ dec'.codec.next = NoPic /\ dec'.segment = dec.segment
    BY <1>1, <1>3 DEF Drained
  <1> QED BY <1>1, <1>4, <1>5, DrainStep DEF r

(* New caps.                                                               *)
LEMMA SetCapsStep == RunsInv /\ SetCaps => RunsInv'
  <1> SUFFICES ASSUME RunsInv, SetCaps PROVE RunsInv'
    OBVIOUS
  <1> DEFINE r == drain(dec)
  <1>1. dec' = Opened(r.dec) /\ Push(r.pushed) /\ up.segment /\ up' = [up EXCEPT !.key = TRUE] /\ down' = down
    <2> HIDE DEF r
    <2> QED BY DEF SetCaps, r
  <1> HIDE DEF r
  <1>2. Upstream(up) /\ Element(dec)
    BY DEF RunsInv, DecTypeOK
  <1>3. Drained(dec, r)
    BY <1>2, DrainDrained DEF r
  <1>4. Upstream(up') /\ up'.segment /\ up'.run = up.run /\ up'.epoch = up.epoch /\ (up.mark => up'.mark)
    BY <1>1, <1>2 DEF Upstream
  <1>5. /\ Element(dec') /\ dec'.codec.next = NoPic /\ dec'.segment = dec.segment
        /\ dec'.queued = r.dec.queued /\ dec'.discont = r.dec.discont
    BY <1>1, <1>3, OpenedElement DEF Drained
  <1> QED BY <1>1, <1>4, <1>5, DrainStep DEF r

(* Upstream begins anew with an element that holds nothing.                *)
LEMMA AnewStep ==
    ASSUME RunsInv, NEW flushed, Anew(flushed), Element(dec'), dec'.codec.next = NoPic, dec'.queued = <<>>
    PROVE  RunsInv'
  <1> DEFINE key == ~stream.AnyStart
             era == up.epoch + 1
  <1>1. /\ up' = [up EXCEPT !.bs = {}, !.mark = TRUE, !.key = key, !.segment = FALSE, !.eos = FALSE,
                            !.run = 0, !.epoch = era, !.seg = 0, !.flushed = flushed]
        /\ down' = TRUE /\ prev' = NoOutput /\ pushed' = <<>>
    BY DEF Anew
  <1> HIDE DEF key, era
  <1>2. Upstream(up)
    BY DEF RunsInv, DecTypeOK
  <1>3. Upstream(up') /\ up'.run = 0 /\ up'.mark
    BY ZenonT(40), <1>1, <1>2 DEF Upstream
  <1>4. (Element(dec) /\ dec.codec.next = NoPic /\ dec.queued = <<>> /\ Upstream(up) /\ up.run = 0 /\ up.mark
           /\ down \in BOOLEAN /\ pushed = <<>> /\ prev = NoOutput => RunsInv)'
    BY FreshInv, PTL
  <1> QED BY <1>1, <1>3, <1>4

(* FLUSH_STOP.                                                             *)
LEMMA FlushStopStep == RunsInv /\ FlushStop => RunsInv'
  <1> SUFFICES ASSUME RunsInv, FlushStop PROVE RunsInv'
    OBVIOUS
  <1>1. Element(dec) /\ Anew(TRUE) /\ dec' = flush_stop(dec)
    BY DEF RunsInv, DecTypeOK, FlushStop
  <1> QED BY <1>1, FlushedElement, AnewStep

(* READY and back.                                                         *)
LEMMA RestartStep == RunsInv /\ Restart => RunsInv'
  <1> SUFFICES ASSUME RunsInv, Restart PROVE RunsInv'
    OBVIOUS
  <1> DEFINE d == clear_queued(dec)
  <1>1. Element(dec) /\ Anew(FALSE) /\ dec' = Opened(d)
    BY DEF RunsInv, DecTypeOK, Restart
  <1>2. Element(d) /\ d.queued = <<>>
    BY <1>1, ClearedElement
  <1> HIDE DEF d
  <1>3. Element(dec') /\ dec'.codec.next = NoPic /\ dec'.queued = <<>>
    BY <1>1, <1>2, OpenedElement
  <1> QED BY <1>1, <1>3, AnewStep

(* A QoS event.                                                            *)
LEMMA QosEventStep == RunsInv /\ QosEvent => RunsInv'
  <1> SUFFICES ASSUME RunsInv, QosEvent PROVE RunsInv'
    OBVIOUS
  <1>1. PICK earliest \in stream.Earliest, slow \in BOOLEAN :
          dec' = [dec EXCEPT !.earliest_time = earliest, !.slow = slow]
    BY Zenon DEF QosEvent
  <1>2. Upstream(up) /\ Element(dec) /\ down \in BOOLEAN
    BY DEF RunsInv, DecTypeOK
  <1>3. /\ Element(dec') /\ dec'.codec = dec.codec /\ dec'.queued = dec.queued
        /\ dec'.discont = dec.discont /\ dec'.segment = dec.segment
    BY <1>1, <1>2 DEF Element
  <1>4. pushed' = <<>> /\ prev' = Last /\ up' = up /\ down' = down
    BY DEF QosEvent, Push, Last
  <1> QED BY <1>2, <1>3, <1>4, QuietStep

(* Downstream gives no buffers any more.                                   *)
LEMMA DownFailsStep == RunsInv /\ DownFails => RunsInv'
  <1> SUFFICES ASSUME RunsInv, DownFails PROVE RunsInv'
    OBVIOUS
  <1>1. Upstream(up) /\ Element(dec)
    BY DEF RunsInv, DecTypeOK
  <1>2. pushed' = <<>> /\ prev' = Last /\ up' = up /\ dec' = dec /\ down' = FALSE
    BY DEF DownFails, Last
  <1> QED BY <1>1, <1>2, QuietStep

(* Every step keeps what the runs of the stream are made of.               *)
LEMMA RunsStep ==
    ASSUME RunsInv, [DecNext]_decvars
    PROVE  RunsInv'
  <1>1. CASE UNCHANGED decvars
    BY <1>1 DEF decvars, RunsInv, DecTypeOK, HeldIsCurrent, RunBegins, MarkDue, DiscontMarked, Last,
                Neighbours, Shown, NothingOld
  <1>2. CASE SendReference
    BY <1>2, SendReferenceStep
  <1>3. CASE SendB
    BY <1>3, SendBStep
  <1>4. CASE Jump
    BY <1>4, JumpStep
  <1>5. CASE NewSegment
    BY <1>5, NewSegmentStep
  <1>6. CASE Eos
    BY <1>6, EosStep
  <1>7. CASE FlushStop
    BY <1>7, FlushStopStep
  <1>8. CASE Restart
    BY <1>8, RestartStep
  <1>9. CASE SetCaps
    BY <1>9, SetCapsStep
  <1>10. CASE QosEvent
    BY <1>10, QosEventStep
  <1>11. CASE DownFails
    BY <1>11, DownFailsStep
  <1> QED BY <1>1, <1>2, <1>3, <1>4, <1>5, <1>6, <1>7, <1>8, <1>9, <1>10, <1>11 DEF DecNext

-----------------------------------------------------------------------------
(* What a picture does on its way through the element: the order, the      *)
(* references and the times of the frames.                                 *)

(* The element acts as without QoS.                                        *)
Calm(d) == d.earliest_time = NONE /\ d.hurry_up = 0

(* A frame is the picture p.                                               *)
Copy(o, p) == o.disp = p.disp /\ o.intact = p.intact /\ Like(o, p)

(* What the way out leaves alone.                                          *)
Steady(d, e) ==
    /\ Element(e) /\ e.codec = d.codec /\ e.segment = d.segment
    /\ e.earliest_time = d.earliest_time /\ e.hurry_up = d.hurry_up /\ e.ts_handler = d.ts_handler

(* No frame leaves; the frame o does.                                      *)
Idle(d, f) == f.pushed = <<>> /\ f.dec.queued = d.queued
Emits(d, f, o) ==
    IF d.segment.rate > 0 THEN f.pushed = <<o>> /\ f.dec.queued = d.queued
    ELSE f.pushed = <<>> /\ f.dec.queued = <<o>> \o d.queued

(* The picture p with its time.                                            *)
Outcome(d, p, time, f) ==
    /\ Steady(d, f.dec) /\ f.dec.last_out = d.last_out
    /\ f.dec.ts_is_dts = d.ts_is_dts /\ f.dec.has_b_frames = d.has_b_frames
    /\ \/ /\ d.waiting_for_key /\ p.kind # "I" /\ f.dec.waiting_for_key
          /\ f.dec.next_ts = d.next_ts /\ Idle(d, f)
       \/ /\ ~f.dec.waiting_for_key
          /\ f.dec.next_ts = (IF time # NONE THEN time + 1 ELSE d.next_ts)
          /\ Idle(d, f) \/ \E o : Copy(o, p) /\ o.ts = time /\ Emits(d, f, o)

(* A picture with its time is pushed, queued or lost.                      *)
LEMMA OutputOutcome ==
    ASSUME NEW d, Element(d), down, NEW p, NEW time
    PROVE  Outcome(d, p, time, Delivered(Output(d, p, time)))
  <1> DEFINE v == Output(d, p, time)
             f == Delivered(v)
             e == [d EXCEPT !.waiting_for_key = FALSE]
             next == IF time # NONE THEN time + 1 ELSE d.next_ts
             g == [d EXCEPT !.waiting_for_key = FALSE, !.next_ts = next]
             o == [disp |-> p.disp, kind |-> p.kind, ts |-> time, intact |-> p.intact,
                   run |-> p.run, epoch |-> p.epoch, seg |-> p.seg, discont |-> FALSE]
             o1 == [o EXCEPT !.discont = d.discont]
             g1 == [g EXCEPT !.discont = FALSE]
             z == <<o1>> \o d.queued
             g2 == [g EXCEPT !.discont = FALSE, !.queued = z]
  <1>1. CASE d.waiting_for_key /\ p.kind # "I"
    <2>1. v = [dec |-> d, out |-> NoOutput]
      BY <1>1 DEF Output
    <2>2. v.dec = d /\ v.out = NoOutput
      BY <2>1
    <2> HIDE DEF v
    <2>3. f = [dec |-> d, got |-> FALSE, pushed |-> <<>>]
      BY <2>2 DEF Delivered
    <2>4. f.dec = d /\ f.pushed = <<>>
      BY <2>3
    <2> HIDE DEF f
    <2>5. Outcome(d, p, time, f)
      BY <1>1, <2>4 DEF Outcome, Steady, Idle
    <2> QED BY <2>5 DEF f, v
  <1>2. CASE ~(d.waiting_for_key /\ p.kind # "I")
    <2>1. v.dec = g /\ v.out \in {NoOutput, o}
      <3>1. v = [dec |-> g, out |-> NoOutput] \/ v = [dec |-> g, out |-> o]
        BY <1>2 DEF Output
      <3> HIDE DEF v, g, o
      <3> QED BY <3>1
    <2>2. /\ Steady(d, g) /\ g.last_out = d.last_out /\ g.ts_is_dts = d.ts_is_dts
          /\ g.has_b_frames = d.has_b_frames /\ ~g.waiting_for_key /\ g.next_ts = next
          /\ g.queued = d.queued /\ g.discont = d.discont
      <3> HIDE DEF next
      <3> QED BY DEF Steady, Element
    <2>3. CASE v.out = NoOutput
      <3> HIDE DEF g, v
      <3>1. f = [dec |-> g, got |-> FALSE, pushed |-> <<>>]
        BY <2>1, <2>3 DEF Delivered
      <3>2. f.dec = g /\ f.pushed = <<>>
        BY <3>1
      <3> HIDE DEF f
      <3>3. Outcome(d, p, time, f)
        BY <2>2, <3>2 DEF Outcome, Idle
      <3> QED BY <3>3 DEF f, v
    <2>4. CASE v.out # NoOutput /\ d.segment.rate > 0
      <3>1. Copy(o1, p) /\ o1.ts = time
        BY DEF Copy, Like
      <3>2. /\ Steady(d, g1) /\ g1.last_out = d.last_out /\ g1.ts_is_dts = d.ts_is_dts
            /\ g1.has_b_frames = d.has_b_frames /\ ~g1.waiting_for_key /\ g1.next_ts = next
            /\ g1.queued = d.queued
        <4> HIDE DEF g, next
        <4> QED BY <2>2 DEF Steady, Element
      <3> HIDE DEF g, v, o
      <3>3. f = [dec |-> g1, got |-> TRUE, pushed |-> <<o1>>]
        BY <2>1, <2>2, <2>4 DEF Delivered, Steady
      <3> HIDE DEF g1, o1
      <3>4. f.dec = g1 /\ f.pushed = <<o1>>
        BY <3>3
      <3> HIDE DEF f
      <3>5. Outcome(d, p, time, f)
        BY <2>4, <3>1, <3>2, <3>4 DEF Outcome, Emits
      <3> QED BY <3>5 DEF f, v
    <2>5. CASE v.out # NoOutput /\ ~(d.segment.rate > 0)
      <3>1. Copy(o1, p) /\ o1.ts = time
        BY DEF Copy, Like
      <3>2. z \in Seq(Frames(z))
        BY InFront DEF Element
      <3>3. /\ Steady(d, g2) /\ g2.last_out = d.last_out /\ g2.ts_is_dts = d.ts_is_dts
            /\ g2.has_b_frames = d.has_b_frames /\ ~g2.waiting_for_key /\ g2.next_ts = next
            /\ g2.queued = z
        <4> HIDE DEF g, next, z
        <4> QED BY <2>2, <3>2 DEF Steady, Element
      <3> HIDE DEF g, v, o
      <3>4. f = [dec |-> g2, got |-> TRUE, pushed |-> <<>>]
        BY <2>1, <2>2, <2>5 DEF Delivered, Steady
      <3> HIDE DEF g2, o1
      <3>5. f.dec = g2 /\ f.pushed = <<>>
        BY <3>4
      <3> HIDE DEF f
      <3>6. Outcome(d, p, time, f)
        BY <2>5, <3>1, <3>3, <3>5 DEF Outcome, Emits
      <3> QED BY <3>6 DEF f, v
    <2> QED BY <2>3, <2>4, <2>5
  <1> QED BY <1>1, <1>2

(* The picture p and the one before it have the time 0: p has none then.   *)
Zeros(d, p) == p.ts = 0 /\ d.last_out = 0

(* The time of the picture p, and what the element learns from it.         *)
TimesOf(d, p, in_ts, e, ts) ==
    ~Zeros(d, p) =>
        /\ e.last_out = p.ts
        /\ e.ts_is_dts <=> d.ts_is_dts \/ (d.last_out # NONE /\ p.ts # NONE /\ d.last_out > p.ts)
        /\ e.has_b_frames <=> d.has_b_frames \/ p.kind = "B"
        /\ ts = IF p.ts # NONE /\ ~(e.ts_is_dts /\ e.has_b_frames /\ p.kind # "B" /\ d.next_ts # NONE)
                THEN p.ts ELSE IF d.next_ts # NONE THEN d.next_ts ELSE in_ts

(* gst_ffmpegdec_video_frame gives a picture its time.                     *)
LEMMA TimedTimes ==
    ASSUME NEW d, Element(d), NEW p, NEW in_ts
    PROVE  LET t == Timed(d, p, in_ts) IN
           /\ Steady(d, t.dec) /\ t.dec.queued = d.queued /\ t.dec.waiting_for_key = d.waiting_for_key
           /\ TimesOf(d, p, in_ts, t.dec, t.ts)
           /\ ~Zeros(d, p) => t.dec.next_ts = d.next_ts
  <1> DEFINE late == d.ts_is_dts \/ (d.last_out # NONE /\ p.ts # NONE /\ d.last_out > p.ts)
             zeros == p.ts = 0 /\ d.last_out = 0
             b == d.has_b_frames \/ p.kind = "B"
             pts == IF zeros \/ (late /\ b /\ p.kind # "B" /\ d.next_ts # NONE) THEN NONE ELSE p.ts
             next == IF zeros THEN NONE ELSE d.next_ts
             last == IF zeros THEN d.last_out ELSE p.ts
             e == [d EXCEPT !.has_b_frames = b, !.ts_is_dts = late, !.next_ts = next, !.last_out = last]
             ts == IF pts # NONE THEN pts ELSE IF ~zeros /\ d.next_ts # NONE THEN d.next_ts ELSE in_ts
             t == Timed(d, p, in_ts)
  <1>1. t = [ts |-> ts, dec |-> e]
    BY DEF Timed
  <1>2. t.ts = ts /\ t.dec = e
    <2> HIDE DEF ts, e, t
    <2> QED BY <1>1
  <1>3. /\ Steady(d, e) /\ e.queued = d.queued /\ e.waiting_for_key = d.waiting_for_key
        /\ e.next_ts = next /\ e.last_out = last /\ e.ts_is_dts = late /\ e.has_b_frames = b
    <2> HIDE DEF next, last, late, b
    <2> QED BY DEF Steady, Element
  <1>4. (e.ts_is_dts <=> late) /\ (e.has_b_frames <=> b)
    <2> HIDE DEF e, late, b
    <2> QED BY <1>3
  <1>5. ~zeros => ts = IF p.ts # NONE /\ ~(late /\ b /\ p.kind # "B" /\ d.next_ts # NONE)
                       THEN p.ts ELSE IF d.next_ts # NONE THEN d.next_ts ELSE in_ts
    <2> HIDE DEF late, b
    <2> QED OBVIOUS
  <1> HIDE DEF e, ts
  <1>6. TimesOf(d, p, in_ts, e, ts)
    BY <1>3, <1>4, <1>5 DEF TimesOf, Zeros
  <1>7. ~Zeros(d, p) => e.next_ts = d.next_ts
    BY <1>3 DEF Zeros
  <1> QED BY <1>2, <1>3, <1>6, <1>7

(* The picture p on its way out of the element.                            *)
Passes(d, p, in_ts, f) ==
    \E ts :
       /\ TimesOf(d, p, in_ts, f.dec, ts)
       /\ \/ /\ d.waiting_for_key /\ p.kind # "I" /\ f.dec.waiting_for_key /\ Idle(d, f)
             /\ ~Zeros(d, p) => f.dec.next_ts = d.next_ts
          \/ /\ ~f.dec.waiting_for_key
             /\ ~Zeros(d, p) => f.dec.next_ts = (IF ts # NONE THEN ts + 1 ELSE d.next_ts)
             /\ Idle(d, f) \/ \E o : Copy(o, p) /\ o.ts = ts /\ Emits(d, f, o)

(* A picture the codec gives passes.                                       *)
LEMMA PresentedPasses ==
    ASSUME NEW d, Element(d), down, NEW p, NEW in_ts
    PROVE  LET f == Delivered(Presented(p, Timed(d, p, in_ts)))
           IN  Steady(d, f.dec) /\ Passes(d, p, in_ts, f)
  <1> DEFINE t == Timed(d, p, in_ts)
             f == Delivered(Output(t.dec, p, t.ts))
  <1>1. Delivered(Presented(p, t)) = f
    BY DEF Presented
  <1>2. /\ Steady(d, t.dec) /\ t.dec.queued = d.queued /\ t.dec.waiting_for_key = d.waiting_for_key
        /\ TimesOf(d, p, in_ts, t.dec, t.ts)
        /\ ~Zeros(d, p) => t.dec.next_ts = d.next_ts
    BY TimedTimes
  <1> HIDE DEF t
  <1>3. Outcome(t.dec, p, t.ts, f)
    BY <1>2, OutputOutcome DEF Steady
  <1> HIDE DEF f
  <1>4. Steady(d, f.dec) /\ TimesOf(d, p, in_ts, f.dec, t.ts)
    BY <1>2, <1>3 DEF Steady, Outcome, TimesOf
  <1>5. Passes(d, p, in_ts, f)
    <2>1. CASE /\ t.dec.waiting_for_key /\ p.kind # "I" /\ f.dec.waiting_for_key
               /\ f.dec.next_ts = t.dec.next_ts /\ Idle(t.dec, f)
      BY <1>2, <1>4, <2>1 DEF Passes, Idle
    <2>2. CASE /\ ~f.dec.waiting_for_key
               /\ f.dec.next_ts = (IF t.ts # NONE THEN t.ts + 1 ELSE t.dec.next_ts)
               /\ Idle(t.dec, f) \/ \E o : Copy(o, p) /\ o.ts = t.ts /\ Emits(t.dec, f, o)
      <3>1. Idle(d, f) \/ \E o : Copy(o, p) /\ o.ts = t.ts /\ Emits(d, f, o)
        BY <1>2, <2>2 DEF Idle, Emits, Steady
      <3>2. ~Zeros(d, p) => f.dec.next_ts = (IF t.ts # NONE THEN t.ts + 1 ELSE d.next_ts)
        BY <1>2, <2>2
      <3> QED BY <1>4, <2>2, <3>1, <3>2 DEF Passes
    <2> QED BY <1>3, <2>1, <2>2 DEF Outcome
  <1> QED BY <1>1, <1>4, <1>5 DEF f, t

(* The picture x is pic at the time ts, decoded from what was there.       *)
Grown(x, pic, ts, have) ==
    /\ x # NoPic /\ Like(x, pic) /\ x.disp = pic.disp /\ x.kind = pic.kind /\ x.ts = ts
    /\ x.intact <=> \A n \in pic.refs : \E h \in have : h.disp = n /\ h.intact

(* A picture that is decoded, with its time.                               *)
LEMMA FromGrown ==
    ASSUME NEW pic, Picture(pic), pic.kind # "none", NEW ts, NEW have
    PROVE  Grown(From([pic EXCEPT !.ts = ts], have), pic, ts, have)
  <1> DEFINE p == [pic EXCEPT !.ts = ts]
             b == \A n \in pic.refs : \E h \in have : h.disp = n /\ h.intact
             x == [p EXCEPT !.intact = b]
  <1>1. Picture(p) /\ Like(p, pic) /\ p.disp = pic.disp /\ p.kind = pic.kind /\ p.ts = ts /\ p.refs = pic.refs
    BY DEF Picture, Like
  <1>2. From(p, have) = x
    BY <1>1 DEF From
  <1> HIDE DEF p
  <1>3. Like(x, p) /\ x.disp = p.disp /\ x.kind = p.kind /\ x.ts = p.ts /\ x.intact = b
    <2> HIDE DEF b
    <2> QED BY <1>1 DEF Picture, Like
  <1> HIDE DEF x
  <1>4. x.intact <=> b
    <2> HIDE DEF b
    <2> QED BY <1>3
  <1>5. x # NoPic
    BY <1>1, <1>3 DEF NoPic
  <1>6. Like(x, pic) /\ x.disp = pic.disp /\ x.kind = pic.kind /\ x.ts = ts
    BY <1>1, <1>3 DEF Like
  <1> QED BY <1>2, <1>4, <1>5, <1>6 DEF Grown, p

(* What the codec gives for a picture that is not corrupt.                 *)
Coded(d, pic, size, r) ==
    /\ Codec(r.codec)
    /\ pic = NoPic => /\ r.codec.next = NoPic /\ r.codec.last = d.codec.last
                      /\ r.len = 0 /\ r.pic = d.codec.next
    /\ pic.kind = "B" =>
          /\ r.codec = d.codec /\ r.len = size
          /\ \/ r.pic = NoPic /\ (Calm(d) => NoPic \in {d.codec.next, d.codec.last})
             \/ /\ d.codec.last # NoPic /\ d.codec.next # NoPic
                /\ Grown(r.pic, pic, get_ts(d.ts_handler), {d.codec.last, d.codec.next})
    /\ pic.kind \in {"I", "P"} =>
          /\ r.len = size /\ r.pic = d.codec.next /\ r.codec.last = d.codec.next
          /\ Grown(r.codec.next, pic, get_ts(d.ts_handler), {d.codec.next})

(* avcodec_decode_video: what is held and what comes out.                  *)
LEMMA DecodeCoded ==
    ASSUME NEW d, Element(d), NEW pic, pic = NoPic \/ (Picture(pic) /\ pic.kind \in {"I", "P", "B"}),
           NEW size, NEW hurry, Calm(d) => hurry = 0
    PROVE  Coded(d, pic, size,
                 Decode(d.codec, IF pic = NoPic THEN pic ELSE [pic EXCEPT !.ts = get_ts(d.ts_handler)],
                        size, hurry))
  <1> DEFINE c == d.codec
             ts == get_ts(d.ts_handler)
             q == [pic EXCEPT !.ts = ts]
             p == IF pic = NoPic THEN pic ELSE q
             r == Decode(c, p, size, hurry)
  <1>0. Codec(c)
    BY DEF Codec, Element
  <1>1. CASE pic = NoPic
    <2>1. pic.kind = "none"
      BY <1>1 DEF NoPic
    <2>2. r = [codec |-> [c EXCEPT !.next = NoPic], len |-> 0, pic |-> c.next]
      BY <1>1, <2>1, Zenon DEF Decode
    <2>3. r.codec = [c EXCEPT !.next = NoPic] /\ r.len = 0 /\ r.pic = c.next
      <3> HIDE DEF r, c
      <3> QED BY <2>2
    <2> HIDE DEF r
    <2>4. Codec(r.codec) /\ r.codec.next = NoPic /\ r.codec.last = c.last
      <3> HIDE DEF c
      <3> QED BY <1>0, <2>3 DEF Codec
    <2> HIDE DEF p
    <2>5. Coded(d, pic, size, r)
      BY <1>1, <2>1, <2>3, <2>4 DEF Coded
    <2> QED BY <2>5 DEF r, p
  <1>2. CASE pic # NoPic
    <2>1. p = q /\ Picture(pic) /\ pic.kind \in {"I", "P", "B"}
      BY <1>2
    <2>2. q.kind = pic.kind /\ q # NoPic
      <3> HIDE DEF ts
      <3>1. q.kind = pic.kind
        BY <2>1 DEF Picture
      <3> QED BY <2>1, <3>1 DEF NoPic
    <2>3. \A have : Grown(From(q, have), pic, ts, have)
      BY <2>1, FromGrown
    <2> HIDE DEF p, q, ts
    <2>4. CASE pic.kind = "B"
      <3> DEFINE x == IF c.last # NoPic /\ c.next # NoPic /\ hurry = 0
                      THEN From(q, {c.last, c.next}) ELSE NoPic
      <3>1. r = [codec |-> c, len |-> size, pic |-> x]
        BY <2>1, <2>2, <2>4, Zenon DEF Decode
      <3>2. \/ x = NoPic /\ (Calm(d) => NoPic \in {c.next, c.last})
            \/ /\ c.last # NoPic /\ c.next # NoPic
               /\ Grown(x, pic, ts, {c.last, c.next})
        BY <2>3
      <3> HIDE DEF x, c
      <3>3. r.codec = c /\ r.len = size /\ r.pic = x
        BY <3>1
      <3> HIDE DEF r
      <3>4. Coded(d, pic, size, r)
        BY <1>0, <1>2, <2>4, <3>2, <3>3 DEF Coded, ts, c
      <3> QED BY <3>4 DEF r, p, q, ts, c
    <2>5. CASE pic.kind \in {"I", "P"}
      <3> DEFINE x == From(q, {c.next})
      <3>1. r = [codec |-> [next |-> x, last |-> c.next], len |-> size, pic |-> c.next]
        <4>1. q.kind # "bad" /\ q.kind # "B"
          BY <2>2, <2>5
        <4> QED BY <2>1, <2>2, <4>1, Zenon DEF Decode
      <3>2. Grown(x, pic, ts, {c.next})
        BY <2>3
      <3> HIDE DEF x, c
      <3>3. r.codec = [next |-> x, last |-> c.next] /\ r.len = size /\ r.pic = c.next
        BY <3>1
      <3> HIDE DEF r
      <3>4. Codec(r.codec) /\ r.codec.next = x /\ r.codec.last = c.next
        BY <3>3 DEF Codec
      <3>5. Coded(d, pic, size, r)
        BY <1>2, <2>5, <3>2, <3>3, <3>4 DEF Coded, ts, c
      <3> QED BY <3>5 DEF r, p, q, ts, c
    <2> QED BY <2>1, <2>4, <2>5
  <1> QED BY <1>1, <1>2

(* do_qos asks for a key frame only when it skips to one, and asks nothing *)
(* without QoS events.                                                     *)
LEMMA QosEffect ==
    ASSUME NEW d, Element(d), NEW in_ts
    PROVE  LET q == do_qos(d, in_ts) IN
           /\ Kept(d, q.dec) /\ q.dec.next_ts = d.next_ts /\ q.dec.last_out = d.last_out
           /\ q.dec.ts_is_dts = d.ts_is_dts /\ q.dec.has_b_frames = d.has_b_frames
           /\ q.dec.earliest_time = d.earliest_time /\ q.dec.ts_handler = d.ts_handler
           /\ q.dec.waiting_for_key <=> d.waiting_for_key \/ QosLabel(d, in_ts) = "skip_to_keyframe"
           /\ Calm(d) => q.dec.hurry_up = 0 /\ q.decode /\ ~q.mode_switch
  <1> DEFINE label == QosLabel(d, in_ts)
             h == CASE label \in {"normal_mode", "no_observation"} -> 0
                    [] label \in {"skip_to_keyframe", "hurry_up"} -> 1
                    [] OTHER -> d.hurry_up
             w == d.waiting_for_key \/ label = "skip_to_keyframe"
             e == [d EXCEPT !.hurry_up = h, !.waiting_for_key = w]
             go == label \notin {"skipping", "skip_to_keyframe"}
             ms == label = "skip_to_keyframe" \/ (label \in {"normal_mode", "hurry_up"} /\ h # d.hurry_up)
             q == do_qos(d, in_ts)
  <1>1. q = [decode |-> go, mode_switch |-> ms, dec |-> e]
    BY DEF do_qos, Qos
  <1>2. Calm(d) => label \in {"no_qos", "no_observation"}
    <2>1. CASE in_ts = NONE
      BY <2>1, Zenon DEF QosLabel
    <2>2. CASE in_ts # NONE /\ d.earliest_time = NONE
      BY <2>2, Zenon DEF QosLabel
    <2> QED BY <2>1, <2>2 DEF Calm
  <1> HIDE DEF label
  <1>3. h \in {0, 1} /\ w \in BOOLEAN /\ (Calm(d) => h = 0)
    <2>1. h \in {0, 1} /\ w \in BOOLEAN
      BY DEF Element
    <2>2. Calm(d) => h = 0
      BY <1>2 DEF Calm
    <2> QED BY <2>1, <2>2
  <1>4. Calm(d) => go /\ ~ms
    BY <1>2
  <1> HIDE DEF h, w, go, ms
  <1>5. /\ Kept(d, e) /\ e.next_ts = d.next_ts /\ e.last_out = d.last_out
        /\ e.ts_is_dts = d.ts_is_dts /\ e.has_b_frames = d.has_b_frames
        /\ e.earliest_time = d.earliest_time /\ e.ts_handler = d.ts_handler
        /\ e.waiting_for_key = w /\ e.hurry_up = h
    BY <1>3 DEF Kept, Element
  <1> HIDE DEF e, q
  <1>6. q.dec = e /\ q.decode = go /\ q.mode_switch = ms
    BY <1>1
  <1>7. w <=> d.waiting_for_key \/ label = "skip_to_keyframe"
    BY DEF w
  <1>8. e.waiting_for_key <=> d.waiting_for_key \/ label = "skip_to_keyframe"
    BY <1>5, <1>7
  <1>9. Calm(d) => q.dec.hurry_up = 0 /\ q.decode /\ ~q.mode_switch
    BY <1>3, <1>4, <1>5, <1>6
  <1> QED BY <1>5, <1>6, <1>8, <1>9 DEF q, label

(* No key frame is asked for when no buffer is as late as that.            *)
LEMMA NeverSkips ==
    ASSUME NEW d, NEW in_ts \in Int, stream \in Streams, NoSkips(stream),
           d.earliest_time \in {NONE} \cup stream.Earliest, d.segment.start \in Int, d.segment.stop \in Int,
           d.segment.rate \in {1, -1}, d.segment.rate < 0 => d.segment.stop # NONE
    PROVE  QosLabel(d, in_ts) # "skip_to_keyframe"
  <1> DEFINE qostime == RunningTime(d.segment, in_ts)
             diff == d.earliest_time - qostime
  <1>1. stream.Late \in Nat /\ stream.Earliest \subseteq Int
    BY DecAssumption
  <1>2. CASE in_ts = NONE
    BY <1>2, Zenon DEF QosLabel
  <1>3. CASE in_ts # NONE /\ d.earliest_time = NONE
    BY <1>3, Zenon DEF QosLabel
  <1>4. CASE in_ts # NONE /\ d.earliest_time # NONE
    <2>1. qostime = NONE \/ qostime \in Nat
      BY DEF RunningTime, NONE
    <2>2. CASE qostime = NONE
      BY <1>4, <2>2, Zenon DEF QosLabel
    <2>3. CASE qostime # NONE
      <3>1. ~(diff > stream.Late)
        <4>1. d.earliest_time \in Int /\ d.earliest_time <= stream.Late
          BY <1>1, <1>4 DEF NoSkips
        <4> HIDE DEF qostime
        <4> QED BY <1>1, <2>1, <2>3, <4>1
      <3>2. QosLabel(d, in_ts) = IF ~d.slow /\ diff < 0 THEN "normal_mode"
              ELSE IF diff > stream.Late /\ ~d.waiting_for_key THEN "skip_to_keyframe"
              ELSE IF diff >= 0 /\ d.waiting_for_key THEN "skipping"
              ELSE IF diff >= 0 THEN "hurry_up" ELSE "no_qos"
        BY <1>4, <2>3, Zenon DEF QosLabel
      <3> HIDE DEF diff
      <3> QED BY <3>1, <3>2
    <2> QED BY <2>2, <2>3
  <1> QED BY <1>2, <1>3, <1>4

(* What QoS and the codec leave in the element.                            *)
Turned(d, e, r, in_ts) ==
    /\ Element(e) /\ e.codec = r.codec /\ e.segment = d.segment /\ e.queued = d.queued
    /\ e.next_ts = d.next_ts /\ e.last_out = d.last_out /\ e.ts_is_dts = d.ts_is_dts
    /\ e.has_b_frames = d.has_b_frames /\ e.earliest_time = d.earliest_time
    /\ e.ts_handler = consume(Taken(d.ts_handler), r.len)
    /\ e.waiting_for_key <=> d.waiting_for_key \/ QosLabel(d, in_ts) = "skip_to_keyframe"
    /\ Calm(d) => e.hurry_up = 0

(* What becomes of the picture that the codec gives, if any.               *)
Way(d, e, r, in_ts, f) ==
    /\ r.pic = NoPic =>
          /\ Steady(e, f.dec) /\ Idle(e, f) /\ f.dec.waiting_for_key = e.waiting_for_key
          /\ f.dec.next_ts = e.next_ts /\ f.dec.has_b_frames = e.has_b_frames
          /\ \/ f.dec.last_out = e.last_out /\ f.dec.ts_is_dts = e.ts_is_dts
             \/ r.len > 0 /\ ~Calm(d) /\ f.dec.last_out = NONE /\ ~f.dec.ts_is_dts
    /\ r.pic # NoPic => Steady(e, f.dec) /\ Passes(e, r.pic, in_ts, f)

(* gst_ffmpegdec_frame: the sample's QoS, its decoding and the way of the picture. *)
LEMMA FrameWay ==
    ASSUME NEW d, Element(d), down, NEW pic, pic = NoPic \/ (Picture(pic) /\ pic.kind \in {"I", "P", "B"}),
           NEW size, NEW in_ts
    PROVE  \E e, r : /\ Coded(d, pic, size, r) /\ Turned(d, e, r, in_ts)
                     /\ Way(d, e, r, in_ts, Frame(d, pic, size, in_ts))
  <1> DEFINE q == do_qos(d, in_ts)
             p == IF pic = NoPic THEN pic ELSE [pic EXCEPT !.ts = get_ts(d.ts_handler)]
             h == IF q.decode THEN q.dec.hurry_up ELSE 2
             r == Decode(d.codec, p, size, h)
             c == r.codec
             t == consume(Taken(q.dec.ts_handler), r.len)
             e == [q.dec EXCEPT !.codec = c, !.ts_handler = t]
             s == q.mode_switch \/ q.dec.hurry_up # 0
             v == Decoded(e, r, s, in_ts)
             f == Delivered(v)
  <1>1. Frame(d, pic, size, in_ts) = f
    BY DEF Frame, video_frame, Decoding, Received
  <1>2. /\ Kept(d, q.dec) /\ q.dec.next_ts = d.next_ts /\ q.dec.last_out = d.last_out
        /\ q.dec.ts_is_dts = d.ts_is_dts /\ q.dec.has_b_frames = d.has_b_frames
        /\ q.dec.earliest_time = d.earliest_time /\ q.dec.ts_handler = d.ts_handler
        /\ q.dec.waiting_for_key <=> d.waiting_for_key \/ QosLabel(d, in_ts) = "skip_to_keyframe"
        /\ Calm(d) => q.dec.hurry_up = 0 /\ q.decode /\ ~q.mode_switch
    BY QosEffect
  <1> HIDE DEF q
  <1>3. (Calm(d) => h = 0) /\ (Calm(d) => ~s)
    BY <1>2
  <1> HIDE DEF h, s
  <1>4. Coded(d, pic, size, r)
    BY <1>3, DecodeCoded
  <1> HIDE DEF r
  <1>5. Codec(c)
    BY <1>4 DEF Coded
  <1>6. Turned(d, e, r, in_ts)
    <2>1. t = consume(Taken(d.ts_handler), r.len)
      BY <1>2
    <2> HIDE DEF t, c
    <2>2. /\ Element(e) /\ e.codec = c /\ e.segment = q.dec.segment /\ e.queued = q.dec.queued
          /\ e.next_ts = q.dec.next_ts /\ e.last_out = q.dec.last_out /\ e.ts_is_dts = q.dec.ts_is_dts
          /\ e.has_b_frames = q.dec.has_b_frames /\ e.earliest_time = q.dec.earliest_time
          /\ e.ts_handler = t /\ e.waiting_for_key = q.dec.waiting_for_key /\ e.hurry_up = q.dec.hurry_up
      BY <1>2, <1>5 DEF Kept, Element, Codec
    <2> HIDE DEF e
    <2> QED BY <1>2, <2>1, <2>2 DEF Turned, Kept, c
  <1> HIDE DEF e
  <1>7. ASSUME r.pic = NoPic
        PROVE  Way(d, e, r, in_ts, f)
    <2> DEFINE g == [e EXCEPT !.ts_is_dts = FALSE, !.last_out = NONE]
               k == Skipped(e, r, s)
    <2>1. v = [dec |-> k, out |-> NoOutput]
      BY <1>7 DEF Decoded
    <2>2. v.dec = k /\ v.out = NoOutput
      <3> HIDE DEF k
      <3> QED BY <2>1
    <2>3. k = e \/ (k = g /\ r.len > 0 /\ s)
      BY DEF Skipped
    <2>4. Element(e)
      BY <1>6 DEF Turned
    <2>5. /\ Steady(e, g) /\ g.queued = e.queued /\ g.waiting_for_key = e.waiting_for_key
          /\ g.next_ts = e.next_ts /\ g.has_b_frames = e.has_b_frames /\ g.last_out = NONE /\ ~g.ts_is_dts
      BY <2>4 DEF Steady, Element
    <2>6. Steady(e, e)
      BY <2>4 DEF Steady
    <2> HIDE DEF g, k, v
    <2>7. f = [dec |-> k, got |-> FALSE, pushed |-> <<>>]
      BY <2>2 DEF Delivered
    <2>8. f.dec = k /\ f.pushed = <<>>
      <3> HIDE DEF f
      <3> QED BY <2>7
    <2> HIDE DEF f
    <2>9. CASE k = e
      BY <1>7, <2>6, <2>8, <2>9 DEF Way, Idle
    <2>10. CASE k = g /\ r.len > 0 /\ s
      BY <1>3, <1>7, <2>5, <2>8, <2>10 DEF Way, Idle
    <2> QED BY <2>3, <2>9, <2>10
  <1>8. ASSUME r.pic # NoPic
        PROVE  Way(d, e, r, in_ts, f)
    <2>1. v = Presented(r.pic, Timed(e, r.pic, in_ts))
      BY <1>8 DEF Decoded
    <2>2. Element(e)
      BY <1>6 DEF Turned
    <2>3. Steady(e, f.dec) /\ Passes(e, r.pic, in_ts, f)
      BY <2>1, <2>2, PresentedPasses
    <2> HIDE DEF f
    <2> QED BY <1>8, <2>3 DEF Way
  <1>9. Way(d, e, r, in_ts, Frame(d, pic, size, in_ts))
    <2> HIDE DEF f
    <2> QED BY <1>1, <1>7, <1>8
  <1> QED BY <1>4, <1>6, <1>9

(* A call that has nothing to take.                                        *)
LEMMA NothingConsumed == consume(Taken(<<>>), 0) = <<>>
  <1>1. Taken(<<>>) = <<>>
    BY DEF Taken
  <1>2. ~(0 > 0) /\ 0 # -1
    OBVIOUS
  <1>3. consume(<<>>, 0) = <<>>
    BY <1>2, Zenon DEF consume
  <1> QED BY <1>1, <1>3

(* What a drain leaves of an element whose codec holds nothing.            *)
Rested(d, e) ==
    /\ Element(e) /\ e.segment = d.segment /\ e.earliest_time = d.earliest_time /\ e.codec.next = NoPic
    /\ Calm(d) => e.hurry_up = 0
    /\ d.ts_handler = <<>> => e.ts_handler = <<>>

(* The times and the key frame the element waits for are as before.        *)
AsBefore(d, e) ==
    /\ e.waiting_for_key = d.waiting_for_key /\ e.next_ts = d.next_ts /\ e.last_out = d.last_out
    /\ e.ts_is_dts = d.ts_is_dts /\ e.has_b_frames = d.has_b_frames

(* A call without a picture gives the one that was held.                   *)
LEMMA EmptyFrame ==
    ASSUME NEW d, Element(d), down
    PROVE  LET f == Frame(d, NoPic, 0, NONE) IN
           /\ Rested(d, f.dec)
           /\ d.codec.next = NoPic => Idle(d, f) /\ AsBefore(d, f.dec)
           /\ d.codec.next # NoPic => Passes(d, d.codec.next, NONE, f)
  <1> DEFINE f == Frame(d, NoPic, 0, NONE)
  <1>1. PICK e, r : Coded(d, NoPic, 0, r) /\ Turned(d, e, r, NONE) /\ Way(d, e, r, NONE, f)
    BY FrameWay
  <1> HIDE DEF f
  <1>2. r.codec.next = NoPic /\ r.len = 0 /\ r.pic = d.codec.next
    BY <1>1 DEF Coded
  <1>3. QosLabel(d, NONE) = "no_qos"
    BY Zenon DEF QosLabel
  <1>4. e.waiting_for_key <=> d.waiting_for_key
    BY <1>1, <1>3 DEF Turned
  <1>5. e.waiting_for_key = d.waiting_for_key
    BY <1>1, <1>4 DEF Turned, Element
  <1>6. Steady(e, f.dec)
    BY <1>1 DEF Way
  <1>7. Rested(d, f.dec)
    BY <1>1, <1>2, <1>6, NothingConsumed DEF Rested, Steady, Turned
  <1>8. d.codec.next = NoPic => Idle(d, f) /\ AsBefore(d, f.dec)
    BY <1>1, <1>2, <1>5 DEF Way, Idle, AsBefore, Turned
  <1>9. ASSUME d.codec.next # NoPic
        PROVE  Passes(d, d.codec.next, NONE, f)
    <2>1. Passes(e, d.codec.next, NONE, f)
      BY <1>1, <1>2, <1>9 DEF Way
    <2> DEFINE p == d.codec.next
    <2> HIDE DEF p
    <2>2. PICK ts :
            /\ TimesOf(e, p, NONE, f.dec, ts)
            /\ \/ /\ e.waiting_for_key /\ p.kind # "I" /\ f.dec.waiting_for_key /\ Idle(e, f)
                  /\ ~Zeros(e, p) => f.dec.next_ts = e.next_ts
               \/ /\ ~f.dec.waiting_for_key
                  /\ ~Zeros(e, p) => f.dec.next_ts = (IF ts # NONE THEN ts + 1 ELSE e.next_ts)
                  /\ Idle(e, f) \/ \E o : Copy(o, p) /\ o.ts = ts /\ Emits(e, f, o)
      BY <2>1 DEF Passes, p
    <2>3. (Zeros(e, p) <=> Zeros(d, p)) /\ TimesOf(d, p, NONE, f.dec, ts)
      BY <1>1, <2>2 DEF Turned, Zeros, TimesOf
    <2>4. (Idle(e, f) <=> Idle(d, f)) /\ \A o : Emits(e, f, o) <=> Emits(d, f, o)
      BY <1>1 DEF Turned, Idle, Emits
    <2>5. e.next_ts = d.next_ts
      BY <1>1 DEF Turned
    <2>6. Passes(d, p, NONE, f)
      BY <1>4, <2>2, <2>3, <2>4, <2>5 DEF Passes
    <2> QED BY <2>6 DEF p
  <1> QED BY <1>7, <1>8, <1>9 DEF f

(* gst_ffmpegdec_drain: the picture that was held passes, and in reverse   *)
(* the frames that were queued are pushed.                                 *)
DrainWay(d, r) ==
    /\ Rested(d, r.dec) /\ r.dec.queued = (IF d.segment.rate > 0 THEN d.queued ELSE <<>>)
    /\ d.codec.next = NoPic =>
          AsBefore(d, r.dec) /\ r.pushed = IF d.segment.rate > 0 THEN <<>> ELSE d.queued
    /\ d.codec.next # NoPic =>
          \E f : /\ Passes(d, d.codec.next, NONE, f) /\ AsBefore(f.dec, r.dec)
                 /\ r.pushed = IF d.segment.rate > 0 THEN f.pushed ELSE f.dec.queued

(* gst_ffmpegdec_drain: what was held leaves with what was queued.         *)
LEMMA DrainsWay ==
    ASSUME NEW d, Element(d), down
    PROVE  DrainWay(d, drain(d))
  <1> DEFINE f == Frame(d, NoPic, 0, NONE)
             g == Frame(f.dec, NoPic, 0, NONE)
             e == Again(f)
             r == flush_queued(e, f.pushed)
  <1>1. /\ Rested(d, f.dec)
        /\ d.codec.next = NoPic => Idle(d, f) /\ AsBefore(d, f.dec)
        /\ d.codec.next # NoPic => Passes(d, d.codec.next, NONE, f)
    BY EmptyFrame
  <1>2. Element(f.dec) /\ f.dec.codec.next = NoPic
    <2> HIDE DEF f
    <2> QED BY <1>1 DEF Rested
  <1>3. Rested(f.dec, g.dec) /\ Idle(f.dec, g) /\ AsBefore(f.dec, g.dec)
    <2> HIDE DEF f
    <2> QED BY <1>2, EmptyFrame
  <1>4. e = g.dec \/ e = f.dec
    BY DEF Again
  <1>5. drain(d) = r
    BY DEF drain, Twice
  <1> HIDE DEF f, g, e
  <1>6. Rested(d, e) /\ e.queued = f.dec.queued /\ AsBefore(f.dec, e)
    BY <1>1, <1>3, <1>4 DEF Rested, Idle, AsBefore, Calm
  <1>7. \/ d.codec.next = NoPic
        \/ \A q \in {d.queued} : Passes(d, d.codec.next, NONE, f) => f.dec.queued = q \/ ~(d.segment.rate > 0)
    BY DEF Passes, Idle, Emits
  <1>8. CASE d.segment.rate > 0
    <2>1. ~(e.segment.rate < 0)
      BY <1>6, <1>8 DEF Rested, Element
    <2>2. r = [dec |-> e, pushed |-> f.pushed]
      BY <2>1 DEF flush_queued
    <2>3. r.dec = e /\ r.pushed = f.pushed
      BY <2>2
    <2> HIDE DEF r
    <2>4. e.queued = d.queued
      BY <1>1, <1>6, <1>7, <1>8 DEF Idle
    <2>5. d.codec.next = NoPic => AsBefore(d, r.dec) /\ r.pushed = <<>>
      BY <1>1, <1>6, <2>3 DEF Idle, AsBefore
    <2>6. d.codec.next # NoPic =>
            Passes(d, d.codec.next, NONE, f) /\ AsBefore(f.dec, r.dec) /\ r.pushed = f.pushed
      BY <1>1, <1>6, <2>3
    <2>7. DrainWay(d, r)
      BY <1>6, <1>8, <2>3, <2>4, <2>5, <2>6 DEF DrainWay
    <2> QED BY <1>5, <2>7
  <1>9. CASE ~(d.segment.rate > 0)
    <2> DEFINE e0 == [e EXCEPT !.queued = <<>>]
    <2>1. e.segment.rate < 0
      BY <1>6, <1>9 DEF Rested, Element
    <2>2. r = [dec |-> e0, pushed |-> e.queued]
      BY <2>1 DEF flush_queued
    <2>3. r.dec = e0 /\ r.pushed = e.queued
      BY <2>2
    <2>4. Rested(d, e0) /\ e0.queued = <<>> /\ AsBefore(f.dec, e0)
      <3>1. <<>> \in Seq(Frames(<<>>))
        OBVIOUS
      <3>2. /\ Element(e0) /\ e0.segment = e.segment /\ e0.codec = e.codec /\ e0.queued = <<>>
            /\ e0.earliest_time = e.earliest_time /\ e0.hurry_up = e.hurry_up /\ e0.ts_handler = e.ts_handler
            /\ AsBefore(e, e0)
        BY <1>6, <3>1 DEF Rested, Element, AsBefore
      <3> HIDE DEF e0
      <3> QED BY <1>6, <3>2 DEF Rested, AsBefore
    <2> HIDE DEF r, e0
    <2>5. d.codec.next = NoPic => AsBefore(d, r.dec) /\ r.pushed = d.queued
      BY <1>1, <1>6, <2>3, <2>4 DEF Idle, AsBefore
    <2>6. d.codec.next # NoPic =>
            Passes(d, d.codec.next, NONE, f) /\ AsBefore(f.dec, r.dec) /\ r.pushed = f.dec.queued
      BY <1>1, <1>6, <2>3, <2>4
    <2>7. DrainWay(d, r)
      BY <1>9, <2>3, <2>4, <2>5, <2>6 DEF DrainWay
    <2> QED BY <1>5, <2>7
  <1> QED BY <1>8, <1>9

(* A buffer in an empty map: its picture gets its time and takes the whole *)
(* entry.                                                                  *)
LEMMA WholeConsumed ==
    ASSUME NEW ts, NEW size \in Nat \ {0}
    PROVE  LET q == Append_ts(<<>>, ts, size) IN get_ts(q) = ts /\ consume(Taken(q), size) = <<>>
  <1> DEFINE a == [ts |-> ts, size |-> size]
             b == [a EXCEPT !.ts = NONE]
             q == <<b>>
  <1>1. Append_ts(<<>>, ts, size) = <<a>>
    <2>1. Append(<<>>, a) = <<a>>
      <3> HIDE DEF a
      <3> QED OBVIOUS
    <2> QED BY <2>1 DEF Append_ts
  <1>2. get_ts(<<a>>) = ts
    <2>1. <<a>> # <<>> /\ <<a>>[1] = a
      <3> HIDE DEF a
      <3> QED OBVIOUS
    <2>2. a.ts = ts
      OBVIOUS
    <2> QED BY <2>1, <2>2 DEF get_ts
  <1>3. Taken(<<a>>) = q
    <2> HIDE DEF a
    <2>1. <<a>> # <<>> /\ [<<a>> EXCEPT ![1].ts = NONE] = <<b>>
      OBVIOUS
    <2> QED BY <2>1 DEF Taken
  <1>4. b.size = size
    OBVIOUS
  <1> HIDE DEF b
  <1>5. Len(q) = 1 /\ q[1].size = size /\ q # <<>>
    BY <1>4
  <1> HIDE DEF q
  <1> DEFINE F(f) == f = [i \in 0 .. Len(q) |-> IF i = 0 THEN 0 ELSE f[i - 1] + q[i].size]
             Bytes == CHOOSE f : F(f)
             eaten == CHOOSE i \in 0 .. Len(q) : Bytes[i] <= size /\ (i = Len(q) \/ Bytes[i + 1] > size)
             rest == SubSeq(q, eaten + 1, Len(q))
             part == [rest EXCEPT ![1].size = @ - (size - Bytes[eaten])]
  <1>6. consume(q, size) = CASE size > 0 /\ rest # <<>> -> part
                             [] size > 0 /\ rest = <<>> -> <<>>
                             [] size = -1 /\ q # <<>> -> Tail(q)
                             [] OTHER -> q
    BY Zenon DEF consume
  <1>7. F(Bytes)
    <2> DEFINE g == [i \in 0 .. 1 |-> IF i = 0 THEN 0 ELSE size]
    <2>1. F(g)
      <3>1. \A i \in 0 .. 1 : g[i] = IF i = 0 THEN 0 ELSE g[i - 1] + q[i].size
        BY <1>5
      <3> QED BY <1>5, <3>1
    <2> HIDE DEF F, g
    <2> QED BY <2>1
  <1>8. Bytes[0] = 0 /\ Bytes[1] = size
    <2> HIDE DEF Bytes
    <2>1. Bytes[0] = 0
      BY <1>5, <1>7
    <2>2. Bytes[1] = Bytes[0] + size
      BY <1>5, <1>7
    <2> QED BY <2>1, <2>2
  <1> HIDE DEF Bytes
  <1>9. eaten = 1
    <2> DEFINE P(i) == Bytes[i] <= size /\ (i = Len(q) \/ Bytes[i + 1] > size)
    <2>1. P(1) /\ 1 \in 0 .. Len(q)
      BY <1>5, <1>8
    <2>2. \A i \in 0 .. Len(q) : P(i) => i = 1
      BY <1>5, <1>8
    <2> HIDE DEF P
    <2>3. eaten = CHOOSE i \in 0 .. Len(q) : P(i)
      BY DEF P
    <2> QED BY <2>1, <2>2, <2>3
  <1> HIDE DEF eaten
  <1>10. rest = <<>>
    BY <1>4, <1>5, <1>9 DEF q
  <1> HIDE DEF part, rest
  <1>11. size > 0
    OBVIOUS
  <1>12. consume(q, size) = <<>>
    BY <1>6, <1>10, <1>11
  <1> QED BY <1>1, <1>2, <1>3, <1>12

(* The element w is d with a buffer in its map.                            *)
Mapped(d, w, ts, size) ==
    /\ Element(w) /\ w.codec = d.codec /\ w.segment = d.segment /\ w.queued = d.queued
    /\ w.next_ts = d.next_ts /\ w.last_out = d.last_out /\ w.ts_is_dts = d.ts_is_dts
    /\ w.has_b_frames = d.has_b_frames /\ w.earliest_time = d.earliest_time /\ w.hurry_up = d.hurry_up
    /\ w.ts_handler = Append_ts(d.ts_handler, ts, size)

(* A buffer that is dropped for want of a key frame.                       *)
Ignored(d, delta, ts, size, f) ==
    /\ d.waiting_for_key /\ delta /\ Mapped(d, f.dec, ts, size) /\ f.dec.waiting_for_key
    /\ Idle(d, f)

(* A sample that the codec gets, and the way of the picture it gives back. *)
Fed(d, p, ts, size, f) ==
    \E w, e, r : /\ Mapped(d, w, ts, size) /\ ~w.waiting_for_key
                 /\ Coded(w, p, size, r) /\ Turned(w, e, r, ts) /\ Way(w, e, r, ts, f)

(* gst_ffmpegdec_chain for a buffer behind what `before' pushed.           *)
LEMMA ArrivedWay ==
    ASSUME NEW b, Element(b.dec), down, NEW p, Picture(p), p.kind \in {"I", "P", "B"}, NEW delta \in BOOLEAN,
           NEW size, NEW ts
    PROVE  \E f : /\ Ignored(b.dec, delta, ts, size, f)
                       \/ ((b.dec.waiting_for_key => ~delta) /\ Fed(b.dec, p, ts, size, f))
                  /\ Arrived(b, [pic |-> p, delta |-> delta], size, ts).dec = f.dec
                  /\ Arrived(b, [pic |-> p, delta |-> delta], size, ts).pushed
                        \in {b.pushed \o f.pushed} \cup (IF f.pushed = <<>> THEN {b.pushed} ELSE {})
  <1> DEFINE h == Append_ts(b.dec.ts_handler, ts, size)
             u == [b.dec EXCEPT !.ts_handler = h]
             w == [u EXCEPT !.waiting_for_key = FALSE]
             pic == [pic |-> p, delta |-> delta]
             a == Arrived(b, pic, size, ts)
             g == Frame(w, p, size, ts)
             k == [dec |-> u, got |-> FALSE, pushed |-> b.pushed]
  <1>1. /\ pic.delta = delta /\ pic.pic = p
        /\ a = Consume(u, b.pushed, pic, size, ts)
    BY DEF Arrived
  <1>2. Mapped(b.dec, u, ts, size) /\ u.waiting_for_key = b.dec.waiting_for_key
    <2> HIDE DEF h
    <2>1. /\ Element(u) /\ u.codec = b.dec.codec /\ u.segment = b.dec.segment /\ u.queued = b.dec.queued
          /\ u.next_ts = b.dec.next_ts /\ u.last_out = b.dec.last_out /\ u.ts_is_dts = b.dec.ts_is_dts
          /\ u.has_b_frames = b.dec.has_b_frames /\ u.earliest_time = b.dec.earliest_time
          /\ u.hurry_up = b.dec.hurry_up /\ u.ts_handler = h /\ u.waiting_for_key = b.dec.waiting_for_key
      BY DEF Element
    <2> HIDE DEF u
    <2> QED BY <2>1 DEF Mapped, h
  <1> HIDE DEF u, h
  <1>3. CASE u.waiting_for_key /\ delta
    <2> DEFINE f == [dec |-> u, pushed |-> <<>>]
    <2> HIDE DEF a
    <2>1. a = k
      BY <1>1, <1>3 DEF Consume
    <2>2. a.dec = u /\ a.pushed = b.pushed
      BY <2>1
    <2>3. f.dec = u /\ f.pushed = <<>>
      OBVIOUS
    <2> HIDE DEF f
    <2>4. Ignored(b.dec, delta, ts, size, f)
      BY <1>2, <1>3, <2>3 DEF Ignored, Idle, Mapped
    <2> QED BY <2>2, <2>3, <2>4 DEF a
  <1>4. CASE ~(u.waiting_for_key /\ delta)
    <2> HIDE DEF a
    <2>1. a = [g EXCEPT !.pushed = b.pushed \o g.pushed]
      BY <1>1, <1>4 DEF Consume
    <2>2. Mapped(b.dec, w, ts, size) /\ ~w.waiting_for_key
      <3>1. /\ Element(w) /\ w.codec = u.codec /\ w.segment = u.segment /\ w.queued = u.queued
            /\ w.next_ts = u.next_ts /\ w.last_out = u.last_out /\ w.ts_is_dts = u.ts_is_dts
            /\ w.has_b_frames = u.has_b_frames /\ w.earliest_time = u.earliest_time
            /\ w.hurry_up = u.hurry_up /\ w.ts_handler = u.ts_handler /\ ~w.waiting_for_key
        BY <1>2 DEF Mapped, Element
      <3> HIDE DEF w
      <3> QED BY <1>2, <3>1 DEF Mapped
    <2>3. \E e, t, q : g = [dec |-> e, got |-> t, pushed |-> q]
      <3>1. \E e, t, q : Delivered(video_frame(w, p, size, ts)) = [dec |-> e, got |-> t, pushed |-> q]
        BY Zenon DEF Delivered
      <3> QED BY <3>1 DEF Frame
    <2>4. PICK e, r : Coded(w, p, size, r) /\ Turned(w, e, r, ts) /\ Way(w, e, r, ts, g)
      <3> HIDE DEF w
      <3>1. Element(w) /\ Picture(p) /\ p.kind \in {"I", "P", "B"}
        BY <2>2 DEF Mapped
      <3> QED BY <3>1, FrameWay
    <2> HIDE DEF w, g
    <2>5. Fed(b.dec, p, ts, size, g)
      BY <2>2, <2>4 DEF Fed
    <2>6. a.dec = g.dec /\ a.pushed = b.pushed \o g.pushed
      BY <2>1, <2>3
    <2> QED BY <1>2, <1>4, <2>5, <2>6 DEF a
  <1> QED BY <1>3, <1>4

(* A picture that is fed gives one frame or none.                          *)
LEMMA FedPushed ==
    ASSUME NEW d, NEW p, NEW ts, NEW size, NEW f, Fed(d, p, ts, size, f)
    PROVE  f.pushed = <<>> \/ \E o : f.pushed = <<o>>
  <1>1. PICK w, e, r : Way(w, e, r, ts, f)
    BY DEF Fed
  <1> QED BY <1>1 DEF Way, Passes, Idle, Emits

(* A reference behind a mark: the codec holds nothing.                     *)
LEMMA FedFirst ==
    ASSUME NEW d, d.codec.next = NoPic, NEW p, p.kind \in {"I", "P"}, NEW ts, NEW size, NEW f,
           Fed(d, p, ts, size, f)
    PROVE  Idle(d, f)
  <1>1. PICK w, e, r : Mapped(d, w, ts, size) /\ Coded(w, p, size, r) /\ Turned(w, e, r, ts) /\ Way(w, e, r, ts, f)
    BY DEF Fed
  <1>2. r.pic = NoPic
    BY <1>1 DEF Coded, Mapped
  <1> QED BY <1>1, <1>2 DEF Way, Idle, Turned, Mapped

(* A discont: the element that has drained forgets its pictures and times. *)
Marked(d, e) ==
    LET z == drain(d).dec IN
    /\ Element(e) /\ e.codec = CodecInit /\ e.segment = d.segment /\ e.queued = <<>>
    /\ e.next_ts = NONE /\ e.last_out = NONE /\ e.ts_is_dts = z.ts_is_dts
    /\ e.has_b_frames = z.has_b_frames /\ e.earliest_time = z.earliest_time /\ e.hurry_up = z.hurry_up
    /\ e.ts_handler = z.ts_handler /\ e.waiting_for_key = z.waiting_for_key

(* A discontinuity: the element drains and starts its times anew.          *)
LEMMA BeforeMarked ==
    ASSUME NEW d, Element(d), d.segment.rate > 0 => d.queued = <<>>
    PROVE  Marked(d, Before(d, TRUE).dec) /\ Before(d, TRUE).pushed = drain(d).pushed
  <1> DEFINE r == drain(d)
             z == r.dec
             e == Discontinued(z)
             b == [r EXCEPT !.dec = e]
  <1>1. Before(d, TRUE) = b
    BY DEF Before
  <1>2. Drained(d, r)
    BY DrainDrained
  <1>3. r \in [dec : {r.dec}, pushed : {r.pushed}]
    <2>1. \E x, y : drain(d) = [dec |-> x, pushed |-> y]
      BY Zenon DEF drain, Twice, flush_queued
    <2> QED BY <2>1
  <1> HIDE DEF r
  <1>4. Element(z) /\ z.segment = d.segment /\ z.queued = <<>>
    BY <1>2 DEF Drained
  <1>5. b.dec = e /\ b.pushed = r.pushed
    <2> HIDE DEF e
    <2> QED BY <1>3
  <1> HIDE DEF z
  <1>6. /\ Element(e) /\ e.codec = CodecInit /\ e.segment = z.segment /\ e.queued = z.queued
        /\ e.next_ts = NONE /\ e.last_out = NONE /\ e.ts_is_dts = z.ts_is_dts
        /\ e.has_b_frames = z.has_b_frames /\ e.earliest_time = z.earliest_time /\ e.hurry_up = z.hurry_up
        /\ e.ts_handler = z.ts_handler /\ e.waiting_for_key = z.waiting_for_key
    <2>1. CodecInit \in [next : {CodecInit.next}, last : {CodecInit.last}]
      BY DEF CodecInit
    <2> QED BY <1>4, <2>1 DEF Element, Discontinued
  <1> HIDE DEF e
  <1>7. Marked(d, e)
    BY <1>4, <1>6 DEF Marked, z, r
  <1> QED BY <1>1, <1>5, <1>7 DEF r

(* What upstream sends.                                                    *)
Sample(kind, disp, refs, dts, p, ts, size) ==
    /\ Picture(p) /\ p.kind = kind /\ p.disp = disp /\ p.refs = refs /\ p.run = IF up.mark THEN up.run + 1 ELSE up.run
    /\ size \in Nat \ {0}
    /\ \/ ts = IF up.mode = "dts" THEN dts ELSE disp
       \/ ts = NONE /\ stream.Untimed /\ kind # "I" /\ ~up.mark /\ up.mode = "pts"

(* gst_ffmpegdec_chain for a picture that is not corrupt.                  *)
LEMMA ChainWay ==
    ASSUME RunsInv, Places, NEW kind \in {"I", "P", "B"}, NEW disp, NEW refs, NEW dts,
           Chain(kind, disp, refs, dts), count'.errors = 0
    PROVE  /\ count.errors = 0 /\ down /\ down' = down /\ prev' = Last
           /\ count'.qos = count.qos /\ count'.caps = count.caps
           /\ \E p, ts, size, f :
                 /\ Sample(kind, disp, refs, dts, p, ts, size) /\ dec' = f.dec
                 /\ ~up.mark => /\ pushed' = f.pushed
                                /\ \/ Ignored(dec, kind # "I", ts, size, f)
                                   \/ (dec.waiting_for_key => kind = "I") /\ Fed(dec, p, ts, size, f)
                 /\ up.mark => \E d : /\ Marked(dec, d)
                                      /\ kind # "B" => pushed' = drain(dec).pushed
                                      /\ \/ Ignored(d, kind # "I", ts, size, f)
                                         \/ (d.waiting_for_key => kind = "I") /\ Fed(d, p, ts, size, f)
  <1>1. PICK bad \in {x \in BOOLEAN : x => count.errors < stream.MaxErrors},
             timed \in {x \in BOOLEAN : x \/ (stream.Untimed /\ kind # "I" /\ ~up.mark /\ up.mode = "pts")} :
          /\ \E r \in {chain(dec, [pic |-> Sent(IF bad THEN "bad" ELSE kind, disp, refs), delta |-> kind # "I"],
                             IF kind = "I" THEN stream.KeySize ELSE 1,
                             IF ~timed THEN NONE ELSE IF up.mode = "dts" THEN dts ELSE disp, up.mark)} :
                dec' = r.dec /\ Push(r.pushed)
          /\ count' = [count EXCEPT !.errors = IF bad THEN @ + 1 ELSE @]
          /\ down' = down
    BY Zenon DEF Chain
  <1> DEFINE size == IF kind = "I" THEN stream.KeySize ELSE 1
             ts == IF ~timed THEN NONE ELSE IF up.mode = "dts" THEN dts ELSE disp
             p == Sent(kind, disp, refs)
             delta == kind # "I"
             b == Before(dec, up.mark)
             r == Arrived(b, [pic |-> p, delta |-> delta], size, ts)
             n == IF bad THEN count.errors + 1 ELSE count.errors
  <1>2. count \in [errors : Nat, qos : Nat, caps : Nat] /\ (down \/ count.errors > 0) /\ bad \in BOOLEAN
    BY DEF Places
  <1>3. count' = [count EXCEPT !.errors = n]
    BY <1>1
  <1>4. count'.errors = n /\ count'.qos = count.qos /\ count'.caps = count.caps
    <2> HIDE DEF n
    <2> QED BY <1>2, <1>3
  <1>5. ~bad /\ count.errors = 0 /\ down
    BY <1>2, <1>4
  <1>6. /\ r = chain(dec, [pic |-> p, delta |-> delta], size, ts, up.mark)
        /\ dec' = r.dec /\ Push(r.pushed) /\ down' = down
    <2>1. r = chain(dec, [pic |-> p, delta |-> delta], size, ts, up.mark)
      BY DEF chain
    <2> HIDE DEF r, size, ts, p
    <2> QED BY <1>1, <1>5, <2>1 DEF size, ts, p
  <1>7. Element(dec) /\ up.mark \in BOOLEAN /\ (dec.segment.rate > 0 => dec.queued = <<>>)
    BY DEF RunsInv, DecTypeOK, Upstream, HeldIsCurrent
  <1>8. prev' = Last /\ pushed' = r.pushed
    BY <1>5, <1>6 DEF Push, Last
  <1>9. Sample(kind, disp, refs, dts, p, ts, size)
    <2>1. size \in Nat \ {0}
      BY DecAssumption DEF Places
    <2>2. /\ Picture(p) /\ p.kind = kind /\ p.disp = disp /\ p.refs = refs
          /\ p.run = IF up.mark THEN up.run + 1 ELSE up.run
      <3> DEFINE run == IF up.mark THEN up.run + 1 ELSE up.run
      <3>1. p = [disp |-> disp, kind |-> kind, refs |-> refs, intact |-> FALSE, ts |-> NONE,
                 run |-> run, epoch |-> up.epoch, seg |-> up.seg]
        BY DEF Sent
      <3> HIDE DEF run, p
      <3>2. p.disp = disp /\ p.kind = kind /\ p.refs = refs /\ p.run = run /\ Picture(p)
        BY <3>1 DEF Picture
      <3> QED BY <3>2 DEF run
    <2>3. \/ ts = IF up.mode = "dts" THEN dts ELSE disp
          \/ ts = NONE /\ stream.Untimed /\ kind # "I" /\ ~up.mark /\ up.mode = "pts"
      BY <1>1
    <2> HIDE DEF p, ts, size
    <2> QED BY <2>1, <2>2, <2>3 DEF Sample
  <1>10. Picture(p) /\ p.kind = kind /\ p.kind \in {"I", "P", "B"} /\ delta \in BOOLEAN
    BY <1>9 DEF Sample
  <1> HIDE DEF size, ts, p, delta
  <1>11. CASE up.mark = FALSE
    <2>1. b.dec = dec /\ b.pushed = <<>>
      BY <1>11 DEF Before
    <2>2. PICK f : /\ Ignored(dec, delta, ts, size, f)
                      \/ ((dec.waiting_for_key => ~delta) /\ Fed(dec, p, ts, size, f))
                   /\ r.dec = f.dec
                   /\ r.pushed \in {<<>> \o f.pushed} \cup (IF f.pushed = <<>> THEN {<<>>} ELSE {})
      <3> HIDE DEF b
      <3>1. \E f : /\ Ignored(b.dec, delta, ts, size, f)
                      \/ ((b.dec.waiting_for_key => ~delta) /\ Fed(b.dec, p, ts, size, f))
                   /\ r.dec = f.dec
                   /\ r.pushed \in {b.pushed \o f.pushed} \cup (IF f.pushed = <<>> THEN {b.pushed} ELSE {})
        BY ZenonT(40), <1>5, <1>7, <1>10, <2>1, ArrivedWay
      <3> QED BY <2>1, <3>1
    <2> HIDE DEF r
    <2>3. f.pushed = <<>> \/ \E o : f.pushed = <<o>>
      BY <2>2, FedPushed DEF Ignored, Idle
    <2>4. <<>> \o f.pushed = f.pushed
      <3>1. \A o : <<o>> \in Seq({o})
        OBVIOUS
      <3>2. <<>> \in Seq({})
        OBVIOUS
      <3> QED BY <2>3, <3>1, <3>2, ConcatEmptySeq
    <2>5. pushed' = f.pushed
      BY <1>8, <2>2, <2>4
    <2>6. (dec.waiting_for_key => ~delta) => (dec.waiting_for_key => kind = "I")
      BY DEF delta
    <2> QED BY <1>4, <1>5, <1>6, <1>8, <1>9, <1>11, <2>2, <2>5, <2>6 DEF delta
  <1>12. CASE up.mark = TRUE
    <2> DEFINE d == b.dec
               z == drain(dec).pushed
    <2>1. Marked(dec, d) /\ b.pushed = z
      BY <1>7, <1>12, BeforeMarked
    <2> HIDE DEF b
    <2>2. PICK f : /\ Ignored(d, delta, ts, size, f)
                      \/ ((d.waiting_for_key => ~delta) /\ Fed(d, p, ts, size, f))
                   /\ r.dec = f.dec
                   /\ r.pushed \in {z \o f.pushed} \cup (IF f.pushed = <<>> THEN {z} ELSE {})
      <3>1. Element(d)
        BY <2>1 DEF Marked
      <3>2. \E f : /\ Ignored(b.dec, delta, ts, size, f)
                      \/ ((b.dec.waiting_for_key => ~delta) /\ Fed(b.dec, p, ts, size, f))
                   /\ r.dec = f.dec
                   /\ r.pushed \in {b.pushed \o f.pushed} \cup (IF f.pushed = <<>> THEN {b.pushed} ELSE {})
        BY <1>5, <1>10, <3>1, ArrivedWay
      <3> QED BY <2>1, <3>2
    <2> HIDE DEF r, d
    <2>3. kind # "B" => pushed' = z
      <3> SUFFICES ASSUME kind # "B" PROVE pushed' = z
        OBVIOUS
      <3>1. f.pushed = <<>>
        <4>1. d.codec.next = NoPic
          BY <2>1 DEF Marked, CodecInit
        <4>2. p.kind \in {"I", "P"}
          BY <1>10
        <4> QED BY <2>2, <4>1, <4>2, FedFirst DEF Ignored, Idle
      <3>2. z \o <<>> = z
        BY <1>7, DrainDrained, DrainedCurrent
      <3> QED BY <1>8, <2>2, <3>1, <3>2
    <2>4. (d.waiting_for_key => ~delta) => (d.waiting_for_key => kind = "I")
      BY DEF delta
    <2>5. \E y : /\ Marked(dec, y)
                 /\ kind # "B" => pushed' = drain(dec).pushed
                 /\ \/ Ignored(y, kind # "I", ts, size, f)
                    \/ (y.waiting_for_key => kind = "I") /\ Fed(y, p, ts, size, f)
      BY <2>1, <2>2, <2>3, <2>4 DEF delta
    <2> QED BY <1>4, <1>5, <1>6, <1>8, <1>9, <1>12, <2>2, <2>5
  <1> QED BY <1>7, <1>11, <1>12

(* The time of the picture x in the element d, when it finds its way out.  *)
Sends(d, x, in_ts, f) ==
    \E time :
       /\ TimesOf(d, x, in_ts, f.dec, time)
       /\ ~Zeros(d, x) => f.dec.next_ts = (IF time # NONE THEN time + 1 ELSE d.next_ts)
       /\ Idle(d, f) \/ \E o : Copy(o, x) /\ o.ts = time /\ Emits(d, f, o)

(* A frame of the picture x leaves, or none.                               *)
MayEmit(d, x, f) == Idle(d, f) \/ \E o : Copy(o, x) /\ Emits(d, f, o)

(* No QoS event was late enough to skip to a key frame.                    *)
Unhurried(d) ==
    /\ NoSkips(stream) /\ d.earliest_time \in {NONE} \cup stream.Earliest
    /\ d.segment.start \in Int /\ d.segment.stop \in Int /\ d.segment.rate \in {1, -1}
    /\ d.segment.rate < 0 => d.segment.stop # NONE

(* A picture that passes an element that waits for no key frame is sent.   *)
LEMMA PassesSends ==
    ASSUME NEW d, NEW x, NEW in_ts, NEW f, Passes(d, x, in_ts, f)
    PROVE  MayEmit(d, x, f) /\ (~d.waiting_for_key => Sends(d, x, in_ts, f))
  <1>1. PICK ts :
          /\ TimesOf(d, x, in_ts, f.dec, ts)
          /\ \/ /\ d.waiting_for_key /\ x.kind # "I" /\ f.dec.waiting_for_key /\ Idle(d, f)
                /\ ~Zeros(d, x) => f.dec.next_ts = d.next_ts
             \/ /\ ~f.dec.waiting_for_key
                /\ ~Zeros(d, x) => f.dec.next_ts = (IF ts # NONE THEN ts + 1 ELSE d.next_ts)
                /\ Idle(d, f) \/ \E o : Copy(o, x) /\ o.ts = ts /\ Emits(d, f, o)
    BY DEF Passes
  <1> QED BY <1>1 DEF MayEmit, Sends

(* What a buffer that is decoded leaves in the element.                    *)
Settled(d, e, ts, size) ==
    /\ Element(e) /\ e.segment = d.segment /\ e.earliest_time = d.earliest_time
    /\ Calm(d) => e.hurry_up = 0
    /\ d.ts_handler = <<>> /\ size \in Nat \ {0} => e.ts_handler = <<>>
    /\ stream \in Streams /\ ts \in Int /\ Unhurried(d) => ~e.waiting_for_key

(* The codec gives nothing: what follows in the element.                   *)
Rest(d, e) ==
    /\ e.next_ts = d.next_ts /\ e.has_b_frames = d.has_b_frames
    /\ \/ e.last_out = d.last_out /\ e.ts_is_dts = d.ts_is_dts
       \/ ~Calm(d) /\ e.last_out = NONE /\ ~e.ts_is_dts

(* No frame comes of it.                                                   *)
Unused(d, f) == Idle(d, f) /\ Rest(d, f.dec)

(* What the codec gives is sent.                                           *)
Used(d, y, ts, f) ==
    /\ MayEmit(d, y, f)
    /\ stream \in Streams /\ ts \in Int /\ Unhurried(d) => Sends(d, y, ts, f)

(* From the element in which the buffer is mapped to the one it came to.   *)
LEMMA FedGeneral ==
    ASSUME NEW d, NEW w, NEW e, NEW r, NEW ts, NEW size, NEW f, NEW p, Picture(p), p.kind \in {"I", "P", "B"},
           Mapped(d, w, ts, size), ~w.waiting_for_key, Coded(w, p, size, r), Turned(w, e, r, ts),
           Way(w, e, r, ts, f)
    PROVE  /\ Settled(d, f.dec, ts, size) /\ f.dec.codec = r.codec
           /\ d.ts_handler = <<>> /\ size \in Nat \ {0} => get_ts(w.ts_handler) = ts
           /\ IF r.pic = NoPic THEN Unused(d, f) ELSE Used(d, r.pic, ts, f)
  <1>1. r.len = size
    BY DEF Coded
  <1>2. ASSUME d.ts_handler = <<>>, size \in Nat \ {0}
        PROVE  get_ts(w.ts_handler) = ts /\ e.ts_handler = <<>>
    BY <1>1, <1>2, WholeConsumed DEF Mapped, Turned
  <1>3. Steady(e, f.dec)
    BY DEF Way
  <1>4. ASSUME stream \in Streams, ts \in Int, Unhurried(d)
        PROVE  ~e.waiting_for_key
    <2>1. QosLabel(w, ts) # "skip_to_keyframe"
      BY <1>4, NeverSkips DEF Unhurried, Mapped
    <2> QED BY <2>1 DEF Turned
  <1>5. Calm(d) => f.dec.hurry_up = 0
    BY <1>3 DEF Calm, Mapped, Turned, Steady
  <1>6. r.pic # NoPic => Passes(e, r.pic, ts, f)
    BY DEF Way
  <1>7. (Idle(e, f) <=> Idle(d, f)) /\ \A o : Emits(e, f, o) <=> Emits(d, f, o)
    BY DEF Turned, Mapped, Idle, Emits
  <1>8. ASSUME stream \in Streams, ts \in Int, Unhurried(d)
        PROVE  ~f.dec.waiting_for_key
    <2>1. CASE r.pic = NoPic
      BY <1>4, <1>8, <2>1 DEF Way
    <2>2. CASE r.pic # NoPic
      BY <1>4, <1>6, <1>8, <2>2 DEF Passes
    <2> QED BY <2>1, <2>2
  <1>9. Settled(d, f.dec, ts, size)
    BY <1>2, <1>3, <1>5, <1>8 DEF Settled, Steady, Mapped, Turned
  <1>10. f.dec.codec = r.codec
    BY <1>3 DEF Steady, Turned
  <1>11. ASSUME r.pic = NoPic
         PROVE  Unused(d, f)
    <2>1. Calm(w) <=> Calm(d)
      BY DEF Calm, Mapped
    <2> QED BY <1>7, <1>11, <2>1 DEF Way, Unused, Rest, Turned, Mapped
  <1>12. ASSUME r.pic # NoPic
         PROVE  Used(d, r.pic, ts, f)
    <2>1. MayEmit(e, r.pic, f) /\ (~e.waiting_for_key => Sends(e, r.pic, ts, f))
      BY <1>6, <1>12, PassesSends
    <2>2. MayEmit(d, r.pic, f)
      BY <1>7, <2>1 DEF MayEmit
    <2>3. ASSUME Sends(e, r.pic, ts, f)
          PROVE  Sends(d, r.pic, ts, f)
      <3> DEFINE x == r.pic
      <3> HIDE DEF x
      <3>1. PICK time :
              /\ TimesOf(e, x, ts, f.dec, time)
              /\ ~Zeros(e, x) => f.dec.next_ts = (IF time # NONE THEN time + 1 ELSE e.next_ts)
              /\ Idle(e, f) \/ \E o : Copy(o, x) /\ o.ts = time /\ Emits(e, f, o)
        BY <2>3 DEF Sends, x
      <3>2. (Zeros(e, x) <=> Zeros(d, x)) /\ TimesOf(d, x, ts, f.dec, time) /\ e.next_ts = d.next_ts
        BY <3>1 DEF Turned, Mapped, Zeros, TimesOf
      <3>3. Sends(d, x, ts, f)
        BY <1>7, <3>1, <3>2 DEF Sends
      <3> QED BY <3>3 DEF x
    <2> QED BY <1>4, <2>1, <2>2, <2>3 DEF Used
  <1> QED BY <1>2, <1>9, <1>10, <1>11, <1>12

(* A reference that is decoded sends the one that was held.                *)
LEMMA FedReference ==
    ASSUME NEW d, NEW p, Picture(p), p.kind \in {"I", "P"}, NEW ts, NEW size, NEW f, Fed(d, p, ts, size, f)
    PROVE  /\ Settled(d, f.dec, ts, size) /\ f.dec.codec.last = d.codec.next
           /\ \E time : /\ Grown(f.dec.codec.next, p, time, {d.codec.next})
                        /\ d.ts_handler = <<>> /\ size \in Nat \ {0} => time = ts
           /\ IF d.codec.next = NoPic THEN Unused(d, f) ELSE Used(d, d.codec.next, ts, f)
  <1>1. PICK w, e, r : /\ Mapped(d, w, ts, size) /\ ~w.waiting_for_key
                       /\ Coded(w, p, size, r) /\ Turned(w, e, r, ts) /\ Way(w, e, r, ts, f)
    BY DEF Fed
  <1>2. /\ Settled(d, f.dec, ts, size) /\ f.dec.codec = r.codec
        /\ d.ts_handler = <<>> /\ size \in Nat \ {0} => get_ts(w.ts_handler) = ts
        /\ IF r.pic = NoPic THEN Unused(d, f) ELSE Used(d, r.pic, ts, f)
    BY <1>1, FedGeneral
  <1>3. /\ r.pic = d.codec.next /\ r.codec.last = d.codec.next
        /\ Grown(r.codec.next, p, get_ts(w.ts_handler), {d.codec.next})
    BY <1>1 DEF Coded, Mapped
  <1> QED BY <1>2, <1>3

(* A B frame that is decoded is sent, or dropped.                          *)
LEMMA FedBetween ==
    ASSUME NEW d, NEW p, Picture(p), p.kind = "B", NEW ts, NEW size, NEW f, Fed(d, p, ts, size, f)
    PROVE  /\ Settled(d, f.dec, ts, size) /\ f.dec.codec = d.codec
           /\ \/ Unused(d, f) /\ (Calm(d) => NoPic \in {d.codec.next, d.codec.last})
              \/ \E y, time : /\ d.codec.last # NoPic /\ d.codec.next # NoPic
                              /\ Grown(y, p, time, {d.codec.last, d.codec.next})
                              /\ d.ts_handler = <<>> /\ size \in Nat \ {0} => time = ts
                              /\ Used(d, y, ts, f)
  <1>1. PICK w, e, r : /\ Mapped(d, w, ts, size) /\ ~w.waiting_for_key
                       /\ Coded(w, p, size, r) /\ Turned(w, e, r, ts) /\ Way(w, e, r, ts, f)
    BY DEF Fed
  <1>2. /\ Settled(d, f.dec, ts, size) /\ f.dec.codec = r.codec
        /\ d.ts_handler = <<>> /\ size \in Nat \ {0} => get_ts(w.ts_handler) = ts
        /\ IF r.pic = NoPic THEN Unused(d, f) ELSE Used(d, r.pic, ts, f)
    BY <1>1, FedGeneral
  <1>3. /\ r.codec = d.codec
        /\ \/ r.pic = NoPic /\ (Calm(w) => NoPic \in {d.codec.next, d.codec.last})
           \/ /\ d.codec.last # NoPic /\ d.codec.next # NoPic
              /\ Grown(r.pic, p, get_ts(w.ts_handler), {d.codec.last, d.codec.next})
    BY <1>1 DEF Coded, Mapped
  <1>4. Calm(w) <=> Calm(d)
    BY <1>1 DEF Calm, Mapped
  <1>5. CASE r.pic = NoPic /\ (Calm(w) => NoPic \in {d.codec.next, d.codec.last})
    BY <1>2, <1>3, <1>4, <1>5
  <1>6. CASE /\ d.codec.last # NoPic /\ d.codec.next # NoPic
             /\ Grown(r.pic, p, get_ts(w.ts_handler), {d.codec.last, d.codec.next})
    <2>1. r.pic # NoPic
      BY <1>6 DEF Grown
    <2> QED BY <1>2, <1>3, <1>6, <2>1
  <1> QED BY <1>3, <1>5, <1>6

-----------------------------------------------------------------------------
(* What a step shows.                                                      *)

(* The frames of N, one or none, are pushed or queued.                     *)
Leave(N) ==
    \/ N = {} /\ pushed' = <<>> /\ dec'.queued = dec.queued
    \/ \E o : /\ N = {o}
              /\ IF dec.segment.rate > 0 THEN pushed' = <<o>> /\ dec'.queued = dec.queued
                 ELSE pushed' = <<>> /\ dec'.queued = <<o>> \o dec.queued

(* They are pushed, in reverse before the frames that were queued.         *)
LeaveAll(N) ==
    IF dec.segment.rate > 0
    THEN dec'.queued = dec.queued /\ ((N = {} /\ pushed' = <<>>) \/ \E o : N = {o} /\ pushed' = <<o>>)
    ELSE dec'.queued = <<>> /\ \/ N = {} /\ pushed' = dec.queued
                               \/ \E o : N = {o} /\ pushed' = <<o>> \o dec.queued

(* The frames of a step are of N or were queued.                           *)
Came(N) ==
    /\ Frames(pushed') \cup Frames(dec'.queued) \subseteq Frames(dec.queued) \cup N
    /\ Last' \in {Last} \cup Frames(dec.queued) \cup N
    /\ dec.segment.rate > 0 =>
          /\ dec'.queued = <<>> /\ Frames(pushed') \subseteq N /\ Last' \in {Last} \cup N
          /\ Last' \in N \/ (Last' = Last /\ N = {})
          /\ \A n \in Neighbours' : n[1] = Last /\ Last # NoOutput /\ n[2] \in N

(* Frames of no and of one frame.                                          *)
LEMMA FramesEmpty == Frames(<<>>) = {}
  BY DEF Frames

(* The frame of a sequence of one.                                         *)
LEMMA FramesOne == ASSUME NEW o PROVE Frames(<<o>>) = {o}
  <1>1. Len(<<o>>) = 1 /\ <<o>>[1] = o
    OBVIOUS
  <1> QED BY <1>1 DEF Frames

(* The frame before a step is the first neighbour, if there is one.        *)
LEMMA PushAlone ==
    ASSUME NEW o, pushed' = <<o>>, prev' = Last
    PROVE  Last' = o /\ \A n \in Neighbours' : n[1] = Last /\ Last # NoOutput /\ n[2] = o
  <1>1. Last' = o /\ \A n \in Neighbours' : n[1] = Last /\ n[2] = o
    BY PushOne
  <1>2. ASSUME prev' = NoOutput PROVE Neighbours' = {}
    <2>1. <<>> \o <<o>> = <<o>>
      <3>1. <<o>> \in Seq({o})
        OBVIOUS
      <3> QED BY <3>1
    <2>2. Shown' = <<o>>
      BY <1>2, <2>1 DEF Shown
    <2>3. Len(Shown') = 1
      BY <2>2
    <2> QED BY <2>3 DEF Neighbours
  <1> QED BY <1>1, <1>2

(* A frame that leaves is pushed or, in reverse, queued.                   *)
LEMMA LeaveCame ==
    ASSUME RunsInv, NEW N, Leave(N), prev' = Last
    PROVE  Came(N) /\ (~(dec.segment.rate > 0) => Last' = Last /\ Neighbours' = {})
  <1>1. (dec.segment.rate > 0 => dec.queued = <<>>) /\ dec.queued \in Seq(Frames(dec.queued))
    BY DEF RunsInv, HeldIsCurrent, DecTypeOK, Element
  <1>2. CASE N = {} /\ pushed' = <<>> /\ dec'.queued = dec.queued
    <2>1. Last' = Last /\ Neighbours' = {}
      BY <1>2, PushNothing
    <2> QED BY <1>1, <1>2, <2>1, FramesEmpty DEF Came
  <1>3. ASSUME NEW o, N = {o}, IF dec.segment.rate > 0 THEN pushed' = <<o>> /\ dec'.queued = dec.queued
                               ELSE pushed' = <<>> /\ dec'.queued = <<o>> \o dec.queued
        PROVE  Came(N) /\ (~(dec.segment.rate > 0) => Last' = Last /\ Neighbours' = {})
    <2>1. CASE dec.segment.rate > 0
      <3>1. Last' = o /\ \A n \in Neighbours' : n[1] = Last /\ Last # NoOutput /\ n[2] = o
        BY <1>3, <2>1, PushAlone
      <3> QED BY <1>1, <1>3, <2>1, <3>1, FramesEmpty, FramesOne DEF Came
    <2>2. CASE ~(dec.segment.rate > 0)
      <3>1. Last' = Last /\ Neighbours' = {}
        BY <1>3, <2>2, PushNothing
      <3>2. Frames(dec'.queued) \subseteq Frames(dec.queued) \cup {o}
        BY <1>1, <1>3, <2>2, InFront
      <3> QED BY <1>3, <2>2, <3>1, <3>2, FramesEmpty DEF Came
    <2> QED BY <2>1, <2>2
  <1> QED BY <1>2, <1>3 DEF Leave

(* The last frame shown when some frames are pushed.                       *)
LEMMA LastPushed ==
    ASSUME pushed' \in Seq(Frames(pushed')), prev' = Last
    PROVE  Last' \in {Last} \cup Frames(pushed')
  <1>1. CASE pushed' = <<>>
    BY <1>1 DEF Last
  <1>2. CASE pushed' # <<>>
    <2>1. Len(pushed') \in 1 .. Len(pushed')
      BY <1>2
    <2>2. pushed'[Len(pushed')] \in Frames(pushed')
      BY <2>1 DEF Frames
    <2> QED BY <1>2, <2>2 DEF Last
  <1> QED BY <1>1, <1>2

(* With a drain what was queued is pushed, too.                            *)
LEMMA LeaveAllCame ==
    ASSUME RunsInv, NEW N, LeaveAll(N), prev' = Last
    PROVE  /\ Came(N) /\ dec'.queued = <<>>
           /\ ~(dec.segment.rate > 0) => pushed' \in Seq(Frames(pushed'))
  <1>1. (dec.segment.rate > 0 => dec.queued = <<>>) /\ dec.queued \in Seq(Frames(dec.queued))
    BY DEF RunsInv, HeldIsCurrent, DecTypeOK, Element
  <1>2. CASE dec.segment.rate > 0
    <2>1. Leave(N)
      BY <1>2 DEF LeaveAll, Leave
    <2> QED BY <1>1, <1>2, <2>1, LeaveCame DEF LeaveAll
  <1>3. CASE ~(dec.segment.rate > 0)
    <2>1. Frames(pushed') \subseteq Frames(dec.queued) \cup N /\ pushed' \in Seq(Frames(pushed'))
      <3>1. CASE N = {} /\ pushed' = dec.queued
        BY <1>1, <3>1
      <3>2. ASSUME NEW o, N = {o}, pushed' = <<o>> \o dec.queued
            PROVE  Frames(pushed') \subseteq Frames(dec.queued) \cup N /\ pushed' \in Seq(Frames(pushed'))
        BY <1>1, <3>2, InFront
      <3> QED BY <1>3, <3>1, <3>2 DEF LeaveAll
    <2>2. Last' \in {Last} \cup Frames(pushed')
      BY <2>1, LastPushed
    <2> QED BY <1>3, <2>1, <2>2, FramesEmpty DEF Came, LeaveAll
  <1> QED BY <1>2, <1>3

(* The frames of N are the picture x, at its time.                         *)
TimesGo(d, x, in_ts, e, N) ==
    \E time : /\ TimesOf(d, x, in_ts, e, time)
              /\ ~Zeros(d, x) => e.next_ts = (IF time # NONE THEN time + 1 ELSE d.next_ts)
              /\ \A o \in N : o.ts = time

(* The frames of N are the picture the codec held, which leaves the times  *)
(* of e.                                                                   *)
Fate(N, in_ts, e, timed) ==
    /\ \A o \in N : dec.codec.next # NoPic /\ Copy(o, dec.codec.next)
    /\ dec.codec.next = NoPic => N = {} /\ Rest(dec, e)
    /\ dec.codec.next # NoPic /\ timed => TimesGo(dec, dec.codec.next, in_ts, e, N)

(* What is sent leaves.                                                    *)
LEMMA SendsLeave ==
    ASSUME NEW x, NEW in_ts, NEW f, NEW timed \in BOOLEAN, MayEmit(dec, x, f), timed => Sends(dec, x, in_ts, f)
    PROVE  \E N : /\ \A o \in N : Copy(o, x)
                  /\ timed => TimesGo(dec, x, in_ts, f.dec, N)
                  /\ (N = {} /\ Idle(dec, f)) \/ \E o : N = {o} /\ Emits(dec, f, o)
  <1>1. CASE ~timed
    <2>1. CASE Idle(dec, f)
      BY <1>1, <2>1
    <2>2. ASSUME NEW o, Copy(o, x), Emits(dec, f, o)
          PROVE  \E N : /\ \A c \in N : Copy(c, x)
                        /\ timed => TimesGo(dec, x, in_ts, f.dec, N)
                        /\ (N = {} /\ Idle(dec, f)) \/ \E c : N = {c} /\ Emits(dec, f, c)
      <3>1. \A c \in {o} : Copy(c, x)
        BY <2>2
      <3> QED BY <1>1, <2>2, <3>1
    <2> QED BY <2>1, <2>2 DEF MayEmit
  <1>2. CASE timed
    <2>1. PICK time :
            /\ TimesOf(dec, x, in_ts, f.dec, time)
            /\ ~Zeros(dec, x) => f.dec.next_ts = (IF time # NONE THEN time + 1 ELSE dec.next_ts)
            /\ Idle(dec, f) \/ \E o : Copy(o, x) /\ o.ts = time /\ Emits(dec, f, o)
      BY <1>2 DEF Sends
    <2>2. \A N : (\A o \in N : o.ts = time) => TimesGo(dec, x, in_ts, f.dec, N)
      BY <2>1 DEF TimesGo
    <2>3. CASE Idle(dec, f)
      BY <2>2, <2>3
    <2>4. ASSUME NEW o, Copy(o, x), o.ts = time, Emits(dec, f, o)
          PROVE  \E N : /\ \A c \in N : Copy(c, x)
                        /\ timed => TimesGo(dec, x, in_ts, f.dec, N)
                        /\ (N = {} /\ Idle(dec, f)) \/ \E c : N = {c} /\ Emits(dec, f, c)
      <3>1. (\A c \in {o} : Copy(c, x)) /\ TimesGo(dec, x, in_ts, f.dec, {o})
        BY <2>2, <2>4
      <3> QED BY <2>4, <3>1
    <2> QED BY <2>1, <2>3, <2>4
  <1> QED BY <1>1, <1>2

(* What a drain shows.                                                     *)
LEMMA DrainLeaves ==
    ASSUME NEW r, DrainWay(dec, r), dec'.queued = r.dec.queued, pushed' = r.pushed
    PROVE  /\ \E N : LeaveAll(N) /\ Fate(N, NONE, r.dec, ~dec.waiting_for_key)
           /\ dec.codec.next = NoPic => r.dec.waiting_for_key = dec.waiting_for_key
           /\ ~dec.waiting_for_key => ~r.dec.waiting_for_key
  <1> DEFINE x == dec.codec.next
             timed == ~dec.waiting_for_key
  <1>1. CASE x = NoPic
    <2>1. Rest(dec, r.dec) /\ r.dec.waiting_for_key = dec.waiting_for_key
      BY <1>1 DEF DrainWay, AsBefore, Rest
    <2>2. LeaveAll({})
      BY <1>1 DEF DrainWay, LeaveAll
    <2>3. Fate({}, NONE, r.dec, timed)
      BY <1>1, <2>1 DEF Fate
    <2> QED BY <2>1, <2>2, <2>3
  <1>2. CASE x # NoPic
    <2>1. PICK f : /\ Passes(dec, x, NONE, f) /\ AsBefore(f.dec, r.dec)
                   /\ r.pushed = IF dec.segment.rate > 0 THEN f.pushed ELSE f.dec.queued
      BY <1>2 DEF DrainWay
    <2>2. MayEmit(dec, x, f) /\ (timed => Sends(dec, x, NONE, f))
      BY <2>1, PassesSends
    <2>3. PICK N : /\ \A o \in N : Copy(o, x)
                   /\ timed => TimesGo(dec, x, NONE, f.dec, N)
                   /\ (N = {} /\ Idle(dec, f)) \/ \E o : N = {o} /\ Emits(dec, f, o)
      BY <2>2, SendsLeave
    <2>4. timed => TimesGo(dec, x, NONE, r.dec, N)
      BY <2>1, <2>3 DEF TimesGo, TimesOf, AsBefore
    <2>5. LeaveAll(N)
      BY <2>1, <2>3 DEF DrainWay, LeaveAll, Idle, Emits
    <2>6. Fate(N, NONE, r.dec, timed)
      BY <1>2, <2>3, <2>4 DEF Fate
    <2>7. timed => ~r.dec.waiting_for_key
      BY <2>1 DEF Passes, AsBefore
    <2> QED BY <1>2, <2>5, <2>6, <2>7
  <1> QED BY <1>1, <1>2

(* Upstream has sent a reference.                                          *)
RefSent(kind, disp) ==
    /\ up.segment /\ ~up.eos /\ up.bs = {} /\ disp \in Int /\ up.pos < disp /\ disp < up.limit
    /\ kind \in {"I", "P"} /\ (up.key => kind = "I") /\ (kind = "I" /\ ~stream.OpenGop => disp = up.pos + 1)
    /\ up'.pos = disp /\ up'.ref = up.pos /\ up'.bs = (up.pos + 1) .. (disp - 1) /\ ~up'.key /\ ~up'.mark
    /\ up'.segment = up.segment /\ up'.eos = up.eos /\ up'.low = up.low /\ up'.limit = up.limit
    /\ up'.mode = up.mode /\ up'.flushed = up.flushed /\ up'.run = IF up.mark THEN up.run + 1 ELSE up.run

(* What upstream makes a reference refer to.                               *)
References(kind) == IF kind = "I" THEN {} ELSE {up.pos}

(* What a reference that is decoded leaves behind the one that was held.   *)
RefFed(held, p, ts, size) ==
    /\ Settled(dec, dec', ts, size) /\ dec'.codec.last = held
    /\ \E time : /\ Grown(dec'.codec.next, p, time, {held})
                 /\ dec.ts_handler = <<>> => time = ts

(* What did not change but for errors.                                     *)
Counted ==
    /\ count.errors = 0 /\ down /\ down' = down /\ prev' = Last
    /\ count'.qos = count.qos /\ count'.caps = count.caps /\ stream' = stream

(* SendReference: the reference on its way, behind a drain where it is marked. *)
LEMMA SendReferenceSent ==
    ASSUME RunsInv, Places, SendReference, stream' = stream, count'.errors = 0
    PROVE  /\ Counted
           /\ \E kind, disp, p, ts, size, f :
                 /\ RefSent(kind, disp) /\ Sample(kind, disp, References(kind), up.pos + 1, p, ts, size)
                 /\ dec' = f.dec
                 /\ ~up.mark => /\ pushed' = f.pushed
                                /\ \/ Ignored(dec, kind # "I", ts, size, f)
                                   \/ (dec.waiting_for_key => kind = "I") /\ Fed(dec, p, ts, size, f)
                 /\ up.mark => \E d : /\ Marked(dec, d) /\ pushed' = drain(dec).pushed
                                      /\ \/ Ignored(d, kind # "I", ts, size, f)
                                         \/ (d.waiting_for_key => kind = "I") /\ Fed(d, p, ts, size, f)
  <1>1. PICK kind \in {"I", "P"}, b \in 0 .. stream.MaxB :
          LET disp == up.pos + b + 1
          IN /\ up.segment /\ ~up.eos /\ up.bs = {}
             /\ disp < up.limit
             /\ up.key => kind = "I"
             /\ kind = "I" /\ ~stream.OpenGop => b = 0
             /\ Chain(kind, disp, IF kind = "I" THEN {} ELSE {up.pos}, up.pos + 1)
             /\ up' = [up EXCEPT !.pos = disp, !.ref = up.pos, !.bs = (up.pos + 1)..(disp - 1), !.key = FALSE,
                                 !.mark = FALSE, !.run = IF up.mark THEN @ + 1 ELSE @]
    BY Zenon DEF SendReference
  <1> DEFINE disp == up.pos + b + 1
             refs == References(kind)
             dts == up.pos + 1
             ref == up.pos
             bs == (up.pos + 1)..(disp - 1)
             run == IF up.mark THEN up.run + 1 ELSE up.run
  <1>2. /\ up.segment /\ ~up.eos /\ up.bs = {} /\ disp < up.limit /\ (up.key => kind = "I")
        /\ kind = "I" /\ ~stream.OpenGop => b = 0
        /\ Chain(kind, disp, refs, dts)
        /\ up' = [up EXCEPT !.pos = disp, !.ref = ref, !.bs = bs, !.key = FALSE, !.mark = FALSE, !.run = run]
    BY <1>1 DEF References
  <1>3. Upstream(up) /\ up.pos \in Int
    BY DEF RunsInv, DecTypeOK, Places, NONE
  <1>4. b \in Nat
    BY DecAssumption DEF Places
  <1>5. disp \in Int /\ up.pos < disp /\ (b = 0 => disp = up.pos + 1)
    BY <1>3, <1>4
  <1> HIDE DEF disp, refs, dts, ref, bs, run
  <1>6. /\ up'.pos = disp /\ up'.ref = ref /\ up'.bs = bs /\ ~up'.key /\ ~up'.mark
        /\ up'.segment = up.segment /\ up'.eos = up.eos /\ up'.low = up.low /\ up'.limit = up.limit
        /\ up'.mode = up.mode /\ up'.flushed = up.flushed /\ up'.run = run
    BY <1>2, <1>3 DEF Upstream
  <1>7. RefSent(kind, disp)
    BY <1>2, <1>5, <1>6 DEF RefSent, ref, bs, run
  <1>8. /\ count.errors = 0 /\ down /\ down' = down /\ prev' = Last
        /\ count'.qos = count.qos /\ count'.caps = count.caps
        /\ \E p, ts, size, f :
              /\ Sample(kind, disp, refs, dts, p, ts, size) /\ dec' = f.dec
              /\ ~up.mark => /\ pushed' = f.pushed
                             /\ \/ Ignored(dec, kind # "I", ts, size, f)
                                \/ (dec.waiting_for_key => kind = "I") /\ Fed(dec, p, ts, size, f)
              /\ up.mark => \E d : /\ Marked(dec, d)
                                   /\ kind # "B" => pushed' = drain(dec).pushed
                                   /\ \/ Ignored(d, kind # "I", ts, size, f)
                                      \/ (d.waiting_for_key => kind = "I") /\ Fed(d, p, ts, size, f)
    <2>1. kind \in {"I", "P", "B"} /\ RunsInv /\ Places /\ count'.errors = 0
      OBVIOUS
    <2>2. Chain(kind, disp, refs, dts)
      BY <1>2
    <2> QED BY <2>1, <2>2, ChainWay
  <1>9. Counted
    BY <1>8 DEF Counted
  <1>10. kind # "B"
    OBVIOUS
  <1> QED BY ZenonT(40), <1>7, <1>8, <1>9, <1>10 DEF refs, dts

(* A reference without a mark: it waits in the codec and sends the one     *)
(* before it, unless a key frame is awaited.                               *)
LEMMA ReferenceOn ==
    ASSUME RunsInv, Places, SendReference, stream' = stream, count'.errors = 0, ~up.mark
    PROVE  /\ Counted
           /\ \E kind, disp, p, ts, size :
                 /\ RefSent(kind, disp) /\ Sample(kind, disp, References(kind), up.pos + 1, p, ts, size)
                 /\ \/ /\ kind = "P" /\ dec.waiting_for_key /\ dec'.waiting_for_key
                       /\ Mapped(dec, dec', ts, size) /\ Leave({})
                    \/ /\ dec.waiting_for_key => kind = "I"
                       /\ RefFed(dec.codec.next, p, ts, size)
                       /\ \E N : Leave(N) /\ Fate(N, ts, dec', ts \in Int /\ Unhurried(dec))
  <1>1. Counted
    BY SendReferenceSent
  <1>2. PICK kind, disp, p, ts, size, f :
          /\ RefSent(kind, disp) /\ Sample(kind, disp, References(kind), up.pos + 1, p, ts, size)
          /\ dec' = f.dec
          /\ ~up.mark => /\ pushed' = f.pushed
                         /\ \/ Ignored(dec, kind # "I", ts, size, f)
                            \/ (dec.waiting_for_key => kind = "I") /\ Fed(dec, p, ts, size, f)
    BY SendReferenceSent
  <1>3. dec' = f.dec /\ pushed' = f.pushed
    BY <1>2
  <1>4. kind \in {"I", "P"}
    BY <1>2 DEF RefSent
  <1>5. CASE Ignored(dec, kind # "I", ts, size, f)
    <2>1. /\ kind = "P" /\ dec.waiting_for_key /\ dec'.waiting_for_key
          /\ Mapped(dec, dec', ts, size) /\ Leave({})
      BY <1>3, <1>4, <1>5 DEF Ignored, Idle, Leave
    <2> QED BY <1>1, <1>2, <2>1
  <1>6. CASE (dec.waiting_for_key => kind = "I") /\ Fed(dec, p, ts, size, f)
    <2> DEFINE x == dec.codec.next
               timed == ts \in Int /\ Unhurried(dec)
    <2>1. Picture(p) /\ p.kind \in {"I", "P"} /\ size \in Nat \ {0}
      BY <1>2, <1>4 DEF Sample
    <2>2. /\ Settled(dec, f.dec, ts, size) /\ f.dec.codec.last = x
          /\ \E time : /\ Grown(f.dec.codec.next, p, time, {x})
                       /\ dec.ts_handler = <<>> /\ size \in Nat \ {0} => time = ts
          /\ IF x = NoPic THEN Unused(dec, f) ELSE Used(dec, x, ts, f)
      BY <1>6, <2>1, FedReference
    <2>3. RefFed(dec.codec.next, p, ts, size)
      BY <1>3, <2>1, <2>2 DEF RefFed
    <2>4. \E N : Leave(N) /\ Fate(N, ts, dec', timed)
      <3>1. CASE x = NoPic
        <4>1. Idle(dec, f) /\ Rest(dec, f.dec)
          BY <2>2, <3>1 DEF Unused
        <4>2. Leave({}) /\ Fate({}, ts, dec', timed)
          BY <1>3, <3>1, <4>1 DEF Idle, Leave, Fate
        <4> QED BY <4>2
      <3>2. CASE x # NoPic
        <4>1. MayEmit(dec, x, f) /\ (timed => Sends(dec, x, ts, f))
          BY <2>2, <3>2 DEF Used, Places
        <4> HIDE DEF timed
        <4>2. PICK N : /\ \A o \in N : Copy(o, x)
                       /\ timed => TimesGo(dec, x, ts, f.dec, N)
                       /\ (N = {} /\ Idle(dec, f)) \/ \E o : N = {o} /\ Emits(dec, f, o)
          <5> DEFINE m == (timed = TRUE)
          <5>1. m \in BOOLEAN /\ (m <=> timed)
            BY DEF timed
          <5> HIDE DEF m
          <5>2. \E N : /\ \A o \in N : Copy(o, x)
                       /\ m => TimesGo(dec, x, ts, f.dec, N)
                       /\ (N = {} /\ Idle(dec, f)) \/ \E o : N = {o} /\ Emits(dec, f, o)
            BY <4>1, <5>1, SendsLeave
          <5> QED BY <5>1, <5>2
        <4>3. Leave(N)
          BY <1>3, <4>2 DEF Leave, Idle, Emits
        <4>4. Fate(N, ts, dec', timed)
          BY <1>3, <3>2, <4>2 DEF Fate
        <4> QED BY <4>3, <4>4
      <3> QED BY <3>1, <3>2
    <2> QED BY <1>1, <1>2, <1>6, <2>3, <2>4
  <1> QED BY <1>2, <1>5, <1>6

(* A reference behind a mark: the one before it is drained, in reverse     *)
(* with all that was queued, and the element forgets its times.            *)
LEMMA ReferenceMarked ==
    ASSUME RunsInv, Places, SendReference, stream' = stream, count'.errors = 0, up.mark
    PROVE  LET z == drain(dec).dec IN
           /\ Counted
           /\ \E N : LeaveAll(N) /\ Fate(N, NONE, z, ~dec.waiting_for_key)
           /\ Rested(dec, z) /\ (dec.codec.next = NoPic => z.waiting_for_key = dec.waiting_for_key)
           /\ ~dec.waiting_for_key => ~z.waiting_for_key
           /\ dec'.segment = dec.segment /\ dec'.earliest_time = dec.earliest_time
           /\ Calm(dec) => dec'.hurry_up = 0
           /\ dec'.next_ts = NONE /\ dec'.last_out = NONE /\ dec'.has_b_frames = z.has_b_frames
           /\ dec'.ts_is_dts => z.ts_is_dts
           /\ \E kind, disp, p, ts, size :
                 /\ RefSent(kind, disp) /\ Sample(kind, disp, References(kind), up.pos + 1, p, ts, size)
                 /\ \/ kind = "P" /\ z.waiting_for_key /\ dec'.waiting_for_key /\ dec'.codec = CodecInit
                    \/ (z.waiting_for_key => kind = "I") /\ RefFed(NoPic, p, ts, size)
  <1> DEFINE r == drain(dec)
             z == r.dec
  <1>1. Counted
    BY SendReferenceSent
  <1>2. PICK kind, disp, p, ts, size, f :
          /\ RefSent(kind, disp) /\ Sample(kind, disp, References(kind), up.pos + 1, p, ts, size)
          /\ dec' = f.dec
          /\ up.mark => \E d : /\ Marked(dec, d) /\ pushed' = drain(dec).pushed
                               /\ \/ Ignored(d, kind # "I", ts, size, f)
                                  \/ (d.waiting_for_key => kind = "I") /\ Fed(d, p, ts, size, f)
    BY SendReferenceSent
  <1>3. PICK d : /\ Marked(dec, d) /\ pushed' = drain(dec).pushed
                 /\ \/ Ignored(d, kind # "I", ts, size, f)
                    \/ (d.waiting_for_key => kind = "I") /\ Fed(d, p, ts, size, f)
    BY <1>2
  <1>4. Element(dec) /\ down /\ (dec.segment.rate > 0 => dec.queued = <<>>)
    BY <1>1 DEF RunsInv, DecTypeOK, HeldIsCurrent, Counted
  <1>5. DrainWay(dec, r)
    BY <1>4, DrainsWay
  <1> HIDE DEF r
  <1>6. /\ Element(d) /\ d.codec = CodecInit /\ d.segment = dec.segment /\ d.queued = <<>>
        /\ d.next_ts = NONE /\ d.last_out = NONE /\ d.ts_is_dts = z.ts_is_dts
        /\ d.has_b_frames = z.has_b_frames /\ d.earliest_time = z.earliest_time /\ d.hurry_up = z.hurry_up
        /\ d.ts_handler = z.ts_handler /\ d.waiting_for_key = z.waiting_for_key
    BY <1>3 DEF Marked, r
  <1>7. kind \in {"I", "P"} /\ Picture(p) /\ p.kind = kind /\ size \in Nat \ {0} /\ dec' = f.dec
    BY <1>2 DEF RefSent, Sample
  <1>8. Rested(dec, z)
    BY <1>5 DEF DrainWay
  <1>9. /\ z.segment = dec.segment /\ z.earliest_time = dec.earliest_time /\ (Calm(dec) => Calm(d))
        /\ dec.ts_handler = <<>> => d.ts_handler = <<>>
    BY <1>6, <1>8 DEF Rested, Calm
  <1>10. d.codec.next = NoPic /\ d.codec.last = NoPic
    BY <1>6 DEF CodecInit
  <1>11. \/ /\ kind = "P" /\ d.waiting_for_key /\ dec'.waiting_for_key /\ dec'.codec = CodecInit
            /\ Mapped(d, dec', ts, size) /\ dec'.queued = <<>>
         \/ /\ d.waiting_for_key => kind = "I"
            /\ Settled(d, dec', ts, size) /\ dec'.codec.last = NoPic /\ dec'.queued = <<>> /\ Rest(d, dec')
            /\ \E time : Grown(dec'.codec.next, p, time, {NoPic}) /\ (d.ts_handler = <<>> => time = ts)
    <2>1. CASE Ignored(d, kind # "I", ts, size, f)
      BY <1>6, <1>7, <2>1 DEF Ignored, Idle, Mapped
    <2>2. CASE (d.waiting_for_key => kind = "I") /\ Fed(d, p, ts, size, f)
      <3>1. /\ Settled(d, f.dec, ts, size) /\ f.dec.codec.last = d.codec.next
            /\ \E time : /\ Grown(f.dec.codec.next, p, time, {d.codec.next})
                         /\ d.ts_handler = <<>> /\ size \in Nat \ {0} => time = ts
            /\ IF d.codec.next = NoPic THEN Unused(d, f) ELSE Used(d, d.codec.next, ts, f)
        BY <1>7, <2>2, FedReference
      <3> QED BY <1>6, <1>7, <1>10, <2>2, <3>1 DEF Unused, Idle
    <2> QED BY <1>3, <2>1, <2>2
  <1>12. /\ dec'.queued = r.dec.queued
         /\ dec'.segment = dec.segment /\ dec'.earliest_time = dec.earliest_time
         /\ Calm(dec) => dec'.hurry_up = 0
         /\ dec'.next_ts = NONE /\ dec'.last_out = NONE /\ dec'.has_b_frames = z.has_b_frames
         /\ dec'.ts_is_dts => z.ts_is_dts
    <2>1. r.dec.queued = <<>>
      BY <1>4, <1>5 DEF DrainWay
    <2>2. CASE Mapped(d, dec', ts, size) /\ dec'.queued = <<>>
      BY <1>6, <1>9, <2>1, <2>2 DEF Mapped, Calm
    <2>3. CASE Settled(d, dec', ts, size) /\ dec'.queued = <<>> /\ Rest(d, dec')
      BY <1>6, <1>9, <2>1, <2>3 DEF Settled, Rest
    <2> QED BY <1>11, <2>2, <2>3
  <1>13. /\ \E N : LeaveAll(N) /\ Fate(N, NONE, z, ~dec.waiting_for_key)
         /\ dec.codec.next = NoPic => z.waiting_for_key = dec.waiting_for_key
         /\ ~dec.waiting_for_key => ~z.waiting_for_key
    <2>1. pushed' = r.pushed
      BY <1>3 DEF r
    <2> QED BY <1>5, <1>12, <2>1, DrainLeaves
  <1>14. ASSUME Settled(d, dec', ts, size), dec'.codec.last = NoPic,
                \E time : Grown(dec'.codec.next, p, time, {NoPic}) /\ (d.ts_handler = <<>> => time = ts)
         PROVE  RefFed(NoPic, p, ts, size)
    <2>1. Unhurried(dec) => Unhurried(d)
      BY <1>6, <1>9 DEF Unhurried
    <2>2. Settled(dec, dec', ts, size)
      BY <1>6, <1>9, <1>14, <2>1 DEF Settled
    <2> QED BY <1>9, <1>14, <2>2 DEF RefFed
  <1>15. /\ RefSent(kind, disp) /\ Sample(kind, disp, References(kind), up.pos + 1, p, ts, size)
         /\ \/ kind = "P" /\ z.waiting_for_key /\ dec'.waiting_for_key /\ dec'.codec = CodecInit
            \/ (z.waiting_for_key => kind = "I") /\ RefFed(NoPic, p, ts, size)
    BY <1>2, <1>6, <1>11, <1>14
  <1> QED BY <1>1, <1>8, <1>12, <1>13, <1>15 DEF r

(* Upstream has sent a B frame.                                            *)
BetweenSent(disp) ==
    /\ disp \in up.bs /\ up.segment /\ ~up.eos /\ (\A other \in up.bs : disp <= other)
    /\ up'.bs = up.bs \ {disp} /\ ~up'.mark
    /\ up'.pos = up.pos /\ up'.ref = up.ref /\ up'.low = up.low /\ up'.limit = up.limit
    /\ up'.key = up.key /\ up'.segment = up.segment /\ up'.eos = up.eos /\ up'.mode = up.mode
    /\ up'.flushed = up.flushed /\ up'.run = up.run

(* A B frame is dropped, or leaves between its references.                 *)
LEMMA BetweenOn ==
    ASSUME RunsInv, Places, SendB, stream' = stream, count'.errors = 0
    PROVE  /\ Counted /\ ~up.mark
           /\ \E disp, p, ts, size :
                 /\ BetweenSent(disp) /\ Sample("B", disp, {up.ref, up.pos}, disp + 1, p, ts, size)
                 /\ \/ /\ dec.waiting_for_key /\ dec'.waiting_for_key
                       /\ Mapped(dec, dec', ts, size) /\ Leave({})
                    \/ /\ ~dec.waiting_for_key /\ Settled(dec, dec', ts, size) /\ dec'.codec = dec.codec
                       /\ Leave({}) /\ Rest(dec, dec') /\ (Calm(dec) => NoPic \in {dec.codec.next, dec.codec.last})
                    \/ /\ ~dec.waiting_for_key /\ Settled(dec, dec', ts, size) /\ dec'.codec = dec.codec
                       /\ dec.codec.next # NoPic /\ dec.codec.last # NoPic
                       /\ \E N, y, time :
                             /\ Grown(y, p, time, {dec.codec.last, dec.codec.next})
                             /\ dec.ts_handler = <<>> => time = ts
                             /\ Leave(N) /\ \A o \in N : Copy(o, y)
                             /\ ts \in Int /\ Unhurried(dec) => TimesGo(dec, y, ts, dec', N)
  <1>1. PICK disp \in up.bs :
          /\ up.segment /\ ~up.eos
          /\ \A other \in up.bs : disp <= other
          /\ Chain("B", disp, {up.ref, up.pos}, disp + 1)
          /\ up' = [up EXCEPT !.bs = @ \ {disp}, !.mark = FALSE, !.run = IF up.mark THEN @ + 1 ELSE @]
    BY Zenon DEF SendB
  <1> DEFINE refs == {up.ref, up.pos}
             dts == disp + 1
             bs == up.bs \ {disp}
             run == IF up.mark THEN up.run + 1 ELSE up.run
  <1>2. up' = [up EXCEPT !.bs = bs, !.mark = FALSE, !.run = run] /\ Chain("B", disp, refs, dts)
    BY <1>1
  <1>3. Upstream(up) /\ up.mark = FALSE
    BY DEF RunsInv, DecTypeOK, Places, Upstream
  <1>4. run = up.run
    BY <1>3
  <1> HIDE DEF refs, dts, bs, run
  <1>5. BetweenSent(disp)
    <2>1. /\ up'.bs = bs /\ ~up'.mark
          /\ up'.pos = up.pos /\ up'.ref = up.ref /\ up'.low = up.low /\ up'.limit = up.limit
          /\ up'.key = up.key /\ up'.segment = up.segment /\ up'.eos = up.eos /\ up'.mode = up.mode
          /\ up'.flushed = up.flushed /\ up'.run = run
      BY <1>2, <1>3 DEF Upstream
    <2> QED BY <1>1, <1>4, <2>1 DEF BetweenSent, bs
  <1>6. /\ count.errors = 0 /\ down /\ down' = down /\ prev' = Last
        /\ count'.qos = count.qos /\ count'.caps = count.caps
        /\ \E p, ts, size, f :
              /\ Sample("B", disp, refs, dts, p, ts, size) /\ dec' = f.dec
              /\ ~up.mark => /\ pushed' = f.pushed
                             /\ \/ Ignored(dec, "B" # "I", ts, size, f)
                                \/ (dec.waiting_for_key => "B" = "I") /\ Fed(dec, p, ts, size, f)
    <2>1. "B" \in {"I", "P", "B"}
      OBVIOUS
    <2> QED BY <1>2, <2>1, ChainWay
  <1>7. Counted
    BY <1>6 DEF Counted
  <1>8. PICK p, ts, size, f :
          /\ Sample("B", disp, refs, dts, p, ts, size) /\ dec' = f.dec
          /\ ~up.mark => /\ pushed' = f.pushed
                         /\ \/ Ignored(dec, "B" # "I", ts, size, f)
                            \/ (dec.waiting_for_key => "B" = "I") /\ Fed(dec, p, ts, size, f)
    BY <1>6
  <1>9. pushed' = f.pushed /\ dec' = f.dec /\ Picture(p) /\ p.kind = "B" /\ size \in Nat \ {0}
    BY <1>3, <1>8 DEF Sample
  <1>10. CASE Ignored(dec, "B" # "I", ts, size, f)
    <2>1. dec.waiting_for_key /\ dec'.waiting_for_key /\ Mapped(dec, dec', ts, size) /\ Leave({})
      BY <1>9, <1>10 DEF Ignored, Idle, Leave
    <2> QED BY <1>3, <1>5, <1>7, <1>8, <2>1 DEF refs, dts
  <1>11. CASE ~dec.waiting_for_key /\ Fed(dec, p, ts, size, f)
    <2> DEFINE timed == (ts \in Int /\ Unhurried(dec)) = TRUE
    <2>1. timed \in BOOLEAN /\ (timed <=> ts \in Int /\ Unhurried(dec))
      OBVIOUS
    <2> HIDE DEF timed
    <2>2. /\ Settled(dec, f.dec, ts, size) /\ f.dec.codec = dec.codec
          /\ \/ Unused(dec, f) /\ (Calm(dec) => NoPic \in {dec.codec.next, dec.codec.last})
             \/ \E y, time : /\ dec.codec.last # NoPic /\ dec.codec.next # NoPic
                             /\ Grown(y, p, time, {dec.codec.last, dec.codec.next})
                             /\ dec.ts_handler = <<>> /\ size \in Nat \ {0} => time = ts
                             /\ Used(dec, y, ts, f)
      BY <1>9, <1>11, FedBetween
    <2>3. CASE Unused(dec, f) /\ (Calm(dec) => NoPic \in {dec.codec.next, dec.codec.last})
      <3>1. Leave({}) /\ Rest(dec, dec')
        BY <1>9, <2>3 DEF Unused, Idle, Leave
      <3>2. Settled(dec, dec', ts, size) /\ dec'.codec = dec.codec
        BY <1>9, <2>2
      <3> QED BY <1>3, <1>5, <1>7, <1>8, <1>11, <2>3, <3>1, <3>2 DEF refs, dts
    <2>4. ASSUME NEW y, NEW time, dec.codec.last # NoPic, dec.codec.next # NoPic,
                 Grown(y, p, time, {dec.codec.last, dec.codec.next}),
                 dec.ts_handler = <<>> /\ size \in Nat \ {0} => time = ts,
                 Used(dec, y, ts, f)
          PROVE  /\ Settled(dec, dec', ts, size) /\ dec'.codec = dec.codec
                 /\ \E N, yy, tt :
                       /\ Grown(yy, p, tt, {dec.codec.last, dec.codec.next})
                       /\ dec.ts_handler = <<>> => tt = ts
                       /\ Leave(N) /\ \A o \in N : Copy(o, yy)
                       /\ ts \in Int /\ Unhurried(dec) => TimesGo(dec, yy, ts, dec', N)
      <3>1. MayEmit(dec, y, f) /\ (timed => Sends(dec, y, ts, f))
        BY <2>1, <2>4 DEF Used, Places
      <3>2. PICK N : /\ \A o \in N : Copy(o, y)
                     /\ timed => TimesGo(dec, y, ts, f.dec, N)
                     /\ (N = {} /\ Idle(dec, f)) \/ \E o : N = {o} /\ Emits(dec, f, o)
        BY <2>1, <3>1, SendsLeave
      <3>3. Leave(N)
        BY <1>9, <3>2 DEF Leave, Idle, Emits
      <3> QED BY <1>9, <2>1, <2>2, <2>4, <3>2, <3>3
    <2>5. CASE ~(Unused(dec, f) /\ (Calm(dec) => NoPic \in {dec.codec.next, dec.codec.last}))
      <3>1. /\ ~dec.waiting_for_key /\ Settled(dec, dec', ts, size) /\ dec'.codec = dec.codec
            /\ dec.codec.next # NoPic /\ dec.codec.last # NoPic
            /\ \E N, y, time :
                  /\ Grown(y, p, time, {dec.codec.last, dec.codec.next})
                  /\ dec.ts_handler = <<>> => time = ts
                  /\ Leave(N) /\ \A o \in N : Copy(o, y)
                  /\ ts \in Int /\ Unhurried(dec) => TimesGo(dec, y, ts, dec', N)
        <4>1. PICK y, time : /\ dec.codec.last # NoPic /\ dec.codec.next # NoPic
                             /\ Grown(y, p, time, {dec.codec.last, dec.codec.next})
                             /\ dec.ts_handler = <<>> /\ size \in Nat \ {0} => time = ts
                             /\ Used(dec, y, ts, f)
          BY <2>2, <2>5
        <4>2. /\ Settled(dec, dec', ts, size) /\ dec'.codec = dec.codec
              /\ \E N, yy, tt :
                    /\ Grown(yy, p, tt, {dec.codec.last, dec.codec.next})
                    /\ dec.ts_handler = <<>> => tt = ts
                    /\ Leave(N) /\ \A o \in N : Copy(o, yy)
                    /\ ts \in Int /\ Unhurried(dec) => TimesGo(dec, yy, ts, dec', N)
          BY <2>4, <4>1
        <4> QED BY <1>11, <4>1, <4>2
      <3> QED BY <1>3, <1>5, <1>7, <1>8, <3>1 DEF refs, dts
    <2> QED BY <2>2, <2>3, <2>5
  <1> QED BY <1>3, <1>8, <1>10, <1>11

-----------------------------------------------------------------------------
(* What the other steps do.                                                *)

(* What is left of the place of upstream.                                  *)
SamePlace ==
    /\ up'.pos = up.pos /\ up'.ref = up.ref /\ up'.bs = up.bs /\ up'.low = up.low /\ up'.limit = up.limit
    /\ up'.mark = up.mark /\ up'.segment = up.segment /\ up'.mode = up.mode /\ up'.run = up.run
    /\ up'.flushed = up.flushed

(* The element is drained to z.                                            *)
DrainSent(z) ==
    /\ prev' = Last /\ down' = down
    /\ \E N : LeaveAll(N) /\ Fate(N, NONE, z, ~dec.waiting_for_key)
    /\ Rested(dec, z) /\ (dec.codec.next = NoPic => z.waiting_for_key = dec.waiting_for_key)
    /\ ~dec.waiting_for_key => ~z.waiting_for_key

(* A drain that downstream accepts.                                        *)
LEMMA DrainShows ==
    ASSUME RunsInv, Places, count.errors = 0, NEW r, r = drain(dec), Push(r.pushed), down' = down,
           dec'.queued = r.dec.queued
    PROVE  DrainSent(r.dec)
  <1>1. down /\ Element(dec)
    BY DEF Places, RunsInv, DecTypeOK
  <1>2. prev' = Last /\ pushed' = r.pushed
    BY <1>1 DEF Push, Last
  <1>3. DrainWay(dec, r)
    BY <1>1, DrainsWay
  <1>4. /\ \E N : LeaveAll(N) /\ Fate(N, NONE, r.dec, ~dec.waiting_for_key)
        /\ dec.codec.next = NoPic => r.dec.waiting_for_key = dec.waiting_for_key
        /\ ~dec.waiting_for_key => ~r.dec.waiting_for_key
    BY <1>2, <1>3, DrainLeaves
  <1>5. Rested(dec, r.dec)
    BY <1>3 DEF DrainWay
  <1> QED BY <1>2, <1>4, <1>5 DEF DrainSent

(* EOS.                                                                    *)
EosSent ==
    /\ SamePlace /\ up'.key = up.key /\ up'.eos /\ up.segment /\ ~up.eos /\ (stream.Untimed => up.bs = {})
    /\ count' = count /\ down' = down
    /\ count.errors = 0 => DrainSent(dec')

(* Eos: a drain, and upstream is done.                                     *)
LEMMA EosEffect == ASSUME RunsInv, Places, Eos PROVE EosSent
  <1> DEFINE r == drain(dec)
  <1>1. /\ dec' = r.dec /\ Push(r.pushed) /\ up.segment /\ ~up.eos /\ up' = [up EXCEPT !.eos = TRUE]
        /\ down' = down /\ count' = count /\ (stream.Untimed => up.bs = {})
    <2> HIDE DEF r
    <2> QED BY DEF Eos, r
  <1> HIDE DEF r
  <1>2. Upstream(up)
    BY DEF RunsInv, DecTypeOK
  <1>3. SamePlace /\ up'.key = up.key /\ up'.eos
    BY <1>1, <1>2 DEF Upstream, SamePlace
  <1>4. ASSUME count.errors = 0 PROVE DrainSent(dec')
    BY <1>1, <1>4, DrainShows DEF r
  <1> QED BY <1>1, <1>3, <1>4 DEF EosSent

(* New caps: the element is opened.                                        *)
SetCapsSent ==
    /\ SamePlace /\ up'.key /\ up'.eos = up.eos /\ up.segment /\ ~up.eos /\ up.bs = {}
    /\ (IF dec.segment.rate > 0 THEN ~up.key ELSE up.mark) /\ stream.MaxCaps # 0
    /\ count'.errors = count.errors /\ count'.qos = count.qos /\ count'.caps = count.caps + 1
    /\ count' \in [errors : Nat, qos : Nat, caps : Nat] /\ down' = down
    /\ count.errors = 0 =>
          \E z : /\ DrainSent(z)
                 /\ dec'.codec = CodecInit /\ dec'.last_out = NONE /\ dec'.next_ts = NONE
                 /\ dec'.earliest_time = NONE /\ dec'.hurry_up = 0 /\ dec'.ts_is_dts = FALSE
                 /\ dec'.has_b_frames = FALSE /\ dec'.waiting_for_key = z.waiting_for_key
                 /\ dec'.segment = z.segment /\ dec'.ts_handler = z.ts_handler

(* gst_ffmpegdec_open.                                                     *)
LEMMA OpenedReset ==
    ASSUME NEW d, Element(d)
    PROVE  /\ Opened(d).codec = CodecInit /\ Opened(d).last_out = NONE /\ Opened(d).next_ts = NONE
           /\ Opened(d).earliest_time = NONE /\ Opened(d).hurry_up = 0 /\ Opened(d).ts_is_dts = FALSE
           /\ Opened(d).has_b_frames = FALSE /\ Opened(d).waiting_for_key = d.waiting_for_key
           /\ Opened(d).segment = d.segment /\ Opened(d).ts_handler = d.ts_handler
           /\ Opened(d).queued = d.queued
  BY DEF Element, Opened

(* SetCaps: a drain before the codec is opened anew.                       *)
LEMMA SetCapsEffect == ASSUME RunsInv, Places, SetCaps PROVE SetCapsSent
  <1> DEFINE r == drain(dec)
             caps == count.caps + 1
  <1>1. /\ dec' = Opened(r.dec) /\ Push(r.pushed) /\ up' = [up EXCEPT !.key = TRUE] /\ down' = down
        /\ up.segment /\ ~up.eos /\ up.bs = {} /\ count.caps < stream.MaxCaps
        /\ (IF dec.segment.rate > 0 THEN ~up.key ELSE up.mark)
        /\ count' = [count EXCEPT !.caps = caps]
    <2> HIDE DEF r
    <2> QED BY DEF SetCaps, r
  <1> HIDE DEF r
  <1>2. Upstream(up) /\ Element(dec) /\ count \in [errors : Nat, qos : Nat, caps : Nat] /\ stream \in Streams
    BY DEF RunsInv, DecTypeOK, Places
  <1>3. SamePlace /\ up'.key /\ up'.eos = up.eos
    BY <1>1, <1>2 DEF Upstream, SamePlace
  <1>4. caps \in Nat
    BY <1>2
  <1>5. stream.MaxCaps # 0
    <2>1. stream.MaxCaps \in Nat /\ count.caps \in Nat
      BY <1>2, DecAssumption
    <2> QED BY <1>1, <2>1
  <1>6. /\ count'.errors = count.errors /\ count'.qos = count.qos /\ count'.caps = caps
        /\ count' \in [errors : Nat, qos : Nat, caps : Nat]
    <2> HIDE DEF caps
    <2> QED BY <1>1, <1>2, <1>4
  <1>7. Element(r.dec)
    BY <1>2, DrainDrained DEF Drained, r
  <1>8. /\ dec'.codec = CodecInit /\ dec'.last_out = NONE /\ dec'.next_ts = NONE
        /\ dec'.earliest_time = NONE /\ dec'.hurry_up = 0 /\ dec'.ts_is_dts = FALSE
        /\ dec'.has_b_frames = FALSE /\ dec'.waiting_for_key = r.dec.waiting_for_key
        /\ dec'.segment = r.dec.segment /\ dec'.ts_handler = r.dec.ts_handler /\ dec'.queued = r.dec.queued
    BY <1>1, <1>7, OpenedReset
  <1>9. ASSUME count.errors = 0 PROVE DrainSent(r.dec)
    BY <1>1, <1>8, <1>9, DrainShows DEF r
  <1> QED BY <1>1, <1>3, <1>5, <1>6, <1>8, <1>9 DEF SetCapsSent

(* A gap, or an earlier group.                                             *)
JumpSent ==
    /\ up.segment /\ ~up.eos /\ ~up.mark /\ (stream.Untimed => up.bs = {})
    /\ up'.pos \in Nat \cup {NONE} /\ up'.low = up'.pos /\ up'.bs = {} /\ up'.mark
    /\ up'.key <=> (dec.segment.rate < 0 \/ ~stream.AnyStart)
    /\ up'.ref = up.ref /\ up'.segment = up.segment /\ up'.eos = up.eos /\ up'.run = up.run
    /\ up'.mode = up.mode /\ up'.flushed = up.flushed
    /\ IF dec.segment.rate > 0 THEN up'.pos = up.pos + 1 /\ up'.limit = up.limit
       ELSE up'.pos < up.low /\ up'.limit = up.low + 1
    /\ dec' = dec /\ pushed' = <<>> /\ prev' = Last /\ count' = count /\ down' = down

(* Jump: upstream goes on elsewhere, with a mark.                          *)
LEMMA JumpEffect == ASSUME RunsInv, Places, Jump PROVE JumpSent
  <1>1. PICK place \in NONE..(stream.MaxPos - 1) :
          /\ IF dec.segment.rate > 0 THEN place = up.pos + 1 ELSE place < up.low
          /\ up' = [up EXCEPT !.pos = place, !.low = place, !.bs = {}, !.mark = TRUE,
                              !.limit = IF dec.segment.rate > 0 THEN @ ELSE up.low + 1,
                              !.key = dec.segment.rate < 0 \/ ~stream.AnyStart]
    BY Zenon DEF Jump
  <1> DEFINE limit == IF dec.segment.rate > 0 THEN up.limit ELSE up.low + 1
             key == dec.segment.rate < 0 \/ ~stream.AnyStart
  <1>2. up' = [up EXCEPT !.pos = place, !.low = place, !.bs = {}, !.mark = TRUE, !.limit = limit, !.key = key]
    BY <1>1
  <1>3. key <=> (dec.segment.rate < 0 \/ ~stream.AnyStart)
    OBVIOUS
  <1> HIDE DEF key
  <1>4. Upstream(up) /\ stream \in Streams
    BY DEF RunsInv, DecTypeOK, Places
  <1>5. place \in Nat \cup {NONE}
    <2>1. stream.MaxPos \in Nat
      BY <1>4, DecAssumption
    <2> QED BY <1>1, <2>1 DEF NONE
  <1>6. /\ up'.pos = place /\ up'.low = place /\ up'.bs = {} /\ up'.mark /\ up'.limit = limit
        /\ up'.key = key
        /\ up'.ref = up.ref /\ up'.segment = up.segment /\ up'.eos = up.eos /\ up'.run = up.run
        /\ up'.mode = up.mode /\ up'.flushed = up.flushed
    <2> HIDE DEF limit
    <2> QED BY <1>2, <1>4 DEF Upstream
  <1>7. /\ pushed' = <<>> /\ prev' = Last /\ dec' = dec /\ down' = down /\ count' = count
        /\ up.segment /\ ~up.eos /\ ~up.mark /\ (stream.Untimed => up.bs = {})
    BY DEF Jump, Push, Last
  <1>8. up'.key <=> (dec.segment.rate < 0 \/ ~stream.AnyStart)
    BY <1>3, <1>6
  <1> QED BY <1>1, <1>5, <1>6, <1>7, <1>8 DEF JumpSent

(* NEWSEGMENT.                                                             *)
NewSegmentSent ==
    /\ up.bs = {} /\ up'.bs = {} /\ up'.segment /\ ~up'.eos /\ up'.run = up.run
    /\ up'.mode = up.mode /\ up'.flushed = up.flushed /\ up'.ref = up.ref
    /\ up'.pos \in Nat \cup {NONE} /\ up'.low = up'.pos /\ up'.limit \in Int
    /\ ~stream.AnyStart \/ up.segment \/ dec'.segment.rate < 0 => up'.key
    /\ up'.mark <=> up.mark \/ dec'.segment.rate < 0
    /\ up.segment => dec'.segment.rate = dec.segment.rate
    /\ up.segment /\ dec'.segment.rate > 0 => up'.pos = up.pos
    /\ up.segment /\ dec'.segment.rate < 0 => up'.pos < up.low /\ up'.limit = up.low + 1
    /\ dec'.segment.start \in Int /\ dec'.segment.stop \in Int /\ dec'.segment.rate \in {1, -1}
    /\ dec'.segment.rate < 0 => dec'.segment.stop # NONE
    /\ count' = count /\ down' = down
    /\ count.errors = 0 =>
          \E z : /\ DrainSent(z)
                 /\ dec'.codec = z.codec /\ dec'.last_out = z.last_out /\ dec'.next_ts = z.next_ts
                 /\ dec'.earliest_time = z.earliest_time /\ dec'.hurry_up = z.hurry_up
                 /\ dec'.ts_is_dts = z.ts_is_dts /\ dec'.has_b_frames = z.has_b_frames
                 /\ dec'.waiting_for_key = z.waiting_for_key /\ dec'.ts_handler = z.ts_handler

(* NewSegment: a drain before the segment is taken.                        *)
LEMMA NewSegmentEffect == ASSUME RunsInv, Places, NewSegment PROVE NewSegmentSent
  <1>1. PICK start \in stream.Starts \cup {up.pos + 1}, stop \in {NONE} \cup stream.Stops,
             speed \in (IF stream.Reverse THEN {1, -1} ELSE {1}), place \in NONE..(stream.MaxPos - 1) :
         /\ stop # NONE => start < stop
         /\ speed < 0 => stop # NONE /\ start = 0
         /\ up.segment => speed = dec.segment.rate
         /\ up.segment /\ speed > 0 => place = up.pos /\ start = up.pos + 1
         /\ up.segment /\ speed < 0 => place < up.low
         /\ ~up.segment /\ speed > 0 => place \in {start - 1, start - 2}
         /\ \E r \in {drain(dec)} :
            /\ dec' = [r.dec EXCEPT !.segment = [start |-> start, stop |-> stop, rate |-> speed]]
            /\ Push(r.pushed)
         /\ up' = [up EXCEPT !.segment = TRUE, !.eos = FALSE, !.pos = place, !.low = place,
                             !.key = ~stream.AnyStart \/ up.segment \/ speed < 0,
                             !.mark = @ \/ speed < 0,
                             !.limit = IF speed > 0 THEN stream.MaxPos ELSE IF up.segment THEN up.low + 1 ELSE stop,
                             !.seg = IF up.segment THEN @ + 1 ELSE @]
    BY Zenon DEF NewSegment
  <1> DEFINE span == [start |-> start, stop |-> stop, rate |-> speed]
             key == ~stream.AnyStart \/ up.segment \/ speed < 0
             mark == up.mark \/ speed < 0
             limit == IF speed > 0 THEN stream.MaxPos ELSE IF up.segment THEN up.low + 1 ELSE stop
             seg == IF up.segment THEN up.seg + 1 ELSE up.seg
             r == drain(dec)
  <1>2. up' = [up EXCEPT !.segment = TRUE, !.eos = FALSE, !.pos = place, !.low = place, !.key = key,
                         !.mark = mark, !.limit = limit, !.seg = seg]
    BY <1>1
  <1>3. dec' = [r.dec EXCEPT !.segment = span] /\ Push(r.pushed)
    <2> HIDE DEF span
    <2> QED BY <1>1 DEF span
  <1>4. /\ Upstream(up) /\ Element(dec) /\ down' = down /\ count' = count /\ up.bs = {} /\ stream \in Streams
        /\ up.low \in Int /\ up.pos \in Int
    BY DEF RunsInv, DecTypeOK, NewSegment, Places, NONE
  <1>5. speed \in {1, -1} /\ span.rate = speed /\ span.start = start /\ span.stop = stop
    BY <1>1
  <1>6. /\ stream.MaxPos \in Nat /\ stream.Starts \subseteq Nat /\ stream.Stops \subseteq Nat
    BY <1>4, DecAssumption
  <1>7. start \in Int /\ stop \in Int /\ place \in Nat \cup {NONE} /\ limit \in Int
    BY <1>1, <1>4, <1>6 DEF NONE
  <1>8. /\ key <=> ~stream.AnyStart \/ up.segment \/ speed < 0
        /\ mark <=> up.mark \/ speed < 0
    OBVIOUS
  <1>9. speed < 0 /\ up.segment => limit = up.low + 1
    BY <1>5
  <1> HIDE DEF span, key, mark, limit, seg, r
  <1>10. /\ up'.segment /\ ~up'.eos /\ up'.run = up.run /\ up'.mode = up.mode /\ up'.flushed = up.flushed
         /\ up'.ref = up.ref /\ up'.pos = place /\ up'.low = place /\ up'.key = key /\ up'.mark = mark
         /\ up'.limit = limit /\ up'.bs = up.bs
    BY <1>2, <1>4 DEF Upstream
  <1>11. (up'.key <=> key) /\ (up'.mark <=> mark)
    BY <1>10
  <1>12. Element(r.dec)
    BY <1>4, DrainDrained DEF Drained, r
  <1>13. /\ dec'.segment = span
         /\ dec'.codec = r.dec.codec /\ dec'.last_out = r.dec.last_out /\ dec'.next_ts = r.dec.next_ts
         /\ dec'.earliest_time = r.dec.earliest_time /\ dec'.hurry_up = r.dec.hurry_up
         /\ dec'.ts_is_dts = r.dec.ts_is_dts /\ dec'.has_b_frames = r.dec.has_b_frames
         /\ dec'.waiting_for_key = r.dec.waiting_for_key /\ dec'.ts_handler = r.dec.ts_handler
         /\ dec'.queued = r.dec.queued
    BY <1>3, <1>12 DEF Element
  <1>14. dec'.segment.rate = speed /\ dec'.segment.start = start /\ dec'.segment.stop = stop
    BY <1>5, <1>13
  <1>15. ASSUME count.errors = 0 PROVE DrainSent(r.dec)
    BY <1>3, <1>4, <1>13, <1>15, DrainShows DEF r
  <1>16. /\ ~stream.AnyStart \/ up.segment \/ dec'.segment.rate < 0 => up'.key
         /\ up'.mark <=> up.mark \/ dec'.segment.rate < 0
    BY <1>8, <1>11, <1>14
  <1>17. /\ up.segment => dec'.segment.rate = dec.segment.rate
         /\ up.segment /\ dec'.segment.rate > 0 => up'.pos = up.pos
         /\ up.segment /\ dec'.segment.rate < 0 => up'.pos < up.low /\ up'.limit = up.low + 1
         /\ dec'.segment.start \in Int /\ dec'.segment.stop \in Int /\ dec'.segment.rate \in {1, -1}
         /\ dec'.segment.rate < 0 => dec'.segment.stop # NONE
    BY <1>1, <1>5, <1>7, <1>9, <1>10, <1>14
  <1> QED BY <1>4, <1>7, <1>10, <1>13, <1>15, <1>16, <1>17 DEF NewSegmentSent

(* A flush or a restart.                                                   *)
AnewSent(flushed) ==
    /\ up'.pos = up.pos /\ up'.ref = up.ref /\ up'.low = up.low /\ up'.limit = up.limit /\ up'.mode = up.mode
    /\ up'.bs = {} /\ up'.mark /\ ~up'.segment /\ ~up'.eos /\ up'.run = 0
    /\ (up'.key <=> ~stream.AnyStart) /\ (up'.flushed <=> flushed)
    /\ pushed' = <<>> /\ prev' = NoOutput /\ down' = TRUE /\ count' = count
    /\ dec'.codec = CodecInit /\ dec'.queued = <<>> /\ dec'.last_out = NONE /\ dec'.next_ts = NONE
    /\ dec'.earliest_time = NONE /\ dec'.hurry_up \in {0, dec.hurry_up}
    /\ IF flushed THEN /\ dec'.waiting_for_key /\ dec'.segment = OpenSegment /\ dec'.ts_handler = <<>>
                       /\ dec'.ts_is_dts = dec.ts_is_dts /\ dec'.has_b_frames = dec.has_b_frames
       ELSE /\ dec'.waiting_for_key = dec.waiting_for_key /\ dec'.segment = dec.segment
            /\ dec'.ts_handler = dec.ts_handler /\ ~dec'.ts_is_dts /\ ~dec'.has_b_frames

(* Upstream begins anew.                                                   *)
LEMMA AnewUp ==
    ASSUME RunsInv, NEW flushed \in BOOLEAN, Anew(flushed)
    PROVE  /\ up'.pos = up.pos /\ up'.ref = up.ref /\ up'.low = up.low /\ up'.limit = up.limit
           /\ up'.mode = up.mode
           /\ up'.bs = {} /\ up'.mark /\ ~up'.segment /\ ~up'.eos /\ up'.run = 0
           /\ (up'.key <=> ~stream.AnyStart) /\ (up'.flushed <=> flushed)
           /\ pushed' = <<>> /\ prev' = NoOutput /\ down' = TRUE /\ count' = count
  <1> DEFINE key == ~stream.AnyStart
             era == up.epoch + 1
  <1>1. /\ up' = [up EXCEPT !.bs = {}, !.mark = TRUE, !.key = key, !.segment = FALSE, !.eos = FALSE,
                            !.run = 0, !.epoch = era, !.seg = 0, !.flushed = flushed]
        /\ down' = TRUE /\ prev' = NoOutput /\ pushed' = <<>> /\ count' = count
    BY DEF Anew
  <1>2. key <=> ~stream.AnyStart
    OBVIOUS
  <1> HIDE DEF key, era
  <1>3. Upstream(up)
    BY DEF RunsInv, DecTypeOK
  <1>4. /\ up'.pos = up.pos /\ up'.ref = up.ref /\ up'.low = up.low /\ up'.limit = up.limit
        /\ up'.mode = up.mode
        /\ up'.bs = {} /\ up'.mark /\ ~up'.segment /\ ~up'.eos /\ up'.run = 0
        /\ up'.key = key /\ up'.flushed = flushed
    BY <1>1, <1>3 DEF Upstream
  <1> QED BY <1>1, <1>2, <1>4

(* FlushStop: the element drops all it has.                                *)
LEMMA FlushStopEffect == ASSUME RunsInv, FlushStop PROVE AnewSent(TRUE)
  <1> DEFINE e == clear_queued(dec)
  <1>1. Element(dec) /\ Anew(TRUE) /\ dec' = flush_stop(dec)
    BY DEF RunsInv, DecTypeOK, FlushStop
  <1>2. /\ Element(e) /\ e.queued = <<>> /\ e.hurry_up = dec.hurry_up /\ e.ts_is_dts = dec.ts_is_dts
        /\ e.has_b_frames = dec.has_b_frames
    BY <1>1, ClearedElement DEF clear_queued, Element
  <1>3. flush_stop(dec) = [e EXCEPT
            !.codec = CodecInit, !.last_out = NONE, !.next_ts = NONE, !.slow = TRUE, !.earliest_time = NONE,
            !.ts_handler = <<>>, !.waiting_for_key = TRUE, !.segment = OpenSegment]
    BY DEF flush_stop
  <1> HIDE DEF e
  <1>4. /\ dec'.codec = CodecInit /\ dec'.queued = <<>> /\ dec'.last_out = NONE /\ dec'.next_ts = NONE
        /\ dec'.earliest_time = NONE /\ dec'.hurry_up = dec.hurry_up
        /\ dec'.waiting_for_key /\ dec'.segment = OpenSegment /\ dec'.ts_handler = <<>>
        /\ dec'.ts_is_dts = dec.ts_is_dts /\ dec'.has_b_frames = dec.has_b_frames
    BY <1>1, <1>2, <1>3 DEF Element
  <1>5. TRUE \in BOOLEAN
    OBVIOUS
  <1> QED BY <1>1, <1>4, <1>5, AnewUp DEF AnewSent

(* Restart: so it does, and keeps the segment and the key it waits for.    *)
LEMMA RestartEffect == ASSUME RunsInv, Restart PROVE AnewSent(FALSE)
  <1> DEFINE e == clear_queued(dec)
  <1>1. Element(dec) /\ Anew(FALSE) /\ dec' = Opened(e)
    BY DEF RunsInv, DecTypeOK, Restart
  <1>2. /\ Element(e) /\ e.queued = <<>> /\ e.waiting_for_key = dec.waiting_for_key
        /\ e.segment = dec.segment /\ e.ts_handler = dec.ts_handler
    BY <1>1, ClearedElement DEF clear_queued, Element
  <1> HIDE DEF e
  <1>3. /\ dec'.codec = CodecInit /\ dec'.queued = <<>> /\ dec'.last_out = NONE /\ dec'.next_ts = NONE
        /\ dec'.earliest_time = NONE /\ dec'.hurry_up = 0
        /\ dec'.waiting_for_key = dec.waiting_for_key /\ dec'.segment = dec.segment
        /\ dec'.ts_handler = dec.ts_handler /\ ~dec'.ts_is_dts /\ ~dec'.has_b_frames
    BY <1>1, <1>2, OpenedReset
  <1>4. FALSE \in BOOLEAN
    OBVIOUS
  <1> QED BY <1>1, <1>3, <1>4, AnewUp DEF AnewSent

(* A QoS event.                                                            *)
QosSent ==
    /\ up' = up /\ down' = down /\ pushed' = <<>> /\ prev' = Last /\ stream.MaxQos # 0
    /\ dec'.earliest_time \in stream.Earliest
    /\ dec'.codec = dec.codec /\ dec'.queued = dec.queued /\ dec'.last_out = dec.last_out
    /\ dec'.next_ts = dec.next_ts /\ dec'.hurry_up = dec.hurry_up /\ dec'.ts_is_dts = dec.ts_is_dts
    /\ dec'.has_b_frames = dec.has_b_frames /\ dec'.waiting_for_key = dec.waiting_for_key
    /\ dec'.segment = dec.segment /\ dec'.ts_handler = dec.ts_handler
    /\ count'.errors = count.errors /\ count' \in [errors : Nat, qos : Nat, caps : Nat]

(* QosEvent: the earliest time downstream can use.                         *)
LEMMA QosEventEffect == ASSUME RunsInv, Places, QosEvent PROVE QosSent
  <1>1. PICK earliest \in stream.Earliest, slow \in BOOLEAN :
          dec' = [dec EXCEPT !.earliest_time = earliest, !.slow = slow]
    BY Zenon DEF QosEvent
  <1>2. Element(dec) /\ count \in [errors : Nat, qos : Nat, caps : Nat] /\ stream \in Streams
    BY DEF RunsInv, DecTypeOK, Places
  <1>3. /\ dec'.earliest_time \in stream.Earliest
        /\ dec'.codec = dec.codec /\ dec'.queued = dec.queued /\ dec'.last_out = dec.last_out
        /\ dec'.next_ts = dec.next_ts /\ dec'.hurry_up = dec.hurry_up /\ dec'.ts_is_dts = dec.ts_is_dts
        /\ dec'.has_b_frames = dec.has_b_frames /\ dec'.waiting_for_key = dec.waiting_for_key
        /\ dec'.segment = dec.segment /\ dec'.ts_handler = dec.ts_handler
    BY <1>1, <1>2 DEF Element
  <1>4. pushed' = <<>> /\ prev' = Last /\ up' = up /\ down' = down
    BY DEF QosEvent, Push, Last
  <1> DEFINE qos == count.qos + 1
  <1>5. count' = [count EXCEPT !.qos = qos] /\ count.qos < stream.MaxQos
    BY DEF QosEvent
  <1>6. qos \in Nat /\ stream.MaxQos # 0
    <2>1. stream.MaxQos \in Nat /\ count.qos \in Nat
      BY <1>2, DecAssumption
    <2> QED BY <1>5, <2>1
  <1>7. count'.errors = count.errors /\ count' \in [errors : Nat, qos : Nat, caps : Nat]
    <2> HIDE DEF qos
    <2> QED BY <1>2, <1>5, <1>6
  <1> QED BY <1>3, <1>4, <1>6, <1>7 DEF QosSent

-----------------------------------------------------------------------------
(* The order of the frames.                                                *)

(* A later frame in front of a queue that falls.                           *)
LEMMA FrontFalls ==
    ASSUME NEW q, q \in Seq(Frames(q)), Falling(q), NEW o, \A x \in Frames(q) : x.disp < o.disp
    PROVE  Falling(<<o>> \o q)
  <1> DEFINE S == Frames(q) \cup {o}
             z == <<o>> \o q
  <1>1. q \in Seq(S) /\ <<o>> \in Seq(S) /\ Len(<<o>>) = 1 /\ <<o>>[1] = o
    <2>1. \A i \in 1 .. Len(q) : q[i] \in Frames(q)
      BY DEF Frames
    <2>2. \A i \in 1 .. Len(q) : q[i] \in S
      BY <2>1
    <2>3. <<o>> \in Seq(S) /\ Len(<<o>>) = 1 /\ <<o>>[1] = o
      OBVIOUS
    <2> HIDE DEF S
    <2>4. q \in Seq(S)
      BY <2>2
    <2> QED BY <2>3, <2>4
  <1> HIDE DEF S
  <1>2. /\ Len(z) = 1 + Len(q) /\ Len(q) \in Nat
        /\ \A i \in 1 .. Len(z) : z[i] = IF i <= 1 THEN <<o>>[i] ELSE q[i - 1]
    BY <1>1, ConcatProperties
  <1>3. z[1] = o /\ \A i \in 2 .. Len(z) : z[i] = q[i - 1] /\ i - 1 \in 1 .. Len(q)
    BY <1>1, <1>2
  <1> HIDE DEF z
  <1>4. ASSUME NEW i \in 1 .. Len(z), NEW j \in 1 .. Len(z), i < j
        PROVE  z[i].disp > z[j].disp
    <2>1. z[j] = q[j - 1] /\ j - 1 \in 1 .. Len(q)
      BY <1>2, <1>3, <1>4
    <2>2. CASE i = 1
      <3>1. q[j - 1] \in Frames(q)
        BY <2>1 DEF Frames
      <3>2. q[j - 1].disp < o.disp
        BY <3>1
      <3>3. z[i] = o
        BY <1>3, <2>2
      <3> HIDE DEF Frames
      <3> QED BY <2>1, <3>2, <3>3
    <2>3. CASE i # 1
      <3>1. z[i] = q[i - 1] /\ i - 1 \in 1 .. Len(q) /\ i - 1 < j - 1
        BY <1>2, <1>3, <1>4, <2>3
      <3>2. q[i - 1].disp > q[j - 1].disp
        BY <2>1, <3>1 DEF Falling
      <3> QED BY <2>1, <3>1, <3>2
    <2> QED BY <2>2, <2>3
  <1>5. Falling(z)
    BY <1>4 DEF Falling
  <1> QED BY <1>5 DEF z

(* In reverse: frames in falling order behind the last one shown.          *)
LEMMA ShownFalls ==
    ASSUME pushed' \in Seq(Frames(pushed')), Falling(pushed'), prev' = Last,
           Last # NoOutput => \A x \in Frames(pushed') : x.disp < Last.disp
    PROVE  \A n \in Neighbours' : n[1].disp > n[2].disp
  <1> DEFINE q == pushed'
             s == Shown'
  <1>1. Falling(s)
    <2>1. CASE Last = NoOutput
      <3>1. s = <<>> \o q
        BY <2>1 DEF Shown
      <3> HIDE DEF s, q
      <3>2. q \in Seq(Frames(q)) /\ Falling(q)
        BY DEF q
      <3>3. s = q
        BY <3>1, <3>2, ConcatEmptySeq
      <3> QED BY <3>2, <3>3
    <2>2. CASE Last # NoOutput
      <3>1. s = <<Last>> \o q
        BY <2>2 DEF Shown
      <3> HIDE DEF s, q
      <3>2. q \in Seq(Frames(q)) /\ Falling(q) /\ \A x \in Frames(q) : x.disp < Last.disp
        BY <2>2 DEF q
      <3>3. Falling(<<Last>> \o q)
        BY <3>2, FrontFalls
      <3> QED BY <3>1, <3>3
    <2> QED BY <2>1, <2>2
  <1>2. Len(s) \in Nat
    <2>1. CASE Last = NoOutput
      <3>1. s = <<>> \o q
        BY <2>1 DEF Shown
      <3> HIDE DEF s, q
      <3>2. q \in Seq(Frames(q))
        BY DEF q
      <3> QED BY <3>1, <3>2, ConcatEmptySeq
    <2>2. CASE Last # NoOutput
      <3>1. s = <<Last>> \o q
        BY <2>2 DEF Shown
      <3> HIDE DEF s, q
      <3>2. q \in Seq(Frames(q))
        BY DEF q
      <3>3. (<<Last>> \o q) \in Seq(Frames(<<Last>> \o q))
        BY <3>2, InFront
      <3> QED BY <3>1, <3>3
    <2> QED BY <2>1, <2>2
  <1>3. Neighbours' = {<<s[i], s[i + 1]>> : i \in 1 .. (Len(s) - 1)}
    BY DEF Neighbours
  <1> HIDE DEF s
  <1>4. ASSUME NEW i \in 1 .. (Len(s) - 1) PROVE s[i].disp > s[i + 1].disp
    BY <1>1, <1>2 DEF Falling
  <1> QED BY <1>3, <1>4

(* What a step shows and what the element held are what it then holds.     *)
LEMMA OutCame ==
    ASSUME RunsInv, NEW N, Came(N), dec'.segment.rate = dec.segment.rate
    PROVE  /\ Out' \subseteq Out \cup N
           /\ {Last'} \ {NoOutput} \subseteq ({Last} \ {NoOutput}) \cup Out \cup N
  <1>1. dec.segment.rate \in {1, -1} /\ (dec.segment.rate > 0 => dec.queued = <<>>)
    BY DEF RunsInv, DecTypeOK, Element, HeldIsCurrent
  <1>2. CASE dec.segment.rate > 0
    <2>1. Out = {Last} \ {NoOutput} /\ Out' = {Last'} \ {NoOutput}
      BY <1>2 DEF Out
    <2> QED BY <1>2, <2>1 DEF Came
  <1>3. CASE ~(dec.segment.rate > 0)
    <2>1. Out = Frames(dec.queued) /\ Out' = Frames(dec'.queued)
      BY <1>3 DEF Out
    <2> QED BY <1>1, <1>3, <2>1 DEF Came
  <1> QED BY <1>2, <1>3

(* Forward: what is shown comes behind what was.                           *)
LEMMA ForwardShown ==
    ASSUME NEW N, Came(N), dec.segment.rate > 0, dec'.segment.rate = dec.segment.rate,
           \A o \in N, x \in Out : x.disp < o.disp
    PROVE  DisplayOrder'
  <1>1. \A n \in Neighbours' : n[1] \in Out /\ n[2] \in N
    BY DEF Came, Out
  <1> QED BY <1>1 DEF DisplayOrder

(* Nothing is shown.                                                       *)
LEMMA NothingShown == ASSUME Neighbours' = {} PROVE DisplayOrder'
  BY DEF DisplayOrder

(* In reverse: what is drained comes before what was queued, and all       *)
(* before what was shown.                                                  *)
LEMMA BackwardShown ==
    ASSUME RunsInv, GroupOrder, NEW N, LeaveAll(N), prev' = Last, dec'.segment.rate = dec.segment.rate,
           dec.segment.rate < 0, \A o \in N : \E p \in Held : o.disp = p.disp,
           \A p \in Held, x \in Out : x.disp < p.disp
    PROVE  DisplayOrder'
  <1>1. dec.queued \in Seq(Frames(dec.queued)) /\ Out = Frames(dec.queued) /\ ~(dec.segment.rate > 0)
    BY DEF RunsInv, DecTypeOK, Element, Out
  <1>2. Falling(dec.queued) /\ (Last # NoOutput => \A p \in Held \cup Out : p.disp < Last.disp)
    BY DEF GroupOrder
  <1>3. Frames(pushed') \subseteq Frames(dec.queued) \cup N
    BY LeaveAllCame DEF Came
  <1>4. pushed' \in Seq(Frames(pushed'))
    BY <1>1, LeaveAllCame
  <1>5. Falling(pushed')
    <2>1. CASE pushed' = dec.queued
      BY <1>2, <2>1
    <2>2. ASSUME NEW o, N = {o}, pushed' = <<o>> \o dec.queued
          PROVE  Falling(pushed')
      <3>1. \A x \in Frames(dec.queued) : x.disp < o.disp
        BY <1>1, <2>2
      <3>2. Falling(<<o>> \o dec.queued)
        BY <1>1, <1>2, <3>1, FrontFalls
      <3> QED BY <2>2, <3>2
    <2> QED BY <1>1, <2>1, <2>2 DEF LeaveAll
  <1>6. Last # NoOutput => \A x \in Frames(pushed') : x.disp < Last.disp
    BY <1>1, <1>2, <1>3
  <1>7. \A n \in Neighbours' : n[1].disp > n[2].disp
    BY <1>4, <1>5, <1>6, ShownFalls
  <1> QED BY <1>1, <1>7 DEF DisplayOrder

-----------------------------------------------------------------------------
(* What upstream sends, whatever becomes of it.                            *)
LEMMA ChainCounts ==
    ASSUME Places, NEW kind, NEW disp, NEW refs, NEW dts, Chain(kind, disp, refs, dts)
    PROVE  /\ count' \in [errors : Nat, qos : Nat, caps : Nat] /\ (down' \/ count'.errors > 0)
           /\ count'.errors = 0 => count.errors = 0
  <1>1. PICK bad \in {x \in BOOLEAN : x => count.errors < stream.MaxErrors},
             timed \in {x \in BOOLEAN : x \/ (stream.Untimed /\ kind # "I" /\ ~up.mark /\ up.mode = "pts")} :
          /\ count' = [count EXCEPT !.errors = IF bad THEN @ + 1 ELSE @]
          /\ down' = down
    BY Zenon DEF Chain
  <1> DEFINE n == IF bad THEN count.errors + 1 ELSE count.errors
  <1>2. count \in [errors : Nat, qos : Nat, caps : Nat] /\ (down \/ count.errors > 0)
    BY DEF Places
  <1>3. count' = [count EXCEPT !.errors = n]
    BY <1>1
  <1>4. n \in Nat /\ (n = 0 => count.errors = 0) /\ (count.errors > 0 => n > 0)
    BY <1>2
  <1> HIDE DEF n
  <1>5. count'.errors = n /\ count' \in [errors : Nat, qos : Nat, caps : Nat]
    BY <1>2, <1>3, <1>4
  <1> QED BY <1>1, <1>2, <1>4, <1>5

(* SendReference: where upstream goes on.                                  *)
LEMMA ReferenceUp ==
    ASSUME RunsInv, Places, SendReference
    PROVE  \E kind, disp : RefSent(kind, disp) /\ Chain(kind, disp, References(kind), up.pos + 1)
  <1>1. PICK kind \in {"I", "P"}, b \in 0 .. stream.MaxB :
          LET disp == up.pos + b + 1
          IN /\ up.segment /\ ~up.eos /\ up.bs = {}
             /\ disp < up.limit
             /\ up.key => kind = "I"
             /\ kind = "I" /\ ~stream.OpenGop => b = 0
             /\ Chain(kind, disp, IF kind = "I" THEN {} ELSE {up.pos}, up.pos + 1)
             /\ up' = [up EXCEPT !.pos = disp, !.ref = up.pos, !.bs = (up.pos + 1)..(disp - 1), !.key = FALSE,
                                 !.mark = FALSE, !.run = IF up.mark THEN @ + 1 ELSE @]
    BY Zenon DEF SendReference
  <1> DEFINE disp == up.pos + b + 1
             refs == References(kind)
             dts == up.pos + 1
             ref == up.pos
             bs == (up.pos + 1)..(disp - 1)
             run == IF up.mark THEN up.run + 1 ELSE up.run
  <1>2. /\ up.segment /\ ~up.eos /\ up.bs = {} /\ disp < up.limit /\ (up.key => kind = "I")
        /\ kind = "I" /\ ~stream.OpenGop => b = 0
        /\ Chain(kind, disp, refs, dts)
        /\ up' = [up EXCEPT !.pos = disp, !.ref = ref, !.bs = bs, !.key = FALSE, !.mark = FALSE, !.run = run]
    BY <1>1 DEF References
  <1>3. Upstream(up) /\ up.pos \in Int
    BY DEF RunsInv, DecTypeOK, Places, NONE
  <1>4. b \in Nat
    BY DecAssumption DEF Places
  <1>5. disp \in Int /\ up.pos < disp /\ (b = 0 => disp = up.pos + 1)
    BY <1>3, <1>4
  <1> HIDE DEF disp, refs, dts, ref, bs, run
  <1>6. /\ up'.pos = disp /\ up'.ref = ref /\ up'.bs = bs /\ ~up'.key /\ ~up'.mark
        /\ up'.segment = up.segment /\ up'.eos = up.eos /\ up'.low = up.low /\ up'.limit = up.limit
        /\ up'.mode = up.mode /\ up'.flushed = up.flushed /\ up'.run = run
    BY <1>2, <1>3 DEF Upstream
  <1>7. RefSent(kind, disp)
    BY <1>2, <1>5, <1>6 DEF RefSent, ref, bs, run
  <1> QED BY <1>2, <1>7 DEF refs, dts

(* SendB: so it does with the next of its B frames.                        *)
LEMMA BetweenUp ==
    ASSUME RunsInv, Places, SendB
    PROVE  \E disp : BetweenSent(disp) /\ Chain("B", disp, {up.ref, up.pos}, disp + 1)
  <1>1. PICK disp \in up.bs :
          /\ up.segment /\ ~up.eos
          /\ \A other \in up.bs : disp <= other
          /\ Chain("B", disp, {up.ref, up.pos}, disp + 1)
          /\ up' = [up EXCEPT !.bs = @ \ {disp}, !.mark = FALSE, !.run = IF up.mark THEN @ + 1 ELSE @]
    BY Zenon DEF SendB
  <1> DEFINE bs == up.bs \ {disp}
             run == IF up.mark THEN up.run + 1 ELSE up.run
  <1>2. up' = [up EXCEPT !.bs = bs, !.mark = FALSE, !.run = run]
    BY <1>1
  <1>3. Upstream(up) /\ up.mark = FALSE
    BY DEF RunsInv, DecTypeOK, Places, Upstream
  <1>4. run = up.run
    BY <1>3
  <1> HIDE DEF bs, run
  <1>5. /\ up'.bs = bs /\ ~up'.mark
        /\ up'.pos = up.pos /\ up'.ref = up.ref /\ up'.low = up.low /\ up'.limit = up.limit
        /\ up'.key = up.key /\ up'.segment = up.segment /\ up'.eos = up.eos /\ up'.mode = up.mode
        /\ up'.flushed = up.flushed /\ up'.run = up.run
    BY <1>2, <1>3, <1>4 DEF Upstream
  <1> QED BY <1>1, <1>5 DEF BetweenSent, bs

(* The places of upstream, initially and after each step.                  *)
LEMMA PlacesInitial == DecInit => Places
  <1> SUFFICES ASSUME DecInit PROVE Places
    OBVIOUS
  <1>1. stream \in Streams /\ stream.MaxPos \in Nat
    BY DecAssumption DEF DecInit
  <1>2. PICK m \in stream.Modes : up = [mode |-> m, pos |-> NONE, ref |-> NONE, bs |-> {}, limit |-> stream.MaxPos, low |-> NONE,
                       mark |-> TRUE, key |-> ~stream.AnyStart, segment |-> FALSE, eos |-> FALSE,
                       run |-> 0, epoch |-> 0, seg |-> 0, flushed |-> TRUE]
    BY DEF DecInit
  <1>3. up.mode \in {"pts", "dts"}
    BY <1>1, <1>2, DecAssumption
  <1>4. up.pos = NONE /\ up.low = NONE /\ up.limit = stream.MaxPos /\ up.bs = {}
    BY <1>2
  <1>5. count \in [errors : Nat, qos : Nat, caps : Nat] /\ down
    BY DEF DecInit
  <1> QED BY <1>1, <1>3, <1>4, <1>5 DEF Places, NONE

(* Every step keeps upstream's places in order.                            *)
LEMMA PlacesStep ==
    ASSUME RunsInv, Places, [DecNext]_decvars
    PROVE  Places'
  <1>1. CASE UNCHANGED decvars
    BY <1>1 DEF decvars, Places
  <1>2. ASSUME DecNext PROVE Places'
    <2>1. stream' = stream
      BY <1>2 DEF DecNext
    <2>2. CASE SendReference
      <3>1. PICK kind, disp : RefSent(kind, disp) /\ Chain(kind, disp, References(kind), up.pos + 1)
        BY <2>2, ReferenceUp
      <3>2. /\ count' \in [errors : Nat, qos : Nat, caps : Nat] /\ (down' \/ count'.errors > 0)
        BY <3>1, ChainCounts
      <3> QED BY <2>1, <3>1, <3>2 DEF Places, RefSent, NONE
    <2>3. CASE SendB
      <3>1. PICK disp : BetweenSent(disp) /\ Chain("B", disp, {up.ref, up.pos}, disp + 1)
        BY <2>3, BetweenUp
      <3>2. /\ count' \in [errors : Nat, qos : Nat, caps : Nat] /\ (down' \/ count'.errors > 0)
        BY <3>1, ChainCounts
      <3> QED BY <2>1, <3>1, <3>2 DEF Places, BetweenSent
    <2>4. CASE Jump
      BY <2>1, <2>4, JumpEffect DEF JumpSent, Places, RunsInv, DecTypeOK, Element, NONE
    <2>5. CASE NewSegment
      BY <2>1, <2>5, NewSegmentEffect DEF NewSegmentSent, Places, NONE
    <2>6. CASE Eos
      BY <2>1, <2>6, EosEffect DEF EosSent, SamePlace, Places
    <2>7. CASE FlushStop
      BY <2>1, <2>7, FlushStopEffect DEF AnewSent, Places
    <2>8. CASE Restart
      BY <2>1, <2>8, RestartEffect DEF AnewSent, Places
    <2>9. CASE SetCaps
      BY <2>1, <2>9, SetCapsEffect DEF SetCapsSent, SamePlace, Places
    <2>10. CASE QosEvent
      BY <2>1, <2>10, QosEventEffect DEF QosSent, Places
    <2>11. CASE DownFails
      <3> DEFINE errors == count.errors + 1
      <3>1. count' = [count EXCEPT !.errors = errors] /\ up' = up
        BY <2>11 DEF DownFails
      <3>2. errors \in Nat /\ errors > 0
        BY DEF Places
      <3> HIDE DEF errors
      <3>3. count' \in [errors : Nat, qos : Nat, caps : Nat] /\ count'.errors = errors
        BY <3>1, <3>2 DEF Places
      <3> QED BY <2>1, <3>1, <3>2, <3>3 DEF Places
    <2> QED BY <1>2, <2>2, <2>3, <2>4, <2>5, <2>6, <2>7, <2>8, <2>9, <2>10, <2>11 DEF DecNext
  <1> QED BY <1>1, <1>2

(* Errors are counted.                                                     *)
LEMMA ErrorsStay ==
    ASSUME RunsInv, Places, [DecNext]_decvars, count'.errors = 0
    PROVE  count.errors = 0 /\ ~DownFails
  <1>1. CASE UNCHANGED decvars
    <2>1. ~DownFails
      <3> SUFFICES ASSUME DownFails PROVE FALSE
        OBVIOUS
      <3>1. down' = FALSE /\ down
        BY DEF DownFails
      <3> QED BY <1>1, <3>1 DEF decvars
    <2> QED BY <1>1, <2>1 DEF decvars
  <1>2. CASE DownFails
    <2> DEFINE errors == count.errors + 1
    <2>1. count' = [count EXCEPT !.errors = errors]
      BY <1>2 DEF DownFails
    <2>2. errors # 0
      BY DEF Places
    <2> HIDE DEF errors
    <2>3. count'.errors = errors
      BY <2>1 DEF Places
    <2> QED BY <2>2, <2>3
  <1>3. ASSUME DecNext, ~DownFails PROVE count.errors = 0
    <2>1. CASE SendReference
      <3>1. PICK kind, disp : RefSent(kind, disp) /\ Chain(kind, disp, References(kind), up.pos + 1)
        BY <2>1, ReferenceUp
      <3> QED BY <3>1, ChainCounts
    <2>2. CASE SendB
      <3>1. PICK disp : BetweenSent(disp) /\ Chain("B", disp, {up.ref, up.pos}, disp + 1)
        BY <2>2, BetweenUp
      <3> QED BY <3>1, ChainCounts
    <2>3. CASE Jump \/ NewSegment \/ Eos
      BY <2>3, JumpEffect, NewSegmentEffect, EosEffect DEF JumpSent, NewSegmentSent, EosSent
    <2>4. CASE FlushStop \/ Restart \/ SetCaps \/ QosEvent
      BY <2>4, FlushStopEffect, RestartEffect, SetCapsEffect, QosEventEffect DEF AnewSent, SetCapsSent, QosSent
    <2> QED BY <1>3, <2>1, <2>2, <2>3, <2>4 DEF DecNext
  <1> QED BY <1>1, <1>2, <1>3

-----------------------------------------------------------------------------
(* The order of the frames after each step.                                *)

(* What is sent is what was held.                                          *)
LEMMA FateHeld ==
    ASSUME NEW N, NEW in_ts, NEW e, NEW timed, Fate(N, in_ts, e, timed)
    PROVE  \A o \in N : \E p \in Held : Copy(o, p) /\ o.disp = p.disp
  BY DEF Fate, Held, Copy

(* What the element has when it holds nothing and nothing was queued.      *)
LEMMA EmptyOrder ==
    ASSUME RunsInv, Places, count.errors = 0, OrderInv, NEW N, LeaveAll(N), prev' = Last,
           dec'.segment.rate = dec.segment.rate, \A o \in N : \E p \in Held : o.disp = p.disp
    PROVE  /\ DisplayOrder' /\ dec'.queued = <<>>
           /\ Out' \subseteq Out \cup N /\ (dec.segment.rate < 0 => Out' = {})
           /\ \A p \in Out' \cup ({Last'} \ {NoOutput}) : p.disp \in Nat
           /\ dec.segment.rate > 0 => \A p \in Out' : p.disp <= up.pos
           /\ dec.segment.rate < 0 /\ Last' # NoOutput =>
                 /\ up.low < Last'.disp
                 /\ up.mark /\ ~up.eos => up.limit <= Last'.disp
  <1>1. OutOrder /\ GroupOrder /\ dec.segment.rate \in {1, -1} /\ Places
    BY DEF OrderInv, RunsInv, DecTypeOK, Element
  <1>2. Came(N) /\ dec'.queued = <<>>
    BY LeaveAllCame
  <1>3. /\ Out' \subseteq Out \cup N
        /\ {Last'} \ {NoOutput} \subseteq ({Last} \ {NoOutput}) \cup Out \cup N
    BY <1>2, OutCame
  <1>4. DisplayOrder'
    <2>1. \A o \in N, x \in Out : x.disp < o.disp
      BY <1>1 DEF OutOrder
    <2>2. CASE dec.segment.rate > 0
      BY <1>2, <2>1, <2>2, ForwardShown
    <2>3. CASE dec.segment.rate < 0
      BY <1>1, <2>3, BackwardShown DEF OutOrder
    <2> QED BY <1>1, <2>2, <2>3
  <1>5. \A p \in Out' \cup ({Last'} \ {NoOutput}) : p.disp \in Nat
    BY <1>1, <1>3 DEF OutOrder
  <1>6. dec.segment.rate > 0 => \A p \in Out' : p.disp <= up.pos
    BY <1>1, <1>3 DEF OutOrder
  <1>7. ASSUME dec.segment.rate < 0 PROVE Out' = {}
    <2>1. ~(dec'.segment.rate > 0)
      BY <1>1, <1>7
    <2> QED BY <1>2, <2>1, FramesEmpty DEF Out
  <1>8. ASSUME dec.segment.rate < 0, Last' # NoOutput
        PROVE  /\ up.low < Last'.disp
               /\ up.mark /\ ~up.eos => up.limit <= Last'.disp
    <2>1. Last' \in {Last} \/ \E p \in Held \cup Out : Last'.disp = p.disp
      BY <1>3, <1>8
    <2>2. CASE Last' = Last
      BY <1>1, <1>8, <2>2 DEF GroupOrder
    <2>3. CASE \E p \in Held \cup Out : Last'.disp = p.disp
      <3>1. PICK p \in Held \cup Out : Last'.disp = p.disp
        BY <2>3
      <3>2. IF up.mark THEN p.disp >= up.limit ELSE up.low < p.disp /\ p.disp < up.limit
        BY <1>1, <1>8, <3>1 DEF GroupOrder
      <3>3. p.disp \in Nat /\ up.low \in Int /\ up.limit \in Int
        BY <1>1, <3>1 DEF OutOrder, Places
      <3>4. up.run > 0
        <4>1. up.run \in Nat
          BY DEF RunsInv, DecTypeOK, Upstream
        <4>2. up.run = 0 => Held \cup Out = {}
          <5>1. up.run = 0 => dec.codec.next = NoPic /\ dec.queued = <<>>
            BY DEF RunsInv, RunBegins
          <5>2. ~(dec.segment.rate > 0)
            BY <1>1, <1>8
          <5> QED BY <5>1, <5>2, FramesEmpty DEF Held, Out
        <4> QED BY <3>1, <4>1, <4>2
      <3>5. up.low < up.limit
        BY <1>1, <1>8, <3>4 DEF GroupOrder
      <3> QED BY <3>1, <3>2, <3>3, <3>5
    <2> QED BY <2>1, <2>2, <2>3
  <1> QED BY <1>2, <1>3, <1>4, <1>5, <1>6, <1>7, <1>8

(* A reference.                                                            *)
LEMMA ReferenceOrder ==
    ASSUME RunsInv, Places, OrderInv, SendReference, stream' = stream, count'.errors = 0, ~up.mark
    PROVE  OrderInv' /\ DisplayOrder'
  <1>1. Counted
    BY ReferenceOn
  <1>2. PICK kind, disp, p, ts, size :
          /\ RefSent(kind, disp) /\ Sample(kind, disp, References(kind), up.pos + 1, p, ts, size)
          /\ \/ /\ kind = "P" /\ dec.waiting_for_key /\ dec'.waiting_for_key
                /\ Mapped(dec, dec', ts, size) /\ Leave({})
             \/ /\ dec.waiting_for_key => kind = "I"
                /\ RefFed(dec.codec.next, p, ts, size)
                /\ \E N : Leave(N) /\ Fate(N, ts, dec', ts \in Int /\ Unhurried(dec))
    BY ReferenceOn
  <1>3. OutOrder /\ GroupOrder /\ prev' = Last
    BY <1>1 DEF OrderInv, Counted
  <1>4. /\ ~up.eos /\ up.bs = {} /\ disp \in Int /\ up.pos < disp /\ disp < up.limit
        /\ up'.pos = disp /\ up'.bs = (up.pos + 1) .. (disp - 1) /\ ~up'.mark
        /\ ~up'.eos /\ up'.low = up.low /\ up'.limit = up.limit /\ up'.run = up.run
    BY <1>2 DEF RefSent
  <1>5. /\ up.pos \in Int /\ up.pos >= -1 /\ up.low \in Int /\ up.limit \in Int
        /\ dec.segment.rate \in {1, -1} /\ dec.queued \in Seq(Frames(dec.queued))
    BY DEF Places, NONE, RunsInv, DecTypeOK, Element
  <1>6. dec'.segment = dec.segment /\ p.disp = disp
    BY <1>2 DEF Mapped, RefFed, Settled, Sample
  <1>7. PICK N : /\ Leave(N) /\ \A o \in N : \E x \in Held : o.disp = x.disp
                 /\ \/ dec'.waiting_for_key /\ Held' = Held /\ N = {}
                    \/ \A x \in Held' : x.disp = disp
    <2>1. CASE Leave({}) /\ Mapped(dec, dec', ts, size) /\ dec'.waiting_for_key
      BY <2>1 DEF Mapped, Held
    <2>2. CASE RefFed(dec.codec.next, p, ts, size) /\ \E N : Leave(N) /\ Fate(N, ts, dec', ts \in Int /\ Unhurried(dec))
      <3>1. PICK N : Leave(N) /\ Fate(N, ts, dec', ts \in Int /\ Unhurried(dec))
        BY <2>2
      <3>2. \A o \in N : \E x \in Held : o.disp = x.disp
        BY <3>1 DEF Fate, Held, Copy
      <3>3. \A x \in Held' : x.disp = disp
        BY <1>6, <2>2 DEF RefFed, Grown, Held
      <3> QED BY <3>1, <3>2, <3>3
    <2> QED BY <1>2, <2>1, <2>2
  <1>8. Came(N) /\ (~(dec.segment.rate > 0) => Last' = Last /\ Neighbours' = {})
    BY <1>3, <1>7, LeaveCame
  <1>9. /\ Out' \subseteq Out \cup N
        /\ {Last'} \ {NoOutput} \subseteq ({Last} \ {NoOutput}) \cup Out \cup N
    BY <1>6, <1>8, OutCame
  <1>10. DisplayOrder'
    <2>1. \A o \in N, x \in Out : x.disp < o.disp
      BY <1>3, <1>7 DEF OutOrder
    <2>2. CASE dec.segment.rate > 0
      BY <1>6, <1>8, <2>1, <2>2, ForwardShown
    <2>3. CASE ~(dec.segment.rate > 0)
      BY <1>8, <2>3, NothingShown
    <2> QED BY <2>2, <2>3
  <1>11. /\ \A x \in Held \cup Out \cup ({Last} \ {NoOutput}) : x.disp \in Nat
         /\ \A x \in Held \cup Out : x.disp <= up.pos
         /\ \A x \in Held, y \in Out : y.disp < x.disp
    BY <1>3 DEF OutOrder
  <1>12. \A x \in Out \cup N : x.disp \in Nat /\ x.disp <= up.pos
    BY <1>7, <1>11
  <1>13. OutOrder'
    <2>1. \A x \in Held' \cup Out' \cup ({Last'} \ {NoOutput}) : x.disp \in Nat
      <3>1. \A x \in Held' : x.disp \in Nat
        BY <1>4, <1>5, <1>7, <1>11
      <3>2. \A x \in {Last'} \ {NoOutput} : x.disp \in Nat
        BY <1>9, <1>11, <1>12
      <3>3. \A x \in Out' : x.disp \in Nat
        BY <1>9, <1>12
      <3> QED BY <3>1, <3>2, <3>3
    <2>2. \A x \in Held', y \in Out' : y.disp < x.disp
      BY <1>4, <1>5, <1>7, <1>9, <1>11, <1>12
    <2>3. \A x \in Held' \cup Out' : x.disp <= up'.pos
      BY <1>4, <1>5, <1>7, <1>9, <1>11, <1>12
    <2>4. ~dec'.waiting_for_key /\ ~up'.eos =>
            \A x \in Held', b \in up'.bs : x.disp = up'.pos /\ \A y \in Out' : y.disp < b
      BY <1>4, <1>5, <1>7, <1>9, <1>12
    <2> QED BY <2>1, <2>2, <2>3, <2>4 DEF OutOrder
  <1>14. GroupOrder'
    <2> SUFFICES ASSUME dec.segment.rate < 0 PROVE GroupOrder'
      BY <1>6 DEF GroupOrder
    <2>1. /\ up.low <= up.pos /\ (up.run > 0 => up.low < up.limit) /\ Falling(dec.queued)
          /\ \A x \in Held \cup Out : up.low < x.disp /\ x.disp < up.limit
          /\ Last # NoOutput => /\ up.low < Last.disp /\ up.limit <= Last.disp
                                /\ \A x \in Held \cup Out : x.disp < Last.disp
      BY <1>3, <1>4 DEF GroupOrder
    <2>2. Last' = Last /\ Out = Frames(dec.queued)
      BY <1>5, <1>8 DEF Out
    <2>3. Falling(dec'.queued)
      <3>1. dec'.queued = dec.queued \/ \E o : N = {o} /\ dec'.queued = <<o>> \o dec.queued
        BY <1>7 DEF Leave
      <3>2. ASSUME NEW o, N = {o}, dec'.queued = <<o>> \o dec.queued
            PROVE  Falling(dec'.queued)
        <4>1. \A x \in Frames(dec.queued) : x.disp < o.disp
          BY <1>7, <1>11, <2>2, <3>2
        <4>2. Falling(<<o>> \o dec.queued)
          BY <1>5, <2>1, <4>1, FrontFalls
        <4> QED BY <3>2, <4>2
      <3> QED BY <2>1, <3>1, <3>2
    <2>4. \A x \in Out \cup N : up.low < x.disp /\ x.disp < up.limit /\ (Last # NoOutput => x.disp < Last.disp)
      BY <1>7, <2>1
    <2>5. Last # NoOutput => Last.disp \in Nat
      BY <1>11
    <2>6. \A x \in Held' \cup Out' : up.low < x.disp /\ x.disp < up.limit /\ (Last # NoOutput => x.disp < Last.disp)
      <3>1. \A x \in Held' : x.disp = disp \/ x \in Held
        BY <1>7
      <3> QED BY <1>4, <1>5, <1>9, <2>1, <2>4, <2>5, <3>1
    <2>7. \A b \in up'.bs : up.low < b /\ b < up.limit
      BY <1>4, <1>5, <2>1
    <2>8. up.low <= up'.pos
      BY <1>4, <1>5, <2>1
    <2> QED BY <1>4, <2>1, <2>2, <2>3, <2>6, <2>7, <2>8 DEF GroupOrder
  <1> QED BY <1>10, <1>13, <1>14 DEF OrderInv

(* A reference behind a mark.                                              *)
LEMMA MarkedOrder ==
    ASSUME RunsInv, Places, OrderInv, SendReference, stream' = stream, count'.errors = 0, up.mark
    PROVE  OrderInv' /\ DisplayOrder'
  <1> DEFINE z == drain(dec).dec
  <1>1. Counted /\ dec'.segment = dec.segment
    BY ReferenceMarked
  <1>2. PICK N : LeaveAll(N) /\ Fate(N, NONE, z, ~dec.waiting_for_key)
    BY ReferenceMarked
  <1>3. PICK kind, disp, p, ts, size :
          /\ RefSent(kind, disp) /\ Sample(kind, disp, References(kind), up.pos + 1, p, ts, size)
          /\ \/ kind = "P" /\ z.waiting_for_key /\ dec'.waiting_for_key /\ dec'.codec = CodecInit
             \/ (z.waiting_for_key => kind = "I") /\ RefFed(NoPic, p, ts, size)
    BY ReferenceMarked
  <1> HIDE DEF z
  <1>4. count.errors = 0 /\ prev' = Last
    BY <1>1 DEF Counted
  <1>5. \A o \in N : \E x \in Held : o.disp = x.disp
    BY <1>2, FateHeld
  <1>6. /\ DisplayOrder' /\ dec'.queued = <<>>
        /\ dec.segment.rate < 0 => Out' = {}
        /\ \A x \in Out' \cup ({Last'} \ {NoOutput}) : x.disp \in Nat
        /\ dec.segment.rate > 0 => \A x \in Out' : x.disp <= up.pos
        /\ dec.segment.rate < 0 /\ Last' # NoOutput =>
              /\ up.low < Last'.disp
              /\ up.mark /\ ~up.eos => up.limit <= Last'.disp
    BY <1>1, <1>2, <1>4, <1>5, EmptyOrder
  <1>7. /\ ~up.eos /\ up.bs = {} /\ disp \in Int /\ up.pos < disp /\ disp < up.limit
        /\ up'.pos = disp /\ up'.bs = (up.pos + 1) .. (disp - 1) /\ ~up'.mark
        /\ ~up'.eos /\ up'.low = up.low /\ up'.limit = up.limit
    BY <1>3 DEF RefSent
  <1>8. /\ up.pos \in Int /\ up.pos >= -1 /\ up.low \in Int /\ up.limit \in Int
        /\ dec.segment.rate \in {1, -1}
    BY DEF Places, NONE, RunsInv, DecTypeOK, Element
  <1>9. \A x \in Held' : x.disp = disp
    <2>1. p.disp = disp
      BY <1>3 DEF Sample
    <2> QED BY <1>3, <2>1 DEF RefFed, Grown, Held, CodecInit
  <1>10. OutOrder'
    <2>1. \A x \in Held' \cup Out' \cup ({Last'} \ {NoOutput}) : x.disp \in Nat
      BY <1>6, <1>7, <1>8, <1>9
    <2>2. \A x \in Out' : x.disp <= up.pos
      BY <1>6, <1>8
    <2>3. \A x \in Held', y \in Out' : y.disp < x.disp
      BY <1>6, <1>7, <1>8, <1>9, <2>2
    <2>4. \A x \in Held' \cup Out' : x.disp <= up'.pos
      BY <1>6, <1>7, <1>8, <1>9, <2>2
    <2>5. ~dec'.waiting_for_key /\ ~up'.eos =>
            \A x \in Held', b \in up'.bs : x.disp = up'.pos /\ \A y \in Out' : y.disp < b
      BY <1>6, <1>7, <1>8, <1>9, <2>2
    <2> QED BY <2>1, <2>3, <2>4, <2>5 DEF OutOrder
  <1>11. GroupOrder'
    <2> SUFFICES ASSUME dec.segment.rate < 0 PROVE GroupOrder'
      BY <1>1 DEF GroupOrder
    <2>1. up.low <= up.pos
      BY <1>4 DEF OrderInv, GroupOrder
    <2>2. Falling(dec'.queued)
      <3>1. Len(<<>>) = 0
        OBVIOUS
      <3> QED BY <1>6, <3>1 DEF Falling
    <2>3. \A x \in Held' \cup Out' : x.disp = disp
      BY <1>6, <1>9
    <2>4. Last' # NoOutput => Last'.disp \in Nat /\ up.low < Last'.disp /\ up.limit <= Last'.disp
      BY <1>6, <1>7
    <2> QED BY <1>7, <1>8, <2>1, <2>2, <2>3, <2>4 DEF GroupOrder
  <1> QED BY <1>6, <1>10, <1>11 DEF OrderInv

(* A B frame.                                                              *)
LEMMA BetweenOrder ==
    ASSUME RunsInv, Places, OrderInv, SendB, stream' = stream, count'.errors = 0
    PROVE  OrderInv' /\ DisplayOrder'
  <1>1. Counted /\ ~up.mark
    BY BetweenOn
  <1>2. PICK disp, p, ts, size :
          /\ BetweenSent(disp) /\ Sample("B", disp, {up.ref, up.pos}, disp + 1, p, ts, size)
          /\ \/ /\ dec.waiting_for_key /\ dec'.waiting_for_key
                /\ Mapped(dec, dec', ts, size) /\ Leave({})
             \/ /\ ~dec.waiting_for_key /\ Settled(dec, dec', ts, size) /\ dec'.codec = dec.codec
                /\ Leave({}) /\ Rest(dec, dec') /\ (Calm(dec) => NoPic \in {dec.codec.next, dec.codec.last})
             \/ /\ ~dec.waiting_for_key /\ Settled(dec, dec', ts, size) /\ dec'.codec = dec.codec
                /\ dec.codec.next # NoPic /\ dec.codec.last # NoPic
                /\ \E N, y, time :
                      /\ Grown(y, p, time, {dec.codec.last, dec.codec.next})
                      /\ dec.ts_handler = <<>> => time = ts
                      /\ Leave(N) /\ \A o \in N : Copy(o, y)
                      /\ ts \in Int /\ Unhurried(dec) => TimesGo(dec, y, ts, dec', N)
    BY BetweenOn
  <1>3. OutOrder /\ GroupOrder /\ prev' = Last
    BY <1>1 DEF OrderInv, Counted
  <1>4. /\ disp \in up.bs /\ ~up.eos /\ (\A other \in up.bs : disp <= other)
        /\ up'.bs = up.bs \ {disp} /\ ~up'.mark /\ up'.pos = up.pos
        /\ ~up'.eos /\ up'.low = up.low /\ up'.limit = up.limit /\ up'.run = up.run
    BY <1>2 DEF BetweenSent
  <1>5. /\ \A b \in up.bs : b \in Nat /\ b < up.pos
        /\ up.pos \in Int /\ up.low \in Int /\ up.limit \in Int
        /\ dec.segment.rate \in {1, -1} /\ dec.queued \in Seq(Frames(dec.queued))
    BY DEF Places, NONE, RunsInv, DecTypeOK, Element
  <1>6. dec'.segment = dec.segment /\ dec'.codec = dec.codec /\ Held' = Held /\ p.disp = disp
    BY <1>2 DEF Mapped, Settled, Sample, Held
  <1>7. PICK N : /\ Leave(N) /\ \A o \in N : o.disp = disp
                 /\ N = {} \/ (~dec.waiting_for_key /\ Held # {})
                 /\ dec'.waiting_for_key \/ ~dec.waiting_for_key
    <2>1. CASE Leave({})
      BY <1>2, <2>1
    <2>2. CASE /\ ~dec.waiting_for_key /\ dec.codec.next # NoPic
               /\ \E N, y, time :
                     /\ Grown(y, p, time, {dec.codec.last, dec.codec.next})
                     /\ Leave(N) /\ \A o \in N : Copy(o, y)
      BY <1>6, <2>2 DEF Grown, Copy, Held
    <2> QED BY <1>2, <2>1, <2>2
  <1>8. Came(N) /\ (~(dec.segment.rate > 0) => Last' = Last /\ Neighbours' = {})
    BY <1>3, <1>7, LeaveCame
  <1>9. /\ Out' \subseteq Out \cup N
        /\ {Last'} \ {NoOutput} \subseteq ({Last} \ {NoOutput}) \cup Out \cup N
    BY <1>6, <1>8, OutCame
  <1>10. /\ \A x \in Held \cup Out \cup ({Last} \ {NoOutput}) : x.disp \in Nat
         /\ \A x \in Held \cup Out : x.disp <= up.pos
         /\ \A x \in Held, y \in Out : y.disp < x.disp
         /\ ~dec.waiting_for_key => \A x \in Held, b \in up.bs : x.disp = up.pos /\ \A y \in Out : y.disp < b
    BY <1>1, <1>3, <1>4 DEF OutOrder
  <1>11. /\ \A o \in N : o.disp \in Nat /\ o.disp < up.pos
         /\ \A o \in N, x \in Held : x.disp = up.pos
         /\ \A o \in N, x \in Out : x.disp < o.disp
    BY <1>4, <1>5, <1>7, <1>10
  <1>12. DisplayOrder'
    <2>1. CASE dec.segment.rate > 0
      BY <1>6, <1>8, <1>11, <2>1, ForwardShown
    <2>2. CASE ~(dec.segment.rate > 0)
      BY <1>8, <2>2, NothingShown
    <2> QED BY <2>1, <2>2
  <1>13. OutOrder'
    <2>1. \A x \in Held' \cup Out' \cup ({Last'} \ {NoOutput}) : x.disp \in Nat
      BY <1>6, <1>9, <1>10, <1>11
    <2>2. \A x \in Held', y \in Out' : y.disp < x.disp
      BY <1>6, <1>9, <1>10, <1>11
    <2>3. \A x \in Held' \cup Out' : x.disp <= up'.pos
      BY <1>4, <1>5, <1>6, <1>9, <1>10, <1>11
    <2>4. ~dec'.waiting_for_key /\ ~up'.eos =>
            \A x \in Held', b \in up'.bs : x.disp = up'.pos /\ \A y \in Out' : y.disp < b
      <3> SUFFICES ASSUME ~dec'.waiting_for_key, NEW x \in Held, NEW b \in up.bs, b # disp, NEW y \in Out'
                   PROVE  x.disp = up.pos /\ y.disp < b
        <4>1. CASE Out' = {}
          BY <1>4, <1>6, <1>7, <1>10, <4>1
        <4>2. CASE Out' # {}
          BY <1>4, <1>6, <4>2
        <4> QED BY <4>1, <4>2
      <3>1. ~dec.waiting_for_key
        BY <1>7
      <3>2. disp < b
        BY <1>4, <1>5
      <3>3. y \in Out \/ y.disp = disp
        BY <1>7, <1>9
      <3> QED BY <1>10, <3>1, <3>2, <3>3
    <2> QED BY <2>1, <2>2, <2>3, <2>4 DEF OutOrder
  <1>14. GroupOrder'
    <2> SUFFICES ASSUME dec.segment.rate < 0 PROVE GroupOrder'
      BY <1>6 DEF GroupOrder
    <2>1. /\ up.low <= up.pos /\ (up.run > 0 => up.low < up.limit) /\ Falling(dec.queued)
          /\ \A b \in up.bs : up.low < b /\ b < up.limit
          /\ \A x \in Held \cup Out : up.low < x.disp /\ x.disp < up.limit
          /\ Last # NoOutput => /\ up.low < Last.disp /\ up.limit <= Last.disp
                                /\ \A x \in Held \cup Out : x.disp < Last.disp
      BY <1>1, <1>3, <1>4 DEF GroupOrder
    <2>2. Last' = Last /\ Out = Frames(dec.queued)
      BY <1>5, <1>8 DEF Out
    <2>3. Falling(dec'.queued)
      <3>1. dec'.queued = dec.queued \/ \E o : N = {o} /\ dec'.queued = <<o>> \o dec.queued
        BY <1>7 DEF Leave
      <3>2. ASSUME NEW o, N = {o}, dec'.queued = <<o>> \o dec.queued
            PROVE  Falling(dec'.queued)
        <4>1. \A x \in Frames(dec.queued) : x.disp < o.disp
          BY <1>11, <2>2, <3>2
        <4>2. Falling(<<o>> \o dec.queued)
          BY <1>5, <2>1, <4>1, FrontFalls
        <4> QED BY <3>2, <4>2
      <3> QED BY <2>1, <3>1, <3>2
    <2>4. Last # NoOutput => Last.disp \in Nat
      BY <1>10
    <2>5. \A x \in Held' \cup Out' : up.low < x.disp /\ x.disp < up.limit /\ (Last # NoOutput => x.disp < Last.disp)
      <3>1. \A x \in Held' \cup Out' : x.disp = disp \/ x \in Held \cup Out
        BY <1>6, <1>7, <1>9
      <3>2. /\ up.low < disp /\ disp < up.limit /\ disp \in Nat
            /\ Last # NoOutput => disp < Last.disp
        BY <1>4, <1>5, <2>1, <2>4
      <3> QED BY <2>1, <3>1, <3>2
    <2> QED BY <1>4, <2>1, <2>2, <2>3, <2>5 DEF GroupOrder
  <1> QED BY <1>12, <1>13, <1>14 DEF OrderInv

(* A drain that upstream goes on behind.                                   *)
LEMMA DrainedOrder ==
    ASSUME RunsInv, Places, OrderInv, count.errors = 0, NEW z, DrainSent(z),
           dec'.codec.next = NoPic, dec'.segment.rate = dec.segment.rate, up'.bs = {} \/ up'.eos,
           dec.segment.rate > 0 => up'.pos = up.pos,
           dec.segment.rate < 0 =>
              /\ up'.low \in Int /\ up'.low <= up'.pos /\ (up'.run > 0 => up'.low < up'.limit)
              /\ \A b \in up'.bs : up'.low < b /\ b < up'.limit
              /\ up'.low <= up.low
              /\ up'.eos \/ up'.limit = up.low + 1 \/ (up'.limit = up.limit /\ up.mark /\ ~up.eos)
    PROVE  OrderInv' /\ DisplayOrder'
  <1>1. PICK N : LeaveAll(N) /\ Fate(N, NONE, z, ~dec.waiting_for_key)
    BY DEF DrainSent
  <1>2. prev' = Last /\ \A o \in N : \E x \in Held : o.disp = x.disp
    BY <1>1, FateHeld DEF DrainSent
  <1>3. /\ DisplayOrder' /\ dec'.queued = <<>>
        /\ dec.segment.rate < 0 => Out' = {}
        /\ \A x \in Out' \cup ({Last'} \ {NoOutput}) : x.disp \in Nat
        /\ dec.segment.rate > 0 => \A x \in Out' : x.disp <= up.pos
        /\ dec.segment.rate < 0 /\ Last' # NoOutput =>
              /\ up.low < Last'.disp
              /\ up.mark /\ ~up.eos => up.limit <= Last'.disp
    BY <1>1, <1>2, EmptyOrder
  <1>4. Held' = {} /\ dec.segment.rate \in {1, -1} /\ up.low \in Int
    BY DEF Held, RunsInv, DecTypeOK, Element, Places
  <1>5. OutOrder'
    <2>1. \A x \in Held' \cup Out' : x.disp <= up'.pos \/ dec'.segment.rate < 0
      BY <1>3, <1>4
    <2>2. ~up'.mark \/ dec'.segment.rate > 0 => \A x \in Held' \cup Out' : x.disp <= up'.pos
      <3>1. CASE dec.segment.rate > 0
        BY <1>3, <1>4, <3>1
      <3>2. CASE dec.segment.rate < 0
        BY <1>3, <1>4, <3>2
      <3> QED BY <1>4, <3>1, <3>2
    <2> QED BY <1>3, <1>4, <2>2 DEF OutOrder
  <1>6. GroupOrder'
    <2> SUFFICES ASSUME dec.segment.rate < 0 PROVE GroupOrder'
      BY DEF GroupOrder
    <2>1. Falling(dec'.queued)
      <3>1. Len(<<>>) = 0
        OBVIOUS
      <3> QED BY <1>3, <3>1 DEF Falling
    <2>2. ASSUME Last' # NoOutput
          PROVE  up'.low < Last'.disp /\ (~up'.eos => up'.limit <= Last'.disp)
      BY <1>3, <1>4, <2>2
    <2> QED BY <1>3, <1>4, <2>1, <2>2 DEF GroupOrder
  <1> QED BY <1>3, <1>5, <1>6 DEF OrderInv

(* EOS and new caps.                                                       *)
LEMMA EosOrder ==
    ASSUME RunsInv, Places, OrderInv, EosSent, count.errors = 0
    PROVE  OrderInv' /\ DisplayOrder'
  <1>1. DrainSent(dec') /\ SamePlace /\ up'.eos
    BY DEF EosSent
  <1>2. dec'.codec.next = NoPic /\ dec'.segment = dec.segment
    BY <1>1 DEF DrainSent, Rested
  <1>3. dec.segment.rate < 0 =>
           /\ up.low <= up.pos /\ (up.run > 0 => up.low < up.limit)
           /\ \A b \in up.bs : up.low < b /\ b < up.limit
    BY DEF OrderInv, GroupOrder
  <1>4. up.low \in Int
    BY DEF Places
  <1>5. /\ up'.pos = up.pos /\ up'.low = up.low /\ up'.limit = up.limit /\ up'.bs = up.bs
        /\ up'.run = up.run /\ up'.eos
    BY <1>1 DEF SamePlace
  <1>6. up'.low \in Int /\ up'.low <= up.low
    BY <1>4, <1>5
  <1> QED BY <1>1, <1>2, <1>3, <1>5, <1>6, DrainedOrder

(* New caps come between two groups.                                       *)
LEMMA SetCapsOrder ==
    ASSUME RunsInv, Places, OrderInv, SetCapsSent, count.errors = 0
    PROVE  OrderInv' /\ DisplayOrder'
  <1>1. SamePlace /\ ~up.eos /\ up.bs = {} /\ (dec.segment.rate < 0 => up.mark)
    <2>1. dec.segment.rate \in {1, -1}
      BY DEF RunsInv, DecTypeOK, Element
    <2> QED BY <2>1 DEF SetCapsSent
  <1>2. PICK z : DrainSent(z) /\ dec'.codec = CodecInit /\ dec'.segment = z.segment
    BY DEF SetCapsSent
  <1>3. dec'.codec.next = NoPic /\ dec'.segment = dec.segment
    BY <1>2 DEF DrainSent, Rested, CodecInit
  <1>4. dec.segment.rate < 0 => up.low <= up.pos /\ (up.run > 0 => up.low < up.limit)
    BY DEF OrderInv, GroupOrder
  <1>5. up.low \in Int
    BY DEF Places
  <1>6. /\ up'.pos = up.pos /\ up'.low = up.low /\ up'.limit = up.limit /\ up'.bs = {}
        /\ up'.run = up.run
    BY <1>1 DEF SamePlace
  <1>7. up'.low \in Int /\ up'.low <= up.low
    BY <1>5, <1>6
  <1> QED BY <1>1, <1>2, <1>3, <1>4, <1>6, <1>7, DrainedOrder

(* A segment.                                                              *)
LEMMA NewSegmentOrder ==
    ASSUME RunsInv, Places, OrderInv, NewSegmentSent, count.errors = 0
    PROVE  OrderInv' /\ DisplayOrder'
  <1>1. PICK z : DrainSent(z) /\ dec'.codec = z.codec
    BY DEF NewSegmentSent
  <1>2. dec'.codec.next = NoPic
    BY <1>1 DEF DrainSent, Rested
  <1>3. /\ up'.bs = {} /\ up'.segment /\ ~up'.eos /\ up'.run = up.run
        /\ up'.pos \in Nat \cup {NONE} /\ up'.low = up'.pos
        /\ up.segment => dec'.segment.rate = dec.segment.rate
        /\ up.segment /\ dec'.segment.rate > 0 => up'.pos = up.pos
        /\ up.segment /\ dec'.segment.rate < 0 => up'.pos < up.low /\ up'.limit = up.low + 1
        /\ dec'.segment.rate \in {1, -1} /\ up.low \in Int
    BY DEF NewSegmentSent, Places
  <1>4. CASE up.segment
    <2>1. dec.segment.rate > 0 => up'.pos = up.pos
      BY <1>3, <1>4
    <2>2. dec.segment.rate < 0 =>
              /\ up'.low \in Int /\ up'.low <= up'.pos /\ (up'.run > 0 => up'.low < up'.limit)
              /\ up'.low <= up.low /\ up'.limit = up.low + 1
      BY <1>3, <1>4 DEF NONE
    <2> QED BY <1>1, <1>2, <1>3, <1>4, <2>1, <2>2, DrainedOrder
  <1>5. CASE ~up.segment
    <2>1. up.run = 0 /\ dec.codec.next = NoPic /\ dec.queued = <<>> /\ pushed = <<>> /\ prev = NoOutput
      BY <1>5 DEF RunsInv, RunBegins
    <2>2. Last = NoOutput
      BY <2>1 DEF Last
    <2>3. PICK N : LeaveAll(N) /\ Fate(N, NONE, z, ~dec.waiting_for_key)
      BY <1>1 DEF DrainSent
    <2>4. N = {}
      BY <2>1, <2>3 DEF Fate
    <2>5. pushed' = <<>> /\ dec'.queued = <<>> /\ prev' = Last
      BY <1>1, <2>1, <2>3, <2>4 DEF LeaveAll, DrainSent
    <2>6. Last' = NoOutput /\ Neighbours' = {}
      BY <2>2, <2>5, PushNothing
    <2>7. Held' = {} /\ Out' = {}
      BY <1>2, <2>5, <2>6, FramesEmpty DEF Held, Out
    <2>8. OutOrder'
      BY <1>3, <2>6, <2>7 DEF OutOrder
    <2>9. GroupOrder'
      <3>1. Falling(dec'.queued)
        <4>1. Len(<<>>) = 0
          OBVIOUS
        <4> QED BY <2>5, <4>1 DEF Falling
      <3>2. up'.low <= up'.pos /\ ~(up'.run > 0)
        BY <1>3, <2>1 DEF NONE
      <3> QED BY <1>3, <2>6, <2>7, <3>1, <3>2 DEF GroupOrder
    <2> QED BY <2>6, <2>8, <2>9, NothingShown DEF OrderInv
  <1> QED BY <1>4, <1>5

(* A gap, or an earlier group.                                             *)
LEMMA JumpOrder ==
    ASSUME RunsInv, Places, OrderInv, JumpSent, count.errors = 0
    PROVE  OrderInv' /\ DisplayOrder'
  <1>1. /\ up'.bs = {} /\ up'.mark /\ ~up.eos /\ ~up.mark /\ up'.low = up'.pos /\ up'.run = up.run /\ up'.eos = up.eos
        /\ dec' = dec /\ pushed' = <<>> /\ prev' = Last /\ up'.pos \in Int
        /\ IF dec.segment.rate > 0 THEN up'.pos = up.pos + 1 ELSE up'.pos < up.low /\ up'.limit = up.low + 1
    BY DEF JumpSent, NONE
  <1>2. Last' = Last /\ Neighbours' = {}
    BY <1>1, PushNothing
  <1>3. Held' = Held /\ Out' = Out
    BY <1>1, <1>2 DEF Held, Out
  <1>4. OutOrder /\ GroupOrder /\ up.pos \in Int /\ up.low \in Int /\ dec.segment.rate \in {1, -1}
    BY DEF OrderInv, Places, NONE, RunsInv, DecTypeOK, Element
  <1>5. OutOrder'
    <2>1. \A x \in Held \cup Out : x.disp \in Nat /\ x.disp <= up.pos
      BY <1>1, <1>4 DEF OutOrder
    <2>2. dec.segment.rate > 0 => \A x \in Held \cup Out : x.disp <= up'.pos
      BY <1>1, <1>4, <2>1
    <2> QED BY <1>1, <1>2, <1>3, <1>4, <2>2 DEF OutOrder
  <1>6. GroupOrder'
    <2> SUFFICES ASSUME dec.segment.rate < 0 PROVE GroupOrder'
      BY <1>1 DEF GroupOrder
    <2>1. /\ Falling(dec.queued)
          /\ \A x \in Held \cup Out : up.low < x.disp /\ x.disp \in Nat
          /\ Last # NoOutput => /\ up.low < Last.disp /\ Last.disp \in Nat
                                /\ \A x \in Held \cup Out : x.disp < Last.disp
      BY <1>1, <1>4 DEF GroupOrder, OutOrder
    <2>2. up'.pos < up.low /\ up'.limit = up.low + 1
      BY <1>1, <1>4
    <2>3. \A x \in Held \cup Out : x.disp >= up'.limit
      BY <1>4, <2>1, <2>2
    <2>4. Last # NoOutput => up'.low < Last.disp /\ up'.limit <= Last.disp
      BY <1>1, <1>4, <2>1, <2>2
    <2>5. up'.low <= up'.pos /\ up'.low < up'.limit
      BY <1>1, <1>4, <2>2
    <2> QED BY <1>1, <1>2, <1>3, <2>1, <2>3, <2>4, <2>5 DEF GroupOrder
  <1> QED BY <1>2, <1>5, <1>6, NothingShown DEF OrderInv

(* A flush or a restart.                                                   *)
LEMMA AnewOrder ==
    ASSUME RunsInv, Places, OrderInv, NEW flushed, AnewSent(flushed), count.errors = 0
    PROVE  OrderInv' /\ DisplayOrder'
  <1>1. /\ pushed' = <<>> /\ prev' = NoOutput /\ dec'.codec.next = NoPic /\ dec'.queued = <<>>
        /\ up'.bs = {} /\ up'.run = 0 /\ up'.pos = up.pos /\ up'.low = up.low
        /\ dec'.segment = dec.segment \/ dec'.segment.rate = 1
    BY DEF AnewSent, CodecInit, OpenSegment
  <1>2. Last' = NoOutput /\ Neighbours' = {}
    <2>1. Last' = NoOutput
      BY <1>1 DEF Last
    <2>2. Shown' = <<>>
      <3>1. <<>> \o <<>> = <<>>
        OBVIOUS
      <3> QED BY <1>1, <3>1 DEF Shown
    <2>3. Len(Shown') = 0
      BY <2>2
    <2> QED BY <2>1, <2>3 DEF Neighbours
  <1>3. Held' = {} /\ Out' = {}
    BY <1>1, <1>2, FramesEmpty DEF Held, Out
  <1>4. OutOrder'
    BY <1>1, <1>2, <1>3 DEF OutOrder
  <1>5. GroupOrder'
    <2>1. Falling(dec'.queued)
      <3>1. Len(<<>>) = 0
        OBVIOUS
      <3> QED BY <1>1, <3>1 DEF Falling
    <2>2. dec'.segment.rate < 0 => up'.low <= up'.pos
      BY <1>1 DEF OrderInv, GroupOrder
    <2> QED BY <1>1, <1>2, <1>3, <2>1, <2>2 DEF GroupOrder
  <1> QED BY <1>2, <1>4, <1>5, NothingShown DEF OrderInv

(* A QoS event.                                                            *)
LEMMA QosEventOrder ==
    ASSUME OrderInv, QosSent, count.errors = 0
    PROVE  OrderInv' /\ DisplayOrder'
  <1>1. /\ up' = up /\ pushed' = <<>> /\ prev' = Last /\ dec'.codec = dec.codec /\ dec'.queued = dec.queued
        /\ dec'.segment = dec.segment /\ dec'.waiting_for_key = dec.waiting_for_key
    BY DEF QosSent
  <1>2. Last' = Last /\ Neighbours' = {}
    BY <1>1, PushNothing
  <1>3. Held' = Held /\ Out' = Out
    BY <1>1, <1>2 DEF Held, Out
  <1> QED BY <1>1, <1>2, <1>3, NothingShown DEF OrderInv, OutOrder, GroupOrder

(* The frames keep their order.                                            *)
LEMMA OrderStep ==
    ASSUME RunsInv, Places, OrderInv, DisplayOrder, [DecNext]_decvars
    PROVE  OrderInv' /\ DisplayOrder'
  <1> SUFFICES ASSUME count'.errors = 0 PROVE OrderInv' /\ DisplayOrder'
    BY DEF OrderInv, DisplayOrder
  <1>1. count.errors = 0 /\ ~DownFails
    BY ErrorsStay
  <1>2. CASE UNCHANGED decvars
    BY <1>2 DEF decvars, OrderInv, OutOrder, GroupOrder, Held, Out, Last, DisplayOrder, Neighbours, Shown
  <1>3. ASSUME DecNext PROVE OrderInv' /\ DisplayOrder'
    <2>1. stream' = stream
      BY <1>3 DEF DecNext
    <2>2. CASE SendReference
      <3>1. CASE up.mark
        BY <2>1, <2>2, <3>1, MarkedOrder
      <3>2. CASE ~up.mark
        BY <2>1, <2>2, <3>2, ReferenceOrder
      <3> QED BY <3>1, <3>2
    <2>3. CASE SendB
      BY <2>1, <2>3, BetweenOrder
    <2>4. CASE Jump
      BY <1>1, <2>4, JumpEffect, JumpOrder
    <2>5. CASE NewSegment
      BY <1>1, <2>5, NewSegmentEffect, NewSegmentOrder
    <2>6. CASE Eos
      BY <1>1, <2>6, EosEffect, EosOrder
    <2>7. CASE FlushStop
      BY <1>1, <2>7, FlushStopEffect, AnewOrder
    <2>8. CASE Restart
      BY <1>1, <2>8, RestartEffect, AnewOrder
    <2>9. CASE SetCaps
      BY <1>1, <2>9, SetCapsEffect, SetCapsOrder
    <2>10. CASE QosEvent
      BY <1>1, <2>10, QosEventEffect, QosEventOrder
    <2> QED BY <1>1, <1>3, <2>2, <2>3, <2>4, <2>5, <2>6, <2>7, <2>8, <2>9, <2>10 DEF DecNext
  <1> QED BY <1>2, <1>3

(* Initially nothing is held and nothing was shown.                        *)
LEMMA OrderInitial == DecInit => OrderInv /\ DisplayOrder
  <1> SUFFICES ASSUME DecInit PROVE OrderInv /\ DisplayOrder
    OBVIOUS
  <1>1. dec.codec.next = NoPic /\ dec.queued = <<>> /\ dec.segment.rate = 1
    BY DEF DecInit, Opened, CodecInit, OpenSegment
  <1>2. pushed = <<>> /\ prev = NoOutput
    BY DEF DecInit
  <1>3. Held = {} /\ Last = NoOutput /\ Out = {} /\ Shown = <<>> \o <<>>
    BY <1>1, <1>2 DEF Held, Last, Out, Shown
  <1>4. Neighbours = {}
    BY <1>3, ConcatEmptySeq DEF Neighbours
  <1>5. PICK m : up = [mode |-> m, pos |-> NONE, ref |-> NONE, bs |-> {}, limit |-> stream.MaxPos, low |-> NONE,
                       mark |-> TRUE, key |-> ~stream.AnyStart, segment |-> FALSE, eos |-> FALSE,
                       run |-> 0, epoch |-> 0, seg |-> 0, flushed |-> TRUE]
    BY DEF DecInit
  <1>6. up.bs = {}
    BY <1>5
  <1>7. OutOrder
    BY <1>3, <1>6 DEF OutOrder
  <1>8. GroupOrder
    BY <1>1 DEF GroupOrder
  <1> QED BY <1>4, <1>7, <1>8 DEF OrderInv, DisplayOrder

-----------------------------------------------------------------------------
(* QoS and segments.                                                       *)

(* A step that keeps the segment and the QoS.                              *)
LEMMA QosCarried ==
    ASSUME QosTimes, count.errors = 0, stream' = stream, dec'.segment = dec.segment,
           dec'.earliest_time = dec.earliest_time, Calm(dec) => dec'.hurry_up = 0
    PROVE  QosTimes'
  BY DEF QosTimes, Calm

(* No event comes too late, when the stream has none that does.            *)
LEMMA QosUnhurried ==
    ASSUME RunsInv, QosTimes, count.errors = 0, NoSkips(stream)
    PROVE  Unhurried(dec)
  BY DEF RunsInv, DecTypeOK, Element, QosTimes, Unhurried

(* Upstream gives every buffer a number, if only NONE.                     *)
LEMMA SampleTime ==
    ASSUME NEW kind, NEW disp \in Int, NEW refs, NEW dts \in Int, NEW p, NEW ts, NEW size,
           Sample(kind, disp, refs, dts, p, ts, size)
    PROVE  ts \in Int /\ size \in Nat \ {0}
  BY DEF Sample, NONE

(* Initially nothing is late.                                              *)
LEMMA QosInitial == DecInit => QosTimes
  BY DEF DecInit, QosTimes, Opened, OpenSegment, NONE

(* Every step keeps the time downstream asked for one of the stream.       *)
LEMMA QosStep ==
    ASSUME RunsInv, Places, QosTimes, [DecNext]_decvars
    PROVE  QosTimes'
  <1> SUFFICES ASSUME count'.errors = 0 PROVE QosTimes'
    BY DEF QosTimes
  <1>1. count.errors = 0 /\ ~DownFails
    BY ErrorsStay
  <1>2. CASE UNCHANGED decvars
    BY <1>2 DEF decvars, QosTimes
  <1>3. ASSUME DecNext PROVE QosTimes'
    <2>1. stream' = stream
      BY <1>3 DEF DecNext
    <2>2. CASE SendReference
      <3>1. CASE up.mark
        <4>1. dec'.segment = dec.segment /\ dec'.earliest_time = dec.earliest_time /\ (Calm(dec) => dec'.hurry_up = 0)
          BY <2>1, <2>2, <3>1, ReferenceMarked
        <4> QED BY <1>1, <2>1, <4>1, QosCarried
      <3>2. CASE ~up.mark
        <4>1. dec'.segment = dec.segment /\ dec'.earliest_time = dec.earliest_time /\ (Calm(dec) => dec'.hurry_up = 0)
          <5>1. \E ts, size, p, held : Mapped(dec, dec', ts, size) \/ RefFed(held, p, ts, size)
            BY <2>1, <2>2, <3>2, ReferenceOn
          <5> QED BY <5>1 DEF Mapped, RefFed, Settled, Calm
        <4> QED BY <1>1, <2>1, <4>1, QosCarried
      <3> QED BY <3>1, <3>2
    <2>3. CASE SendB
      <3>1. \E ts, size : Mapped(dec, dec', ts, size) \/ Settled(dec, dec', ts, size)
        BY <2>1, <2>3, BetweenOn
      <3>2. dec'.segment = dec.segment /\ dec'.earliest_time = dec.earliest_time /\ (Calm(dec) => dec'.hurry_up = 0)
        BY <3>1 DEF Mapped, Settled, Calm
      <3> QED BY <1>1, <2>1, <3>2, QosCarried
    <2>4. CASE Jump
      <3>1. dec' = dec
        BY <2>4, JumpEffect DEF JumpSent
      <3> QED BY <1>1, <2>1, <3>1, QosCarried DEF Calm
    <2>5. CASE NewSegment
      <3>1. NewSegmentSent
        BY <2>5, NewSegmentEffect
      <3>2. dec'.earliest_time = dec.earliest_time /\ (Calm(dec) => dec'.hurry_up = 0)
        BY <1>1, <3>1 DEF NewSegmentSent, DrainSent, Rested
      <3> QED BY <1>1, <2>1, <3>1, <3>2 DEF NewSegmentSent, QosTimes, Calm
    <2>6. CASE Eos
      <3>1. Rested(dec, dec')
        BY <1>1, <2>6, EosEffect DEF EosSent, DrainSent
      <3> QED BY <1>1, <2>1, <3>1, QosCarried DEF Rested
    <2>7. CASE FlushStop
      <3>1. AnewSent(TRUE)
        BY <2>7, FlushStopEffect
      <3> QED BY <1>1, <2>1, <3>1 DEF AnewSent, OpenSegment, QosTimes, NONE
    <2>8. CASE Restart
      <3>1. AnewSent(FALSE)
        BY <2>8, RestartEffect
      <3> QED BY <1>1, <2>1, <3>1 DEF AnewSent, QosTimes
    <2>9. CASE SetCaps
      <3>1. dec'.segment = dec.segment /\ dec'.earliest_time = NONE /\ dec'.hurry_up = 0
        BY <1>1, <2>9, SetCapsEffect DEF SetCapsSent, DrainSent, Rested
      <3> QED BY <1>1, <2>1, <3>1 DEF QosTimes
    <2>10. CASE QosEvent
      <3>1. QosSent
        BY <2>10, QosEventEffect
      <3> QED BY <1>1, <2>1, <3>1 DEF QosSent, QosTimes
    <2> QED BY <1>1, <1>3, <2>2, <2>3, <2>4, <2>5, <2>6, <2>7, <2>8, <2>9, <2>10 DEF DecNext
  <1> QED BY <1>2, <1>3

-----------------------------------------------------------------------------
(* What the frames were decoded from.                                      *)

(* After a step that does not flush the stream was clean before.           *)
LEMMA CleanBefore ==
    ASSUME RunsInv, Places, stream' = stream, up'.flushed = up.flushed, count.errors = 0,
           up'.run \in {up.run, up.run + 1}, dec'.segment.rate = dec.segment.rate, Clean'
    PROVE  Clean
  <1>1. up.run \in Nat
    BY DEF RunsInv, DecTypeOK, Upstream
  <1> QED BY <1>1 DEF Clean

(* What leaves was decoded from all it refers to.                          *)
LEMMA IntactShown ==
    ASSUME RunsInv, IntactInv, NothingOld', stream' = stream, up'.flushed = up.flushed, count.errors = 0,
           NEW N, Came(N), dec'.segment.rate = dec.segment.rate,
           \A o \in N : o.run = up.run /\ (Clean => o.intact)
    PROVE  FlushedAway' /\ (Clean => \A f \in Frames(dec'.queued) : f.intact)
  <1>1. dec.segment.rate > 0 => Frames(pushed') \subseteq N
    BY DEF Came
  <1>2. Frames(pushed') \cup Frames(dec'.queued) \subseteq Frames(dec.queued) \cup N
    BY DEF Came
  <1>3. Clean => \A f \in Frames(pushed') \cup Frames(dec'.queued) : f.intact
    BY <1>2 DEF IntactInv
  <1>4. ASSUME up.flushed, stream.OpenGop => NoSkips(stream), NEW f \in Frames(pushed'),
               dec.segment.rate > 0 => f.run = 1
        PROVE  f.intact
    <2>1. dec.segment.rate > 0 => up.run = 1
      BY <1>1, <1>4
    <2>2. Clean
      BY <1>4, <2>1 DEF Clean
    <2> QED BY <1>3, <2>2
  <1> QED BY <1>3, <1>4 DEF FlushedAway

(* What was held is of the run that upstream sends.                        *)
LEMMA HeldIntact ==
    ASSUME RunsInv, IntactInv, NEW N, NEW in_ts, NEW e, NEW timed, Fate(N, in_ts, e, timed)
    PROVE  \A o \in N : o.run = up.run /\ (Clean => o.intact)
  BY DEF Fate, Copy, Like, Held, IntactInv, RunsInv, HeldIsCurrent

(* Nothing is shown.                                                       *)
LEMMA NothingIntact ==
    ASSUME NothingOld', pushed' = <<>>
    PROVE  FlushedAway'
  BY FramesEmpty DEF FlushedAway

(* A reference.                                                            *)
LEMMA ReferenceIntact ==
    ASSUME RunsInv, Places, QosTimes, IntactInv, NothingOld', SendReference, stream' = stream,
           count'.errors = 0, ~up.mark
    PROVE  IntactInv' /\ FlushedAway'
  <1>1. Counted
    BY ReferenceOn
  <1>2. PICK kind, disp, p, ts, size :
          /\ RefSent(kind, disp) /\ Sample(kind, disp, References(kind), up.pos + 1, p, ts, size)
          /\ \/ /\ kind = "P" /\ dec.waiting_for_key /\ dec'.waiting_for_key
                /\ Mapped(dec, dec', ts, size) /\ Leave({})
             \/ /\ dec.waiting_for_key => kind = "I"
                /\ RefFed(dec.codec.next, p, ts, size)
                /\ \E N : Leave(N) /\ Fate(N, ts, dec', ts \in Int /\ Unhurried(dec))
    BY ReferenceOn
  <1>3. count.errors = 0 /\ prev' = Last /\ stream \in Streams
    BY <1>1 DEF Counted, Places
  <1>4. /\ ~up.eos /\ up.bs = {} /\ disp \in Int /\ up.pos < disp /\ kind \in {"I", "P"}
        /\ up.key => kind = "I"
        /\ kind = "I" /\ ~stream.OpenGop => disp = up.pos + 1
        /\ up'.pos = disp /\ up'.ref = up.pos /\ up'.bs = (up.pos + 1) .. (disp - 1) /\ ~up'.mark /\ ~up'.key
        /\ up'.flushed = up.flushed /\ up'.run = up.run
    BY <1>2 DEF RefSent
  <1>5. up.pos \in Int /\ up.run # 0 /\ up.run \in Nat
    BY DEF Places, NONE, RunsInv, DecTypeOK, Upstream, RunBegins
  <1>6. /\ dec'.segment = dec.segment /\ p.disp = disp /\ p.refs = References(kind)
        /\ ts \in Int
    BY <1>2, <1>4, <1>5, SampleTime DEF Mapped, RefFed, Settled, Sample
  <1>7. Clean' => Clean
    BY <1>3, <1>4, <1>6, CleanBefore
  <1>8. CASE kind = "P" /\ dec.waiting_for_key /\ dec'.waiting_for_key /\ dec'.codec = dec.codec /\ Leave({})
    <2>1. Came({})
      BY <1>3, <1>8, LeaveCame
    <2>2. FlushedAway' /\ (Clean => \A f \in Frames(dec'.queued) : f.intact)
      BY <1>3, <1>4, <1>6, <2>1, IntactShown
    <2>3. Held' = Held
      BY <1>8 DEF Held
    <2> QED BY <1>4, <1>5, <1>7, <1>8, <2>2, <2>3 DEF IntactInv, Held
  <1>9. CASE /\ dec.waiting_for_key => kind = "I"
             /\ RefFed(dec.codec.next, p, ts, size)
             /\ \E N : Leave(N) /\ Fate(N, ts, dec', ts \in Int /\ Unhurried(dec))
    <2>1. PICK N : Leave(N) /\ Fate(N, ts, dec', ts \in Int /\ Unhurried(dec))
      BY <1>9
    <2>2. Came(N)
      BY <1>3, <2>1, LeaveCame
    <2>3. \A o \in N : o.run = up.run /\ (Clean => o.intact)
      BY <2>1, HeldIntact
    <2>4. FlushedAway' /\ (Clean => \A f \in Frames(dec'.queued) : f.intact)
      BY <1>3, <1>4, <1>6, <2>2, <2>3, IntactShown
    <2>5. PICK time : Grown(dec'.codec.next, p, time, {dec.codec.next})
      BY <1>9 DEF RefFed
    <2>6. /\ dec'.codec.next # NoPic /\ dec'.codec.next.disp = disp /\ Held' = {dec'.codec.next}
          /\ dec'.codec.last = dec.codec.next
      BY <1>6, <1>9, <2>5 DEF Grown, Held, RefFed
    <2>7. Clean /\ kind = "P" => dec.codec.next # NoPic /\ dec.codec.next.disp = up.pos
      BY <1>4, <1>9 DEF IntactInv
    <2>8. Clean /\ dec.codec.next # NoPic => dec.codec.next.intact
      BY DEF IntactInv, Held
    <2>9. Clean => dec'.codec.next.intact
      <3>1. CASE kind = "I"
        BY <1>6, <2>5, <3>1 DEF Grown, References
      <3>2. CASE kind = "P"
        BY <1>6, <2>5, <2>7, <2>8, <3>2 DEF Grown, References
      <3> QED BY <1>4, <3>1, <3>2
    <2>10. Clean /\ up'.bs # {} /\ dec.codec.next # NoPic => dec.codec.next.disp = up.pos
      <3>1. ASSUME up'.bs # {} PROVE kind = "P" \/ stream.OpenGop
        BY <1>4, <1>5, <3>1
      <3>2. Clean /\ stream.OpenGop /\ dec.codec.next # NoPic => dec.codec.next.disp = up.pos
        BY <1>4 DEF IntactInv, Held
      <3> QED BY <2>7, <3>1, <3>2
    <2>11. Clean /\ stream.OpenGop => ~dec'.waiting_for_key
      <3>1. Clean /\ stream.OpenGop => Unhurried(dec)
        BY <1>3, QosUnhurried DEF Clean
      <3> QED BY <1>3, <1>6, <1>9, <3>1 DEF RefFed, Settled
    <2>12. IntactInv'
      <3> SUFFICES ASSUME Clean' PROVE IntactInv'
        BY DEF IntactInv
      <3>1. Clean
        BY <1>7
      <3> QED BY <1>4, <1>5, <2>4, <2>6, <2>8, <2>9, <2>10, <2>11, <3>1 DEF IntactInv
    <2> QED BY <2>4, <2>12
  <1> QED BY <1>2, <1>8, <1>9 DEF Mapped

(* A reference behind a mark.                                              *)
LEMMA MarkedIntact ==
    ASSUME RunsInv, Places, QosTimes, IntactInv, NothingOld', SendReference, stream' = stream,
           count'.errors = 0, up.mark
    PROVE  IntactInv' /\ FlushedAway'
  <1> DEFINE z == drain(dec).dec
  <1>1. Counted /\ dec'.segment = dec.segment /\ (dec.codec.next = NoPic => z.waiting_for_key = dec.waiting_for_key)
    BY ReferenceMarked
  <1>2. PICK N : LeaveAll(N) /\ Fate(N, NONE, z, ~dec.waiting_for_key)
    BY ReferenceMarked
  <1>3. PICK kind, disp, p, ts, size :
          /\ RefSent(kind, disp) /\ Sample(kind, disp, References(kind), up.pos + 1, p, ts, size)
          /\ \/ kind = "P" /\ z.waiting_for_key /\ dec'.waiting_for_key /\ dec'.codec = CodecInit
             \/ (z.waiting_for_key => kind = "I") /\ RefFed(NoPic, p, ts, size)
    BY ReferenceMarked
  <1> HIDE DEF z
  <1>4. count.errors = 0 /\ prev' = Last /\ stream \in Streams
    BY <1>1 DEF Counted, Places
  <1>5. /\ up.segment /\ ~up.eos /\ disp \in Int /\ kind \in {"I", "P"} /\ (up.key => kind = "I")
        /\ up'.pos = disp /\ ~up'.mark
        /\ up'.flushed = up.flushed /\ up'.run = up.run + 1
    BY <1>3 DEF RefSent
  <1>6. up.pos \in Int /\ up.run \in Nat /\ dec.segment.rate \in {1, -1}
    BY DEF Places, NONE, RunsInv, DecTypeOK, Upstream, Element
  <1>7. p.disp = disp /\ p.refs = References(kind) /\ ts \in Int
    BY <1>3, <1>5, <1>6, SampleTime DEF Sample
  <1>8. Clean' => Clean
    BY <1>4, <1>5, <1>1, CleanBefore
  <1>9. Came(N) /\ dec'.queued = <<>>
    BY <1>2, <1>4, LeaveAllCame
  <1>10. \A o \in N : o.run = up.run /\ (Clean => o.intact)
    BY <1>2, HeldIntact
  <1>11. FlushedAway'
    BY <1>1, <1>4, <1>5, <1>9, <1>10, IntactShown
  <1>12. ASSUME Clean' PROVE z.waiting_for_key \/ up.key
    <2>1. CASE dec.segment.rate > 0
      <3>1. up.run = 0
        BY <1>1, <1>5, <1>6, <1>12, <2>1 DEF Clean
      <3>2. dec.waiting_for_key /\ dec.codec.next = NoPic
        BY <1>8, <1>12, <3>1 DEF IntactInv, RunsInv, RunBegins
      <3> QED BY <1>1, <3>2
    <2>2. CASE dec.segment.rate < 0
      BY <1>5, <1>8, <1>12, <2>2 DEF IntactInv
    <2> QED BY <1>6, <2>1, <2>2
  <1>13. Frames(dec'.queued) = {}
    BY <1>9, FramesEmpty
  <1>14. ASSUME Clean' PROVE IntactInv'
    <2>1. CASE kind = "P" /\ z.waiting_for_key /\ dec'.waiting_for_key /\ dec'.codec = CodecInit
      <3>1. Held' = {} /\ dec'.codec.next = NoPic
        BY <2>1 DEF Held, CodecInit
      <3> QED BY <1>5, <1>6, <1>13, <2>1, <3>1 DEF IntactInv
    <2>2. CASE (z.waiting_for_key => kind = "I") /\ RefFed(NoPic, p, ts, size)
      <3>1. kind = "I"
        BY <1>5, <1>12, <1>14, <2>2
      <3>2. PICK time : Grown(dec'.codec.next, p, time, {NoPic})
        BY <2>2 DEF RefFed
      <3>3. /\ dec'.codec.next # NoPic /\ dec'.codec.next.disp = disp /\ dec'.codec.next.intact
            /\ Held' = {dec'.codec.next} /\ dec'.codec.last = NoPic
        BY <1>7, <2>2, <3>1, <3>2 DEF Grown, Held, RefFed, References
      <3>4. stream.OpenGop => ~dec'.waiting_for_key
        <4>1. stream.OpenGop => Unhurried(dec)
          BY <1>4, <1>8, <1>14, QosUnhurried DEF Clean
        <4> QED BY <1>4, <1>7, <2>2, <4>1 DEF RefFed, Settled
      <3> QED BY <1>5, <1>6, <1>13, <3>3, <3>4 DEF IntactInv
    <2> QED BY <1>3, <2>1, <2>2
  <1> QED BY <1>11, <1>14 DEF IntactInv

(* A B frame.                                                              *)
LEMMA BetweenIntact ==
    ASSUME RunsInv, Places, QosTimes, IntactInv, NothingOld', SendB, stream' = stream, count'.errors = 0
    PROVE  IntactInv' /\ FlushedAway'
  <1>1. Counted /\ ~up.mark
    BY BetweenOn
  <1>2. PICK disp, p, ts, size :
          /\ BetweenSent(disp) /\ Sample("B", disp, {up.ref, up.pos}, disp + 1, p, ts, size)
          /\ \/ /\ dec.waiting_for_key /\ dec'.waiting_for_key
                /\ Mapped(dec, dec', ts, size) /\ Leave({})
             \/ /\ ~dec.waiting_for_key /\ Settled(dec, dec', ts, size) /\ dec'.codec = dec.codec
                /\ Leave({}) /\ Rest(dec, dec') /\ (Calm(dec) => NoPic \in {dec.codec.next, dec.codec.last})
             \/ /\ ~dec.waiting_for_key /\ Settled(dec, dec', ts, size) /\ dec'.codec = dec.codec
                /\ dec.codec.next # NoPic /\ dec.codec.last # NoPic
                /\ \E N, y, time :
                      /\ Grown(y, p, time, {dec.codec.last, dec.codec.next})
                      /\ dec.ts_handler = <<>> => time = ts
                      /\ Leave(N) /\ \A o \in N : Copy(o, y)
                      /\ ts \in Int /\ Unhurried(dec) => TimesGo(dec, y, ts, dec', N)
    BY BetweenOn
  <1>3. count.errors = 0 /\ prev' = Last /\ stream \in Streams
    BY <1>1 DEF Counted, Places
  <1>4. /\ disp \in up.bs /\ ~up.eos /\ up'.bs \subseteq up.bs
        /\ ~up'.mark /\ up'.pos = up.pos /\ up'.ref = up.ref /\ up'.key = up.key /\ ~up'.eos
        /\ up'.flushed = up.flushed /\ up'.run = up.run
    BY <1>2 DEF BetweenSent
  <1>5. disp \in Int /\ up.run # 0 /\ up.run \in Nat /\ ~up.key
    BY <1>1, <1>4 DEF Places, NONE, RunsInv, DecTypeOK, Upstream, RunBegins
  <1>6. /\ dec'.segment = dec.segment /\ dec'.codec = dec.codec /\ Held' = Held
        /\ p.refs = {up.ref, up.pos} /\ p.run = up.run /\ ts \in Int
    BY <1>1, <1>2, <1>5, SampleTime DEF Mapped, Settled, Sample, Held
  <1>7. Clean' => Clean
    BY <1>3, <1>4, <1>6, CleanBefore
  <1>8. PICK N : /\ Leave(N) /\ \A o \in N : o.run = up.run /\ (Clean => o.intact)
    <2>1. CASE Leave({})
      BY <2>1
    <2>2. CASE /\ ~dec.waiting_for_key /\ dec.codec.next # NoPic /\ dec.codec.last # NoPic
               /\ \E N, y, time :
                     /\ Grown(y, p, time, {dec.codec.last, dec.codec.next})
                     /\ Leave(N) /\ \A o \in N : Copy(o, y)
      <3>1. PICK N, y, time : /\ Grown(y, p, time, {dec.codec.last, dec.codec.next})
                              /\ Leave(N) /\ \A o \in N : Copy(o, y)
        BY <2>2
      <3>2. ASSUME Clean PROVE y.intact
        <4>1. dec.codec.last.disp = up.ref /\ dec.codec.last.intact
          BY <1>4, <2>2, <3>2 DEF IntactInv
        <4>2. dec.codec.next.disp = up.pos /\ dec.codec.next.intact
          BY <1>1, <1>4, <1>5, <2>2, <3>2 DEF IntactInv, Held
        <4> QED BY <1>6, <3>1, <4>1, <4>2 DEF Grown
      <3>3. y.run = up.run
        BY <1>6, <3>1 DEF Grown, Like
      <3> QED BY <3>1, <3>2, <3>3 DEF Copy, Like
    <2> QED BY <1>2, <2>1, <2>2
  <1>9. Came(N)
    BY <1>3, <1>8, LeaveCame
  <1>10. FlushedAway' /\ (Clean => \A f \in Frames(dec'.queued) : f.intact)
    BY <1>3, <1>4, <1>6, <1>8, <1>9, IntactShown
  <1>11. dec'.waiting_for_key \/ ~dec.waiting_for_key
    BY <1>2
  <1>12. Clean /\ stream.OpenGop => (dec'.waiting_for_key => dec.codec.next = NoPic)
    <2>1. Clean /\ stream.OpenGop => Unhurried(dec)
      BY <1>3, QosUnhurried DEF Clean
    <2>2. Clean /\ stream.OpenGop => (dec.waiting_for_key => dec.codec.next = NoPic)
      BY DEF IntactInv
    <2> QED BY <1>2, <1>3, <1>6, <2>1, <2>2 DEF Settled
  <1>13. ASSUME Clean' PROVE IntactInv'
    BY <1>1, <1>4, <1>5, <1>6, <1>7, <1>10, <1>11, <1>12, <1>13 DEF IntactInv
  <1> QED BY <1>10, <1>13 DEF IntactInv

(* A drain behind which nothing is held.                                   *)
LEMMA DrainedIntact ==
    ASSUME RunsInv, Places, IntactInv, NothingOld', count.errors = 0, stream' = stream, NEW z, DrainSent(z),
           dec'.codec.next = NoPic, up'.flushed = up.flushed, up'.run = up.run,
           up.segment => dec'.segment.rate = dec.segment.rate, dec'.waiting_for_key = z.waiting_for_key,
           dec'.segment.rate < 0 /\ up'.mark /\ up'.segment => up'.key \/ (up'.key = up.key /\ up.mark /\ up.segment),
           up'.mark \/ up'.key \/ up'.eos, up'.bs = {} \/ up'.eos
    PROVE  IntactInv' /\ FlushedAway'
  <1>1. PICK N : LeaveAll(N) /\ Fate(N, NONE, z, ~dec.waiting_for_key)
    BY DEF DrainSent
  <1>2. prev' = Last /\ (dec.codec.next = NoPic => z.waiting_for_key = dec.waiting_for_key)
    BY DEF DrainSent
  <1>3. Came(N) /\ dec'.queued = <<>>
    BY <1>1, <1>2, LeaveAllCame
  <1>4. FlushedAway'
    <2>1. CASE up.segment
      <3>1. \A o \in N : o.run = up.run /\ (Clean => o.intact)
        BY <1>1, HeldIntact
      <3> QED BY <1>3, <2>1, <3>1, IntactShown
    <2>2. CASE ~up.segment
      <3>1. dec.codec.next = NoPic /\ dec.queued = <<>>
        BY <2>2 DEF RunsInv, RunBegins
      <3>2. N = {}
        BY <1>1, <3>1 DEF Fate
      <3>3. pushed' = <<>>
        BY <1>1, <3>1, <3>2 DEF LeaveAll
      <3> QED BY <3>3, NothingIntact
    <2> QED BY <2>1, <2>2
  <1>5. ASSUME Clean' PROVE Clean
    <2>1. ~up.segment => up.run = 0
      BY DEF RunsInv, RunBegins
    <2> QED BY <1>5, <2>1 DEF Clean
  <1>6. Held' = {} /\ Frames(dec'.queued) = {}
    BY <1>3, FramesEmpty DEF Held
  <1>7. ASSUME Clean', up.run = 0 PROVE dec'.waiting_for_key
    <2>1. dec.codec.next = NoPic
      BY <1>7 DEF RunsInv, RunBegins
    <2> QED BY <1>2, <1>5, <1>7, <2>1 DEF IntactInv
  <1>8. ASSUME Clean', dec'.segment.rate < 0, up'.mark, up'.segment PROVE up'.key
    BY <1>5, <1>8 DEF IntactInv
  <1>9. IntactInv'
    BY <1>6, <1>7, <1>8 DEF IntactInv
  <1> QED BY <1>4, <1>9

(* Initially the element waits for a key frame.                            *)
LEMMA IntactInitial == DecInit => IntactInv /\ FlushedAway
  <1> SUFFICES ASSUME DecInit PROVE IntactInv /\ FlushedAway
    OBVIOUS
  <1>1. /\ dec.codec.next = NoPic /\ dec.codec.last = NoPic /\ dec.queued = <<>> /\ dec.waiting_for_key
    BY DEF DecInit, Opened, CodecInit
  <1>2. PICK m : up = [mode |-> m, pos |-> NONE, ref |-> NONE, bs |-> {}, limit |-> stream.MaxPos, low |-> NONE,
                       mark |-> TRUE, key |-> ~stream.AnyStart, segment |-> FALSE, eos |-> FALSE,
                       run |-> 0, epoch |-> 0, seg |-> 0, flushed |-> TRUE]
    BY DEF DecInit
  <1>3. ~up.segment
    BY <1>2
  <1>4. Frames(dec.queued) = {} /\ Frames(pushed) = {} /\ Held = {}
    BY <1>1, FramesEmpty DEF DecInit, Held
  <1> QED BY <1>1, <1>3, <1>4 DEF IntactInv, FlushedAway, NothingOld

(* After a flush only what was decoded from all it refers to is shown.     *)
LEMMA IntactStep ==
    ASSUME RunsInv, Places, QosTimes, IntactInv, FlushedAway, [DecNext]_decvars
    PROVE  IntactInv' /\ FlushedAway'
  <1>1. NothingOld'
    BY RunsStep DEF RunsInv
  <1> SUFFICES ASSUME count'.errors = 0 PROVE IntactInv' /\ FlushedAway'
    BY <1>1 DEF IntactInv, Clean, FlushedAway
  <1>2. count.errors = 0 /\ ~DownFails
    BY ErrorsStay
  <1>3. CASE UNCHANGED decvars
    BY <1>3 DEF decvars, IntactInv, FlushedAway, Clean, Held, NothingOld
  <1>4. ASSUME DecNext PROVE IntactInv' /\ FlushedAway'
    <2>1. stream' = stream
      BY <1>4 DEF DecNext
    <2>2. CASE SendReference
      BY <1>1, <2>1, <2>2, ReferenceIntact, MarkedIntact
    <2>3. CASE SendB
      BY <1>1, <2>1, <2>3, BetweenIntact
    <2>4. CASE Jump
      <3>1. JumpSent
        BY <2>4, JumpEffect
      <3>2. FlushedAway'
        BY <1>1, <3>1, NothingIntact DEF JumpSent
      <3>3. Held' = Held /\ (Clean' => Clean)
        BY <1>2, <2>1, <3>1 DEF JumpSent, Held, Clean
      <3>4. IntactInv'
        BY <2>1, <3>1, <3>3 DEF JumpSent, IntactInv
      <3> QED BY <3>2, <3>4
    <2>5. CASE NewSegment
      <3>1. NewSegmentSent
        BY <2>5, NewSegmentEffect
      <3>2. PICK z : /\ DrainSent(z) /\ dec'.codec = z.codec /\ dec'.waiting_for_key = z.waiting_for_key
        BY <1>2, <3>1 DEF NewSegmentSent
      <3>3. dec'.codec.next = NoPic
        BY <3>2 DEF DrainSent, Rested
      <3>4. /\ up'.flushed = up.flushed /\ up'.run = up.run /\ up'.bs = {}
            /\ up.segment => dec'.segment.rate = dec.segment.rate
            /\ dec'.segment.rate < 0 => up'.key
            /\ up.segment => up'.key
            /\ up.mark => up'.mark
        BY <3>1 DEF NewSegmentSent
      <3>5. ~up.segment => up.mark
        BY DEF RunsInv, RunBegins
      <3> QED BY <1>1, <1>2, <2>1, <3>2, <3>3, <3>4, <3>5, DrainedIntact
    <2>6. CASE Eos
      <3>1. EosSent /\ DrainSent(dec')
        BY <1>2, <2>6, EosEffect DEF EosSent
      <3>2. /\ up'.flushed = up.flushed /\ up'.run = up.run /\ up'.key = up.key /\ up'.eos
            /\ up'.mark = up.mark /\ up.segment
        BY <3>1 DEF EosSent, SamePlace
      <3>3. dec'.codec.next = NoPic /\ dec'.segment = dec.segment
        BY <3>1 DEF DrainSent, Rested
      <3> QED BY <1>1, <1>2, <2>1, <3>1, <3>2, <3>3, DrainedIntact
    <2>7. CASE FlushStop
      <3>1. AnewSent(TRUE)
        BY <2>7, FlushStopEffect
      <3>2. FlushedAway'
        BY <1>1, <3>1, NothingIntact DEF AnewSent
      <3>3. Held' = {} /\ Frames(dec'.queued) = {} /\ dec'.codec.next = NoPic
        BY <3>1, FramesEmpty DEF AnewSent, Held, CodecInit
      <3> QED BY <3>1, <3>2, <3>3 DEF AnewSent, IntactInv
    <2>8. CASE Restart
      <3>1. AnewSent(FALSE)
        BY <2>8, RestartEffect
      <3>2. ~up'.flushed
        BY <3>1 DEF AnewSent
      <3> QED BY <1>1, <3>2 DEF IntactInv, Clean, FlushedAway
    <2>9. CASE SetCaps
      <3>1. SetCapsSent
        BY <2>9, SetCapsEffect
      <3>2. PICK z : /\ DrainSent(z) /\ dec'.codec = CodecInit /\ dec'.waiting_for_key = z.waiting_for_key
                     /\ dec'.segment = z.segment
        BY <1>2, <3>1 DEF SetCapsSent
      <3>3. dec'.codec.next = NoPic /\ dec'.segment = dec.segment
        BY <3>2 DEF DrainSent, Rested, CodecInit
      <3>4. up'.flushed = up.flushed /\ up'.run = up.run /\ up'.bs = {} /\ up'.key
        BY <3>1 DEF SetCapsSent, SamePlace
      <3> QED BY <1>1, <1>2, <2>1, <3>2, <3>3, <3>4, DrainedIntact
    <2>10. CASE QosEvent
      <3>1. QosSent
        BY <2>10, QosEventEffect
      <3>2. FlushedAway'
        BY <1>1, <3>1, NothingIntact DEF QosSent
      <3>3. /\ up' = up /\ dec'.codec = dec.codec /\ dec'.queued = dec.queued
            /\ dec'.waiting_for_key = dec.waiting_for_key /\ dec'.segment = dec.segment
        BY <3>1 DEF QosSent
      <3>4. Held' = Held /\ (Clean' => Clean)
        BY <1>2, <2>1, <3>3 DEF Held, Clean
      <3>5. IntactInv'
        BY <2>1, <3>3, <3>4 DEF IntactInv
      <3> QED BY <3>2, <3>5
    <2> QED BY <1>2, <1>4, <2>2, <2>3, <2>4, <2>5, <2>6, <2>7, <2>8, <2>9, <2>10 DEF DecNext
  <1> QED BY <1>3, <1>4

-----------------------------------------------------------------------------
(* The times of the frames.                                                *)

(* A reference that is not ignored.                                        *)
RefTimed(kind, disp, ts) ==
    /\ RefSent(kind, disp) /\ (kind = "P" => ~up.key)
    /\ \/ ts = IF up.mode = "dts" THEN up.pos + 1 ELSE disp
       \/ ts = NONE /\ stream.Untimed /\ kind = "P" /\ ~up.mark /\ up.mode = "pts"
    /\ dec'.codec.next # NoPic /\ dec'.codec.next.disp = disp /\ dec'.codec.next.kind = kind
    /\ dec'.codec.next.ts = ts /\ dec'.codec.last = (IF up.mark THEN NoPic ELSE dec.codec.next)
    /\ ~dec'.waiting_for_key /\ dec'.ts_handler = <<>> /\ dec'.segment = dec.segment
    /\ ~up.mark => \E N : Leave(N) /\ Fate(N, ts, dec', TRUE)
    /\ up.mark => /\ dec'.next_ts = NONE /\ dec'.last_out = NONE
                  /\ \E z, N : /\ (dec'.ts_is_dts => z.ts_is_dts) /\ dec'.has_b_frames = z.has_b_frames
                               /\ LeaveAll(N) /\ Fate(N, NONE, z, TRUE)

(* While a key frame is awaited the codec holds nothing.                   *)
LEMMA AwaitsFirst ==
    ASSUME RunsInv, TimesKnown
    PROVE  /\ dec.waiting_for_key => up.mark /\ up.key /\ dec.codec.next = NoPic
           /\ \A N, in_ts, e : Fate(N, in_ts, e, ~dec.waiting_for_key) => Fate(N, in_ts, e, TRUE)
  <1>1. dec.waiting_for_key => up.mark /\ up.key /\ dec.codec.next = NoPic
    BY DEF RunsInv, RunBegins, TimesKnown
  <1> QED BY <1>1 DEF Fate

(* A reference with the time upstream gave it.                             *)
LEMMA RefTimes ==
    ASSUME RunsInv, Places, QosTimes, TimesKnown, Aligned(stream), SendReference, stream' = stream,
           count'.errors = 0
    PROVE  Counted /\ \E kind, disp, ts : RefTimed(kind, disp, ts)
  <1>1. dec.waiting_for_key => up.mark /\ up.key /\ dec.codec.next = NoPic
    BY AwaitsFirst
  <1>2. up.pos \in Int /\ dec.ts_handler = <<>>
    BY DEF Places, NONE, TimesKnown
  <1>3. CASE up.mark
    <2> DEFINE z == drain(dec).dec
    <2>1. /\ Counted /\ dec'.segment = dec.segment /\ dec'.next_ts = NONE /\ dec'.last_out = NONE
          /\ dec'.has_b_frames = z.has_b_frames /\ (dec'.ts_is_dts => z.ts_is_dts)
          /\ ~dec.waiting_for_key => ~z.waiting_for_key
      BY <1>3, ReferenceMarked
    <2>2. PICK N : LeaveAll(N) /\ Fate(N, NONE, z, ~dec.waiting_for_key)
      BY <1>3, ReferenceMarked
    <2>3. PICK kind, disp, p, ts, size :
            /\ RefSent(kind, disp) /\ Sample(kind, disp, References(kind), up.pos + 1, p, ts, size)
            /\ \/ kind = "P" /\ z.waiting_for_key /\ dec'.waiting_for_key /\ dec'.codec = CodecInit
               \/ (z.waiting_for_key => kind = "I") /\ RefFed(NoPic, p, ts, size)
      BY <1>3, ReferenceMarked
    <2> HIDE DEF z
    <2>4. disp \in Int /\ kind \in {"I", "P"} /\ (up.key => kind = "I")
      BY <2>3 DEF RefSent
    <2>5. z.waiting_for_key => kind = "I"
      BY <1>1, <2>1, <2>4
    <2>6. RefFed(NoPic, p, ts, size)
      BY <2>3, <2>5
    <2>7. ts \in Int /\ size \in Nat \ {0}
      BY <1>2, <2>3, <2>4, SampleTime
    <2>8. Unhurried(dec)
      BY <2>1, QosUnhurried DEF Counted, Aligned
    <2>9. ~dec'.waiting_for_key /\ dec'.ts_handler = <<>> /\ dec'.codec.last = NoPic
      BY <1>2, <2>6, <2>7, <2>8 DEF RefFed, Settled, Places
    <2>10. PICK time : Grown(dec'.codec.next, p, time, {NoPic}) /\ (dec.ts_handler = <<>> => time = ts)
      BY <2>6 DEF RefFed
    <2>11. /\ dec'.codec.next # NoPic /\ dec'.codec.next.disp = disp /\ dec'.codec.next.kind = kind
           /\ dec'.codec.next.ts = ts
      BY <1>2, <2>3, <2>10 DEF Grown, Sample
    <2>12. ts = IF up.mode = "dts" THEN up.pos + 1 ELSE disp
      BY <1>3, <2>3 DEF Sample
    <2>13. Fate(N, NONE, z, TRUE)
      BY <2>2, AwaitsFirst
    <2>14. RefTimed(kind, disp, ts)
      BY <1>3, <2>1, <2>2, <2>3, <2>4, <2>9, <2>11, <2>12, <2>13 DEF RefTimed
    <2> QED BY <2>1, <2>14
  <1>4. CASE ~up.mark
    <2>1. Counted
      BY <1>4, ReferenceOn
    <2>2. PICK kind, disp, p, ts, size :
            /\ RefSent(kind, disp) /\ Sample(kind, disp, References(kind), up.pos + 1, p, ts, size)
            /\ \/ /\ kind = "P" /\ dec.waiting_for_key /\ dec'.waiting_for_key
                  /\ Mapped(dec, dec', ts, size) /\ Leave({})
               \/ /\ dec.waiting_for_key => kind = "I"
                  /\ RefFed(dec.codec.next, p, ts, size)
                  /\ \E N : Leave(N) /\ Fate(N, ts, dec', ts \in Int /\ Unhurried(dec))
      BY <1>4, ReferenceOn
    <2>3. /\ RefFed(dec.codec.next, p, ts, size)
          /\ \E N : Leave(N) /\ Fate(N, ts, dec', ts \in Int /\ Unhurried(dec))
      BY <1>1, <1>4, <2>2
    <2>4. disp \in Int /\ kind \in {"I", "P"} /\ (up.key => kind = "I")
      BY <2>2 DEF RefSent
    <2>5. ts \in Int /\ size \in Nat \ {0}
      BY <1>2, <2>2, <2>4, SampleTime
    <2>6. Unhurried(dec)
      BY <2>1, QosUnhurried DEF Counted, Aligned
    <2>7. /\ ~dec'.waiting_for_key /\ dec'.ts_handler = <<>> /\ dec'.codec.last = dec.codec.next
          /\ dec'.segment = dec.segment
      BY <1>2, <2>3, <2>5, <2>6 DEF RefFed, Settled, Places
    <2>8. PICK time : Grown(dec'.codec.next, p, time, {dec.codec.next}) /\ (dec.ts_handler = <<>> => time = ts)
      BY <2>3 DEF RefFed
    <2>9. /\ dec'.codec.next # NoPic /\ dec'.codec.next.disp = disp /\ dec'.codec.next.kind = kind
          /\ dec'.codec.next.ts = ts
      BY <1>2, <2>2, <2>8 DEF Grown, Sample
    <2>10. \/ ts = IF up.mode = "dts" THEN up.pos + 1 ELSE disp
           \/ ts = NONE /\ stream.Untimed /\ kind = "P" /\ ~up.mark /\ up.mode = "pts"
      BY <2>2, <2>4 DEF Sample
    <2>11. \E N : Leave(N) /\ Fate(N, ts, dec', TRUE)
      BY <2>3, <2>5, <2>6 DEF Fate
    <2>12. RefTimed(kind, disp, ts)
      BY <1>4, <2>2, <2>4, <2>7, <2>9, <2>10, <2>11 DEF RefTimed
    <2> QED BY <2>1, <2>12
  <1> QED BY <1>3, <1>4

(* A B frame that is not ignored.                                          *)
BetweenTimed(disp, ts) ==
    /\ BetweenSent(disp) /\ disp \in Nat
    /\ \/ ts = IF up.mode = "dts" THEN disp + 1 ELSE disp
       \/ ts = NONE /\ stream.Untimed /\ up.mode = "pts"
    /\ dec'.codec = dec.codec /\ ~dec'.waiting_for_key /\ dec'.ts_handler = <<>> /\ dec'.segment = dec.segment
    /\ \/ Leave({}) /\ Rest(dec, dec') /\ (Calm(dec) => NoPic \in {dec.codec.next, dec.codec.last})
       \/ /\ dec.codec.next # NoPic /\ dec.codec.last # NoPic
          /\ \E N, y : /\ y.disp = disp /\ y.kind = "B" /\ y.ts = ts /\ y.run = up.run
                       /\ Leave(N) /\ (\A o \in N : Copy(o, y)) /\ TimesGo(dec, y, ts, dec', N)

(* A B frame with the time upstream gave it.                               *)
LEMMA BetweenTimes ==
    ASSUME RunsInv, Places, QosTimes, TimesKnown, Aligned(stream), SendB, stream' = stream, count'.errors = 0
    PROVE  Counted /\ ~up.mark /\ \E disp, ts : BetweenTimed(disp, ts)
  <1>1. Counted /\ ~up.mark
    BY BetweenOn
  <1>2. PICK disp, p, ts, size :
          /\ BetweenSent(disp) /\ Sample("B", disp, {up.ref, up.pos}, disp + 1, p, ts, size)
          /\ \/ /\ dec.waiting_for_key /\ dec'.waiting_for_key
                /\ Mapped(dec, dec', ts, size) /\ Leave({})
             \/ /\ ~dec.waiting_for_key /\ Settled(dec, dec', ts, size) /\ dec'.codec = dec.codec
                /\ Leave({}) /\ Rest(dec, dec') /\ (Calm(dec) => NoPic \in {dec.codec.next, dec.codec.last})
             \/ /\ ~dec.waiting_for_key /\ Settled(dec, dec', ts, size) /\ dec'.codec = dec.codec
                /\ dec.codec.next # NoPic /\ dec.codec.last # NoPic
                /\ \E N, y, time :
                      /\ Grown(y, p, time, {dec.codec.last, dec.codec.next})
                      /\ dec.ts_handler = <<>> => time = ts
                      /\ Leave(N) /\ \A o \in N : Copy(o, y)
                      /\ ts \in Int /\ Unhurried(dec) => TimesGo(dec, y, ts, dec', N)
    BY BetweenOn
  <1>3. ~dec.waiting_for_key /\ dec.ts_handler = <<>>
    BY <1>1, AwaitsFirst DEF TimesKnown
  <1>4. disp \in Nat
    BY <1>2 DEF BetweenSent, Places
  <1>5. /\ ts \in Int /\ size \in Nat \ {0} /\ p.disp = disp /\ p.kind = "B" /\ p.run = up.run
        /\ \/ ts = IF up.mode = "dts" THEN disp + 1 ELSE disp
           \/ ts = NONE /\ stream.Untimed /\ up.mode = "pts"
    <2>1. Sample("B", disp, {up.ref, up.pos}, disp + 1, p, ts, size) /\ disp \in Int /\ disp + 1 \in Int
      BY <1>2, <1>4
    <2>2. ts \in Int /\ size \in Nat \ {0}
      BY <2>1, SampleTime
    <2> QED BY <1>1, <2>1, <2>2 DEF Sample
  <1>6. Unhurried(dec)
    BY <1>1, QosUnhurried DEF Counted, Aligned
  <1>7. dec'.codec = dec.codec /\ Settled(dec, dec', ts, size)
    BY <1>2, <1>3
  <1>8. ~dec'.waiting_for_key /\ dec'.ts_handler = <<>> /\ dec'.segment = dec.segment
    BY <1>3, <1>5, <1>6, <1>7 DEF Settled, Places
  <1>9. \/ Leave({}) /\ Rest(dec, dec') /\ (Calm(dec) => NoPic \in {dec.codec.next, dec.codec.last})
        \/ /\ dec.codec.next # NoPic /\ dec.codec.last # NoPic
           /\ \E N, y : /\ y.disp = disp /\ y.kind = "B" /\ y.ts = ts /\ y.run = up.run
                        /\ Leave(N) /\ (\A o \in N : Copy(o, y)) /\ TimesGo(dec, y, ts, dec', N)
    <2>1. CASE /\ dec.codec.next # NoPic /\ dec.codec.last # NoPic
               /\ \E N, y, time :
                     /\ Grown(y, p, time, {dec.codec.last, dec.codec.next})
                     /\ dec.ts_handler = <<>> => time = ts
                     /\ Leave(N) /\ \A o \in N : Copy(o, y)
                     /\ ts \in Int /\ Unhurried(dec) => TimesGo(dec, y, ts, dec', N)
      <3>1. PICK N, y, time :
               /\ Grown(y, p, time, {dec.codec.last, dec.codec.next})
               /\ dec.ts_handler = <<>> => time = ts
               /\ Leave(N) /\ \A o \in N : Copy(o, y)
               /\ ts \in Int /\ Unhurried(dec) => TimesGo(dec, y, ts, dec', N)
        BY <2>1
      <3>2. y.disp = disp /\ y.kind = "B" /\ y.ts = ts /\ y.run = up.run /\ TimesGo(dec, y, ts, dec', N)
        BY <1>3, <1>5, <1>6, <3>1 DEF Grown, Like
      <3> QED BY <2>1, <3>1, <3>2
    <2> QED BY <1>2, <1>3, <2>1
  <1>10. BetweenTimed(disp, ts)
    BY <1>2, <1>4, <1>5, <1>7, <1>8, <1>9 DEF BetweenTimed
  <1> QED BY <1>1, <1>10

(* A drain.                                                                *)
LEMMA DrainTimes ==
    ASSUME RunsInv, TimesKnown, NEW z, DrainSent(z)
    PROVE  /\ prev' = Last /\ \E N : LeaveAll(N) /\ Fate(N, NONE, z, TRUE)
           /\ z.ts_handler = <<>> /\ z.codec.next = NoPic /\ z.segment = dec.segment
           /\ z.waiting_for_key => up.run = 0
  <1>1. \E N : LeaveAll(N) /\ Fate(N, NONE, z, TRUE)
    BY AwaitsFirst DEF DrainSent
  <1> QED BY <1>1 DEF DrainSent, Rested, TimesKnown

-----------------------------------------------------------------------------
(* Presentation times.                                                     *)

(* A picture whose time is known leaves at its own.                        *)
LEMMA OwnGoes ==
    ASSUME NEW x, x.disp \in Nat, ~dec.ts_is_dts, dec.last_out \in Nat \cup {NONE}, dec.last_out < x.disp,
           x.ts \in {NONE, x.disp}, x.ts = NONE => dec.next_ts = x.disp,
           NEW in_ts, NEW e, NEW N, TimesGo(dec, x, in_ts, e, N), \A o \in N : Copy(o, x)
    PROVE  /\ ~e.ts_is_dts /\ e.last_out = x.ts /\ e.next_ts = x.disp + 1
           /\ \A o \in N : o.ts = o.disp
  <1>1. PICK time : /\ TimesOf(dec, x, in_ts, e, time)
                    /\ ~Zeros(dec, x) => e.next_ts = (IF time # NONE THEN time + 1 ELSE dec.next_ts)
                    /\ \A o \in N : o.ts = time
    BY DEF TimesGo
  <1>2. ~Zeros(dec, x)
    BY DEF Zeros, NONE
  <1>3. ~e.ts_is_dts /\ e.last_out = x.ts
    BY <1>1, <1>2 DEF TimesOf, NONE
  <1>4. time = x.disp
    BY <1>1, <1>2, <1>3 DEF TimesOf, NONE
  <1> QED BY <1>1, <1>2, <1>3, <1>4 DEF Copy, NONE

(* What the codec held leaves at its own time.                             *)
PtsGoes(N, e) ==
    /\ ~e.ts_is_dts /\ {e.last_out, e.next_ts} \subseteq Nat \cup {NONE}
    /\ \A o \in N : o.ts = o.disp
    /\ dec.codec.next = NoPic => e.last_out \in {dec.last_out, NONE} /\ e.next_ts = dec.next_ts
    /\ dec.codec.next # NoPic => e.last_out <= dec.codec.next.disp /\ e.next_ts = dec.codec.next.disp + 1

(* What leaves, the frame the codec held, goes with its own time.          *)
LEMMA PtsFate ==
    ASSUME RunsInv, OutOrder, PtsTimes, stream.Untimed => up.bs = {}, NEW N, NEW in_ts, NEW e, Fate(N, in_ts, e, TRUE)
    PROVE  PtsGoes(N, e)
  <1>1. {dec.last_out, dec.next_ts} \subseteq Nat \cup {NONE} /\ ~dec.ts_is_dts
    BY DEF PtsTimes, TimesKnown
  <1>2. CASE dec.codec.next = NoPic
    BY <1>1, <1>2 DEF Fate, Rest, PtsGoes
  <1>3. CASE dec.codec.next # NoPic
    <2> DEFINE x == dec.codec.next
    <2>1. x \in Held
      BY <1>3 DEF Held
    <2>2. x.disp \in Nat
      BY <2>1 DEF OutOrder
    <2>3. x.ts \in {NONE, x.disp} /\ dec.last_out < x.disp
      BY <2>1 DEF PtsTimes
    <2>4. ASSUME x.ts = NONE PROVE dec.next_ts = x.disp
      <3>1. stream.Untimed /\ dec.codec.last # NoPic
        BY <2>1, <2>4 DEF PtsTimes
      <3>2. dec.next_ts \in Nat /\ dec.next_ts <= x.disp /\ {} = dec.next_ts .. (x.disp - 1)
        BY <2>1, <3>1 DEF PtsTimes
      <3> HIDE DEF x
      <3> QED BY <2>2, <3>2
    <2>5. TimesGo(dec, x, in_ts, e, N) /\ \A o \in N : Copy(o, x)
      BY <1>3 DEF Fate
    <2> HIDE DEF x
    <2>6. /\ ~e.ts_is_dts /\ e.last_out = x.ts /\ e.next_ts = x.disp + 1
          /\ \A o \in N : o.ts = o.disp
      BY <1>1, <2>2, <2>3, <2>4, <2>5, OwnGoes
    <2>7. {e.last_out, e.next_ts} \subseteq Nat \cup {NONE} /\ e.last_out <= x.disp
      BY <2>2, <2>3, <2>6 DEF NONE
    <2> QED BY <1>3, <2>6, <2>7 DEF PtsGoes, x
  <1> QED BY <1>2, <1>3

(* What the frames of a step show of the times.                            *)
LEMMA PtsShown ==
    ASSUME RunsInv, PtsTimes, DisplayOrder', count'.errors = 0, dec'.segment.rate = dec.segment.rate,
           NEW N, Came(N), \A o \in N : o.ts = o.disp
    PROVE  /\ OwnTime' /\ TimesRise'
           /\ \A f \in Frames(dec'.queued) : f.ts = f.disp
           /\ Last' # NoOutput => Last'.ts = Last'.disp
  <1>1. /\ \A f \in Frames(dec.queued) \cup N : f.ts = f.disp
        /\ Last # NoOutput => Last.ts = Last.disp
    BY DEF PtsTimes
  <1>2. Frames(pushed') \cup Frames(dec'.queued) \subseteq Frames(dec.queued) \cup N
    BY DEF Came
  <1>3. OwnTime'
    BY <1>1, <1>2 DEF OwnTime
  <1>4. TimesRise'
    <2> SUFFICES ASSUME NEW n \in Neighbours', dec.segment.rate > 0 PROVE n[1].ts < n[2].ts
      BY DEF TimesRise
    <2>1. n[1] = Last /\ Last # NoOutput /\ n[2] \in N
      BY DEF Came
    <2>2. n[1].ts = n[1].disp /\ n[2].ts = n[2].disp
      BY <1>1, <2>1
    <2>3. n[1].disp < n[2].disp
      BY DEF DisplayOrder
    <2> QED BY <2>2, <2>3
  <1>5. Last' # NoOutput => Last'.ts = Last'.disp
    BY <1>1 DEF Came
  <1> QED BY <1>1, <1>2, <1>3, <1>4, <1>5

(* Nothing is shown.                                                       *)
LEMMA NothingTimed ==
    ASSUME pushed' = <<>>, Neighbours' = {}
    PROVE  OwnTime' /\ TimesRise'
  BY FramesEmpty DEF OwnTime, TimesRise

(* A reference.                                                            *)
LEMMA ReferencePts ==
    ASSUME RunsInv, Places, QosTimes, OutOrder, PtsTimes, Aligned(stream), up.mode = "pts", DisplayOrder',
           SendReference, stream' = stream, count'.errors = 0
    PROVE  PtsTimes' /\ OwnTime' /\ TimesRise'
  <1>1. TimesKnown
    BY DEF PtsTimes
  <1>2. Counted
    BY <1>1, RefTimes
  <1>3. PICK kind, disp, ts : RefTimed(kind, disp, ts)
    BY <1>1, RefTimes
  <1>4. /\ ~up.eos /\ up.bs = {} /\ disp \in Int /\ up.pos < disp /\ kind \in {"I", "P"} /\ (kind = "P" => ~up.key)
        /\ up'.pos = disp /\ up'.bs = (up.pos + 1) .. (disp - 1) /\ ~up'.mark /\ ~up'.eos
        /\ up'.run = IF up.mark THEN up.run + 1 ELSE up.run
    BY <1>3 DEF RefTimed, RefSent
  <1>5. /\ ts = disp \/ (ts = NONE /\ stream.Untimed /\ kind = "P" /\ ~up.mark)
        /\ dec'.codec.next # NoPic /\ dec'.codec.next.disp = disp /\ dec'.codec.next.kind = kind
        /\ dec'.codec.next.ts = ts /\ dec'.codec.last = (IF up.mark THEN NoPic ELSE dec.codec.next)
        /\ ~dec'.waiting_for_key /\ dec'.ts_handler = <<>> /\ dec'.segment = dec.segment
    BY <1>3 DEF RefTimed
  <1>6. up.pos \in Nat \cup {NONE} /\ up.run \in Nat /\ (up.run = 0 => up.mark)
    BY DEF Places, RunsInv, DecTypeOK, Upstream, RunBegins
  <1>7. prev' = Last
    BY <1>2 DEF Counted
  <1>8. \E N : /\ Came(N) /\ \A o \in N : o.ts = o.disp
               /\ ~dec'.ts_is_dts /\ {dec'.last_out, dec'.next_ts} \subseteq Nat \cup {NONE}
               /\ dec'.last_out <= up.pos
               /\ ~up.mark /\ dec.codec.next # NoPic => dec'.next_ts = up.pos + 1
    <2>1. CASE up.mark
      <3>1. PICK z, N : /\ (dec'.ts_is_dts => z.ts_is_dts) /\ LeaveAll(N) /\ Fate(N, NONE, z, TRUE)
                        /\ dec'.next_ts = NONE /\ dec'.last_out = NONE
        BY <1>3, <2>1 DEF RefTimed
      <3>2. Came(N)
        BY <1>7, <3>1, LeaveAllCame
      <3>3. PtsGoes(N, z)
        BY <1>4, <3>1, PtsFate
      <3> QED BY <1>6, <2>1, <3>1, <3>2, <3>3 DEF PtsGoes, NONE
    <2>2. CASE ~up.mark
      <3>1. PICK N : Leave(N) /\ Fate(N, ts, dec', TRUE)
        BY <1>3, <2>2 DEF RefTimed
      <3>2. Came(N)
        BY <1>7, <3>1, LeaveCame
      <3>3. PtsGoes(N, dec')
        BY <1>4, <3>1, PtsFate
      <3>4. dec.codec.next # NoPic => dec.codec.next.disp = up.pos
        BY <1>4, <2>2 DEF PtsTimes, Held
      <3>5. dec.last_out <= up.pos
        BY <2>2 DEF PtsTimes
      <3>6. dec'.last_out <= up.pos
        BY <1>6, <3>3, <3>4, <3>5 DEF PtsGoes, NONE
      <3> QED BY <3>2, <3>3, <3>4, <3>6 DEF PtsGoes
    <2> QED BY <2>1, <2>2
  <1>9. PICK N : /\ Came(N) /\ \A o \in N : o.ts = o.disp
                 /\ ~dec'.ts_is_dts /\ {dec'.last_out, dec'.next_ts} \subseteq Nat \cup {NONE}
                 /\ dec'.last_out <= up.pos
                 /\ ~up.mark /\ dec.codec.next # NoPic => dec'.next_ts = up.pos + 1
    BY <1>8
  <1>10. /\ OwnTime' /\ TimesRise'
         /\ \A f \in Frames(dec'.queued) : f.ts = f.disp
         /\ Last' # NoOutput => Last'.ts = Last'.disp
    BY <1>5, <1>9, PtsShown
  <1>11. Held' = {dec'.codec.next}
    BY <1>5 DEF Held
  <1>12. TimesKnown'
    BY <1>4, <1>5, <1>6, <1>9, <1>11 DEF TimesKnown
  <1>13. disp \in Nat /\ dec'.last_out < disp /\ \A b \in up'.bs : dec'.last_out < b
    BY <1>4, <1>6, <1>9 DEF NONE
  <1>14. ASSUME ts = NONE PROVE stream.Untimed /\ dec'.codec.last # NoPic
    <2>1. stream.Untimed /\ kind = "P" /\ ~up.mark
      BY <1>5, <1>13, <1>14 DEF NONE
    <2>2. dec.codec.next # NoPic
      BY <1>1, <1>4, <2>1 DEF TimesKnown
    <2> QED BY <1>5, <2>1, <2>2
  <1>15. ASSUME dec'.codec.last # NoPic
         PROVE  dec'.next_ts \in Nat /\ dec'.next_ts <= disp /\ up'.bs = dec'.next_ts .. (disp - 1)
    BY <1>4, <1>5, <1>6, <1>9, <1>15 DEF NONE
  <1>16. dec'.last_out <= disp
    BY <1>4, <1>6, <1>9 DEF NONE
  <1>17. PtsTimes'
    BY <1>4, <1>5, <1>9, <1>10, <1>11, <1>12, <1>13, <1>14, <1>15, <1>16 DEF PtsTimes
  <1> QED BY <1>10, <1>17

(* A B frame.                                                              *)
LEMMA BetweenPts ==
    ASSUME RunsInv, Places, QosTimes, OutOrder, PtsTimes, Aligned(stream), up.mode = "pts", DisplayOrder',
           SendB, stream' = stream, count'.errors = 0
    PROVE  PtsTimes' /\ OwnTime' /\ TimesRise'
  <1>1. TimesKnown
    BY DEF PtsTimes
  <1>2. Counted /\ ~up.mark
    BY <1>1, BetweenTimes
  <1>3. PICK disp, ts : BetweenTimed(disp, ts)
    BY <1>1, BetweenTimes
  <1>4. /\ disp \in up.bs /\ ~up.eos /\ (\A other \in up.bs : disp <= other) /\ disp \in Nat
        /\ up'.bs = up.bs \ {disp} /\ ~up'.mark /\ up'.pos = up.pos /\ ~up'.eos /\ up'.run = up.run
        /\ up'.key = up.key
    BY <1>3 DEF BetweenTimed, BetweenSent
  <1>5. /\ ts = disp \/ (ts = NONE /\ stream.Untimed)
        /\ dec'.codec = dec.codec /\ ~dec'.waiting_for_key /\ dec'.ts_handler = <<>> /\ dec'.segment = dec.segment
    BY <1>3 DEF BetweenTimed
  <1>6. /\ up.pos \in Nat /\ (\A b \in up.bs : b \in Nat /\ b < up.pos) /\ up.run # 0
    BY <1>2, <1>4 DEF Places, NONE, RunsInv, RunBegins
  <1>7. prev' = Last /\ count.errors = 0
    BY <1>2 DEF Counted
  <1>8. /\ \A p \in Held : p.disp = up.pos /\ \A b \in up.bs : dec.last_out < b
        /\ dec.last_out <= up.pos /\ {dec.last_out, dec.next_ts} \subseteq Nat \cup {NONE}
        /\ Held' = Held
    BY <1>1, <1>2, <1>4, <1>5 DEF PtsTimes, TimesKnown, Held
  <1>9. stream.Untimed /\ dec.codec.last # NoPic => \A p \in Held :
           /\ dec.next_ts \in Nat /\ dec.next_ts <= p.disp /\ up.bs = dec.next_ts..(p.disp - 1)
    BY DEF PtsTimes
  <1>10. \E N : /\ Came(N) /\ \A o \in N : o.ts = o.disp
                /\ ~dec'.ts_is_dts /\ {dec'.last_out, dec'.next_ts} \subseteq Nat \cup {NONE}
                /\ dec'.last_out < up.pos /\ \A b \in up'.bs : dec'.last_out < b
                /\ stream.Untimed /\ dec.codec.last # NoPic => \A p \in Held :
                      dec'.next_ts = disp + 1 /\ dec.next_ts = disp
    <2>1. CASE Leave({}) /\ Rest(dec, dec') /\ (Calm(dec) => NoPic \in {dec.codec.next, dec.codec.last})
      <3>1. Came({})
        BY <1>7, <2>1, LeaveCame
      <3>2. ~dec'.ts_is_dts /\ dec'.last_out \in {dec.last_out, NONE} /\ dec'.next_ts = dec.next_ts
        BY <2>1 DEF Rest, PtsTimes
      <3>3. stream.Untimed => Calm(dec)
        BY <1>7 DEF QosTimes, Aligned, Calm
      <3>4. stream.Untimed /\ dec.codec.last # NoPic => Held = {}
        BY <2>1, <3>3 DEF Held
      <3>5. Held # {} => dec.last_out < disp
        BY <1>4, <1>8
      <3>6. Held = {} \/ (dec'.last_out < up.pos /\ \A b \in up'.bs : dec'.last_out < b)
        BY <1>4, <1>6, <1>8, <3>2 DEF NONE
      <3>7. Held # {}
        <4>1. ~up.key
          BY <1>4 DEF Places
        <4> QED BY <1>1, <1>2, <1>4, <4>1 DEF TimesKnown, Held
      <3> QED BY <1>8, <3>1, <3>2, <3>4, <3>6, <3>7
    <2>2. CASE /\ dec.codec.next # NoPic /\ dec.codec.last # NoPic
               /\ \E N, y : /\ y.disp = disp /\ y.kind = "B" /\ y.ts = ts /\ y.run = up.run
                            /\ Leave(N) /\ (\A o \in N : Copy(o, y)) /\ TimesGo(dec, y, ts, dec', N)
      <3>1. PICK N, y : /\ y.disp = disp /\ y.kind = "B" /\ y.ts = ts /\ y.run = up.run
                        /\ Leave(N) /\ (\A o \in N : Copy(o, y)) /\ TimesGo(dec, y, ts, dec', N)
        BY <2>2
      <3>2. dec.codec.next \in Held /\ dec.last_out < disp
        BY <1>4, <1>8, <2>2 DEF Held
      <3>3. stream.Untimed => dec.next_ts = disp
        <4> SUFFICES ASSUME stream.Untimed PROVE dec.next_ts = disp
          OBVIOUS
        <4> DEFINE d == dec.codec.next.disp
        <4>1. dec.next_ts \in Nat /\ up.bs = dec.next_ts .. (d - 1) /\ d = up.pos
          BY <1>8, <1>9, <2>2, <3>2
        <4> HIDE DEF d
        <4> QED BY <1>4, <1>6, <4>1
      <3>4. ts = NONE => dec.next_ts = disp
        BY <1>4, <1>5, <3>3 DEF NONE
      <3>5. /\ ~dec'.ts_is_dts /\ dec'.last_out = y.ts /\ dec'.next_ts = disp + 1
            /\ \A o \in N : o.ts = o.disp
        <4>1. ~dec.ts_is_dts /\ dec.last_out \in Nat \cup {NONE}
          BY <1>8 DEF PtsTimes
        <4>2. y.disp \in Nat /\ dec.last_out < y.disp /\ y.ts \in {NONE, y.disp} /\ (y.ts = NONE => dec.next_ts = y.disp)
          BY <1>4, <1>5, <3>1, <3>2, <3>4
        <4>3. TimesGo(dec, y, ts, dec', N) /\ \A o \in N : Copy(o, y)
          BY <3>1
        <4>4. /\ ~dec'.ts_is_dts /\ dec'.last_out = y.ts /\ dec'.next_ts = y.disp + 1
              /\ \A o \in N : o.ts = o.disp
          BY <4>1, <4>2, <4>3, OwnGoes
        <4> QED BY <3>1, <4>4
      <3>6. dec'.last_out \in {disp, NONE}
        BY <1>5, <3>1, <3>5
      <3>7. dec'.last_out < up.pos /\ \A b \in up'.bs : dec'.last_out < b
        BY <1>4, <1>6, <3>6 DEF NONE
      <3>8. {dec'.last_out, dec'.next_ts} \subseteq Nat \cup {NONE}
        BY <1>4, <3>5, <3>6
      <3>9. Came(N)
        BY <1>7, <3>1, LeaveCame
      <3> QED BY <3>3, <3>5, <3>7, <3>8, <3>9
    <2> QED BY <1>3, <2>1, <2>2 DEF BetweenTimed
  <1>11. PICK N : /\ Came(N) /\ \A o \in N : o.ts = o.disp
                  /\ ~dec'.ts_is_dts /\ {dec'.last_out, dec'.next_ts} \subseteq Nat \cup {NONE}
                  /\ dec'.last_out < up.pos /\ \A b \in up'.bs : dec'.last_out < b
                  /\ stream.Untimed /\ dec.codec.last # NoPic => \A p \in Held :
                        dec'.next_ts = disp + 1 /\ dec.next_ts = disp
    BY <1>10
  <1>12. /\ OwnTime' /\ TimesRise'
         /\ \A f \in Frames(dec'.queued) : f.ts = f.disp
         /\ Last' # NoOutput => Last'.ts = Last'.disp
    BY <1>5, <1>11, PtsShown
  <1>13. TimesKnown'
    BY <1>1, <1>2, <1>4, <1>5, <1>6, <1>8, <1>11 DEF TimesKnown
  <1>14. ASSUME stream.Untimed, dec.codec.last # NoPic, NEW p \in Held
         PROVE  dec'.next_ts \in Nat /\ dec'.next_ts <= p.disp /\ up'.bs = dec'.next_ts .. (p.disp - 1)
    <2>1. dec'.next_ts = disp + 1 /\ dec.next_ts = disp
      BY <1>11, <1>14
    <2>2. dec.next_ts <= p.disp /\ up.bs = dec.next_ts .. (p.disp - 1) /\ p.disp = up.pos
      BY <1>8, <1>9, <1>14
    <2>3. up.bs = disp .. (up.pos - 1)
      BY <2>1, <2>2
    <2>4. up'.bs = (disp + 1) .. (up.pos - 1)
      BY <1>4, <1>6, <2>3
    <2>5. disp < up.pos
      BY <1>4, <1>6
    <2> QED BY <1>4, <1>6, <2>1, <2>2, <2>4, <2>5
  <1>15. /\ \A p \in Held : p.ts \in {NONE, p.disp}
         /\ \A p \in Held : p.ts = NONE => stream.Untimed /\ dec.codec.last # NoPic
    BY DEF PtsTimes
  <1>16. dec'.last_out <= up.pos
    BY <1>6, <1>11 DEF NONE
  <1>17. PtsTimes'
    BY <1>4, <1>5, <1>8, <1>11, <1>12, <1>13, <1>14, <1>15, <1>16 DEF PtsTimes
  <1> QED BY <1>12, <1>17

(* Before the first segment nothing is there to be drained.                *)
LEMMA QuietDrain ==
    ASSUME RunsInv, ~up.segment, NEW N, LeaveAll(N), NEW in_ts, NEW e, NEW timed, Fate(N, in_ts, e, timed), prev' = Last
    PROVE  pushed' = <<>> /\ dec'.queued = <<>> /\ Last' = NoOutput /\ Neighbours' = {}
  <1>1. dec.codec.next = NoPic /\ dec.queued = <<>> /\ pushed = <<>> /\ prev = NoOutput
    BY DEF RunsInv, RunBegins
  <1>2. Last = NoOutput /\ N = {}
    BY <1>1 DEF Last, Fate
  <1>3. pushed' = <<>> /\ dec'.queued = <<>>
    BY <1>1, <1>2 DEF LeaveAll
  <1> QED BY <1>2, <1>3, PushNothing

(* What a drain leaves, or nothing, is the element's.                      *)
AfterDrain(z) ==
    /\ DrainSent(z) /\ dec'.codec.next = NoPic
    /\ dec'.ts_handler = z.ts_handler /\ dec'.waiting_for_key = z.waiting_for_key
    /\ \/ /\ dec'.last_out = z.last_out /\ dec'.next_ts = z.next_ts
          /\ dec'.ts_is_dts = z.ts_is_dts /\ dec'.has_b_frames = z.has_b_frames
       \/ dec'.last_out = NONE /\ dec'.next_ts = NONE /\ ~dec'.ts_is_dts
    /\ (stream.Untimed => up.bs = {}) /\ up'.run = up.run
    /\ up.segment => dec'.segment.rate = dec.segment.rate
    /\ up'.key \/ (up'.eos /\ up'.key = up.key)
    /\ ~up'.mark \/ dec'.segment.rate > 0 =>
          /\ up'.pos \in Nat \cup {NONE}
          /\ up.run = 0 \/ (up'.pos = up.pos /\ (~up.mark \/ dec.segment.rate > 0))

(* A drain leaves the frames their own times, and these rise.              *)
LEMMA DrainedPts ==
    ASSUME RunsInv, Places, OutOrder, PtsTimes, DisplayOrder', count'.errors = 0, stream' = stream,
           NEW z, AfterDrain(z)
    PROVE  PtsTimes' /\ OwnTime' /\ TimesRise'
  <1>1. TimesKnown /\ DrainSent(z)
    BY DEF PtsTimes, AfterDrain
  <1>2. /\ prev' = Last /\ z.ts_handler = <<>> /\ (z.waiting_for_key => up.run = 0)
    BY <1>1, DrainTimes
  <1>3. PICK N : LeaveAll(N) /\ Fate(N, NONE, z, TRUE)
    BY <1>1, DrainTimes
  <1>4. PtsGoes(N, z)
    BY <1>3, PtsFate DEF AfterDrain
  <1>5. Came(N) /\ dec'.queued = <<>>
    BY <1>2, <1>3, LeaveAllCame
  <1>6. OwnTime' /\ TimesRise' /\ (Last' # NoOutput => Last'.ts = Last'.disp)
    <2>1. CASE up.segment
      <3>1. dec'.segment.rate = dec.segment.rate /\ \A o \in N : o.ts = o.disp
        BY <1>4, <2>1 DEF AfterDrain, PtsGoes
      <3> QED BY <1>5, <3>1, PtsShown
    <2>2. CASE ~up.segment
      BY <1>2, <1>3, <2>2, QuietDrain, NothingTimed
    <2> QED BY <2>1, <2>2
  <1>7. Held' = {} /\ Frames(dec'.queued) = {}
    BY <1>5, FramesEmpty DEF Held, AfterDrain
  <1>8. /\ ~dec'.ts_is_dts /\ {dec'.last_out, dec'.next_ts} \subseteq Nat \cup {NONE}
        /\ dec'.last_out = NONE \/ dec'.last_out = z.last_out
        /\ up.run = 0 => dec'.last_out = NONE /\ dec'.next_ts = NONE
    <2>1. up.run = 0 => dec.last_out = NONE /\ dec.next_ts = NONE /\ dec.codec.next = NoPic
      BY <1>1 DEF TimesKnown, RunsInv, RunBegins
    <2> QED BY <1>4, <2>1 DEF PtsGoes, AfterDrain
  <1>9. TimesKnown'
    BY <1>1, <1>2, <1>7, <1>8 DEF TimesKnown, AfterDrain
  <1>10. ASSUME ~up'.mark \/ dec'.segment.rate > 0 PROVE dec'.last_out <= up'.pos
    <2>1. CASE up.run = 0
      BY <1>8, <1>10, <2>1 DEF AfterDrain, NONE
    <2>2. CASE up.run # 0
      <3>1. up'.pos = up.pos /\ (~up.mark \/ dec.segment.rate > 0) /\ up.pos \in Nat \cup {NONE}
        BY <1>10, <2>2 DEF AfterDrain
      <3>2. dec.last_out <= up.pos
        BY <3>1 DEF PtsTimes
      <3>3. dec.codec.next # NoPic => dec.codec.next.disp <= up.pos /\ dec.codec.next.disp \in Nat
        BY <3>1 DEF OutOrder, Held
      <3>4. z.last_out <= up.pos
        BY <1>4, <3>1, <3>2, <3>3 DEF PtsGoes, NONE
      <3> QED BY <1>8, <3>1, <3>4 DEF NONE
    <2> QED BY <2>1, <2>2
  <1>11. PtsTimes'
    BY <1>6, <1>7, <1>8, <1>9, <1>10 DEF PtsTimes
  <1> QED BY <1>6, <1>11

(* The drains of the element.                                              *)
LEMMA EosDrain ==
    ASSUME RunsInv, Places, EosSent, count.errors = 0
    PROVE  AfterDrain(dec')
  <1>1. DrainSent(dec')
    BY DEF EosSent
  <1>2. dec'.codec.next = NoPic /\ dec'.segment = dec.segment
    BY <1>1 DEF DrainSent, Rested
  <1> QED BY <1>1, <1>2 DEF EosSent, SamePlace, AfterDrain, Places

(* New caps drain, with nothing of the stream in between.                  *)
LEMMA SetCapsDrain ==
    ASSUME RunsInv, Places, SetCapsSent, count.errors = 0
    PROVE  \E z : AfterDrain(z)
  <1>1. PICK z : /\ DrainSent(z)
                 /\ dec'.codec = CodecInit /\ dec'.last_out = NONE /\ dec'.next_ts = NONE
                 /\ dec'.ts_is_dts = FALSE /\ dec'.waiting_for_key = z.waiting_for_key
                 /\ dec'.segment = z.segment /\ dec'.ts_handler = z.ts_handler
    BY DEF SetCapsSent
  <1>2. dec'.segment = dec.segment /\ dec'.codec.next = NoPic
    BY <1>1 DEF DrainSent, Rested, CodecInit
  <1>3. AfterDrain(z)
    BY <1>1, <1>2 DEF SetCapsSent, SamePlace, AfterDrain, Places
  <1> QED BY <1>3

(* A segment drains, and goes on where the stream was unless upstream jumps. *)
LEMMA NewSegmentDrain ==
    ASSUME RunsInv, Places, NewSegmentSent, count.errors = 0, ~stream.AnyStart
    PROVE  \E z : /\ AfterDrain(z) /\ dec'.last_out = z.last_out /\ dec'.next_ts = z.next_ts
                  /\ dec'.ts_is_dts = z.ts_is_dts /\ dec'.has_b_frames = z.has_b_frames
  <1>1. PICK z : /\ DrainSent(z)
                 /\ dec'.codec = z.codec /\ dec'.last_out = z.last_out /\ dec'.next_ts = z.next_ts
                 /\ dec'.ts_is_dts = z.ts_is_dts /\ dec'.has_b_frames = z.has_b_frames
                 /\ dec'.waiting_for_key = z.waiting_for_key /\ dec'.ts_handler = z.ts_handler
    BY DEF NewSegmentSent
  <1>2. dec'.codec.next = NoPic
    BY <1>1 DEF DrainSent, Rested
  <1>3. ASSUME ~up'.mark \/ dec'.segment.rate > 0
        PROVE  up.run = 0 \/ (up'.pos = up.pos /\ (~up.mark \/ dec.segment.rate > 0))
    <2>1. CASE up.segment
      <3>1. dec'.segment.rate > 0
        BY <1>3 DEF NewSegmentSent
      <3> QED BY <2>1, <3>1 DEF NewSegmentSent
    <2>2. CASE ~up.segment
      BY <2>2 DEF RunsInv, RunBegins
    <2> QED BY <2>1, <2>2
  <1>4. AfterDrain(z)
    BY <1>1, <1>2, <1>3 DEF NewSegmentSent, AfterDrain
  <1> QED BY <1>1, <1>4

(* After a flush or a restart nothing is held or shown.                    *)
LEMMA AnewQuiet ==
    ASSUME NEW flushed, AnewSent(flushed)
    PROVE  /\ pushed' = <<>> /\ Last' = NoOutput /\ Neighbours' = {} /\ Held' = {}
           /\ Frames(dec'.queued) = {} /\ dec'.codec.next = NoPic
  <1>1. pushed' = <<>> /\ prev' = NoOutput /\ dec'.codec.next = NoPic /\ dec'.queued = <<>>
    BY DEF AnewSent, CodecInit
  <1>2. Shown' = <<>>
    <2>1. <<>> \o <<>> = <<>>
      OBVIOUS
    <2> QED BY <1>1, <2>1 DEF Shown
  <1>3. Len(Shown') = 0
    BY <1>2
  <1> QED BY <1>1, <1>3, FramesEmpty DEF Last, Held, Neighbours

(* A flush or a restart leaves no time behind.                             *)
LEMMA AnewPts ==
    ASSUME Places, PtsTimes, NEW flushed \in BOOLEAN, AnewSent(flushed), ~stream.AnyStart
    PROVE  PtsTimes' /\ OwnTime' /\ TimesRise'
  <1>1. /\ pushed' = <<>> /\ Last' = NoOutput /\ Neighbours' = {} /\ Held' = {}
        /\ Frames(dec'.queued) = {}
    BY AnewQuiet
  <1>2. /\ up'.bs = {} /\ up'.mark /\ up'.run = 0 /\ up'.key /\ up'.pos = up.pos
        /\ dec'.last_out = NONE /\ dec'.next_ts = NONE /\ dec'.ts_handler = <<>> /\ ~dec'.ts_is_dts
    BY DEF AnewSent, PtsTimes, TimesKnown
  <1>3. NONE <= up.pos
    BY DEF Places, NONE
  <1>4. TimesKnown'
    BY <1>1, <1>2 DEF TimesKnown
  <1>5. PtsTimes'
    BY <1>1, <1>2, <1>3, <1>4 DEF PtsTimes
  <1> QED BY <1>1, <1>5, NothingTimed

-----------------------------------------------------------------------------
(* Decoding times.                                                         *)

(* A picture that leaves behind L leaves later, and what leaves next later *)
(* still: as soon as the decoding times are not in order they are taken    *)
(* for what they are.                                                      *)
LEMMA DecodedGoes ==
    ASSUME NEW x, x.ts \in Nat, {dec.last_out, dec.next_ts} \subseteq Nat \cup {NONE},
           dec.last_out # x.ts, dec.last_out < x.ts \/ dec.has_b_frames, dec.ts_is_dts => dec.has_b_frames,
           x.kind = "B" => dec.last_out < x.ts,
           NEW in_ts, NEW e, NEW N, TimesGo(dec, x, in_ts, e, N)
    PROVE  \E time \in Nat :
              /\ e.last_out = x.ts /\ e.next_ts = time + 1 /\ (\A o \in N : o.ts = time /\ Behind(o, e))
              /\ (e.ts_is_dts => e.has_b_frames) /\ time \in {x.ts, dec.next_ts}
              /\ x.kind = "B" => time = x.ts /\ e.has_b_frames
              /\ \A l : Behind(l, dec) /\ (x.kind = "B" => l.ts < x.ts) => l.ts < time /\ Behind(l, e)
  <1>1. PICK time : /\ TimesOf(dec, x, in_ts, e, time)
                    /\ ~Zeros(dec, x) => e.next_ts = (IF time # NONE THEN time + 1 ELSE dec.next_ts)
                    /\ \A o \in N : o.ts = time
    BY DEF TimesGo
  <1>2. ~Zeros(dec, x)
    BY DEF Zeros
  <1>3. /\ e.last_out = x.ts
        /\ e.ts_is_dts <=> dec.ts_is_dts \/ (dec.last_out # NONE /\ dec.last_out > x.ts)
        /\ e.has_b_frames <=> dec.has_b_frames \/ x.kind = "B"
        /\ time = IF ~(e.ts_is_dts /\ e.has_b_frames /\ x.kind # "B" /\ dec.next_ts # NONE) THEN x.ts ELSE dec.next_ts
    <2>1. /\ e.last_out = x.ts
          /\ e.ts_is_dts <=> dec.ts_is_dts \/ (dec.last_out # NONE /\ x.ts # NONE /\ dec.last_out > x.ts)
          /\ e.has_b_frames <=> dec.has_b_frames \/ x.kind = "B"
          /\ time = IF x.ts # NONE /\ ~(e.ts_is_dts /\ e.has_b_frames /\ x.kind # "B" /\ dec.next_ts # NONE)
                     THEN x.ts ELSE IF dec.next_ts # NONE THEN dec.next_ts ELSE in_ts
      BY <1>1, <1>2 DEF TimesOf
    <2>2. x.ts # NONE
      BY DEF NONE
    <2> QED BY <2>1, <2>2
  <1>4. time \in Nat /\ e.next_ts = time + 1 /\ time \in {x.ts, dec.next_ts}
    BY <1>1, <1>2, <1>3 DEF NONE
  <1>5. e.ts_is_dts => e.has_b_frames
    BY <1>3 DEF NONE
  <1>6. ~e.ts_is_dts => time = x.ts /\ ~dec.ts_is_dts /\ (dec.last_out = NONE \/ dec.last_out < x.ts)
    BY <1>3 DEF NONE
  <1>7. x.kind = "B" => time = x.ts /\ e.has_b_frames
    BY <1>3
  <1>8. \A o \in N : o.ts = time /\ Behind(o, e)
    BY <1>1, <1>3, <1>4, <1>6 DEF Behind, NONE
  <1>9. ASSUME NEW l, Behind(l, dec), x.kind = "B" => l.ts < x.ts
        PROVE  l.ts < time /\ Behind(l, e)
    <2>1. l.ts \in Nat /\ l.ts < dec.next_ts /\ dec.next_ts # NONE
          /\ (~dec.ts_is_dts => dec.last_out # NONE /\ l.ts <= dec.last_out)
      BY <1>9 DEF Behind
    <2>2. l.ts < time
      <3>1. CASE time = dec.next_ts
        BY <2>1, <3>1
      <3>2. CASE time = x.ts /\ x.kind = "B"
        BY <1>9, <3>2
      <3>3. CASE time = x.ts /\ x.kind # "B"
        <4>1. CASE e.ts_is_dts
          BY <1>3, <1>5, <2>1, <3>3, <4>1
        <4>2. CASE ~e.ts_is_dts
          BY <1>6, <2>1, <3>3, <4>2 DEF NONE
        <4> QED BY <1>3, <4>1, <4>2
      <3> QED BY <1>4, <3>1, <3>2, <3>3
    <2>3. Behind(l, e)
      BY <1>3, <1>4, <1>6, <2>1, <2>2 DEF Behind, NONE
    <2> QED BY <2>2, <2>3
  <1> QED BY <1>3, <1>4, <1>5, <1>7, <1>8, <1>9

(* What the codec held leaves later than what left before it.              *)
DtsGoes(N, e) ==
    /\ (e.ts_is_dts => e.has_b_frames) /\ {e.last_out, e.next_ts} \subseteq Nat \cup {NONE}
    /\ dec.codec.next = NoPic => N = {} /\ e.last_out = dec.last_out /\ e.next_ts = dec.next_ts
    /\ dec.codec.next # NoPic => e.last_out <= dec.codec.next.disp /\ e.next_ts <= dec.codec.next.disp + 2
    /\ \A o \in N : o.run = up.run /\ Behind(o, e)
    /\ \A l : Behind(l, dec) => Behind(l, e) /\ \A o \in N : l.ts < o.ts

(* What leaves, the frame the codec held, goes behind the frames before it. *)
LEMMA DtsFate ==
    ASSUME RunsInv, OutOrder, DtsTimes, Calm(dec), NEW N, NEW in_ts, NEW e, Fate(N, in_ts, e, TRUE)
    PROVE  DtsGoes(N, e)
  <1>1. {dec.last_out, dec.next_ts} \subseteq Nat \cup {NONE} /\ (dec.ts_is_dts => dec.has_b_frames)
    BY DEF DtsTimes, TimesKnown
  <1>2. CASE dec.codec.next = NoPic
    <2>1. /\ N = {} /\ e.next_ts = dec.next_ts /\ e.has_b_frames = dec.has_b_frames
          /\ e.last_out = dec.last_out /\ e.ts_is_dts = dec.ts_is_dts
      BY <1>2 DEF Fate, Rest
    <2> QED BY <1>1, <1>2, <2>1 DEF DtsGoes, Behind
  <1>3. CASE dec.codec.next # NoPic
    <2> DEFINE x == dec.codec.next
    <2>1. x \in Held
      BY <1>3 DEF Held
    <2>2. /\ x.disp \in Nat /\ x.ts \in Nat /\ x.ts <= x.disp /\ dec.last_out # x.ts /\ x.kind # "B"
          /\ dec.last_out < x.ts \/ dec.has_b_frames
          /\ dec.next_ts <= x.disp + 1
      BY <2>1 DEF OutOrder, DtsTimes, TimesKnown
    <2>3. x.run = up.run
      BY <1>3 DEF RunsInv, HeldIsCurrent
    <2>4. TimesGo(dec, x, in_ts, e, N) /\ \A o \in N : Copy(o, x)
      BY <1>3 DEF Fate
    <2> HIDE DEF x
    <2>6. PICK time \in Nat :
              /\ e.last_out = x.ts /\ e.next_ts = time + 1 /\ (\A o \in N : o.ts = time /\ Behind(o, e))
              /\ (e.ts_is_dts => e.has_b_frames) /\ time \in {x.ts, dec.next_ts}
              /\ \A l : Behind(l, dec) => l.ts < time /\ Behind(l, e)
      BY <1>1, <2>2, <2>4, DecodedGoes
    <2>7. e.next_ts <= x.disp + 2 /\ e.last_out <= x.disp /\ {e.last_out, e.next_ts} \subseteq Nat \cup {NONE}
      BY <2>2, <2>6
    <2>8. \A o \in N : o.run = up.run
      BY <2>3, <2>4 DEF Copy, Like
    <2> QED BY <1>3, <2>6, <2>7, <2>8 DEF DtsGoes, x
  <1> QED BY <1>2, <1>3

(* What the frames of a step show of the times.                            *)
LEMMA DtsShown ==
    ASSUME RunsInv, DtsTimes, dec'.segment.rate = dec.segment.rate, NEW N, Came(N), NEW e,
           N # {} => up.run > 0, \A o \in N : o.run = up.run /\ Behind(o, e),
           \A l : Behind(l, dec) /\ l.run = up.run /\ dec.segment.rate > 0 =>
              Behind(l, e) /\ \A o \in N : l.ts < o.ts
    PROVE  /\ TimesRise'
           /\ dec.segment.rate > 0 /\ up.run > 0 /\ Last'.run = up.run => Behind(Last', e)
  <1>1. ASSUME dec.segment.rate > 0, up.run > 0, Last.run = up.run
        PROVE  Behind(Last, e) /\ \A o \in N : Last.ts < o.ts
    BY <1>1 DEF DtsTimes
  <1>2. TimesRise'
    <2> SUFFICES ASSUME NEW n \in Neighbours', dec.segment.rate > 0, n[1].run = n[2].run PROVE n[1].ts < n[2].ts
      BY DEF TimesRise
    <2>1. n[1] = Last /\ n[2] \in N
      BY DEF Came
    <2> QED BY <1>1, <2>1
  <1>3. dec.segment.rate > 0 => Last' \in {Last} \cup N
    BY DEF Came
  <1> QED BY <1>1, <1>2, <1>3

(* A reference.                                                            *)
LEMMA ReferenceDts ==
    ASSUME RunsInv, Places, QosTimes, OutOrder, DtsTimes, Aligned(stream), up.mode = "dts", Calm(dec),
           SendReference, stream' = stream, count'.errors = 0
    PROVE  DtsTimes' /\ TimesRise'
  <1>1. TimesKnown
    BY DEF DtsTimes
  <1>2. Counted
    BY <1>1, RefTimes
  <1>3. PICK kind, disp, ts : RefTimed(kind, disp, ts)
    BY <1>1, RefTimes
  <1>4. /\ ~up.eos /\ up.bs = {} /\ disp \in Int /\ up.pos < disp /\ kind \in {"I", "P"}
        /\ up'.pos = disp /\ up'.ref = up.pos /\ up'.bs = (up.pos + 1) .. (disp - 1) /\ ~up'.mark /\ ~up'.eos
        /\ up'.run = IF up.mark THEN up.run + 1 ELSE up.run
    BY <1>3 DEF RefTimed, RefSent
  <1>5. /\ ts = up.pos + 1
        /\ dec'.codec.next # NoPic /\ dec'.codec.next.disp = disp /\ dec'.codec.next.kind = kind
        /\ dec'.codec.next.ts = ts
        /\ ~dec'.waiting_for_key /\ dec'.ts_handler = <<>> /\ dec'.segment = dec.segment
    BY <1>3 DEF RefTimed
  <1>6. /\ up.pos \in Nat \cup {NONE} /\ up.run \in Nat /\ (up.run = 0 => up.mark /\ dec.codec.next = NoPic)
        /\ dec.segment.rate > 0 => (down => Last.run \in 0 .. up.run)
    BY DEF Places, RunsInv, DecTypeOK, Upstream, RunBegins, MarkDue
  <1>7. prev' = Last /\ down
    BY <1>2 DEF Counted
  <1>8. Held' = {dec'.codec.next}
    BY <1>5 DEF Held
  <1>9. ts \in Nat /\ ts <= disp
    BY <1>4, <1>5, <1>6 DEF NONE
  <1>10. \E N, e : /\ Came(N) /\ DtsGoes(N, e)
                   /\ {dec'.last_out, dec'.next_ts} \subseteq Nat \cup {NONE}
                   /\ dec'.last_out <= up.pos /\ dec'.next_ts <= up.pos + 2
                   /\ dec'.ts_is_dts => dec'.has_b_frames
                   /\ up.mark \/ e = dec'
    <2>1. CASE up.mark
      <3>1. PICK z, N : /\ (dec'.ts_is_dts => z.ts_is_dts) /\ dec'.has_b_frames = z.has_b_frames
                        /\ LeaveAll(N) /\ Fate(N, NONE, z, TRUE)
                        /\ dec'.next_ts = NONE /\ dec'.last_out = NONE
        BY <1>3, <2>1 DEF RefTimed
      <3>2. Came(N)
        BY <1>7, <3>1, LeaveAllCame
      <3>3. DtsGoes(N, z)
        BY <3>1, DtsFate
      <3>4. dec'.last_out <= up.pos /\ dec'.next_ts <= up.pos + 2
        BY <1>6, <3>1 DEF NONE
      <3>5. dec'.ts_is_dts => dec'.has_b_frames
        BY <3>1, <3>3 DEF DtsGoes
      <3> QED BY <2>1, <3>1, <3>2, <3>3, <3>4, <3>5
    <2>2. CASE ~up.mark
      <3>1. PICK N : Leave(N) /\ Fate(N, ts, dec', TRUE)
        BY <1>3, <2>2 DEF RefTimed
      <3>2. Came(N)
        BY <1>7, <3>1, LeaveCame
      <3>3. DtsGoes(N, dec')
        BY <3>1, DtsFate
      <3>4. dec.codec.next # NoPic => dec.codec.next.disp = up.pos
        BY <1>4, <2>2 DEF DtsTimes, Held
      <3>5. dec.last_out <= up.pos /\ dec.next_ts <= up.pos + 2
        BY <2>2 DEF DtsTimes
      <3>6. dec'.last_out <= up.pos /\ dec'.next_ts <= up.pos + 2
        BY <3>3, <3>4, <3>5 DEF DtsGoes
      <3>7. (dec'.ts_is_dts => dec'.has_b_frames) /\ {dec'.last_out, dec'.next_ts} \subseteq Nat \cup {NONE}
        BY <3>3 DEF DtsGoes
      <3> QED BY <3>2, <3>3, <3>6, <3>7
    <2> QED BY <2>1, <2>2
  <1>11. PICK N, e : /\ Came(N) /\ DtsGoes(N, e)
                     /\ {dec'.last_out, dec'.next_ts} \subseteq Nat \cup {NONE}
                     /\ dec'.last_out <= up.pos /\ dec'.next_ts <= up.pos + 2
                     /\ dec'.ts_is_dts => dec'.has_b_frames
                     /\ up.mark \/ e = dec'
    BY <1>10
  <1>12. N # {} => up.run > 0
    BY <1>6, <1>11 DEF DtsGoes
  <1>13. /\ TimesRise'
         /\ dec.segment.rate > 0 /\ up.run > 0 /\ Last'.run = up.run => Behind(Last', e)
    <2>1. /\ \A o \in N : o.run = up.run /\ Behind(o, e)
          /\ \A l : Behind(l, dec) /\ l.run = up.run /\ dec.segment.rate > 0 =>
                Behind(l, e) /\ \A o \in N : l.ts < o.ts
      BY <1>11 DEF DtsGoes
    <2> QED BY <1>5, <1>11, <1>12, <2>1, DtsShown
  <1>14. ASSUME dec'.segment.rate > 0, up'.run > 0, Last'.run = up'.run PROVE Behind(Last', dec')
    <2>1. CASE up.mark
      <3>1. Last' = Last \/ Last' \in N
        BY <1>5, <1>11, <1>14 DEF Came
      <3>2. Last'.run # up.run + 1
        BY <1>5, <1>6, <1>7, <1>11, <1>14, <3>1 DEF DtsGoes
      <3> QED BY <1>4, <1>14, <2>1, <3>2
    <2>2. CASE ~up.mark
      BY <1>4, <1>5, <1>11, <1>13, <1>14, <2>2
    <2> QED BY <2>1, <2>2
  <1>15. TimesKnown'
    BY <1>4, <1>5, <1>6, <1>8, <1>11 DEF TimesKnown
  <1>16. dec'.last_out < ts
    BY <1>5, <1>6, <1>11 DEF NONE
  <1>17. dec'.last_out # ts
    BY <1>9, <1>16
  <1>18. /\ dec'.last_out <= disp /\ dec'.next_ts <= disp + 2 /\ dec'.next_ts <= disp + 1
         /\ \A b \in up'.bs : dec'.next_ts <= b + 1 /\ dec'.last_out <= b
    <2>1. /\ up.pos \in Int /\ disp \in Int /\ dec'.last_out \in Int /\ dec'.next_ts \in Int
          /\ up.pos < disp /\ dec'.last_out <= up.pos /\ dec'.next_ts <= up.pos + 2
      BY <1>4, <1>6, <1>11 DEF NONE
    <2>2. \A b \in up'.bs : b \in Int /\ up.pos + 1 <= b
      BY <1>4, <2>1
    <2> QED BY <2>1, <2>2
  <1>19. DtsTimes'
    BY <1>4, <1>5, <1>8, <1>9, <1>11, <1>14, <1>15, <1>16, <1>17, <1>18 DEF DtsTimes
  <1> QED BY <1>13, <1>19

(* A B frame.                                                              *)
LEMMA BetweenDts ==
    ASSUME RunsInv, Places, QosTimes, OutOrder, DtsTimes, Aligned(stream), up.mode = "dts", Calm(dec),
           SendB, stream' = stream, count'.errors = 0
    PROVE  DtsTimes' /\ TimesRise'
  <1>1. TimesKnown
    BY DEF DtsTimes
  <1>2. Counted /\ ~up.mark
    BY <1>1, BetweenTimes
  <1>3. PICK disp, ts : BetweenTimed(disp, ts)
    BY <1>1, BetweenTimes
  <1>4. /\ disp \in up.bs /\ ~up.eos /\ (\A other \in up.bs : disp <= other) /\ disp \in Nat
        /\ up'.bs = up.bs \ {disp} /\ ~up'.mark /\ up'.pos = up.pos /\ up'.ref = up.ref /\ ~up'.eos
        /\ up'.run = up.run /\ up'.key = up.key
    BY <1>3 DEF BetweenTimed, BetweenSent
  <1>5. /\ ts = disp + 1
        /\ dec'.codec = dec.codec /\ ~dec'.waiting_for_key /\ dec'.ts_handler = <<>> /\ dec'.segment = dec.segment
    BY <1>3 DEF BetweenTimed
  <1>6. /\ up.pos \in Nat /\ (\A b \in up.bs : b \in Nat /\ b < up.pos) /\ up.run # 0 /\ up.run \in Nat
        /\ up.ref \in Int /\ up.ref < disp
    BY <1>2, <1>4 DEF Places, NONE, RunsInv, RunBegins, DecTypeOK, Upstream
  <1>7. prev' = Last
    BY <1>2 DEF Counted
  <1>8. Held' = Held /\ Held = {dec.codec.next} /\ dec.codec.next # NoPic
    <2>1. ~up.key
      BY <1>4 DEF Places
    <2> QED BY <1>1, <1>2, <1>4, <1>5, <2>1 DEF TimesKnown, Held
  <1>9. /\ \A p \in Held : /\ p.ts = up.ref + 1 /\ p.disp = up.pos
                           /\ p.ts \in Nat /\ p.ts <= p.disp /\ dec.last_out # p.ts
                           /\ dec.last_out < p.ts \/ dec.has_b_frames
        /\ dec.last_out <= up.pos /\ dec.next_ts <= up.pos + 2 /\ dec.next_ts <= up.pos + 1
        /\ \A b \in up.bs : dec.next_ts <= b + 1 /\ dec.last_out <= b
        /\ {dec.last_out, dec.next_ts} \subseteq Nat \cup {NONE} /\ (dec.ts_is_dts => dec.has_b_frames)
    BY <1>1, <1>2, <1>4, <1>8 DEF DtsTimes, TimesKnown
  <1>10. \E N : /\ Came(N) /\ \A o \in N : o.run = up.run /\ Behind(o, dec')
                /\ \A l : Behind(l, dec) => Behind(l, dec') /\ \A o \in N : l.ts < o.ts
                /\ {dec'.last_out, dec'.next_ts} \subseteq Nat \cup {NONE}
                /\ dec'.ts_is_dts => dec'.has_b_frames
                /\ \/ dec'.has_b_frames /\ dec'.last_out = disp + 1 /\ dec'.next_ts = disp + 2
                   \/ /\ dec'.has_b_frames = dec.has_b_frames
                      /\ dec'.last_out = dec.last_out /\ dec'.next_ts = dec.next_ts
    <2>1. CASE Leave({}) /\ Rest(dec, dec')
      <3>1. Came({})
        BY <1>7, <2>1, LeaveCame
      <3>2. /\ dec'.last_out = dec.last_out /\ dec'.next_ts = dec.next_ts
            /\ dec'.ts_is_dts = dec.ts_is_dts /\ dec'.has_b_frames = dec.has_b_frames
        BY <2>1 DEF Rest
      <3>3. \A l : Behind(l, dec) => Behind(l, dec')
        BY <3>2 DEF Behind
      <3> QED BY <1>9, <3>1, <3>2, <3>3
    <2>2. CASE \E N, y : /\ y.disp = disp /\ y.kind = "B" /\ y.ts = ts /\ y.run = up.run
                         /\ Leave(N) /\ (\A o \in N : Copy(o, y)) /\ TimesGo(dec, y, ts, dec', N)
      <3>1. PICK N, y : /\ y.disp = disp /\ y.kind = "B" /\ y.ts = ts /\ y.run = up.run
                        /\ Leave(N) /\ (\A o \in N : Copy(o, y)) /\ TimesGo(dec, y, ts, dec', N)
        BY <2>2
      <3>2. /\ y.ts \in Nat /\ dec.last_out # y.ts /\ dec.last_out < y.ts /\ dec.next_ts <= y.ts
        BY <1>4, <1>5, <1>9, <3>1 DEF NONE
      <3>3. PICK time \in Nat :
              /\ dec'.last_out = y.ts /\ dec'.next_ts = time + 1 /\ (\A o \in N : o.ts = time /\ Behind(o, dec'))
              /\ (dec'.ts_is_dts => dec'.has_b_frames)
              /\ time = y.ts /\ dec'.has_b_frames
              /\ \A l : Behind(l, dec) /\ l.ts < y.ts => l.ts < time /\ Behind(l, dec')
        BY <1>9, <3>1, <3>2, DecodedGoes
      <3>4. \A l : Behind(l, dec) => l.ts < y.ts
        BY <1>9, <3>2 DEF Behind
      <3>5. dec'.last_out = disp + 1 /\ dec'.next_ts = disp + 2
        BY <1>4, <1>5, <3>1, <3>3
      <3>6. \A o \in N : o.run = up.run
        BY <3>1 DEF Copy, Like
      <3>7. Came(N)
        BY <1>7, <3>1, LeaveCame
      <3>8. {dec'.last_out, dec'.next_ts} \subseteq Nat \cup {NONE}
        BY <1>4, <3>5
      <3>9. \A l : Behind(l, dec) => Behind(l, dec') /\ \A o \in N : l.ts < o.ts
        BY <3>3, <3>4
      <3> QED BY <3>3, <3>5, <3>6, <3>7, <3>8, <3>9
    <2> QED BY <1>3, <2>1, <2>2 DEF BetweenTimed
  <1>11. PICK N : /\ Came(N) /\ \A o \in N : o.run = up.run /\ Behind(o, dec')
                  /\ \A l : Behind(l, dec) => Behind(l, dec') /\ \A o \in N : l.ts < o.ts
                  /\ {dec'.last_out, dec'.next_ts} \subseteq Nat \cup {NONE}
                  /\ dec'.ts_is_dts => dec'.has_b_frames
                  /\ \/ dec'.has_b_frames /\ dec'.last_out = disp + 1 /\ dec'.next_ts = disp + 2
                     \/ /\ dec'.has_b_frames = dec.has_b_frames
                        /\ dec'.last_out = dec.last_out /\ dec'.next_ts = dec.next_ts
    BY <1>10
  <1>12. /\ TimesRise'
         /\ dec.segment.rate > 0 /\ up.run > 0 /\ Last'.run = up.run => Behind(Last', dec')
    <2>1. N # {} => up.run > 0
      BY <1>6
    <2> QED BY <1>5, <1>11, <2>1, DtsShown
  <1>13. TimesKnown'
    BY <1>1, <1>2, <1>4, <1>5, <1>6, <1>8, <1>11 DEF TimesKnown
  <1>14. \A p \in Held : dec'.last_out # p.ts /\ (dec'.last_out < p.ts \/ dec'.has_b_frames)
    BY <1>4, <1>6, <1>9, <1>11
  <1>15. dec'.last_out <= up.pos /\ dec'.next_ts <= up.pos + 2 /\ dec'.next_ts <= up.pos + 1
    <2>1. disp \in Nat /\ disp < up.pos /\ up.pos \in Nat
      BY <1>4, <1>6
    <2> QED BY <1>9, <1>11, <2>1
  <1>16. \A b \in up'.bs : dec'.next_ts <= b + 1 /\ dec'.last_out <= b
    <2> SUFFICES ASSUME NEW b \in up.bs, b # disp PROVE dec'.next_ts <= b + 1 /\ dec'.last_out <= b
      BY <1>4
    <2>1. b \in Nat /\ disp < b
      BY <1>4, <1>6
    <2> QED BY <1>4, <1>9, <1>11, <2>1
  <1>17. DtsTimes'
    BY <1>4, <1>5, <1>8, <1>9, <1>11, <1>12, <1>13, <1>14, <1>15, <1>16 DEF DtsTimes
  <1> QED BY <1>12, <1>17

(* A drain.                                                                *)
LEMMA DrainedDts ==
    ASSUME RunsInv, Places, OutOrder, DtsTimes, Calm(dec), stream' = stream, NEW z, AfterDrain(z),
           dec'.last_out = z.last_out, dec'.next_ts = z.next_ts, dec'.ts_is_dts = z.ts_is_dts,
           dec'.has_b_frames = z.has_b_frames
    PROVE  DtsTimes' /\ TimesRise'
  <1>1. TimesKnown /\ DrainSent(z)
    BY DEF DtsTimes, AfterDrain
  <1>2. prev' = Last /\ z.ts_handler = <<>> /\ (z.waiting_for_key => up.run = 0)
    BY <1>1, DrainTimes
  <1>3. PICK N : LeaveAll(N) /\ Fate(N, NONE, z, TRUE)
    BY <1>1, DrainTimes
  <1>4. DtsGoes(N, z)
    BY <1>3, DtsFate
  <1>5. Came(N) /\ dec'.queued = <<>>
    BY <1>2, <1>3, LeaveAllCame
  <1>6. up.run \in Nat /\ (up.run = 0 => dec.codec.next = NoPic) /\ (~up.segment => up.run = 0)
    BY DEF RunsInv, RunBegins, DecTypeOK, Upstream
  <1>7. \A l : Behind(l, z) => Behind(l, dec')
    BY DEF Behind
  <1>8. /\ TimesRise'
        /\ dec'.segment.rate > 0 /\ up'.run > 0 /\ Last'.run = up'.run => Behind(Last', dec')
    <2>1. CASE up.segment
      <3>1. dec'.segment.rate = dec.segment.rate /\ up'.run = up.run
        BY <2>1 DEF AfterDrain
      <3>2. /\ N # {} => up.run > 0
            /\ \A o \in N : o.run = up.run /\ Behind(o, z)
            /\ \A l : Behind(l, dec) /\ l.run = up.run /\ dec.segment.rate > 0 =>
                  Behind(l, z) /\ \A o \in N : l.ts < o.ts
        BY <1>4, <1>6 DEF DtsGoes
      <3>3. /\ TimesRise'
            /\ dec.segment.rate > 0 /\ up.run > 0 /\ Last'.run = up.run => Behind(Last', z)
        BY <1>5, <3>1, <3>2, DtsShown
      <3> QED BY <1>7, <3>1, <3>3
    <2>2. CASE ~up.segment
      <3>1. TimesRise'
        BY <1>2, <1>3, <2>2, QuietDrain, NothingTimed
      <3> QED BY <1>6, <2>2, <3>1 DEF AfterDrain
    <2> QED BY <2>1, <2>2
  <1>9. Held' = {}
    BY DEF Held, AfterDrain
  <1>10. up.run = 0 => dec'.last_out = NONE /\ dec'.next_ts = NONE
    BY <1>1, <1>4, <1>6 DEF TimesKnown, DtsGoes
  <1>11. (dec'.ts_is_dts => dec'.has_b_frames) /\ {dec'.last_out, dec'.next_ts} \subseteq Nat \cup {NONE}
    BY <1>4 DEF DtsGoes
  <1>12. TimesKnown'
    BY <1>1, <1>2, <1>9, <1>10, <1>11 DEF TimesKnown, AfterDrain
  <1>13. ASSUME ~up'.mark \/ dec'.segment.rate > 0 PROVE dec'.last_out <= up'.pos /\ dec'.next_ts <= up'.pos + 2
    <2>1. CASE up.run = 0
      BY <1>10, <1>13, <2>1 DEF AfterDrain, NONE
    <2>2. CASE up.run # 0
      <3>1. up'.pos = up.pos /\ (~up.mark \/ dec.segment.rate > 0) /\ up.pos \in Nat \cup {NONE}
        BY <1>13, <2>2 DEF AfterDrain
      <3>2. dec.last_out <= up.pos /\ dec.next_ts <= up.pos + 2
        BY <3>1 DEF DtsTimes
      <3>3. dec.codec.next # NoPic => dec.codec.next.disp <= up.pos /\ dec.codec.next.disp \in Nat
        BY <3>1 DEF OutOrder, Held
      <3> QED BY <1>4, <1>11, <3>1, <3>2, <3>3 DEF DtsGoes, NONE
    <2> QED BY <2>1, <2>2
  <1>14. DtsTimes'
    BY <1>8, <1>9, <1>11, <1>12, <1>13 DEF DtsTimes
  <1> QED BY <1>8, <1>14

(* A flush or a restart leaves no decoding time behind.                    *)
LEMMA AnewDts ==
    ASSUME Places, DtsTimes, NEW flushed \in BOOLEAN, AnewSent(flushed), ~stream.AnyStart
    PROVE  DtsTimes' /\ TimesRise'
  <1>1. pushed' = <<>> /\ Neighbours' = {} /\ Held' = {}
    BY AnewQuiet
  <1>2. /\ up'.bs = {} /\ up'.mark /\ up'.run = 0 /\ up'.key /\ up'.pos = up.pos
        /\ dec'.last_out = NONE /\ dec'.next_ts = NONE /\ dec'.ts_handler = <<>>
        /\ dec'.ts_is_dts => dec'.has_b_frames
    BY DEF AnewSent, DtsTimes, TimesKnown
  <1>3. NONE <= up.pos /\ NONE <= up.pos + 2
    BY DEF Places, NONE
  <1>4. TimesKnown'
    BY <1>1, <1>2 DEF TimesKnown
  <1>5. DtsTimes'
    BY <1>1, <1>2, <1>3, <1>4 DEF DtsTimes
  <1> QED BY <1>1, <1>5, NothingTimed

(* Initially no time is known.                                             *)
LEMMA TimesInitial == DecInit => PtsInv /\ DtsInv /\ TimesHold
  <1> SUFFICES ASSUME DecInit PROVE PtsInv /\ DtsInv /\ TimesHold
    OBVIOUS
  <1>1. /\ dec.codec.next = NoPic /\ dec.codec.last = NoPic /\ dec.queued = <<>> /\ dec.ts_handler = <<>>
        /\ dec.last_out = NONE /\ dec.next_ts = NONE /\ dec.ts_is_dts = FALSE
    BY DEF DecInit, Opened, CodecInit
  <1>2. PICK m : up = [mode |-> m, pos |-> NONE, ref |-> NONE, bs |-> {}, limit |-> stream.MaxPos, low |-> NONE,
                       mark |-> TRUE, key |-> ~stream.AnyStart, segment |-> FALSE, eos |-> FALSE,
                       run |-> 0, epoch |-> 0, seg |-> 0, flushed |-> TRUE]
    BY DEF DecInit
  <1>3. up.pos = NONE /\ up.mark /\ up.run = 0 /\ (up.key <=> ~stream.AnyStart) /\ up.bs = {}
    BY <1>2
  <1>4. pushed = <<>> /\ prev = NoOutput /\ Last = NoOutput /\ Held = {} /\ Frames(dec.queued) = {} /\ Frames(pushed) = {}
    BY <1>1, FramesEmpty DEF DecInit, Last, Held
  <1>5. Neighbours = {}
    <2>1. Shown = <<>> \o <<>>
      BY <1>4 DEF Shown
    <2> QED BY <2>1, ConcatEmptySeq DEF Neighbours
  <1>6. ASSUME ~stream.AnyStart PROVE TimesKnown
    BY <1>1, <1>3, <1>4, <1>6 DEF TimesKnown
  <1>7. NONE <= NONE /\ NONE <= NONE + 2 /\ NONE \in Int
    BY DEF NONE
  <1>8. PtsInv
    BY <1>1, <1>3, <1>4, <1>6, <1>7 DEF PtsInv, PtsTimes, Aligned
  <1>9. DtsInv
    BY <1>1, <1>3, <1>4, <1>6, <1>7 DEF DtsInv, DtsTimes, Aligned
  <1>10. TimesHold
    BY <1>4, <1>5 DEF TimesHold, OwnTime, TimesRise
  <1> QED BY <1>8, <1>9, <1>10

(* With presentation times.                                                *)
LEMMA PtsStep ==
    ASSUME RunsInv, Places, QosTimes, OutOrder, PtsTimes, Aligned(stream), up.mode = "pts", DisplayOrder',
           stream' = stream, count.errors = 0, count'.errors = 0, DecNext, ~DownFails
    PROVE  PtsTimes' /\ OwnTime' /\ TimesRise'
  <1>1. ~stream.AnyStart
    BY DEF Aligned
  <1>2. CASE SendReference
    BY <1>2, ReferencePts
  <1>3. CASE SendB
    BY <1>3, BetweenPts
  <1>4. CASE Jump
    <2>1. JumpSent
      BY <1>4, JumpEffect
    <2>2. /\ up'.bs = {} /\ up'.mark /\ up'.run = up.run /\ up'.eos = up.eos /\ ~up.mark
          /\ dec.segment.rate > 0 => up'.pos = up.pos + 1
          /\ (stream.Untimed => up.bs = {}) /\ dec' = dec /\ pushed' = <<>> /\ prev' = Last
      BY <2>1 DEF JumpSent
    <2>3. Last' = Last /\ Neighbours' = {} /\ Held' = Held
      BY <2>2, PushNothing DEF Held
    <2>4. up.run # 0
      BY <2>2 DEF RunsInv, RunBegins
    <2>5. TimesKnown'
      BY <2>2, <2>3, <2>4 DEF PtsTimes, TimesKnown
    <2>6. dec.segment.rate > 0 => dec.last_out <= up'.pos
      <3>1. dec.last_out <= up.pos /\ dec.last_out \in Int /\ up.pos \in Int
        BY <2>2 DEF PtsTimes, TimesKnown, Places, NONE
      <3> QED BY <2>2, <3>1
    <2>7. PtsTimes'
      BY <2>2, <2>3, <2>5, <2>6 DEF PtsTimes
    <2> QED BY <2>2, <2>3, <2>7, NothingTimed
  <1>5. CASE NewSegment
    <2>1. NewSegmentSent
      BY <1>5, NewSegmentEffect
    <2> QED BY <1>1, <2>1, NewSegmentDrain, DrainedPts
  <1>6. CASE Eos
    <2>1. EosSent
      BY <1>6, EosEffect
    <2> QED BY <2>1, EosDrain, DrainedPts
  <1>7. CASE FlushStop
    <2>1. AnewSent(TRUE)
      BY <1>7, FlushStopEffect
    <2> QED BY <1>1, <2>1, AnewPts
  <1>8. CASE Restart
    <2>1. AnewSent(FALSE)
      BY <1>8, RestartEffect
    <2> QED BY <1>1, <2>1, AnewPts
  <1>9. CASE SetCaps
    <2>1. SetCapsSent
      BY <1>9, SetCapsEffect
    <2> QED BY <2>1, SetCapsDrain, DrainedPts
  <1>10. CASE QosEvent
    <2>1. QosSent
      BY <1>10, QosEventEffect
    <2>2. /\ up' = up /\ pushed' = <<>> /\ prev' = Last /\ dec'.codec = dec.codec /\ dec'.queued = dec.queued
          /\ dec'.last_out = dec.last_out /\ dec'.next_ts = dec.next_ts /\ dec'.ts_is_dts = dec.ts_is_dts
          /\ dec'.waiting_for_key = dec.waiting_for_key /\ dec'.ts_handler = dec.ts_handler
          /\ dec'.segment = dec.segment
      BY <2>1 DEF QosSent
    <2>3. Last' = Last /\ Neighbours' = {} /\ Held' = Held
      BY <2>2, PushNothing DEF Held
    <2>4. PtsTimes'
      BY <2>2, <2>3 DEF PtsTimes, TimesKnown
    <2> QED BY <2>2, <2>3, <2>4, NothingTimed
  <1> QED BY <1>2, <1>3, <1>4, <1>5, <1>6, <1>7, <1>8, <1>9, <1>10 DEF DecNext

(* With decoding times.                                                    *)
LEMMA DtsStep ==
    ASSUME RunsInv, Places, QosTimes, OutOrder, DtsTimes, Aligned(stream), up.mode = "dts",
           stream.MaxQos = 0, stream.MaxCaps = 0,
           stream' = stream, count.errors = 0, count'.errors = 0, DecNext, ~DownFails
    PROVE  DtsTimes' /\ TimesRise'
  <1>1. ~stream.AnyStart /\ Calm(dec)
    BY DEF Aligned, QosTimes, Calm
  <1>2. CASE SendReference
    BY <1>1, <1>2, ReferenceDts
  <1>3. CASE SendB
    BY <1>1, <1>3, BetweenDts
  <1>4. CASE Jump
    <2>1. JumpSent
      BY <1>4, JumpEffect
    <2>2. /\ up'.bs = {} /\ up'.mark /\ up'.run = up.run /\ up'.eos = up.eos /\ ~up.mark
          /\ dec.segment.rate > 0 => up'.pos = up.pos + 1
          /\ dec' = dec /\ pushed' = <<>> /\ prev' = Last
      BY <2>1 DEF JumpSent
    <2>3. Last' = Last /\ Neighbours' = {} /\ Held' = Held
      BY <2>2, PushNothing DEF Held
    <2>4. up.run # 0
      BY <2>2 DEF RunsInv, RunBegins
    <2>5. TimesKnown'
      BY <2>2, <2>3, <2>4 DEF DtsTimes, TimesKnown
    <2>6. dec.segment.rate > 0 => dec.last_out <= up'.pos /\ dec.next_ts <= up'.pos + 2
      <3>1. /\ dec.last_out <= up.pos /\ dec.next_ts <= up.pos + 2
            /\ dec.last_out \in Int /\ dec.next_ts \in Int /\ up.pos \in Int
        BY <2>2 DEF DtsTimes, TimesKnown, Places, NONE
      <3> QED BY <2>2, <3>1
    <2>7. DtsTimes'
      BY <2>2, <2>3, <2>5, <2>6 DEF DtsTimes
    <2> QED BY <2>2, <2>3, <2>7, NothingTimed
  <1>5. CASE NewSegment
    <2>1. NewSegmentSent
      BY <1>5, NewSegmentEffect
    <2>2. PICK z : /\ AfterDrain(z) /\ dec'.last_out = z.last_out /\ dec'.next_ts = z.next_ts
                   /\ dec'.ts_is_dts = z.ts_is_dts /\ dec'.has_b_frames = z.has_b_frames
      BY <1>1, <2>1, NewSegmentDrain
    <2> QED BY <1>1, <2>2, DrainedDts
  <1>6. CASE Eos
    <2>1. EosSent
      BY <1>6, EosEffect
    <2>2. AfterDrain(dec')
      BY <2>1, EosDrain
    <2> QED BY <1>1, <2>2, DrainedDts
  <1>7. CASE FlushStop
    <2>1. AnewSent(TRUE)
      BY <1>7, FlushStopEffect
    <2> QED BY <1>1, <2>1, AnewDts
  <1>8. CASE Restart
    <2>1. AnewSent(FALSE)
      BY <1>8, RestartEffect
    <2> QED BY <1>1, <2>1, AnewDts
  <1>9. CASE SetCaps
    BY <1>9, SetCapsEffect DEF SetCapsSent
  <1>10. CASE QosEvent
    BY <1>10, QosEventEffect DEF QosSent
  <1> QED BY <1>2, <1>3, <1>4, <1>5, <1>6, <1>7, <1>8, <1>9, <1>10 DEF DecNext

(* Upstream keeps to what it writes as timestamps.                         *)
LEMMA ModeStays ==
    ASSUME RunsInv, Places, DecNext
    PROVE  up'.mode = up.mode
  <1>1. CASE SendReference
    BY <1>1, ReferenceUp DEF RefSent
  <1>2. CASE SendB
    BY <1>2, BetweenUp DEF BetweenSent
  <1>3. CASE Jump
    BY <1>3, JumpEffect DEF JumpSent
  <1>4. CASE NewSegment
    BY <1>4, NewSegmentEffect DEF NewSegmentSent
  <1>5. CASE Eos
    BY <1>5, EosEffect DEF EosSent, SamePlace
  <1>6. CASE FlushStop
    BY <1>6, FlushStopEffect DEF AnewSent
  <1>7. CASE Restart
    BY <1>7, RestartEffect DEF AnewSent
  <1>8. CASE SetCaps
    BY <1>8, SetCapsEffect DEF SetCapsSent, SamePlace
  <1>9. CASE QosEvent
    BY <1>9, QosEventEffect DEF QosSent
  <1>10. CASE DownFails
    BY <1>10 DEF DownFails
  <1> QED BY <1>1, <1>2, <1>3, <1>4, <1>5, <1>6, <1>7, <1>8, <1>9, <1>10 DEF DecNext

(* The frames keep their times.                                            *)
LEMMA TimesStep ==
    ASSUME RunsInv, Places, OrderInv, QosTimes, PtsInv, DtsInv, TimesHold, DisplayOrder, [DecNext]_decvars
    PROVE  PtsInv' /\ DtsInv' /\ TimesHold'
  <1> SUFFICES ASSUME count'.errors = 0 PROVE PtsInv' /\ DtsInv' /\ TimesHold'
    BY DEF PtsInv, DtsInv, TimesHold
  <1>1. count.errors = 0 /\ ~DownFails
    BY ErrorsStay
  <1>2. CASE UNCHANGED decvars
    BY <1>2 DEF decvars, PtsInv, DtsInv, PtsTimes, DtsTimes, TimesKnown, TimesHold, OwnTime, TimesRise,
                Held, Last, Neighbours, Shown
  <1>3. ASSUME DecNext PROVE PtsInv' /\ DtsInv' /\ TimesHold'
    <2>1. stream' = stream /\ OutOrder /\ DisplayOrder'
      BY <1>1, <1>3, OrderStep DEF DecNext, OrderInv
    <2>2. up.mode \in {"pts", "dts"} /\ up'.mode = up.mode
      BY <1>3, ModeStays DEF Places
    <2> SUFFICES ASSUME Aligned(stream) PROVE PtsInv' /\ DtsInv' /\ TimesHold'
      BY <2>1 DEF PtsInv, DtsInv, TimesHold
    <2>3. CASE up.mode = "pts"
      <3>1. PtsTimes' /\ OwnTime' /\ TimesRise'
        BY <1>1, <1>3, <2>1, <2>3, PtsStep DEF PtsInv
      <3> QED BY <2>2, <2>3, <3>1 DEF PtsInv, DtsInv, TimesHold
    <2>4. CASE up.mode = "dts" /\ stream.MaxQos = 0 /\ stream.MaxCaps = 0
      <3>1. DtsTimes' /\ TimesRise'
        BY <1>1, <1>3, <2>1, <2>4, DtsStep DEF DtsInv
      <3> QED BY <2>2, <2>4, <3>1 DEF PtsInv, DtsInv, TimesHold, OwnTime
    <2>5. CASE up.mode = "dts" /\ ~(stream.MaxQos = 0 /\ stream.MaxCaps = 0)
      BY <2>1, <2>2, <2>5 DEF PtsInv, DtsInv, TimesHold, OwnTime
    <2> QED BY <2>2, <2>3, <2>4, <2>5
  <1> QED BY <1>2, <1>3

-----------------------------------------------------------------------------
(* The invariant and what follows from it.  The three properties are part  *)
(* of the induction: the frame before a step is the last one shown.        *)
DecShown == DecInv /\ DisplayOrder /\ FlushedAway /\ TimesHold

(* The initial state satisfies all of it.                                  *)
LEMMA ShownInitial == DecInit => DecShown
  BY DecInitial, PlacesInitial, OrderInitial, QosInitial, IntactInitial, TimesInitial DEF DecShown, DecInv

(* Every step keeps all of it.                                             *)
LEMMA ShownStep ==
    ASSUME DecShown, [DecNext]_decvars
    PROVE  DecShown'
  <1>1. RunsInv /\ Places /\ OrderInv /\ QosTimes /\ IntactInv /\ PtsInv /\ DtsInv
    BY DEF DecShown, DecInv
  <1>2. DisplayOrder /\ FlushedAway /\ TimesHold
    BY DEF DecShown
  <1>3. RunsInv'
    BY <1>1, RunsStep
  <1>4. Places'
    BY <1>1, PlacesStep
  <1>5. OrderInv' /\ DisplayOrder'
    BY <1>1, <1>2, OrderStep
  <1>6. QosTimes'
    BY <1>1, QosStep
  <1>7. IntactInv' /\ FlushedAway'
    BY <1>1, <1>2, IntactStep
  <1>8. PtsInv' /\ DtsInv' /\ TimesHold'
    BY <1>1, <1>2, TimesStep
  <1> QED BY <1>3, <1>4, <1>5, <1>6, <1>7, <1>8 DEF DecShown, DecInv

(* For any kinds of streams.                                               *)
LEMMA ShownAlways == DecSpec => []DecShown
  <1>1. DecShown /\ [DecNext]_decvars => DecShown'
    BY ShownStep
  <1> QED BY ShownInitial, <1>1, PTL DEF DecSpec

(* What the codec and the queue of gst_ffmpegdec hold belongs to the run   *)
(* of the stream that upstream is sending, lies in its place among what    *)
(* was shown and what upstream has yet to send, is decoded from references *)
(* that were there, and has a time the element knows.                      *)
THEOREM DecInvariant == DecSpec => []DecInv
  <1>1. DecShown => DecInv
    BY DEF DecShown
  <1> QED BY ShownAlways, <1>1, PTL

(* Until a frame is corrupt or downstream fails, frames leave in display   *)
(* order, against it in reverse, where gst_ffmpegdec_drain pushes a group  *)
(* that it queued.                                                         *)
THEOREM DecDisplayOrder == DecSpec => []DisplayOrder
  <1>1. DecShown => DisplayOrder
    BY DEF DecShown
  <1> QED BY ShownAlways, <1>1, PTL

(* Behind FLUSH_STOP, until upstream loses data, no frame is shown that    *)
(* was decoded without its references, and none from before the flush.     *)
THEOREM DecFlushedAway == DecSpec => []FlushedAway
  <1>1. DecShown => FlushedAway
    BY DEF DecShown
  <1> QED BY ShownAlways, <1>1, PTL

(* In streams that begin with a key frame and are not late by a group, a   *)
(* frame leaves with its own time, from the queue of times or guessed from *)
(* the frame before, and the times of a run rise; decoding times do while  *)
(* no frame is dropped for QoS and the caps stay.                          *)
THEOREM DecTimesHold == DecSpec => []TimesHold
  <1>1. DecShown => TimesHold
    BY DEF DecShown
  <1> QED BY ShownAlways, <1>1, PTL

=============================================================================
