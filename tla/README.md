# Extra decoders support for the N900: TLA+ models and proofs

The repository packages GStreamer 0.10 plugins for Maemo: gst-ffmpeg (demuxers, decoders, encoders and muxers over
libavformat and libavcodec), and the RealMedia, FLV, Matroska, Musepack and VP8 plugins taken out of the gst-plugins
trees. What those plugins share is that little of their difficulty is in a single function: it is in the streaming
threads, pad tasks and state changes that meet in an element, usually around one mutex and one condition. This
directory models these parts in TLA+, checks them with TLC on small instances, and proves the main invariants with
TLAPS for every instance.

## 1. Inventory

| Component | State | Operations | Interaction and what is hard | What makes it correct |
|---|---|---|---|---|
| RDT packets (`gstrdtbuffer.c`) | none | walk over the packets of a buffer, field access, sequence comparison | numbers wrap at 0xff00, the comparison at 2^16; the length is read relative to the buffer | a newer packet compares as newer, across both wraps; the walk ends and finds the packets |
| RDT jitter buffer (`rdtjitterbuffer.c`) | queue of packets; skew window, its minimum, base times | insert, pop, flush; calculate_skew, reset_skew | late, doubled and reordered packets; cached minimum, time jumps | sorted, no duplicates, oldest first; minimum and position of the window |
| RDT session manager (`rdtmanager.c`) | per session: jitter buffer, srcresult, waiting, discont, pads | chain_rdt, handle_data_packet, loop, src_activate_push, request pads | upstream thread, task of the source pad and application; one condition; discont outside the lock | no lost wakeup, no lost packet, stop completes, restart works |
| ffmpeg pipe (`gstffmpegpipe.h`, `gstffmpegprotocol.c`) | adapter, needed, eos, srcresult, lock and condition | pipe read, signal, wait | two threads wait on one condition, single signals | never both asleep, each sleeps only with reason |
| ffmpeg demuxer (`gstffmpegdemux.c`) | opened, streams with flow, eos and last time, segment, cached events and seek | push: chain, events, task; pull: pad task, perform_seek | flushes, seeks and state changes against the task; flags read outside their lock | chain returns, EOS comes out, stop ends streaming; no stale data after a flush, seek returns, task goes on |
| ffmpeg decoder (`gstffmpegdec.c`) | context, timestamps in flight, QoS values, segment, reverse queue | chain, events, drain, flush | QoS events from another thread, reordering, delay at EOS, times that are missing or decoding times | what the codec holds leaves before a discontinuity; frames have their own times, in order |
| ffmpeg encoder, muxer (`gstffmpegenc.c`, `gstffmpegmux.c`) | delay queue, adapter; collected pads, header state | chain; collected | drain at EOS and at new caps; choice of the oldest pad | key frames meet their times, audio does not drift; output is interleaved behind a header |
| RealMedia and RealAudio demuxers (`rmdemux.c`, `rademux.c`) | parse state, streams, index, adapter | chain, loop, seek | push and pull modes, seek by index against the loop, times rebuilt from sequence numbers | adapter aligned with packets, nothing from before a seek, a pause has a cause |
| RDT depayloader (`rdtdepay.c`) | header sent, next sequence number, segment due | setcaps, chain, events | gaps and late packets across two different wraps | gaps are marked, old packets dropped, a segment before data |
| RTSP extension (`rtspreal.c`, `asmrules.c`, `realhash.c`) | rule book, challenge | parse, match | recursive descent over user variables | matching agrees with the rules |
| FLV demuxer and muxer (`gstflvdemux.c`, `gstflvmux.c`) | parse state, index, pads; header state | chain, loop, seek; collected | push seeks through an index that grows while it plays | index sorted; header once |
| Matroska demuxer and muxer, EBML (`matroska-*.c`, `ebml-*.c`) | parse state, cluster, tracks, cues; cached header | chain, loop, seek; collected | as FLV, with lacing and nested lengths | lengths nest; cluster times |
| Musepack (`gstmusepackdec.c`, `gstmusepackreader.c`) | segment, rate, task | loop, seek | two seeks and the loop share the stream lock; failure path | samples carry their time, seeks return |
| VP8 (`gstvp8dec.c`, `gstbasevideodecoder.c`, `gstvp8enc.c`) | context, timestamp base, field index, earliest time; invisible frames | chain, events | QoS from another thread, losses, segments | no frame is decoded without its reference |
| tables and filters (`gstffmpegcodecmap.c`, `gstpostproc.c`, `gstffmpegscale.c`, ...) | negotiated formats | one library call per buffer | none | reading them |

`PROJECT.json` lists all of them with their status, and every hazard found so far with its line.

## 2. Modules

    RDTSeqnum ---+-- RDTJitterBuffer ---- RDTManager        FFMpegPipe ---- FFMpegDemuxPush
                 |       |                                  FFMpegDemuxPull, FFMpegDec
                 |   ReorderBuffer (abstract)               FFMpegEnc, FFMpegEncAudio, FFMpegMux
                 +-- RDTDepay
    RDTSkew, RDTPacketWalk                                  RMDemux, RMTimestamp, MusepackDec, VP8Dec

Proofs are in modules of their own, of which some extend two components: `RDTSeqnumProofs`; `RDTManagerProofs` (packet
queue, session, skew); `RDTDepayProofs` (depayloader and packet walk); `PushModeProofs` (push mode of the ffmpeg demuxer,
VP8 decoder); `FFMpegDemuxPullProofs`; `DecoderProofs` (Musepack and ffmpeg decoders); `FFMpegEncProofs` (video encoder,
audio encoder, muxer); `RMDemuxProofs` (demuxer and frame times). For that reason the specifications of `RDTSkew`,
`VP8Dec` and `FFMpegDec` have names of their own, `SSpec`, `VP8Spec` and `DecSpec`.

The `MC*` modules extend a specification and define finite sets for the constants; the `.cfg` files give values. Parts
that do not interact share a run: `MCRDTJitterBuffer` (list and skew estimate), `MCRDTDepay` (depayloader and packet
walk), `MCRMDemux` (demuxer and frame times) and `MCFFMpegEnc` (video encoder, audio encoder, muxer) have a variable
(`half` or `part`) that is chosen at the start and says which one moves. This explores each part on its own and never
their product, which has nothing to show: they share no variable.

### RDTSeqnum, RDTJitterBuffer, ReorderBuffer: the packet queue

A packet is its position in the sender's stream, a natural number that never wraps. The code only sees
`seqnum(position)`, and compares with `compare_seqnum`, a subtraction cut to a signed integer of `SeqMod` values
(gint16; 65536 in the code). Packet types of 0xff00 and above are control packets, so data packets number modulo
`DataTypes` (0xff00) and not modulo 2^16: across the wrap, the comparison is off by the difference. `Margin` is how far
apart two packets may be and still compare correctly; that arrivals stay inside it is the assumption on the network
(`InWindow`), and `SeqnumAssumption` says only that a margin is left.

`rdt_jitter_buffer_insert` scans from the head for the first packet that is not newer (`stop`), drops a duplicate, or
inserts. `ReorderBuffer` is what a user of the queue wants: a set of held packets, of which the oldest is taken. The
refinement mapping is `held` = the packets in the queue, `taken` = the last one popped. Retiming of an accepted packet
is separate state, and a module of its own.

### RDTSkew: the clock skew estimator

`calculate_skew` as four actions, by its branches: packet without arrival time, time jump (reset and start over), window
filling, window full. Division truncates towards zero as in C; the array is indexed from 0. `MAX_WINDOW` (512),
`MAX_TIME` (2 s) and `GST_SECOND` are constants, and the clock-rate scaled RDT time is an input.

### RDTManager: a session with its threads

State follows `GstRDTManagerSession`; `loop`, `chain` and `app` say where the task, the upstream thread and the
application's state change are. A step is what a thread does between taking and releasing `jbuf_lock`, with one
exception: `session->discont` is written by the chain function without the lock, so the loop's test (`LoopPop`) and its
reset (`LoopClearDiscont`) are two steps. `gst_pad_push` is outside the lock and returns any result downstream may give.
Pad activation, tasks and the default event handler are GStreamer's and are modelled from their use: a state change
deactivates source pads first; stopping a pad's task detaches it (a later pause has no effect) and joins; the default
handler forwards EOS at once. A source pad that is created while a state change walks the pads is missed by it
(`walked`). The fields `blocked` and `eos` are never set by the code, so the branches they guard are not in the model;
see finding `session_eos`.

### FFMpegPipe, FFMpegDemuxPush: push mode of the ffmpeg demuxer

The streaming thread puts buffers into the pipe's adapter and waits until the task needs more; the task runs
libavformat, which reads from the pipe and waits until it has enough. Both wait on one condition. `sleeping` is the set
of threads in `g_cond_wait`; `g_cond_signal` removes any one of them. The application flushes (FLUSH_START and
FLUSH_STOP, each with its part before and its part under the pipe's lock) and changes state.

Of libavformat (vendored under `gst-libs/ext/ffmpeg`) only the reads are modelled: while it opens the file or reads a
frame it makes any number of them, of the sizes in `ReadSizes`, and then finds up to `MaxFrames` frames in what it got,
or fails at the end of the stream. Sizes stand for bytes; frames carry only their stream, whether they have a timestamp
and whether the segment drops them. Per stream the model keeps `last_flow`, `eos` and whether `last_ts` is valid, so
that `gst_ffmpegdemux_aggregated_flow`, `_is_eos` and `_has_outputted` are computed as in the code, unknown streams
included. `demux->flushing` is set by pull mode seeks only and is FALSE here.

### FFMpegDemuxPull: pull mode and seeking

The task of the sink pad holds the pad's stream lock while it is started; any thread seeks, and so does the task itself
with the seek that was cached in READY. `at[p]` is where an executor (a seeking thread, or the task) is in
`gst_ffmpegdemux_perform_seek`, each call out of the element being a step: FLUSH_START upstream and downstream, the
pause, the lock, FLUSH_STOP, `gst_ffmpegdemux_do_seek`, the closing and the new segment, the restart. `loop` is where
the task is. Each frame read carries the flush epoch it was read in, which is what `NoStaleData` compares. libavformat
reads the next frame of the file and seeks to one at or before a time, or fails.

### RDTDepay, RDTPacketWalk: what follows the session manager

`RDTDepay` has the fields of the depayloader and takes buffers of packets in any order. `Drop` and
`gst_rdt_depay_handle_data` are the branches of the gap test; a push that fails throws the rest of the buffer away.
`RDTPacketWalk` is `gst_rdt_packet_move_to_next` over buffers whose packets have any of the layouts that decide where
the length stands; the code reads it from the start of the buffer, so `word` says what is found there.
`VisitsEveryPacket` therefore speaks of buffers whose packets agree in layout and length (`Uniform`); for all others it
says that the walk stays inside the buffer and moves on. `Starts` gives the place where each packet begins.

### MusepackDec

As in `FFMpegDemuxPull`, a task under the stream lock and threads that seek, with the failure path of the seek, which
returns early. Samples are named by their place in the file, so that the clock and the decoder can be compared. A seek
may be in samples or in a unit that is scaled by the rate, which is 0 before the file is open. Downstream may turn down
the request for a buffer, or the buffer, at any time and with any flow other than OK (`LoopAllocFailed`,
`LoopPushRefused`): the loop then pauses and tells nobody, which the history `turned` records (see section 3). Events
reach downstream unless it flushes or is stopped (`Flushing`).

### VP8Dec

The chain function of the base class down to libvpx as one step (`Chain`), since it takes the stream lock and reads the
one field it shares with the QoS thread once; caps, segments, gaps, flushes, EOS and stops as actions of upstream. The
file is a constant: key, delta, invisible and untimed frames. Times are in fields, a frame lasts two, the frame rate is
known; the accumulation of running times over segments is left out.

### RMDemux, RMTimestamp

`RMDemux` is the pull mode of `rmdemux.c`: the loop pulls, the chain function takes headers and packets from the
adapter, the seek searches the index, validates the place and searches below it. The file is counted in units of four
bytes with one DATA chunk; a packet's interior never looks like a header. The application does not seek and change the
state at the same time, pushes return, and a seek before the headers are read does nothing. Where a failed seek has left
the next pull elsewhere than behind the adapter's end, the task is not followed further (`LoopPull`): it would read
garbage, see section 3. The file has its index (`present`), announces none (`absent`), has one announced behind its end
(`unreadable`), or is cut off exactly where the index should begin (`cut`). In the last case the pull that fails at the
end of the data is at `index_offset`: `LoopIndexGone` takes it for a missing index once more and goes on from
`data_offset`, which is 0 by then, so the task reads the file again, adds its streams again (`reread`) and never reports
an end. The index of the run (`MCIndex`) has no entry for a seek to time 0, one of the other stream alone at 1, none
that holds at 2, where the search runs out, and at 3 one that holds after two that do not. `RMTimestamp` is
`gst_rmdemux_fix_timestamp`, apart from it: frames in coding order with a sequence number modulo `SeqSize` get the time
of the frame shown when they arrive. After a flush the stream goes on with an I frame, and B frames come only between
two references.

### FFMpegDec

One picture of libavcodec's MPEG-4 decoder (vendored; `Decode` is `ff_h263_decode_frame`) is held until the next
reference. `chain`, events and caps hold the stream
lock and are one step each; a QoS event falls between any two. The constant `Streams` is a set of kinds of streams: which
losses, times, QoS, directions and changes a behaviour may have (`MCFFMpegDec` has four, listed with the run). Not in it:
codecs with a parser, more than one picture held, a queue of timestamps near its 256 entries, running times accumulated
over segments. A segment without a flush begins at a key frame, as does the stream behind new caps, and only delta
frames come without a time. For a P frame without a reference libavcodec makes up a picture, which comes out at once and
takes the time of the P frame (`mpegvideo.c:911`); that picture is no frame of the stream and is left out. Streams that
begin with key frames have one behind each gap as well, so no property about times meets it.

Where the properties have a premise the code needs it. `FlushedAway` is about what was sent before upstream lost data
(forward the first run), and about open groups only where none is skipped. `DisplayOrder` and `TimesHold` are about
streams in which nothing was corrupt and downstream took all. `TimesHold` also asks that the stream begins with a key
frame, as it does behind each gap, and no event is late enough to skip a group, because a frame that is not decoded
leaves its time in the queue; and for frames without a time that there is no QoS, because the frame behind a dropped one
would get its time. Times that are those of decoding rise while nothing is dropped and the caps stay: both make the
element forget that they are.

### FFMpegEnc, FFMpegEncAudio, FFMpegMux

`FFMpegEnc` sets the queue `delay` beside the queue inside libavcodec's MPEG encoder (vendored; `b_frame_strategy` 0, no
frame is skipped, no failure while it drains); a picture takes its time from the head of `delay`. `FFMpegEncAudio` is
the adapter of codecs with a fixed frame size (`frame_size` above 1; the branch for codecs without one is left out):
samples are positions, and times are cut to units as `gst_util_uint64_scale` does. Timestamps are valid, and upstream
marks the discont after a push that failed. `FFMpegMux` is `gst_ffmpegmux_collected` over GstCollectPads (external: a
buffer per pad, called when each pad has one or has ended). After an error nothing moves until a restart; the collected
pads are not flushed.

## 3. Runs

| Run | Shows | Bounds |
|---|---|---|
| `jitterbuffer` | `JInv` (sorted, no duplicates, close), `ImplementsReorderBuffer`, `SkewInv`, `SkewApproachesMin` | 16 sequence values of which 14 are data, 21 positions; window of 3 slots, times 10 apart, jumps above 20, full by time at 30 |
| `session` | `MInv`, `NoLostWakeup`, `NothingLost`, `StopCompletes`, `Delivered`, `DiscontMarked` | 3 packets across the wrap, 3 arrivals in buffers of one or two, a restart |
| `pipe` | `PipeInv`, `NotBothAsleep`, `ChainReturns`, `EosEndsTask`, `StopEndsStreaming` | 2 streams, one of unknown type, 3 buffers of 1 or 3 bytes against reads of 2, 1 event, 1 flush, 1 restart |
| `pull` | `PullInv`, `NoStaleData`, `DiscontAfterSeek`, `Progress` | 3 frames of 2 streams, one before the start time, 2 seekers with one seek each or two, flushing or not, to a segment or not; stop |
| `depay` | `DepayInv`, `GapMarked`, `OldDropped`, `VisitsEveryPacket` | 12 positions over two wraps of 14 of 16 numbers, old from 3 on, buffers of 2; walks over buffers of 3 packets |
| `rm` | `RMInv`, `NothingBeforeSeek`, `Progress`, `ShownOnTime` | a file with, without, with an unreadable index, or cut off at it; 4 packets of 2 streams, pulls that cut them; 4 index entries of which three point into a packet; 2 seeks, 2 activations; frames over 18 times with numbers modulo 6 |
| `dec` | `DecInv`, `FlushedAway`, `DisplayOrder`, `TimesHold` | four kinds of streams with up to 4, 4, 6 and 5 frames: rough (corruption, losses, QoS), backward, sparse (times missing or of decoding), hurried (QoS that drops B frames) |
| `vp8` | `VP8Inv`, `ReferencesDecoded` | 4 frames, 3 segments or stops of 4 kinds, 2 reports |
| `musepack` | `MusepackInv`, `SeekReturns` | 3 units of samples, 2 seekers, 2 seeks of 5 kinds, 2 activations; any buffer may be refused |
| `encode` | `VideoInv`, `KeyframesInTime`, `AudioInv`, `MuxInv`, `InOrder` | 8 frames, 2 B frames, groups of 4, a forced key frame, new caps, EOS and a stop; frames of 4 samples against buffers of 1 to 10; 3 pads with 2 buffers |

Bounds. They are chosen so that the cases the hazards name happen, and each property's mutant shows that they do. The
buffers of 1 and 3 bytes against reads of 2 give too few, exactly enough (1 + 1) and too many bytes. One flush and one
restart suffice to bring a thread from before to after them, which is where stale results matter. In `pull` and
`musepack` two seeks race with each other and with the loop, more only repeat them. In `rm` a seek to time 3 finds
entries inside packets first and goes down until one holds, one to time 2 runs out of them, and a packet lies in the
adapter in part when a seek comes. In the skew run the window fills both by number and by time, slides over its whole
length, and is reset. In `encode` the audio frame's duration is no whole number of units. Deadlock checking is off where
a behaviour may end because its bounds are used up and upstream is silent, or the code really stops (a paused task).

Fairness is weak fairness of each thread: the kernel schedules a thread that can run, libavformat and downstream return
from their calls. Arrivals, EOS, seeks, flushes and state changes have none, since upstream and the application may do
nothing. In `rm` it is given for the task and for the seeking thread, each as a whole. The stream lock is not fair: what
depends on getting it (`Progress`, `SeekReturns`) holds because the task is paused, stops on a flush or comes to the end
of the file.

Each property of a passing run has a mutant, an operator marked as such in its module: a plausible slip in the mapped
code under which TLC finds the property violated.

### Where the code does not do what its comments say

Two runs show a disagreement and expect TLC to find it:

| Run | Comment | What happens |
|---|---|---|
| `session_eos` | `rdtmanager.c:827` "no packets but we are EOS, do eos logic" | `eos` is never set; EOS is forwarded by the default handler and overtakes queued packets |
| `pipe_stop` | `gstffmpegdemux.c:1743` "release chain and loop" | an event waiting for `needed` is woken, waits again, and blocks the state change |

Others came up while the modules were written and are recorded here without a run of their own. The properties of the
passing runs are stated so that they hold in spite of them.

| Place | What happens |
|---|---|
| `gstffmpegdemux.c:1476` | the pause after an error does not signal the pipe: the chain call that waits keeps the stream lock (comment at 1449) |
| `gstffmpegdemux.c:1596` | the loop pauses after FLUSH_STOP restarted it, and data is refused from then on (1595) |
| `gstffmpegdemux.c:1619` | `opened` is tested outside the lock; an event queued just after the open is never sent (1625) |
| `gstffmpegdemux.c:1392` | `last_flow` of another stream is still WRONG_STATE after the flush; the task pauses with it and sends no EOS (1609) |
| `gstffmpegdemux.c:1590`, `:1594` | FLUSH_STOP frees `cached_events` and keeps the pointer; it does not reset `eos` of the pipe |
| `gstffmpegdemux.c:622` | a non-flushing seek closes the segment at `last_stop`, which only seeks set (613) |
| `gstffmpegdemux.c:573`, `:1520` | two seeks share one flag and one flush: one ends the other's, which then waits for the lock, or whose refused read counts as the end of the file (570, 1519) |
| `gstffmpegdemux.c:654` | the restart passes the pad where the loop expects the demuxer; it matters when the task was detached meanwhile |
| `gstffmpegdemux.c:1367` | frames before `start_time` end their stream: a file that begins with them ends at once |
| `gstrdtbuffer.c:163` | the length of a packet is read from the start of the buffer: the walk goes astray when lengths differ, and a length of 0 never ends |
| `rdtdepay.c:341` | around the wrap a gap comes out 256 too large: a packet already handed on comes again, marked DISCONT |
| `gstffmpegdec.c:1690` | a B frame dropped for QoS makes the decoder forget that its times are decoding times: one goes backwards |
| `gstffmpegdec.c:2439` | a frame skipped before a key frame leaves its time in the queue, and those behind it take it (921) |
| `gstffmpegdec.c:2442` | waiting ends at the next key frame; in open groups the B frames behind it refer to the group that was skipped (1340), and are shown |
| `gstffmpegdec.c:2414` | after a discont the decoder does not wait for a key frame, as the comment at 2411 says; a P frame then loses its time to the picture libavcodec makes up for its reference (`mpegvideo.c:911`) |
| `gstffmpegdec.c:2240`, `:1557`, `:2659` | drain stops at the first clipped frame; the opaque list only grows; a restart keeps the state of the run before |
| `gstffmpegenc.c:696` | without `closedgop` a key frame takes the time of the first B frame before it (691) |
| `gstffmpegenc.c:938` | streams shorter than the delay drain into empty buffers (937) |
| `gstffmpegmux.c:594` | a buffer without time on a pad behind the first waits for the others (593) |
| `gstffmpegmux.c:457`, `:549` | `codec_id` outlives READY, so a header is written for a stream without caps; a failed header leaves the file open |
| `gstmusepackdec.c:532`, `:577` | any refusal by downstream, also NOT_LINKED or an error, pauses the task without EOS or error message |
| `gstmusepackdec.c:266` | a seek that fails leaves the task paused or downstream flushing (212) |
| `rmdemux.c:853` | a pull that fails at `index_offset` counts as a missing index also at the end of the data: a file cut off there is read from 0 again for ever, its pads are added again, and there is no EOS |
| `rmdemux.c:1208` | `chunk_index` survives seeks: after one backwards the demuxer looks for a header in the middle of the data (1002) |
| `rmdemux.c:574`, `:573` | a seek that fails posts no error (559); behind an entry with offset 0 the search wraps and does not end (556) |
| `rmdemux.c:447`, `:2648` | the earliest entry in time is taken, not the smallest offset (553); packets are skipped by the offset of the pull (440) |
| `rmdemux.c:1224`, `:1204` | EOS also in segment playback (936); a later packet's result hides an error (1893) |
| `rmdemux.c:566`, `:573` | a flushing seek whose search runs out of entries returns without FLUSH_STOP downstream (553 to 556 call it fatal): a later seek without flush succeeds, every push gives WRONG_STATE, and the task pauses in silence |
| `rmdemux.c:573` | the search that ran out leaves `offset` at the entry it tried last, from where a task that was not paused goes on behind what the adapter holds |
| `rmdemux.c:318`, `:528`, `:2122`, `:2226` | a seek in between skips no-more-pads; `segment_running` is never set; collected fragments and `next_ts` survive a seek without flush |
| `gstbasevideodecoder.c:965` | the first frame of a segment without DISCONT loses its time |
| `gstbasevideodecoder.c:1125`, `:1324` | a skipped sync point resets a valid base (1127); a frame without running time counts as late (`gstvp8dec.c:523`) |
| `gstbasevideodecoder.c:228`, `:258`, `:810` | EOS before caps never returns; a gap resets the decoder; the list of timestamps only grows |

## 4. Proofs

All theorems hold for every value of the constants that satisfies the named assumptions.

* `JitterBufferSorted` (JSpec => []JInv) and `JitterBufferRefines`. The invariant needs `Close`: sortedness alone is not
  inductive, because the comparison decides correctly only for packets closer than `Margin`. From it, the scan stops
  exactly at the first packet that is not newer, so insertion keeps the order and the tail is the oldest. The facts about
  the two moduli (`Division`, `WrapOnce`, `CompareSeqnum`) are lemmas of `RDTSeqnumProofs`, which the depayloader shares.
  Assumptions: `SeqnumAssumption`, `StreamAssumption`.
* `SessionInvariant`, `SessionNoLostWakeup`, `SessionQuietWhenReady`, `SessionReorders`. `MInv` adds to the queue's
  invariant what the state change has established at each stage (`Stages`), that the loop pauses only with a bad
  result, and that a sleeping, unsignalled loop has `waiting` set, an empty queue and a good `srcresult`. Every step of
  a session is a step of the jitter buffer or leaves it alone, from which `SessionReorders` follows.
  `SessionNothingLost` adds the two histories (`HInv`): an insertion that is not a duplicate puts one packet into the queue
  (`InsertNew`) and is counted, a pop moves the oldest into the loop's hands (`PopTakes`), and a push counts it there; no
  other step moves a packet. Each write of a bad `srcresult` comes with a flush or a task that does not run.
  Assumption: `ManagerAssumption`, in particular that the packets of a behaviour are closer than `Margin`.
* `SkewWindow` (SSpec => []SkewInv): position and minimum of the window need each other, since the minimum is taken over
  the slots below the position while the window fills. `SkewTowardsMin`: an update gives a weighted mean of the old skew
  and the minimum, cut towards zero, and the weight never exceeds the whole (`perc` is at most its unit while the window
  fills, by number or by time), so the result lies between the two; a reset, and no other step, sets the skew to 0
  wherever it was. Assumption: `SkewAssumption`.
* `PipeInvariant`, `PipeNoDeadlock`. The argument: a sleeping task has `available < needed`, a sleeping chain call
  `available >= needed`, a sleeping event `needed = 0`; so at most one of them sleeps, and a signal therefore finds the
  thread it is meant for (lemma `SignalWakesAll`), which in turn is why each step keeps the three facts. `Stages` is
  needed for the two places that reset the pipe without its lock. Assumption: `PushAssumption`.
* `PullInvariant`, and from it `PullNoStaleData`, `PullDiscontAfterSeek`, `PullDataInSegment`,
  `PullNeverSilentlyPaused`, for any number of seeking threads. `PullInv` says who may hold the stream lock at each place
  (`LockDiscipline`), that a task that runs holds it (`TaskRuns`), that `flushing`, a flushing downstream and a stale
  WRONG_STATE each have a seek that will end them (`FlushHasSeek`), that a pause has a cause, that the segment is sent
  before the loop goes on, and that a frame in hand was read after the last flush (`FrameFresh`). The freshness needs the
  lock discipline: a flush can end only while the loop is not between read and push. Assumption: `PullAssumption`.
* `DepayInvariant`, `DepayGapMarked`, `DepaySegmentBeforeData`, `DepayOldDropped`: the number expected is that of the
  packet after the last one (`FollowingIsNext`, at both wraps), so a packet near it has no gap only if it follows
  (`NoGap`), and between two wraps the gap is the distance (`GapInWrap`). That last restriction is real, see `rdtdepay.c:341`
  above. Assumptions: `SeqnumAssumption`, `DepayAssumption`.
* `VP8Invariant`, `VP8ReferencesDecoded`, `VP8LateHasReason`: the strengthening is that with a context and no discont due,
  the last frame decoded is the one before the next to come (`InOrder`), and that `earliest_time` is from a report since
  the last flush, or upstream has yet to clear it. Assumption: `VP8DecAssumption`.

* `WalkVisits`: the walk stays in the buffer and finds the packets of uniform buffers. `Starts` is a recursive function
  over the packets; that it rises with room for a header between two starts is shown by its least counterexample.
  Assumption: `WalkAssumption`.
* `MusepackInvariant`, `MusepackClock`, `MusepackPause`, for any number of seekers: lock discipline and stages as in the
  pull mode above; the clock and the place of the decoder part only between the call of libmpcdec and the new segment,
  which one seek does under the lock. A pause has a cause that somebody was told of (EOS, SEGMENT_DONE, an error), or one
  of the two that are silent in the code: a seek that failed, and a buffer that downstream turned down. Assumption:
  `MusepackAssumption`.
* `RMInvariant`, `RMNothingBeforeSeek`: the adapter ends where the next pull begins and starts at a packet or inside the
  one that the demuxer knows to skip; downstream's flushing and each flag (`discont`, segment due, a paused task) has the
  stage of the seek that ends it (`Stages`, `Owed`); only in a file that is cut off at its index can the task come to the
  offset of a missing index with data behind it (`Rereads`), and only then is the file read again. Positions are a sum over the packets, which is shown to rise by its
  least counterexample. `RMShownOnTime`: the demuxer keeps the times and numbers of the last two
  references, and a number cut to `SeqSize` gives back the distance to a reference less than `SeqSize` away. Assumptions:
  `RMAssumption`, `TimestampAssumption`.
* `VideoInvariant`, `VideoKeyframes`: libavcodec holds a window of `MaxB + 1` pictures in the order they came and a
  group that is due, whose B frames are still at the window's front (`WindowInv`). The frames not given back are those in
  the window but the reference given before its B frames (`PendingInside`); `delay` is the window's upper part while
  frames come and its lower part while it drains (`QueueInWindow`), from which its length and `LongStreamsDrain` follow. A
  request is on its picture in the window, or on the next frame (`RequestsInside`), and a group ends at the first
  request, which is therefore never coded as a B frame (`GroupShape`). `VideoKeyframes` assumes `ClosedGop`: then a key frame is in
  front of the window when it is coded, and at the head of the queue (`KeysInFront`). Without it the property is false,
  see `gstffmpegenc.c:696` above. Assumption: `EncAssumption`.
* `AudioOnTime`, `MuxComplete`, `EncInOrder`: time is cut to units once for each frame from the adapter's start, and the
  cut of a sum differs from the sum of the cuts by at most one (`DivSum`, `TimeSum`), which does not add up because the
  next frame's time is counted from the same start. The muxer writes only when each pad has a buffer or has ended, and
  `best_pad` exists and is the oldest (`BestPad`). The queue of delays rises (`QueueRises`), whatever the encoder gives.
  Assumptions: `AudioAssumption`, `MuxAssumption`, `EncAssumption`.

* `DecInvariant`, for any kinds of streams. `RunsInv`, its first part, is inductive by itself: a run is what upstream
  sends behind a discont. What the codec or the reverse queue holds is of the run, the flush and the segment upstream
  is sending (`HeldIsCurrent`), because a discont, a segment, new caps and the end drain, and a drain leaves nothing
  (lemma `DrainDrained`); it is of the run before when the discont pushes it, and of the same flush always
  (`NothingOld`). So forward the mark that is due is that of the run of the next frame: `discont` is set exactly while
  the last frame pushed is not of the run (`MarkDue`), and the frame the discont itself drains leaves before the mark
  is set. That no frame is held or shown before the first discont of a flush (`RunBegins`) makes the direction of
  playback free to change there. The pictures are followed through the functions by what may leave them (`CodecStep`,
  `Leaves`, `Gives`, `Drained`, `Takes`), whatever QoS decides and whether a picture is decoded, late, outside the
  segment or lost.
* `DecDisplayOrder`, `DecFlushedAway`, `DecTimesHold`, for any kinds of streams. They are proved in one induction with the
  other parts of `DecInv` (lemma `ShownStep`), since the frame shown before a step is one the properties were about. Each
  step is first brought to what it does while nothing fails (`RefSent`, `DrainSent`, ..., and `Fate`, `Leave`: at most
  one picture leaves, the one held or a B frame, and it is pushed or, in reverse, put before the queue). Then:
  * order: what is held comes behind all that left, and the B frames upstream has yet to send belong between the two
    (`OutOrder`); in reverse a group lies between `up.low` and `up.limit`, below all that was shown, and the queue falls
    (`GroupOrder`). Without what it says of those B frames it is not inductive.
  * intactness (`IntactInv`): after a flush nothing is decoded before a key frame, and while the element decodes, `next`
    is the reference upstream sent last and `last` the one before it, so that a B frame finds both. `QosTimes` says that
    without late events the element skips no group, which open groups need.
  * times: the queue of timestamps is empty after each step, and no time is left over from a run that ended
    (`TimesKnown`). With presentation times a frame that has none is due exactly at `next_ts` (`PtsTimes`: the B frames to come
    are `next_ts .. disp - 1`). With decoding times the element may or may not have noticed (`ts_is_dts`); what
    is held has the time after the reference before it, so that noticing comes in time for the next frame to be behind the last
    (`DtsTimes`, `Behind`).

  Assumption: `DecAssumption`, only in that the fields of a kind are numbers and truth values; no bound is used.

Only model-checked: all liveness properties, since the prover does not do fairness or ENABLED. Every invariant of the
passing runs is stated by a theorem.

## 5. Not modelled

* Codec and caps tables, filters, the PNM stub, packaging: no behaviour of their own.
* The RealAudio demuxer, the FLV and Matroska demuxers: their chain function, pull task and seek have the structure of
  the ones modelled, around element parsers that are most of their text. What is their own and worth a model is an index
  that grows while it plays (FLV), and lacing and nested lengths (Matroska).
* The FLV and Matroska muxers: choice of the pad and header as in `FFMpegMux`, and field writers.
* The RTSP extension: a hash, SDP strings, and a scanner and matcher over one string, which is sequential.
* The VP8 encoder: one call per frame and a list of invisible frames. The byte readers: bounds tests.
* Within modelled components: request pads and properties of the session manager, push mode, descrambling and fragments
  of `rmdemux.c`, parsers and audio of `gstffmpegdec.c`, tags and queries everywhere.
* ffmpeg, libvpx and libmpcdec, and the copies of gst-plugins modules that are not packaged. They are most of the
  repository's text (gst-ffmpeg brings all of ffmpeg, and each of the four plugin directories a whole gst-plugins tree),
  so that what is modelled is a very small part of the lines in `src/`. Of the packaged plugins' own code it is what has
  threads, seeks, flushes and times; not their parsers and tables.

## 6. Running

    tlc -config MCRDTManager.cfg MCRDTManager
    tlapm RDTManagerProofs.tla
