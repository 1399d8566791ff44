------------------------------ MODULE RMDemux ------------------------------
(***************************************************************************)
(* rmdemux.c in pull mode.  The task of the sink pad runs gst_rmdemux_loop *)
(* under the stream lock: it pulls a piece of the file at `offset' and     *)
(* hands it to gst_rmdemux_chain, which takes headers and packets from the *)
(* adapter as long as they are complete.  The application seeks by the     *)
(* index (gst_rmdemux_perform_seek) and changes the state.                 *)
(*                                                                         *)
(* The file is counted in units of four bytes, what a seek pulls to        *)
(* validate its target: a unit for the DATA header, one for its body, the  *)
(* packets, and one unit for the index at the end.  The first unit of a    *)
(* packet is its version and length, two are the packet's own header.  No  *)
(* bytes inside a packet look like a header.  The adapter holds the units  *)
(* from `head' to `offset', and those just pulled.                         *)
(***************************************************************************)
EXTENDS Integers, Sequences, FiniteSetsExt

CONSTANTS
    Packets,         \* the packets: stream, ts, units
    Index,           \* of each stream, in the order of rmdemux->streams: its INDX entries
    IndexKinds,      \* the index may be "present", "absent", "cut" off or "unreadable"
    Pull,            \* avg_packet_size, in units
    SeekRequests,    \* what the application asks for: flush, start, segment
    DownstreamFlow,  \* results of a push that downstream does not flush
    MaxSeeks,        \* bound: seeks in a behaviour
    MaxStarts        \* bound: activations in a behaviour

Streams == 1..Len(Index)

Entry == [ts : Nat, offset : Nat]

Request == [flush : BOOLEAN, start : Nat, segment : BOOLEAN]

ASSUME RMAssumption ==
    /\ Packets \in Seq([stream : Streams, ts : Nat, units : Nat \ (0..2)])
    /\ Index \in Seq(Seq(Entry)) /\ Index # <<>>
    /\ IndexKinds \subseteq {"present", "absent", "cut", "unreadable"}
    /\ Pull \in Nat \ {0}
    /\ SeekRequests \subseteq Request
    /\ DownstreamFlow \subseteq {"OK", "NOT_LINKED", "ERROR"}
    /\ MaxSeeks \in Nat /\ MaxStarts \in Nat

DataStart == 1      \* the DATA header; offset 0 is the file's own header

position[i \in 1..Len(Packets) + 1] ==
    IF i = 1 THEN DataStart + 2 ELSE position[i - 1] + Packets[i - 1].units

DataEnd == position[Len(Packets) + 1]

NoPacket == 0

(* The packet that begins at a unit.                                       *)
PacketAt(u) ==
    LET I == {i \in 1..Len(Packets) : position[i] = u}
    IN  IF I = {} THEN NoPacket ELSE CHOOSE i \in I : TRUE

VARIABLES
    index,              \* what the file's index is like
    task,               \* the sink pad's task
    loop,               \* "idle" without the stream lock, else "chain"
    state,              \* rmdemux->state; "headers" while running is FALSE
    offset, head, end,  \* rmdemux->offset; the adapter holds head..end-1
    ret,                \* result of the chain call so far
    seekable, have_pads, need_newsegment,
    n_chunks, chunk_index,
    more_data,          \* rmdemux->data_offset # 0
    segment,            \* rmdemux->segment.flags has SEGMENT
    seek_offset, discont, last_flow,     \* per stream
    reread,             \* rmdemux->streams has every stream a second time, without packets
    seek,               \* where gst_rmdemux_perform_seek is
    req,                \* its request
    upFlush,            \* upstream is flushing
    pads,               \* the source pads are active
    downFlush, downSeg, \* downstream: flushing, has a segment
    told,               \* history: what ended the stream for downstream or the application
    out,                \* history: the last output of the task
    floor,              \* history: where the last successful seek went
    fresh,              \* history: streams that owe a DISCONT since then
    failed,             \* history: the last seek failed, or one that failed
                        \* has left downstream flushing
    seeks, starts       \* counters for the bounds

fileVars == <<index, n_chunks, chunk_index, more_data>>
adapterVars == <<offset, head, end>>
streamVars == <<seek_offset, discont, last_flow, reread>>
downVars == <<downFlush, downSeg>>
histVars == <<told, out, floor, fresh, failed>>
bounds == <<seeks, starts>>

vars == <<fileVars, adapterVars, streamVars, downVars, histVars, bounds, task, loop, state, ret,
          seekable, have_pads, need_newsegment, segment, seek, req, upFlush, pads>>

Flow == {"OK", "NOT_LINKED", "WRONG_STATE", "UNEXPECTED", "ERROR"}

FileEnd == IF index = "present" THEN DataEnd + 1 ELSE DataEnd

(* Behind the headers: no further index, or one that is not there: the     *)
(* file ends where it should begin, or is shorter still.                   *)
index_offset == CASE index = "cut" -> DataEnd
                  [] index = "unreadable" -> FileEnd + 1
                  [] OTHER -> 0

(* The header announces the DATA chunk, and that no further one.           *)
data_offset == IF more_data THEN DataStart ELSE 0

running == state # "headers"

NoReq == [flush |-> FALSE, start |-> 0, segment |-> FALSE]

NoOut == [kind |-> "none", packet |-> NoPacket, flow |-> "OK", marked |-> TRUE, seg |-> TRUE]

TypeOK ==
    /\ index \in IndexKinds
    /\ task \in {"none", "started", "paused"}
    /\ loop \in {"idle", "chain"}
    /\ state \in {"headers", "header", "data_header", "packet", "eos"}
    /\ offset \in Nat /\ head \in 0..FileEnd /\ end \in 0..FileEnd
    /\ ret \in Flow
    /\ seekable \in BOOLEAN /\ have_pads \in BOOLEAN /\ need_newsegment \in BOOLEAN
    /\ n_chunks \in {0, Len(Packets)} /\ chunk_index \in Nat /\ more_data \in BOOLEAN
    /\ segment \in BOOLEAN
    /\ seek_offset \in [Streams -> Nat] /\ discont \subseteq Streams
    /\ last_flow \in [Streams -> Flow] /\ reread \in BOOLEAN
    /\ seek \in {"none", "flush", "lock", "validate"} /\ req \in Request
    /\ upFlush \in BOOLEAN /\ pads \in BOOLEAN
    /\ downFlush \in BOOLEAN /\ downSeg \in BOOLEAN
    /\ told \in SUBSET {"eos", "segment_done", "error"}
    /\ floor \in Nat /\ fresh \subseteq Streams /\ failed \in BOOLEAN

Init ==
    /\ index \in IndexKinds
    /\ task = "none" /\ loop = "idle" /\ state = "headers"
    /\ offset = 0 /\ head = 0 /\ end = 0 /\ ret = "OK"
    /\ seekable = FALSE /\ have_pads = FALSE /\ need_newsegment = TRUE
    /\ n_chunks = 0 /\ chunk_index = 0 /\ more_data = TRUE
    /\ segment = FALSE
    /\ seek_offset = [s \in Streams |-> 0] /\ discont = {}
    /\ last_flow = [s \in Streams |-> "OK"] /\ reread = FALSE
    /\ seek = "none" /\ req = NoReq
    /\ upFlush = FALSE /\ pads = FALSE /\ downFlush = FALSE /\ downSeg = FALSE
    /\ told = {} /\ out = NoOut /\ floor = 0 /\ fresh = {} /\ failed = FALSE
    /\ seeks = 0 /\ starts = 0

-----------------------------------------------------------------------------
(* gst_rmdemux_loop and gst_rmdemux_chain.                                 *)

(* gst_rmdemux_sink_activate_pull starts the task.                         *)
Start ==
    /\ task = "none" /\ starts < MaxStarts
    /\ task' = "started" /\ starts' = starts + 1
    /\ offset' = 0 /\ more_data' = TRUE /\ seekable' = TRUE
    /\ pads' = TRUE /\ downSeg' = FALSE /\ downFlush' = FALSE
    /\ UNCHANGED <<index, n_chunks, chunk_index, head, end, streamVars, histVars, seeks, loop,
                   state, ret, have_pads, need_newsegment, segment, seek, req, upFlush>>

(* The task reads the headers and the index, then goes to the DATA header. *)
(* Until it is there no seek is performed, so this is one step.  An index  *)
(* that cannot be pulled makes the file unseekable; a file that has none   *)
(* stays seekable.                                                         *)
LoopHeaders ==
    /\ task = "started" /\ state = "headers"
    /\ state' = "header"
    /\ offset' = DataStart /\ head' = DataStart /\ end' = DataStart
    /\ seekable' = (index \in {"present", "absent"})
    /\ discont' = Streams /\ seek_offset' = [s \in Streams |-> 0]
    /\ last_flow' = [s \in Streams |-> "OK"] /\ fresh' = Streams
    /\ UNCHANGED <<fileVars, reread, downVars, told, out, floor, failed, bounds, task, loop, ret,
                   have_pads, need_newsegment, segment, seek, req, upFlush, pads>>

gst_pad_pause_task == task' = IF task = "started" THEN "paused" ELSE task

(* What the pause of the loop with a result tells the others.              *)
Causes(reason) ==
    CASE reason = "WRONG_STATE" -> {}
      [] reason = "UNEXPECTED" -> IF segment THEN {"segment_done"} ELSE {"eos"}
      [] OTHER -> {"error", "eos"}

NeedPause(reason) == gst_pad_pause_task /\ told' = told \cup Causes(reason)

LoopCanRun == task = "started" /\ loop = "idle" /\ running /\ seek # "validate"

(* Bound: a seek that fails may leave `offset' at an entry that is no      *)
(* packet; what the task pulls there it appends to an adapter from another *)
(* place, which is not modelled.                                           *)
LoopPull ==
    /\ LoopCanRun /\ state # "eos" /\ ~upFlush /\ offset < FileEnd /\ offset = end
    /\ end' = IF state = "packet" /\ offset + Pull < FileEnd THEN offset + Pull
              ELSE IF state = "packet" THEN FileEnd ELSE offset + 1
    /\ loop' = "chain" /\ ret' = "OK"
    /\ UNCHANGED <<fileVars, offset, head, streamVars, downVars, histVars, bounds, task, state,
                   seekable, have_pads, need_newsegment, segment, seek, req, upFlush, pads>>

(* The pull is refused, or the file or the stream is at its end.           *)
LoopNoPull ==
    /\ LoopCanRun
    /\ \/ state # "eos" /\ offset # index_offset /\ upFlush /\ NeedPause("WRONG_STATE")
       \/ state # "eos" /\ offset # index_offset /\ ~upFlush /\ offset >= FileEnd
          /\ NeedPause("UNEXPECTED")
       \/ state = "eos" /\ NeedPause("UNEXPECTED")
    /\ UNCHANGED <<fileVars, adapterVars, streamVars, downVars, out, floor, fresh, failed, bounds,
                   loop, state, ret, seekable, have_pads, need_newsegment, segment, seek, req,
                   upFlush, pads>>

(* A pull that fails at index_offset counts as a missing index wherever    *)
(* the task is.  At the end of a file that is cut off there, where the     *)
(* adapter is empty, it goes on, after the DATA chunk from offset 0.       *)
LoopIndexGone ==
    /\ LoopCanRun /\ state # "eos" /\ offset = index_offset /\ (upFlush \/ offset >= FileEnd)
    /\ offset' = data_offset /\ head' = data_offset /\ end' = data_offset
    /\ seekable' = FALSE
    /\ UNCHANGED <<fileVars, streamVars, downVars, histVars, bounds, task, loop, state, ret,
                   have_pads, need_newsegment, segment, seek, req, upFlush, pads>>

(* A header: the one of the file, when it is read again, adds its streams  *)
(* again; DATA announces that there are no more pads; the index at the end *)
(* was read before; anything else is skipped in search of one.             *)
ChainHeader ==
    /\ loop = "chain" /\ state = "header" /\ head < end
    /\ head' = head + 1
    /\ state' = IF head = DataStart THEN "data_header" ELSE "header"
    /\ have_pads' = (have_pads \/ head = DataStart)
    /\ more_data' = (more_data \/ head = 0) /\ reread' = (reread \/ head = 0)
    /\ out' = IF head \in {0, DataStart, DataEnd} THEN out ELSE [NoOut EXCEPT !.kind = "bogus"]
    /\ UNCHANGED <<index, n_chunks, chunk_index, offset, end, seek_offset, discont, last_flow,
                   downVars, told, floor, fresh, failed, bounds, task, loop, ret, seekable,
                   need_newsegment, segment, seek, req, upFlush, pads>>

gst_rmdemux_parse_data ==
    /\ loop = "chain" /\ state = "data_header" /\ head < end
    /\ n_chunks' = Len(Packets) /\ chunk_index' = 0 /\ more_data' = FALSE
    /\ head' = head + 1 /\ state' = "packet"
    /\ UNCHANGED <<index, offset, end, streamVars, downVars, histVars, bounds, task, loop, ret,
                   seekable, have_pads, need_newsegment, segment, seek, req, upFlush, pads>>

(* The result for the chain function of a push on stream s.  Streams that  *)
(* were added again have no packets, and still their first result.         *)
gst_rmdemux_combine_flows(s, flow) ==
    LET flows  == [last_flow EXCEPT ![s] = flow]
        linked == {t \in Streams : flows[t] # "NOT_LINKED"}
    IN  IF flow # "NOT_LINKED" THEN flow
        ELSE IF linked # {} THEN flows[Min(linked)]
        ELSE IF reread THEN "OK" ELSE "NOT_LINKED"

Answers == IF downFlush \/ ~pads THEN {"WRONG_STATE"} ELSE DownstreamFlow

(* parse_packet compares with the start of the pull, not of the packet,    *)
(* and with the packet's size without its headers.                         *)
Skipped(p) == offset + Packets[p].units - 3 <= seek_offset[Packets[p].stream]

(* The packet is counted; the last one of the chunk ends it.               *)
CountPacket ==
    /\ chunk_index' = chunk_index + 1
    /\ state' = IF chunk_index' = n_chunks THEN "header" ELSE "packet"

(* A packet at the head of the adapter: first the segment, then skipped or *)
(* pushed; an allocation that fails keeps the discont mark.  All but the   *)
(* push of an audio packet combine the flow twice, and so keep the result  *)
(* of the first time for the stream's own.                                 *)
gst_rmdemux_parse_packet(p) ==
    LET s == Packets[p].stream
    IN  /\ need_newsegment' = FALSE
        /\ downSeg' = (downSeg \/ (need_newsegment /\ pads /\ ~downFlush))
        /\ \/ /\ Skipped(p)
              /\ out' = [NoOut EXCEPT !.kind = "skip", !.packet = p]
              /\ ret' = "OK"
              /\ UNCHANGED <<discont, last_flow, fresh>>
           \/ /\ ~Skipped(p)
              /\ \E flow \in Answers :
                    /\ out' = [kind |-> "data", packet |-> p, flow |-> flow,
                               marked |-> (s \in fresh => s \in discont), seg |-> downSeg']
                    /\ ret' = gst_rmdemux_combine_flows(s, flow)
                    /\ \E kept \in {flow, ret'} : last_flow' = [last_flow EXCEPT ![s] = kept]
                    /\ discont' \in IF flow = "OK" THEN {discont \ {s}}
                                    ELSE {discont, discont \ {s}}
                    /\ fresh' = fresh \ (discont \ discont')

ChainPacket ==
    /\ loop = "chain" /\ state = "packet"
    /\ LET p == PacketAt(head)
       IN  /\ p # NoPacket /\ head + Packets[p].units <= end
           /\ gst_rmdemux_parse_packet(p)
           /\ head' = head + Packets[p].units
    /\ CountPacket
    /\ UNCHANGED <<index, n_chunks, more_data, offset, end, seek_offset, reread, downFlush, told,
                   floor, failed, bounds, task, loop, seekable, have_pads, segment, seek, req,
                   upFlush, pads>>

(* What follows the packets is no packet: the stream is done.  (Only half  *)
(* of the unit is flushed; the rest of the index is no header either.)     *)
ChainStreamDone ==
    /\ loop = "chain" /\ state = "packet" /\ PacketAt(head) = NoPacket /\ head < end
    /\ head' = head + 1
    /\ state' = IF more_data THEN "header" ELSE "eos"
    /\ UNCHANGED <<fileVars, offset, end, streamVars, downVars, histVars, bounds, task, loop, ret,
                   seekable, have_pads, need_newsegment, segment, seek, req, upFlush, pads>>

Incomplete ==
    \/ head >= end
    \/ state = "packet" /\ PacketAt(head) # NoPacket
       /\ head + Packets[PacketAt(head)].units > end

(* The chain function returns, at the end of the stream with an EOS, and   *)
(* the loop goes on or pauses.                                             *)
ChainReturn ==
    /\ loop = "chain" /\ (state = "eos" \/ Incomplete)
    /\ loop' = "idle"
    /\ told' = told \cup (IF state = "eos" THEN {"eos"} ELSE {})
                    \cup (IF ret = "OK" THEN {} ELSE Causes(ret))
    /\ IF ret = "OK" THEN offset' = end /\ UNCHANGED task
       ELSE gst_pad_pause_task /\ UNCHANGED offset
    /\ UNCHANGED <<fileVars, head, end, streamVars, downVars, out, floor, fresh, failed, bounds,
                   state, ret, seekable, have_pads, need_newsegment, segment, seek, req, upFlush,
                   pads>>

-----------------------------------------------------------------------------
(* gst_rmdemux_perform_seek.                                               *)

(* The first step unblocks the streaming thread.  Without index or before  *)
(* the headers were read nothing happens.                                  *)
Seek(r) ==
    /\ seek = "none" /\ pads /\ seekable /\ running /\ seeks < MaxSeeks
    /\ seeks' = seeks + 1 /\ req' = r
    /\ IF r.flush THEN seek' = "flush" /\ upFlush' = TRUE /\ UNCHANGED task
       ELSE seek' = "lock" /\ gst_pad_pause_task /\ UNCHANGED upFlush
    /\ UNCHANGED <<fileVars, adapterVars, streamVars, downVars, histVars, starts, loop, state, ret,
                   seekable, have_pads, need_newsegment, segment, pads>>

SeekFlushStart ==
    /\ seek = "flush"
    /\ seek' = "lock" /\ downFlush' = TRUE
    /\ UNCHANGED <<fileVars, adapterVars, streamVars, downSeg, histVars, bounds, task, loop, state,
                   ret, seekable, have_pads, need_newsegment, segment, req, upFlush, pads>>

Entries(s) == IF index = "present" THEN Index[s] ELSE <<>>

ByTime(s, time) == {i \in DOMAIN Entries(s) : Entries(s)[i].ts <= time}

(* Mutant: the search goes on with the offset that failed.                 *)
below_same(o, u) == o <= u

(* Not above u - 1, as guint: nothing is above 0 - 1.                      *)
Below(o, u) == u = 0 \/ o <= u - 1

ByOffset(s, u) == {i \in DOMAIN Entries(s) : Below(Entries(s)[i].offset, u)}

(* Every stream that has an entry takes its last one.                      *)
Found(entries) ==
    [s \in {t \in Streams : entries[t] # {}} |-> Entries(s)[Max(entries[s])]]

SeekOffsets(found) ==
    [s \in Streams |-> IF s \in DOMAIN found THEN found[s].offset ELSE seek_offset[s]]

(* The earliest in time, of the first stream that has it.                  *)
find_seek_offset_time(found) ==
    found[CHOOSE s \in DOMAIN found : \A t \in DOMAIN found :
              found[s].ts < found[t].ts \/ (found[s].ts = found[t].ts /\ s <= t)].offset

(* Mutant: only the streams that have an entry get a discont.              *)
discont_found(found) == DOMAIN found

(* All streams, those that have no entry too.                              *)
Discontinued(found) == Streams

(* The last stream that has an entry overwrites the others.                *)
find_seek_offset_bytes(found) == found[Max(DOMAIN found)].offset

GiveUp == seek' = "none" /\ failed' = TRUE /\ UNCHANGED <<offset, seek_offset>>

(* With the stream lock: upstream stops flushing, and the index is         *)
(* searched.  segment_running is never set, so no segment is closed.       *)
SeekLock ==
    /\ seek = "lock" /\ loop = "idle"
    /\ upFlush' = FALSE /\ segment' = req.segment
    /\ out' = NoOut
    /\ LET found == Found([s \in Streams |-> ByTime(s, req.start)])
       IN  /\ discont' = discont \cup Discontinued(found)
           /\ IF DOMAIN found = {} THEN GiveUp
              ELSE /\ offset' = find_seek_offset_time(found)
                   /\ seek_offset' = SeekOffsets(found)
                   /\ seek' = "validate" /\ UNCHANGED failed
    /\ UNCHANGED <<fileVars, head, end, last_flow, reread, downVars, told, floor, fresh, bounds,
                   task, loop, state, ret, seekable, have_pads, need_newsegment, req, pads>>

gst_rmdemux_validate_offset == PacketAt(offset) # NoPacket

SeekRetry ==
    /\ seek = "validate" /\ ~gst_rmdemux_validate_offset
    /\ LET found == Found([s \in Streams |-> ByOffset(s, offset)])
       IN  IF DOMAIN found = {} THEN GiveUp
           ELSE /\ offset' = find_seek_offset_bytes(found)
                /\ seek_offset' = SeekOffsets(found)
                /\ UNCHANGED <<seek, failed>>
    /\ UNCHANGED <<fileVars, head, end, discont, last_flow, reread, downVars, told, out, floor,
                   fresh, bounds, task, loop, state, ret, seekable, have_pads, need_newsegment,
                   segment, req, upFlush, pads>>

(* Mutant: what the loop had pulled stays in the adapter.                  *)
adapter_kept == head' = head /\ end' = offset + 1 /\ offset' = offset + 1

(* The unit that was validated is all there is.                            *)
AdapterFromHere == head' = offset /\ end' = offset + 1 /\ offset' = offset + 1

SegmentIsNew == need_newsegment' = TRUE

gst_pad_start_task == task' = IF task = "paused" THEN "started" ELSE task

(* The unit that was validated is all the adapter holds; the task plays    *)
(* from there and sends a segment first.                                   *)
SeekStart ==
    /\ seek = "validate" /\ gst_rmdemux_validate_offset
    /\ seek' = "none"
    /\ AdapterFromHere /\ SegmentIsNew /\ gst_pad_start_task
    /\ state' = "packet"
    /\ IF req.flush
       THEN /\ downFlush' = FALSE /\ downSeg' = FALSE
            /\ last_flow' = [s \in Streams |-> "OK"]
       ELSE UNCHANGED <<downFlush, downSeg, last_flow>>
    /\ told' = {} /\ floor' = offset /\ fresh' = Streams /\ failed' = downFlush'
    /\ UNCHANGED <<fileVars, seek_offset, discont, reread, out, bounds, loop, ret, seekable,
                   have_pads, segment, req, upFlush, pads>>

-----------------------------------------------------------------------------
(* The way back to READY: first the source pads, then the task, then       *)
(* gst_rmdemux_reset, which keeps the counters of the DATA chunk.          *)
StopPads ==
    /\ task # "none" /\ pads /\ seek = "none"
    /\ pads' = FALSE
    /\ UNCHANGED <<fileVars, adapterVars, streamVars, downVars, histVars, bounds, task, loop, state,
                   ret, seekable, have_pads, need_newsegment, segment, seek, req, upFlush>>

gst_rmdemux_reset ==
    /\ ~pads /\ task # "none" /\ loop = "idle"
    /\ task' = "none" /\ state' = "headers"
    /\ have_pads' = FALSE /\ need_newsegment' = TRUE /\ segment' = FALSE
    /\ discont' = {} /\ fresh' = {} /\ reread' = FALSE
    /\ offset' = 0 /\ head' = 0 /\ end' = 0
    /\ told' = {} /\ out' = NoOut /\ floor' = 0 /\ failed' = FALSE
    /\ UNCHANGED <<fileVars, seek_offset, last_flow, downVars, bounds, loop, ret, seekable, seek,
                   req, upFlush, pads>>

Streaming ==
    \/ LoopHeaders \/ LoopPull \/ LoopNoPull \/ LoopIndexGone
    \/ ChainHeader \/ gst_rmdemux_parse_data \/ ChainPacket \/ ChainStreamDone \/ ChainReturn

Seeking == SeekFlushStart \/ SeekLock \/ SeekRetry \/ SeekStart

Next ==
    \/ Streaming \/ Seeking
    \/ \E r \in SeekRequests : Seek(r)
    \/ Start \/ StopPads \/ gst_rmdemux_reset

Spec == Init /\ [][Next]_vars

-----------------------------------------------------------------------------
(* gst_rmdemux_loop and gst_rmdemux_perform_seek share the adapter, the    *)
(* position and the flush without a lock beyond the stream lock: between   *)
(* iterations the adapter ends where the next pull begins, unless a seek   *)
(* has failed, and is empty at the end of the data; in the packet state it *)
(* begins with a packet, behind the last one or, if the file is read       *)
(* again, with its header; upstream flushes only for a seek, and           *)
(* downstream only for one that runs or has failed.                        *)
Aligned ==
    /\ state = "packet" => \/ PacketAt(head) # NoPacket \/ head = DataEnd
                           \/ head = 0 /\ index = "cut"
    /\ running /\ state # "eos" /\ loop = "idle" /\ end = DataEnd => head = end
    /\ task = "started" /\ loop = "idle" /\ running /\ seek # "validate" => end = offset \/ failed
    /\ running => head <= end
    /\ upFlush => seek \in {"flush", "lock"}
    /\ downFlush => (seek \in {"lock", "validate"} /\ req.flush) \/ failed \/ ~pads

(* A buffer that downstream takes is in a segment, also after a flushing   *)
(* seek took it away (need_newsegment, rmdemux.c:591).                     *)
DataInSegment == out.kind = "data" /\ out.flow # "WRONG_STATE" => out.seg

(* The first buffer of each stream after a seek is marked DISCONT, be its  *)
(* stream indexed at that time or not.                                     *)
DiscontAfterSeek == out.kind = "data" => out.marked

(* A task that is paused while nobody seeks has told downstream or the     *)
(* application why, or the last seek failed, or the pads are deactivated.  *)
PauseHasCause == task = "paused" /\ seek = "none" => told # {} \/ failed \/ ~pads

(* A seek holds the pads and, once it validates, the streaming thread; the *)
(* adapter does not go back behind the target of the last seek.            *)
Stages ==
    /\ seek # "none" => pads /\ running
    /\ seek = "flush" => req.flush
    /\ task = "none" => ~pads /\ ~running /\ need_newsegment
    /\ ~running => loop = "idle" /\ floor = 0
    /\ seek = "validate" => loop = "idle" /\ discont = Streams /\ out.kind = "none"
    /\ state = "data_header" => head = DataStart + 1
    /\ head >= floor

(* What a stream is owed after a seek is noted where the task looks, and a *)
(* refusal that a stream or the chain function remembers has its reason.   *)
Owed ==
    /\ fresh \subseteq discont
    /\ pads /\ ~downFlush => downSeg \/ need_newsegment
    /\ running /\ (\E s \in Streams : last_flow[s] = "WRONG_STATE") => downFlush \/ ~pads
    /\ loop = "chain" /\ ret = "WRONG_STATE" => downFlush \/ ~pads

(* Only a file that is cut off where its index should begin is read again: *)
(* elsewhere the task never pulls at the offset of a missing index, and    *)
(* nothing but a seek moves the adapter back.                              *)
Rereads ==
    /\ reread => index = "cut"
    /\ index # "cut" /\ running => head >= DataStart
    /\ index = "unreadable" => offset <= FileEnd
    /\ index \in {"present", "absent"} /\ running /\ seek # "validate" => offset > 0
    /\ index \in {"cut", "unreadable"} => /\ running => ~seekable
                                         /\ seek = "none" /\ floor = 0 /\ ~failed
    /\ index = "cut" /\ state = "packet" => ~more_data
    /\ seek = "validate" => \E s \in Streams : DOMAIN Entries(s) # {}
    /\ loop = "chain" => offset < end

(* The inductive invariant of the demuxer.                                 *)
RMInv ==
    /\ TypeOK /\ Aligned /\ Stages /\ Owed /\ Rereads
    /\ DataInSegment /\ DiscontAfterSeek /\ PauseHasCause

(* After a seek nothing is handled that lies before the offset it chose:   *)
(* what the loop had pulled before is gone (gst_adapter_clear in           *)
(* gst_rmdemux_validate_offset).                                           *)
NothingBeforeSeek == out.kind \in {"data", "skip"} => position[out.packet] >= floor

(* The seek gets the stream lock, finds an entry or runs out of them, and  *)
(* returns.                                                                *)
SeekReturns == seek # "none" ~> seek = "none"

(* A task that plays comes to an end it reports, or is stopped: by a seek  *)
(* that fails, or by the application.  Only a file that is cut off where   *)
(* its index should begin has no end: its task reads it again, and goes on *)
(* doing so.                                                               *)
PlaysToEnd == task = "started" ~> told # {} \/ failed \/ ~pads \/ reread

(* Neither a seek nor the task hangs.                                      *)
Progress == SeekReturns /\ PlaysToEnd

=============================================================================
