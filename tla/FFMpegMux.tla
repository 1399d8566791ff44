------------------------------ MODULE FFMpegMux ------------------------------
(***************************************************************************)
(* gstffmpegmux.c: gst_ffmpegmux_collected writes one of the buffers that  *)
(* wait on the sink pads, after the header of the file when it is the      *)
(* first, and the trailer when all streams have ended.                     *)
(*                                                                         *)
(* GstCollectPads (external) holds one buffer per pad, blocks the pad's    *)
(* stream while it waits, and calls the function under its lock as soon as *)
(* each pad has a buffer or has ended.                                     *)
(***************************************************************************)
EXTENDS Integers, FiniteSets

CONSTANTS
    NumPads,        \* the pads are numbered in the order of their creation
    MaxTime,        \* bound: timestamps
    MaxBuffers,     \* bound: buffers of a pad
    MaxStops        \* bound: changes to READY

Pads == 1..NumPads
NONE == MaxTime + 1         \* GST_CLOCK_TIME_NONE, the largest time
NoBuffer == -1
Timestamps == 0..MaxTime \cup {NONE}

VARIABLES
    codec_id,   \* pads whose stream has a codec
    waiting,    \* the buffer of each pad: its timestamp
    eos,        \* pads whose stream has ended
    opened,     \* ffmpegmux->opened
    state,      \* "ready", "paused", "error": a fatal error was posted
    last,       \* per pad, the last timestamp upstream has sent
    negotiated, \* history: pads with caps since the element was started
    header,     \* history: the header was written since the start, pads negotiated then
    out,        \* history: the last timestamp written, the smallest that waited with it
    received, written,      \* history: buffers since the element was started
    untimed,    \* history: some had no timestamp
    ended,      \* EOS was pushed
    count, stops            \* counters for the bounds

pvars == <<codec_id, waiting, eos, last, negotiated>>
hvars == <<header, out, received, written, untimed>>
vars == <<pvars, opened, state, hvars, ended, count, stops>>

NoHeader == [done |-> FALSE, pads |-> {}]
NoOutput == [ts |-> 0, others |-> {}]

Init ==
    /\ codec_id = {} /\ waiting = [p \in Pads |-> NoBuffer] /\ eos = {}
    /\ opened = FALSE /\ state = "ready"
    /\ last = [p \in Pads |-> 0] /\ negotiated = {}
    /\ header = NoHeader /\ out = NoOutput
    /\ received = 0 /\ written = 0 /\ untimed = FALSE
    /\ ended = FALSE
    /\ count = [p \in Pads |-> 0] /\ stops = 0

-----------------------------------------------------------------------------
(* Upstream of a pad: caps, buffers with rising timestamps or none, EOS.   *)
(* The first buffer may come without caps.                                 *)
Idle(p) == state = "paused" /\ waiting[p] = NoBuffer /\ p \notin eos

gst_ffmpegmux_setcaps(p) ==
    /\ Idle(p) /\ p \notin negotiated
    /\ codec_id' = codec_id \cup {p}
    /\ negotiated' = negotiated \cup {p}
    /\ UNCHANGED <<waiting, eos, last, opened, state, hvars, ended, count, stops>>

PadBuffer(p) ==
    /\ Idle(p) /\ count[p] < MaxBuffers
    /\ \E t \in Timestamps :
       /\ t >= last[p]
       /\ waiting' = [waiting EXCEPT ![p] = t]
       /\ last' = IF t = NONE THEN last ELSE [last EXCEPT ![p] = t]
       /\ untimed' = (untimed \/ t = NONE)
    /\ received' = received + 1
    /\ count' = [count EXCEPT ![p] = @ + 1]
    /\ UNCHANGED <<codec_id, eos, negotiated, opened, state, header, out, written, ended, stops>>

PadEos(p) ==
    /\ Idle(p)
    /\ eos' = eos \cup {p}
    /\ UNCHANGED <<codec_id, waiting, last, negotiated, opened, state, hvars, ended, count, stops>>

-----------------------------------------------------------------------------
Queued == {p \in Pads : waiting[p] # NoBuffer}

Collected == state = "paused" /\ ~ended /\ Queued \cup eos = Pads

(* The file is opened on the first call, if each stream has a codec.       *)
CanOpen == opened \/ codec_id = Pads

HeaderOnce == header' = IF opened THEN header ELSE [done |-> TRUE, pads |-> negotiated]

(* The list is searched for the oldest buffer, up to one that has no       *)
(* timestamp and comes first.                                              *)
Oldest(S) == CHOOSE p \in S : \A q \in S : waiting[p] < waiting[q] \/ (waiting[p] = waiting[q] /\ p <= q)
First(S) == CHOOSE p \in S : \A q \in S : p <= q

(* Mutant: the newest buffer is taken.                                     *)
newest_pad == CHOOSE p \in Queued : \A q \in Queued : waiting[p] >= waiting[q]

best_pad == IF waiting[First(Queued)] = NONE THEN First(Queued) ELSE Oldest(Queued)

Write(p) ==
    /\ opened' = TRUE /\ HeaderOnce
    /\ waiting' = [waiting EXCEPT ![p] = NoBuffer]
    /\ out' = [ts |-> waiting[p], others |-> {waiting[q] : q \in Queued}]
    /\ written' = written + 1
    /\ UNCHANGED <<codec_id, eos, last, negotiated, state, received, untimed, ended, count, stops>>

CollectedWrite == Collected /\ CanOpen /\ Queued # {} /\ Write(best_pad)

(* No buffer is left: the trailer and EOS.                                 *)
CollectedClose ==
    /\ Collected /\ CanOpen /\ Queued = {}
    /\ opened' = FALSE /\ ended' = TRUE
    /\ HeaderOnce
    /\ UNCHANGED <<pvars, state, out, received, written, untimed, count, stops>>

(* A stream without a codec, a file that does not open, a header that      *)
(* cannot be written.                                                      *)
CollectedError ==
    /\ Collected /\ ~opened
    /\ state' = "error"
    /\ UNCHANGED <<pvars, opened, hvars, ended, count, stops>>

-----------------------------------------------------------------------------
(* gst_ffmpegmux_change_state; the codecs of the streams stay.             *)
Start ==
    /\ state = "ready"
    /\ state' = "paused"
    /\ UNCHANGED <<pvars, opened, hvars, ended, count, stops>>

(* Mutant: the file stays open.                                            *)
stop_open == UNCHANGED opened

CloseFile == opened' = FALSE

Stop ==
    /\ state # "ready" /\ stops < MaxStops
    /\ state' = "ready"
    /\ CloseFile
    /\ waiting' = [p \in Pads |-> NoBuffer] /\ eos' = {} /\ ended' = FALSE
    /\ last' = [p \in Pads |-> 0] /\ negotiated' = {}
    /\ header' = NoHeader /\ out' = NoOutput /\ received' = 0 /\ written' = 0 /\ untimed' = FALSE
    /\ count' = [p \in Pads |-> 0]
    /\ stops' = stops + 1
    /\ UNCHANGED codec_id

Next ==
    \/ \E p \in Pads : gst_ffmpegmux_setcaps(p) \/ PadBuffer(p) \/ PadEos(p)
    \/ CollectedWrite \/ CollectedClose \/ CollectedError
    \/ Start \/ Stop

Spec == Init /\ [][Next]_vars

-----------------------------------------------------------------------------
(* What waits came last from its stream, and no stream is behind the file  *)
(* while it may still send.                                                *)
Rising ==
    ~untimed => \A p \in Pads : /\ p \in Queued => waiting[p] = last[p]
                                /\ p \in Queued \/ p \notin eos => out.ts <= last[p]

(* Every buffer that arrived is written or waits; what is open was opened  *)
(* since the start.                                                        *)
MuxInv ==
    /\ codec_id \subseteq Pads /\ eos \subseteq Pads /\ negotiated \subseteq codec_id
    /\ waiting \in [Pads -> Timestamps \cup {NoBuffer}] /\ last \in [Pads -> 0..MaxTime]
    /\ state \in {"ready", "paused", "error"} /\ opened \in BOOLEAN /\ ended \in BOOLEAN
    /\ received \in Nat /\ written \in Nat /\ untimed \in BOOLEAN /\ out.ts \in Nat
    /\ \A p \in eos : waiting[p] = NoBuffer
    /\ received = written + Cardinality(Queued)
    /\ opened => header.done
    /\ Rising

(* take the one with earliest timestamp (gstffmpegmux.c:562): when every   *)
(* stream rises and has timestamps, so does the file.                      *)
Interleaved == [][written' > written /\ ~untimed => out'.ts >= out.ts]_vars

(* After each start a file begins with its header.                         *)
HeaderFirst == written > 0 \/ ended => header.done

(* EOS comes when all streams have ended and all buffers are in the file.  *)
EosAfterAll == ended => eos = Pads /\ received = written

=============================================================================
