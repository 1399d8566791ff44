------------------------------ MODULE FFMpegEnc ------------------------------
(***************************************************************************)
(* gstffmpegenc.c, video: an encoder with B frames gives no frame for its  *)
(* first inputs and frames in coding order after that.  Buffers whose      *)
(* frames the encoder holds wait in the queue `delay', and a coded frame   *)
(* takes its times from the head of the queue.                             *)
(*                                                                         *)
(* A frame is its number in the stream, and its timestamp with it.  The    *)
(* encoder is the MPEG encoder of the libavcodec that comes with the       *)
(* source, with the B frame strategy that gst_ffmpegenc_setcaps sets: as   *)
(* many B frames as it may.                                                *)
(***************************************************************************)
EXTENDS Integers, Sequences, FiniteSets

CONSTANTS
    NumFrames,      \* bound: frames of the stream
    MaxB,           \* max-bframes
    GopSize,        \* gop-size
    ClosedGop,      \* the flag closedgop
    MaxForces,      \* bound: requests for a key frame
    MaxRenegs,      \* bound: caps that change while the stream runs
    MaxEos,         \* bound: ends of the stream, after which a seek may go on
    MaxStops        \* bound: changes to READY

ASSUME EncAssumption ==
    /\ {NumFrames, MaxB, MaxForces, MaxRenegs, MaxEos, MaxStops} \subseteq Nat
    /\ GopSize \in Nat \ {0} /\ ClosedGop \in BOOLEAN

VARIABLES
    opened,     \* ffmpegenc->opened
    delay,      \* ffmpegenc->delay
    pict_type,  \* ffmpegenc->picture->pict_type is FF_I_TYPE
    enc,        \* the encoder: input and reordered pictures, place in the GOP
    at,         \* where the streaming thread is
    result,     \* the coded frame in its hands
    sent,       \* frames upstream has sent
    out,        \* history: the last buffer pushed
    pending,    \* history: frames the encoder has taken and not given back
    since,      \* history: frames taken since it was empty, up to MaxB + 1
    odd,        \* history: caps changed, or a stream ended after at most MaxB frames
    wanted,     \* history: frames that were asked to be key frames
    forces, renegs, ends, stops     \* counters for the bounds

hvars == <<out, pending, since, odd, wanted>>
nvars == <<forces, renegs, ends, stops>>
vars == <<opened, delay, pict_type, enc, at, result, sent, hvars, nvars>>

NoPicture == [n |-> 0, key |-> FALSE]
EncoderInit == [input |-> [i \in 0..MaxB |-> NoPicture], reordered |-> <<>>, gop |-> 0, ref |-> FALSE]

Init ==
    /\ opened = FALSE /\ delay = <<>> /\ pict_type = FALSE
    /\ enc = EncoderInit /\ at = "idle" /\ result = NoPicture /\ sent = 0
    /\ out = [n |-> -1, ts |-> 0, key |-> FALSE, odd |-> FALSE]   \* nothing yet
    /\ pending = {} /\ since = 0 /\ odd = FALSE /\ wanted = {}
    /\ forces = 0 /\ renegs = 0 /\ ends = 0 /\ stops = 0

-----------------------------------------------------------------------------
(* libavcodec: a picture, or NoPicture at the end, enters behind MaxB      *)
(* others; when the one in front is due, the reference that follows its B  *)
(* frames is coded first, then the B frames.                               *)
Shifted(e, pic) ==
    [e EXCEPT !.input = [i \in 0..MaxB |-> IF i < MaxB THEN e.input[i + 1] ELSE pic],
              !.gop = e.gop + 1]

BFrames(e) ==
    LET present == CHOOSE b \in 0..MaxB : /\ e.input[b].n # 0
                                          /\ \A i \in b + 1 .. MaxB : e.input[i].n = 0
        forced == {i \in 0 .. present - 1 : e.input[i].key}
    IN  IF forced = {} THEN present ELSE CHOOSE i \in forced : \A j \in forced : i <= j

Group(e) ==
    LET b == BFrames(e)
        full == e.gop + b >= GopSize
        last == IF full /\ ClosedGop THEN 0 ELSE b
        key == full \/ e.input[last].key
        ref == IF ClosedGop /\ last > 0 /\ key THEN last - 1 ELSE last
    IN  <<[n |-> e.input[ref].n, key |-> IF ref = last THEN key ELSE e.input[ref].key]>>
        \o [i \in 1..ref |-> [n |-> e.input[i - 1].n, key |-> FALSE]]

(* After the call: the encoder, and what it gave.                          *)
avcodec_encode_video(e, pic) ==
    LET s == Shifted(e, pic)
        due == IF s.reordered # <<>> THEN s.reordered
               ELSE IF s.input[0].n = 0 THEN <<>>
               ELSE IF ~s.ref THEN <<[n |-> s.input[0].n, key |-> TRUE]>>
               ELSE Group(s)
    IN  IF due = <<>> THEN [enc |-> s, coded |-> NoPicture]
        ELSE [enc |-> [s EXCEPT !.reordered = Tail(due), !.ref = TRUE,
                                !.gop = IF Head(due).key THEN 0 ELSE s.gop],
              coded |-> Head(due)]

-----------------------------------------------------------------------------
(* Caps: the codec is closed and opened again.  What it holds is gone, and *)
(* `delay' stays.  The codec may refuse.                                   *)
gst_ffmpegenc_setcaps ==
    /\ at = "idle"
    /\ opened => renegs < MaxRenegs
    /\ \E ok \in BOOLEAN : opened' = ok
    /\ enc' = EncoderInit
    /\ pending' = {} /\ since' = 0
    /\ renegs' = IF opened THEN renegs + 1 ELSE renegs
    /\ odd' = (odd \/ delay # <<>>)
    /\ UNCHANGED <<delay, pict_type, at, result, sent, out, wanted, forces, ends, stops>>

(* A buffer: the encoder takes the frame and may give one.                 *)
Accept == at = "idle" /\ opened /\ sent < NumFrames /\ sent' = sent + 1

Encode(key) == avcodec_encode_video(enc, [n |-> sent + 1, key |-> key])

Encoded(r) ==
    /\ Accept
    /\ enc' = r.enc
    /\ pending' = (pending \cup {sent'}) \ {r.coded.n}
    /\ result' = r.coded
    /\ at' = IF r.coded = NoPicture THEN "idle" ELSE "push"
    /\ since' = IF since > MaxB THEN since ELSE since + 1
    /\ UNCHANGED <<opened, pict_type, out, odd, wanted, nvars>>

ChainEncode == Encoded(Encode(pict_type)) /\ delay' = Append(delay, sent')

(* The encoder refuses a frame, for example one whose time is rounded to   *)
(* that of the last one: it is dropped.                                    *)
ChainRefused ==
    /\ Accept
    /\ enc' = [enc EXCEPT !.gop = @ + 1]
    /\ UNCHANGED <<opened, delay, pict_type, at, result, hvars, nvars>>

(* The coded frame takes its time from the head of the queue.              *)
Push(ts) ==
    /\ at = "push"
    /\ out' = [n |-> result.n, ts |-> ts, key |-> result.key, odd |-> odd]
    /\ pict_type' = FALSE
    /\ at' = "idle" /\ result' = NoPicture
    /\ UNCHANGED <<opened, enc, sent, pending, since, odd, wanted, nvars>>

(* Mutant: the frame that was just encoded gives the time.                 *)
push_tail == Push(delay[Len(delay)]) /\ delay' = SubSeq(delay, 1, Len(delay) - 1)

ChainPush == Push(Head(delay)) /\ delay' = Tail(delay)

(* gst_ffmpegenc_event_video, _event_src: downstream or the application    *)
(* asks for a key frame, in a thread of its own.                           *)
GstForceKeyUnit ==
    /\ forces < MaxForces
    /\ pict_type' = TRUE
    /\ wanted' = IF at = "idle" THEN wanted \cup {sent + 1} ELSE wanted
    /\ forces' = forces + 1
    /\ UNCHANGED <<opened, delay, enc, at, result, sent, out, pending, since, odd, renegs, ends, stops>>

(* EOS: one buffer for each entry of the queue, then the event.            *)
EosEvent ==
    /\ at = "idle" /\ ends < MaxEos
    /\ at' = "drain"
    /\ ends' = ends + 1
    /\ odd' = (odd \/ (since \in 1..MaxB))
    /\ UNCHANGED <<opened, delay, pict_type, enc, result, sent, out, pending, since, wanted, forces,
                   renegs, stops>>

FlushBuffer ==
    /\ at = "drain" /\ opened /\ delay # <<>>
    /\ LET r == avcodec_encode_video(enc, NoPicture) IN
       /\ enc' = r.enc
       /\ out' = [n |-> r.coded.n, ts |-> Head(delay), key |-> r.coded.key, odd |-> odd]
       /\ pending' = pending \ {r.coded.n}
    /\ delay' = Tail(delay)
    /\ UNCHANGED <<opened, pict_type, at, result, sent, since, odd, wanted, nvars>>

(* Mutant: the event is forwarded at once.                                 *)
forward_undrained ==
    /\ at = "drain" /\ at' = "eos"
    /\ delay' = <<>>
    /\ UNCHANGED <<opened, pict_type, enc, result, sent, hvars, nvars>>

EosForward ==
    /\ at = "drain" /\ at' = "eos"
    /\ opened => delay = <<>>
    /\ delay' = <<>>
    /\ UNCHANGED <<opened, pict_type, enc, result, sent, hvars, nvars>>

(* A flushing seek after EOS: nothing is flushed here.                     *)
Resume ==
    /\ at = "eos"
    /\ at' = "idle"
    /\ since' = 0
    /\ UNCHANGED <<opened, delay, pict_type, enc, result, sent, out, pending, odd, wanted, nvars>>

(* PAUSED to READY, once streaming has stopped: the queue is emptied, the  *)
(* codec closed.                                                           *)
gst_ffmpegenc_change_state ==
    /\ at \in {"idle", "eos"} /\ stops < MaxStops
    /\ opened' = FALSE /\ delay' = <<>>
    /\ enc' = EncoderInit
    /\ at' = "idle"
    /\ pending' = {} /\ since' = 0 /\ odd' = FALSE
    /\ stops' = stops + 1
    /\ UNCHANGED <<pict_type, result, sent, out, wanted, forces, renegs, ends>>

Next ==
    \/ gst_ffmpegenc_setcaps \/ ChainEncode \/ ChainRefused \/ ChainPush
    \/ GstForceKeyUnit \/ EosEvent \/ FlushBuffer \/ EosForward \/ Resume
    \/ gst_ffmpegenc_change_state

Spec == Init /\ [][Next]_vars

-----------------------------------------------------------------------------
(* The queue and the encoder hold the same number of frames, unless caps   *)
(* or a short stream have come between; a closed codec holds nothing.      *)
EncInv ==
    /\ opened \in BOOLEAN /\ pict_type \in BOOLEAN
    /\ delay \in Seq(1..NumFrames) /\ pending \subseteq 1..NumFrames
    /\ at \in {"idle", "push", "drain", "eos"}
    /\ at = "push" <=> result # NoPicture
    /\ ~odd => Len(delay) = Cardinality(pending) + (IF at = "push" THEN 1 ELSE 0)
    /\ ~opened => pending = {}

(* What the encoder has still to give: all in its window but the           *)
(* reference it gave before the B frames that are due.                     *)
Inside(e) == {e.input[i].n : i \in 0..MaxB \ {Len(e.reordered)}} \ {0}

(* The pictures of the window are in the order they came, and those due    *)
(* are the B frames at its front: a request has no place among them.       *)
WindowInv(e) ==
    /\ e \in [input : [0..MaxB -> [n : Nat, key : BOOLEAN]], reordered : Seq([n : Nat, key : BOOLEAN]),
              gop : Nat, ref : BOOLEAN]
    /\ \A i, j \in 0..MaxB :
          i < j /\ e.input[i].n # 0 /\ e.input[j].n # 0 => e.input[i].n < e.input[j].n
    /\ \A i \in 0..MaxB : e.input[i].key => e.input[i].n # 0
    /\ Len(e.reordered) <= MaxB
    /\ \A j \in 1..Len(e.reordered) :
          e.reordered[j] = [n |-> e.input[j - 1].n, key |-> FALSE] /\ ~e.input[j - 1].key

(* The frames the encoder has not given back are in its window.            *)
PendingInside ==
    /\ WindowInv(enc)
    /\ \A i \in 0..MaxB : enc.input[i].n <= sent
    /\ pending = Inside(enc)

(* Unless caps or a short stream have come between, the queue is the upper *)
(* part of the window; while it drains, the lower, and nothing is behind.  *)
QueueInWindow ==
    ~odd =>
        /\ at \in {"idle", "push"} =>
             /\ Len(delay) = (IF since <= MaxB THEN since ELSE MaxB) + (IF at = "push" THEN 1 ELSE 0)
             /\ \A j \in 1..Len(delay) : enc.input[MaxB - Len(delay) + j].n = delay[j]
             /\ IF since > MaxB THEN enc.input[0].n # 0
                ELSE /\ at = "idle" /\ enc.reordered = <<>>
                     /\ \A i \in 0..(MaxB - since) : enc.input[i].n = 0 \/ (i = 0 /\ since = 0)
        /\ at \in {"drain", "eos"} =>
             /\ Len(delay) <= MaxB /\ Len(enc.reordered) <= Len(delay)
             /\ \A i \in 1..MaxB : enc.input[i].n = IF i <= Len(delay) THEN delay[i] ELSE 0
             /\ enc.reordered # <<>> => enc.input[0].n # 0
        /\ at = "eos" => delay = <<>>

(* A frame that was asked to be a key frame is one on its whole way.       *)
RequestsInside ==
    /\ wanted \subseteq 1..(sent + 1)
    /\ sent + 1 \in wanted => pict_type /\ at # "push"
    /\ \A i \in 0..MaxB : enc.input[i].n \in wanted => enc.input[i].key
    /\ result \in [n : 0..sent, key : BOOLEAN] /\ (result.n \in wanted => result.key)
    /\ out.n \in -1..sent

(* A key frame that wants its time is the frame at the head of the queue.  *)
KeysInFront == ClosedGop /\ at = "push" /\ result.key /\ ~odd => result.n = Head(delay)

(* The queue rises, from behind the last buffer to the last frame that was *)
(* sent, and is not empty when a coded frame wants a time.                 *)
QueueRises ==
    /\ sent \in Nat /\ out.ts \in 0..sent
    /\ delay \in Seq(Nat)
    /\ \A i \in 1..Len(delay) : out.ts < delay[i] /\ delay[i] <= sent
    /\ \A i, j \in 1..Len(delay) : i < j => delay[i] < delay[j]
    /\ at = "push" => delay # <<>>

(* Buffers go out with rising timestamps, also over caps, ends and         *)
(* refused frames.                                                         *)
TimesRise == [][out' # out => out'.ts > out.ts]_vars

(* handle b-frame delay ... but keyframes should still end up with the     *)
(* proper metadata (gstffmpegenc.c:693): a key frame carries its own time. *)
KeyframesInTime == out.key /\ ~out.odd => out.n = out.ts

(* A request for a key frame that arrives between two buffers is served    *)
(* with the next one that is encoded.                                      *)
ForcedAreKeys == out.n \in wanted => out.key

(* The EOS of a stream of more than MaxB frames comes behind all of them.  *)
LongStreamsDrain == at = "eos" /\ ~odd => pending = {}

=============================================================================
