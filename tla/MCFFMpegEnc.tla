----------------------------- MODULE MCFFMpegEnc -----------------------------
(***************************************************************************)
(* The encoder of video, the encoder of audio and the muxer.  They share   *)
(* no state, so that a behaviour moves one of them, chosen at the start.   *)
(***************************************************************************)
EXTENDS FFMpegEnc

CONSTANTS
    FrameSize, SampleRate, GST_SECOND, BufferSizes, Gaps, MaxPos,   \* of FFMpegEncAudio
    NumPads, MaxTime, MaxBuffers                                    \* of FFMpegMux

ASSUME AudioAssumption ==
    /\ {FrameSize, SampleRate, GST_SECOND} \subseteq Nat \ {0}
    /\ BufferSizes \subseteq Nat /\ Gaps \subseteq Nat /\ MaxPos \in Nat

ASSUME MuxAssumption == {NumPads, MaxTime, MaxBuffers} \subseteq Nat

VARIABLES
    part,
    available, adapter_ts, adapter_consumed, discont, timestamp, next, resync, frame, failed,
    codec_id, waiting, eos, file, state, last, negotiated, header, packet, received, written,
    untimed, ended, count, restarts

avars == <<available, adapter_ts, adapter_consumed, discont, timestamp, next, resync, frame, failed>>

mvars == <<codec_id, waiting, eos, file, state, last, negotiated, header, packet, received, written,
           untimed, ended, count, restarts>>

A == INSTANCE FFMpegEncAudio WITH out <- frame

M == INSTANCE FFMpegMux WITH opened <- file, out <- packet, stops <- restarts

MCInit == part \in {"video", "audio", "mux"} /\ Init /\ A!Init /\ M!Init

Video == part = "video" /\ Next /\ UNCHANGED <<part, avars, mvars>>
Audio == part = "audio" /\ A!Next /\ UNCHANGED <<part, vars, mvars>>
Mux == part = "mux" /\ M!Next /\ UNCHANGED <<part, vars, avars>>

MCSpec == MCInit /\ [][Video \/ Audio \/ Mux]_<<part, vars, avars, mvars>>

(* The frames in the video encoder are its window, and the queue of delays *)
(* a part of it; forced key frames come out and a stream drains.           *)
VideoInv ==
    /\ EncInv /\ since \in 0..(MaxB + 1) /\ QueueRises
    /\ PendingInside /\ QueueInWindow /\ LongStreamsDrain
    /\ RequestsInside /\ ForcedAreKeys /\ KeysInFront

(* The times of audio frames do not drift, see FFMpegEncAudio.             *)
AudioInv == A!AdapterInv /\ A!OnTime /\ A!Continued

(* The file begins with its header and loses no buffer, see FFMpegMux.     *)
MuxInv == M!MuxInv /\ M!HeaderFirst /\ M!EosAfterAll

(* The times of what is pushed rise: of video, of audio, whose gaps are    *)
(* marked, and of the buffers in a file.                                   *)
InOrder == TimesRise /\ A!GapsMarked /\ M!Interleaved

=============================================================================
