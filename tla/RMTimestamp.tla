---------------------------- MODULE RMTimestamp ----------------------------
(***************************************************************************)
(* gst_rmdemux_fix_timestamp in rmdemux.c: the buffers of a video stream   *)
(* with B frames come in decoding order, and get the times at which the    *)
(* decoder will have frames to show.  On receiving a reference frame it    *)
(* shows the one before, so that gets the time of the previous one; a B    *)
(* frame is shown at once.                                                 *)
(*                                                                         *)
(* A packet's timestamp is used for I frames only, for the others the      *)
(* frame's sequence number: its time in milliseconds, modulo 2^13.  The    *)
(* stream (external) has two reference frames less than that apart where   *)
(* their distance matters: ahead of a P frame, and around a B frame.       *)
(***************************************************************************)
EXTENDS Integers

CONSTANTS
    SeqSize,     \* 0x2000, the sequence numbers of frames
    MaxTime      \* bound: the last time in the stream

None == -1

VARIABLES
    last_ts, next_ts, last_seq, next_seq,   \* of the stream
    prev, next,   \* the times of the last two reference frames since a flush
    timestamp,    \* history: what the last buffer got
    due           \* history: the time of the frame that is shown then

vars == <<last_ts, next_ts, last_seq, next_seq, prev, next, timestamp, due>>

Time == 0..MaxTime \cup {None}

TypeOK ==
    /\ last_ts \in Time /\ next_ts \in Time
    /\ last_seq \in 0..SeqSize /\ next_seq \in 0..SeqSize
    /\ prev \in Time /\ next \in Time /\ timestamp \in Time /\ due \in Time

Init ==
    /\ last_ts = None /\ next_ts = None /\ last_seq = 0 /\ next_seq = 0
    /\ prev = None /\ next = None /\ timestamp = None /\ due = None

seq(time) == time % SeqSize

(* Mutant: the sequence number is taken not to wrap around.                *)
forward_unwrapped(s, from) == IF s < from THEN 0 ELSE s - from

(* The time from one sequence number to a later one.                       *)
forward(s, from) == IF s < from THEN s + SeqSize - from ELSE s - from

Reference(time) == prev' = next /\ next' = time

(* The first frame after a flush is an I frame, to which a seek goes.      *)
IFrame(time) ==
    /\ next < time
    /\ Reference(time)
    /\ timestamp' = IF next_ts = None THEN time ELSE next_ts
    /\ due' = IF next = None THEN time ELSE next
    /\ last_ts' = timestamp' /\ next_ts' = time
    /\ last_seq' = next_seq /\ next_seq' = seq(time)

PFrame(time) ==
    /\ next # None /\ next < time /\ time - next < SeqSize
    /\ Reference(time)
    /\ timestamp' = next_ts /\ due' = next
    /\ last_ts' = next_ts /\ next_ts' = next_ts + forward(seq(time), next_seq)
    /\ last_seq' = next_seq /\ next_seq' = seq(time)

(* Several B frames between two references come in the order of display.   *)
BFrame(time) ==
    /\ prev # None /\ prev < time /\ time < next /\ time - prev < SeqSize
    /\ due < time
    /\ timestamp' = last_ts + forward(seq(time), last_seq) /\ due' = time
    /\ UNCHANGED <<last_ts, next_ts, last_seq, next_seq, prev, next>>

(* FLUSH_STOP, after which the stream goes on anywhere.  The sequence      *)
(* numbers become 0xffff: none of a frame.                                 *)
FlushStop ==
    /\ last_ts' = None /\ next_ts' = None /\ last_seq' = SeqSize /\ next_seq' = SeqSize
    /\ prev' = None /\ next' = None /\ timestamp' = None /\ due' = None

Next ==
    \/ \E time \in 0..MaxTime : IFrame(time) \/ PFrame(time) \/ BFrame(time)
    \/ FlushStop

Spec == Init /\ [][Next]_vars

-----------------------------------------------------------------------------
(* Every buffer gets the time of the frame that the decoder shows when it  *)
(* receives it, over wrapped sequence numbers, I frames in the middle of   *)
(* the stream and lost stretches that end with an I frame.                 *)
ShownOnTime == TypeOK /\ timestamp = due

=============================================================================
