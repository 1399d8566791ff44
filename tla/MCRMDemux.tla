----------------------------- MODULE MCRMDemux -----------------------------
(***************************************************************************)
(* The demuxer, and the correction of the time stamps of video frames with *)
(* B frames (RMTimestamp), which keeps variables of its own in the stream. *)
(* A behaviour moves one of the two, chosen at the start.                  *)
(***************************************************************************)
EXTENDS RMDemux

CONSTANTS SeqSize, MaxTime   \* of RMTimestamp

ASSUME TimestampAssumption == SeqSize \in Nat \ {0} /\ MaxTime \in Nat

VARIABLES part, last_ts, next_ts, last_seq, next_seq, prev, next, timestamp, due

T == INSTANCE RMTimestamp

tvars == <<last_ts, next_ts, last_seq, next_seq, prev, next, timestamp, due>>

(* Stream 1 is video, whose packets span pulls; stream 2 is interleaved.   *)
MCPackets == << [stream |-> 1, ts |-> 0, units |-> 5], [stream |-> 2, ts |-> 0, units |-> 3],
                [stream |-> 2, ts |-> 2, units |-> 3], [stream |-> 1, ts |-> 1, units |-> 4] >>

(* The packets are at 3, 8, 11 and 14.  There is no entry for time 0 and   *)
(* one of stream 2 for time 1.  For time 2 there is one into a packet and  *)
(* no other below it; for time 3 there is, and the search ends at 8.       *)
MCIndex == << << [ts |-> 2, offset |-> 4], [ts |-> 3, offset |-> 15] >>,
              << [ts |-> 1, offset |-> 8], [ts |-> 2, offset |-> 12] >> >>

MCRequests == {[flush |-> f, start |-> t, segment |-> t = 3] : f \in BOOLEAN, t \in 0..3}

MCInit == part \in {"demuxer", "timestamps"} /\ Init /\ T!Init

Demux(A) == part = "demuxer" /\ A /\ UNCHANGED <<part, tvars>>

Timestamps == part = "timestamps" /\ T!Next /\ UNCHANGED <<part, vars>>

MCNext == Demux(Next) \/ Timestamps

(* The scheduler runs the task and the thread that seeks; the application  *)
(* need not seek, start or stop.                                           *)
MCSpec ==
    /\ MCInit /\ [][MCNext]_<<part, vars, tvars>>
    /\ WF_<<part, vars, tvars>>(Demux(Streaming)) /\ WF_<<part, vars, tvars>>(Demux(Seeking))

(* Every buffer gets the time of the frame shown then, see RMTimestamp.    *)
ShownOnTime == T!ShownOnTime

=============================================================================
