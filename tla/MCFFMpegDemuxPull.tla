------------------------- MODULE MCFFMpegDemuxPull -------------------------
EXTENDS FFMpegDemuxPull

CONSTANTS s1, s2, p1, p2    \* streams, seekers

(* A frame ahead of the start time, which is 1, comes behind the first     *)
(* one, as leading pictures do.                                            *)
MCFile == << [stream |-> s1, ts |-> 1], [stream |-> s2, ts |-> 0], [stream |-> s1, ts |-> 3] >>

MCRequests == {[flush |-> f, start |-> 2, stop |-> e, segment |-> g] :
                  f \in BOOLEAN, g \in {FALSE}, e \in {None}}
              \cup {[flush |-> TRUE, start |-> 0, stop |-> 1, segment |-> TRUE]}

=============================================================================
