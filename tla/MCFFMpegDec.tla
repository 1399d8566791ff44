----------------------------- MODULE MCFFMpegDec -----------------------------
EXTENDS FFMpegDec

(* What the kinds below have in common.                                    *)
Plain == [MaxPos |-> 4, MaxB |-> 1, Modes |-> {"pts"}, Untimed |-> FALSE, AnyStart |-> FALSE,
          OpenGop |-> TRUE, KeySize |-> 2, Late |-> 1, Earliest |-> {}, Starts |-> {}, Stops |-> {},
          Reverse |-> FALSE, MaxRuns |-> 2, MaxEpochs |-> 1, MaxSegments |-> 1, MaxErrors |-> 0,
          MaxQos |-> 0, MaxCaps |-> 0]

(* Groups that may begin with delta frames, a corrupt frame or a failing   *)
(* downstream, QoS at any moment.                                          *)
Rough == [Plain EXCEPT !.AnyStart = TRUE, !.OpenGop = FALSE, !.Earliest = {1, 4}, !.Starts = {0, 1},
                       !.MaxSegments = 0, !.MaxErrors = 1, !.MaxQos = 1]

(* Forward and backward playback, and new caps.                            *)
Backward == [Plain EXCEPT !.Reverse = TRUE, !.Starts = {0, 1}, !.Stops = {2, 4}, !.MaxCaps = 1]

(* Presentation times, of which some are missing, or decoding times.       *)
Sparse == [Plain EXCEPT !.MaxPos = 6, !.MaxB = 2, !.Modes = {"pts", "dts"}, !.Untimed = TRUE,
                        !.Starts = {0, 2}, !.Stops = {4}]

(* QoS that drops B frames and never whole groups.                         *)
Hurried == [Plain EXCEPT !.MaxPos = 5, !.Late = 9, !.Earliest = {1, 4}, !.Starts = {0}, !.MaxRuns = 1,
                         !.MaxQos = 2, !.MaxCaps = 1]

MCStreams == {Rough, Backward, Sparse, Hurried}

=============================================================================
