------------------------------ MODULE MCVP8Dec ------------------------------
(* Four frames, two of them key frames, one invisible and one untimed.     *)
EXTENDS VP8Dec

Frame(key, visible, ts) == [key |-> key, visible |-> visible, ts |-> ts]

MixedFile == << Frame(TRUE, TRUE, 0), Frame(FALSE, TRUE, 2),
                Frame(FALSE, FALSE, 4), Frame(TRUE, TRUE, None) >>

SomeSegments == { [start |-> 0, stop |-> None], [start |-> 0, stop |-> 6],
                  [start |-> 4, stop |-> None], [start |-> 9, stop |-> None] }

=============================================================================
