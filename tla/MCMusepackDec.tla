---------------------------- MODULE MCMusepackDec ----------------------------
EXTENDS MusepackDec

CONSTANTS p1, p2    \* seekers

(* To a place in the file, to a segment of it, and behind its end.         *)
MCRequests == {[flush |-> f, start |-> 1, stop |-> None, segment |-> FALSE] : f \in BOOLEAN}
              \cup {[flush |-> f, start |-> 0, stop |-> 1, segment |-> TRUE] : f \in BOOLEAN}
              \cup {[flush |-> FALSE, start |-> 3, stop |-> None, segment |-> FALSE]}

=============================================================================
