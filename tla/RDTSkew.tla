------------------------------ MODULE RDTSkew ------------------------------
(***************************************************************************)
(* The clock skew estimator of rdtjitterbuffer.c (calculate_skew): a       *)
(* window of the latest differences between the elapsed times at receiver  *)
(* and sender, whose minimum is averaged into the skew.                    *)
(*                                                                         *)
(* Times are in the unit of the constants; -1 is GST_CLOCK_TIME_NONE.      *)
(***************************************************************************)
EXTENDS Integers

CONSTANTS
    MAX_WINDOW,     \* RDT_JITTER_BUFFER_MAX_WINDOW, 512
    MAX_TIME,       \* 2 seconds
    GST_SECOND,     \* largest step of the sender's time
    RtpTimes,       \* sender times a packet may have, scaled to GStreamer time
    Times           \* arrival times a packet may have

ASSUME SkewAssumption ==
    /\ MAX_WINDOW \in Nat \ {0} /\ MAX_TIME \in Nat \ {0} /\ GST_SECOND \in Nat
    /\ RtpTimes \subseteq Nat /\ Times \subseteq Nat

VARIABLES
    base_time, base_rtptime, prev_send_diff,
    window, window_pos, window_size, window_filling, window_min,
    skew,
    out_time        \* the timestamp calculate_skew returned last

bvars == <<base_time, base_rtptime, prev_send_diff>>
wvars == <<window, window_pos, window_size, window_filling, window_min>>

skvars == <<bvars, wvars, skew, out_time>>

(* rdt_jitter_buffer_reset_skew; window and window_size are zeroed once,   *)
(* when the object is created.                                             *)
SInit ==
    /\ base_time = -1 /\ base_rtptime = -1 /\ prev_send_diff = -1
    /\ window = [i \in 0 .. MAX_WINDOW - 1 |-> 0]
    /\ window_pos = 0 /\ window_size = 0
    /\ window_filling = TRUE /\ window_min = 0
    /\ skew = 0 /\ out_time = -1

(* C division truncates towards zero.                                      *)
trunc_div(a, b) == IF a >= 0 THEN a \div b ELSE -((-a) \div b)

(* Lock on to the first times; take a new base when the sender's time goes *)
(* backwards.                                                              *)
Base(g, t) ==
    LET time    == IF base_time = -1 THEN t ELSE base_time
        rtptime == IF base_rtptime = -1 THEN g ELSE base_rtptime
    IN IF g >= rtptime
       THEN [time |-> time, rtptime |-> rtptime, send_diff |-> g - rtptime]
       ELSE [time |-> t, rtptime |-> g, send_diff |-> 0]

(* The sender's time changed too quickly: reset and start again.           *)
Jump(g, t) ==
    LET diff == Base(g, t).send_diff - prev_send_diff
    IN prev_send_diff # -1 /\ (diff > GST_SECOND \/ -diff > GST_SECOND)

SetBase(b) ==
    /\ base_time' = b.time
    /\ base_rtptime' = b.rtptime
    /\ prev_send_diff' = b.send_diff
    /\ out_time' = b.time + b.send_diff + skew'

(* Mutant: the two fill levels are added up.                               *)
perc_added(send_diff, pos) ==
    LET p == (send_diff * 100) \div MAX_TIME + (pos * 100) \div MAX_WINDOW
    IN p * p

(* The weight in 1/10000 of the minimum while the window fills: parabolic  *)
(* in the part of the window, by time or by number, that is filled.        *)
perc(send_diff, pos) ==
    LET perc_time   == (send_diff * 100) \div MAX_TIME
        perc_window == (pos * 100) \div MAX_WINDOW
        p == IF perc_time > perc_window THEN perc_time ELSE perc_window
    IN p * p

(* The window is filling: one more value, at pos.                          *)
Fill(b, delta, pos, min, sk) ==
    LET full == b.send_diff >= MAX_TIME \/ pos + 1 >= MAX_WINDOW
        p    == perc(b.send_diff, pos + 1)
    IN /\ window' = [window EXCEPT ![pos] = delta]
       /\ window_min' = IF pos = 0 \/ delta < min THEN delta ELSE min
       /\ window_filling' = ~full
       /\ window_size' = IF full THEN pos + 1 ELSE pos + 2
       /\ window_pos' = IF full THEN 0 ELSE pos + 1
       /\ skew' = IF full THEN window_min'
                  ELSE trunc_div(p * window_min' + (10000 - p) * sk, 10000)
       /\ SetBase(b)

(* Mutant: the search for the new minimum misses the last slot.            *)
rescan_short(w, old) ==
    LET Values == {w[i] : i \in 0 .. window_size - 2} \cup {w[0]}
    IN CHOOSE m \in Values : \A v \in Values : m <= v

(* The smallest value of window w, once its old minimum was overwritten;   *)
(* the search stops at another value equal to the old minimum.             *)
rescan(w, old) ==
    IF \E i \in 0 .. window_size - 1 : w[i] = old
    THEN old
    ELSE LET Values == {w[i] : i \in 0 .. window_size - 1}
         IN CHOOSE m \in Values : \A v \in Values : m <= v

(* The window is full: replace the oldest value.                           *)
Slide(b, delta) ==
    LET old == window[window_pos]
    IN /\ window' = [window EXCEPT ![window_pos] = delta]
       /\ window_min' = IF delta <= window_min THEN delta
                        ELSE IF old = window_min THEN rescan(window', old)
                        ELSE window_min
       /\ skew' = trunc_div(window_min' + 124 * skew, 125)
       /\ window_pos' = IF window_pos + 1 >= window_size THEN 0 ELSE window_pos + 1
       /\ UNCHANGED <<window_size, window_filling>>
       /\ SetBase(b)

(* A packet without arrival time: no skew detection.                       *)
calculate_skew_untimed(g) ==
    /\ UNCHANGED <<wvars, skew>>
    /\ SetBase(Base(g, -1))

calculate_skew_reset(g, t) ==
    /\ Jump(g, t)
    /\ Fill([time |-> t, rtptime |-> g, send_diff |-> 0], 0, 0, 0, 0)

calculate_skew_fill(g, t) ==
    LET b == Base(g, t) IN
    /\ ~Jump(g, t) /\ window_filling
    /\ Fill(b, t - b.time - b.send_diff, window_pos, window_min, skew)

calculate_skew_slide(g, t) ==
    LET b == Base(g, t) IN
    /\ ~Jump(g, t) /\ ~window_filling
    /\ Slide(b, t - b.time - b.send_diff)

SNext == \E g \in RtpTimes :
            \/ calculate_skew_untimed(g)
            \/ \E t \in Times : \/ calculate_skew_reset(g, t)
                                \/ calculate_skew_fill(g, t)
                                \/ calculate_skew_slide(g, t)

SSpec == SInit /\ [][SNext]_skvars

-----------------------------------------------------------------------------
STypeOK ==
    /\ base_time \in Int /\ base_rtptime \in Int /\ prev_send_diff \in Int
    /\ window \in [0 .. MAX_WINDOW - 1 -> Int]
    /\ window_pos \in Nat /\ window_size \in Nat
    /\ window_filling \in BOOLEAN
    /\ window_min \in Int /\ skew \in Int /\ out_time \in Int

(* The next slot to write is inside the window, while it fills, when it is *)
(* full by time before it is full by number, and after a reset.            *)
PositionInWindow ==
    /\ window_filling => window_pos < MAX_WINDOW
    /\ ~window_filling => window_pos < window_size /\ window_size <= MAX_WINDOW

(* window_min is the minimum of the first n slots.                         *)
MinOfFirst(n) == /\ \A i \in 0 .. n - 1 : window_min <= window[i]
                 /\ \E i \in 0 .. n - 1 : window_min = window[i]

(* window_min is the smallest of the values measured since the last reset, *)
(* although the code recomputes it only when the value it drops was the    *)
(* minimum, and stops its search early.                                    *)
WindowMin ==
    /\ window_filling /\ window_pos > 0 => MinOfFirst(window_pos)
    /\ ~window_filling => MinOfFirst(window_size)

(* The inductive invariant of the window that calculate_skew keeps.        *)
SkewInv == STypeOK /\ PositionInWindow /\ WindowMin

(* A packet moves the skew towards the minimum of the window and never     *)
(* past it: the weighted averages with truncating division do not          *)
(* overshoot, whatever the signs.  Only a reset, when the sender's time    *)
(* has jumped, does not start from the old skew: it leaves none.           *)
Between(x, y, z) == (x <= y /\ y <= z) \/ (z <= y /\ y <= x)

SkewApproachesMin ==
    [][IF \E g \in RtpTimes, t \in Times : calculate_skew_reset(g, t)
       THEN skew' = 0
       ELSE Between(skew, skew', window_min')]_skvars

=============================================================================
