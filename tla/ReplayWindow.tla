---------------------------- MODULE ReplayWindow ----------------------------
(***************************************************************************)
(* The sliding replay windows of rlib: r_dtls13_replay_check for the       *)
(* records of an epoch (rlib/net/proto/rtls13.c).  A window is             *)
(* [max, bits]: the highest number accepted, and the set of distances d    *)
(* such that bit d of the bitmap is set.                                   *)
(***************************************************************************)
EXTENDS Integers

CONSTANT WINDOW          \* R_DTLS13_REPLAY_WINDOW: bits in the bitmap
ASSUME WindowAssumption == WINDOW \in Nat \ {0}

window_init == [max |-> 0, bits |-> {}]

(* bitmap << diff, in a word of WINDOW bits *)
shift(bits, diff) == {d \in 0..(WINDOW - 1) : d - diff \in bits}

replay_fresh(w, seq) ==
    \/ seq > w.max
    \/ w.max - seq < WINDOW /\ (w.max - seq) \notin w.bits

replay_update(w, seq) ==
    IF seq > w.max
    THEN [max |-> seq, bits |-> shift(w.bits, seq - w.max) \cup {0}]
    ELSE [w EXCEPT !.bits = @ \cup {w.max - seq}]
=============================================================================
