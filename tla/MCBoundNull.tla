----------------------------- MODULE MCBoundNull -----------------------------
(***************************************************************************)
(* Small instances of BoundNull and CalibratedNull for TLC.                *)
(***************************************************************************)
EXTENDS CalibratedNull

\* Each kind enabled, with and without excluded shifts, and each disabled reason.
DisturbedNulls ==
    {[name |-> "circular_shift_v2", length |-> 3, parameter |-> 1],
     [name |-> "circular_shift_v2", length |-> 4, parameter |-> 2],
     [name |-> "circular_shift_v2", length |-> 3, parameter |-> 2],
     [name |-> "circular_shift_exact_v1", length |-> 3, parameter |-> 1],
     [name |-> "block_shuffle_v2", length |-> 4, parameter |-> 2],
     [name |-> "block_shuffle_v2", length |-> 3, parameter |-> 2],
     [name |-> "block_shuffle_v2", length |-> 2, parameter |-> 2],
     [name |-> "block_shuffle_v2", length |-> 4, parameter |-> 1]}

\* Longer series, left alone.
LargerNulls ==
    {[name |-> "circular_shift_v2", length |-> 5, parameter |-> m] : m \in 1 .. 2}
    \cup {[name |-> "circular_shift_v2", length |-> 6, parameter |-> m] : m \in 2 .. 3}
    \cup {[name |-> "circular_shift_exact_v1", length |-> 5, parameter |-> 1]}
    \cup {[name |-> "block_shuffle_v2", length |-> 6, parameter |-> 2]}

\* One null of each kind in the hands of the calibrator, and one that cannot be bound.
RunNulls ==
    {[name |-> "circular_shift_v2", length |-> 2, parameter |-> 1],
     [name |-> "circular_shift_exact_v1", length |-> 2, parameter |-> 1],
     [name |-> "circular_shift_exact_v1", length |-> 1, parameter |-> 1],
     [name |-> "block_shuffle_v2", length |-> 2, parameter |-> 1]}

\* Two replicates and two writes for the block null, one and three for the shifts.
RunReplicates(nl) == IF Circular(nl) THEN 1 ELSE 2

RunWrites(nl) == IF Circular(nl) THEN 3 ELSE 2

AllNulls == DisturbedNulls \cup LargerNulls \cup RunNulls

Neighbours ==
    {[name |-> "circular_shift_v2", length |-> 3, parameter |-> 1],
     [name |-> "circular_shift_v2", length |-> 4, parameter |-> 2],
     [name |-> "circular_shift_v2", length |-> 4, parameter |-> 1],
     [name |-> "circular_shift_exact_v1", length |-> 3, parameter |-> 1],
     [name |-> "circular_shift_exact_v1", length |-> 4, parameter |-> 1],
     [name |-> "block_shuffle_v2", length |-> 4, parameter |-> 2],
     [name |-> "block_shuffle_v2", length |-> 6, parameter |-> 2]}

Bits == {0, 1}
=============================================================================
