------------------------------ MODULE NullStates ------------------------------
(***************************************************************************)
(* The state spaces of the three executable nulls: circular_shift_v2,      *)
(* circular_shift_exact_v1 and block_shuffle_v2.                           *)
(*                                                                         *)
(* A null is described by its name, the length of the observed series and  *)
(* its one parameter (min_shift or block_length).  A state is a shift, or  *)
(* an order of blocks: a function from output block to source block.  A    *)
(* series is a function on 0 .. n-1.                                       *)
(***************************************************************************)
EXTENDS Integers, FiniteSets

CONSTANT MaxBlockCount

ASSUME MaxBlockCountAssumption == MaxBlockCount \in Nat \ {0, 1}

NullNames == {"circular_shift_v2", "circular_shift_exact_v1", "block_shuffle_v2"}

Circular(null) == null.name # "block_shuffle_v2"

\* from_parameters: the exact null enumerates the complete group only.
Constructible(null) ==
    /\ null.parameter >= 1
    /\ null.name = "circular_shift_exact_v1" => null.parameter = 1

-----------------------------------------------------------------------------
\* Binding

BlockCount(null) == null.length \div null.parameter

\* The answer of bind: enabled, or the reason it is not.
CircularBindStatus(null) ==
    IF 2 * null.parameter > null.length THEN "SHIFT_SPACE_EMPTY" ELSE "ENABLED"

BlockBindStatus(null) ==
    CASE null.length % null.parameter # 0 -> "NON_DIVISIBLE_TAIL"
      [] null.length % null.parameter = 0 /\ BlockCount(null) < 2 -> "FEWER_THAN_TWO_BLOCKS"
      [] null.length % null.parameter = 0 /\ BlockCount(null) > MaxBlockCount -> "TOO_MANY_BLOCKS"
      [] OTHER -> "ENABLED"

BindStatus(null) ==
    IF Circular(null) THEN CircularBindStatus(null) ELSE BlockBindStatus(null)

-----------------------------------------------------------------------------
\* Circular states

\* total_state_count of a circular null.
ShiftCount(n, m) == n - 2 * m + 2

\* The shifts apply accepts.
InShifts(shift, n, m) == shift = 0 \/ (m <= shift /\ shift <= n - m)

Shifts(n, m) == {s \in 0 .. n - 1 : InShifts(s, n, m)}

\* Mutant of ShiftAt: index 0 is not kept for the identity.
ShiftAtDense(m, index) == m + index

\* The shift of a sampled index: index 0 is the identity.
ShiftAt(m, index) == IF index = 0 THEN 0 ELSE m + index - 1

\* The right-shift equation: what was at i - s is at i.
Shifted(x, n, s) == [i \in 0 .. n - 1 |-> x[(i - s) % n]]

-----------------------------------------------------------------------------
\* Block states

Ascending(q) == [k \in 0 .. q - 1 |-> k]

Orders(q) ==
    {o \in [0 .. q - 1 -> 0 .. q - 1] : \A j, k \in 0 .. q - 1 : o[j] = o[k] => j = k}

\* Output block k is source block order[k]; the order inside a block is kept.
Reordered(x, n, b, order) == [i \in 0 .. n - 1 |-> x[order[i \div b] * b + (i % b)]]

-----------------------------------------------------------------------------
\* All nulls

IdentityState(null) == IF Circular(null) THEN 0 ELSE Ascending(BlockCount(null))

StatesOf(null) ==
    IF Circular(null)
    THEN Shifts(null.length, null.parameter)
    ELSE Orders(BlockCount(null))

Transform(null, x, state) ==
    IF Circular(null)
    THEN Shifted(x, null.length, state)
    ELSE Reordered(x, null.length, null.parameter, state)
=============================================================================
