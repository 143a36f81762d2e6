----------------------------- MODULE ExactOracle -----------------------------
(***************************************************************************)
(* The finite-state oracle (exact_oracle_v0.py): an enumeration of all     *)
(* states of circular_shift_v2 or block_shuffle_v2, written apart from the *)
(* nulls, with a full scan and selection for each state.                   *)
(*                                                                         *)
(* What a scan decides for a state is a function on the states.            *)
(***************************************************************************)
EXTENDS NullStates

CONSTANT MaxExactStates \* MAX_EXACT_STATES_V0

ASSUME MaxExactStatesAssumption == MaxExactStates \in Nat \ {0}

OracleNames == {"circular_shift_v2", "block_shuffle_v2"}

\* The product of 2 .. q, stopped as soon as it would pass the cap.
CappedFactorial(q) ==
    LET Product[factor \in 1 .. q] ==
            CASE factor = 1 -> 1
              [] factor > 1 /\ Product[factor - 1] > MaxExactStates \div factor -> MaxExactStates + 1
              [] OTHER -> Product[factor - 1] * factor
    IN  Product[q]

\* Mutant of StateTotal: the identity is not among the states counted.
StateTotalWithoutIdentity(null) ==
    IF Circular(null)
    THEN null.length - 2 * null.parameter + 1
    ELSE CappedFactorial(BlockCount(null))

\* _circular_state_count and _block_state_count, for a null that is not refused.
StateTotal(null) ==
    IF Circular(null)
    THEN null.length - 2 * null.parameter + 2
    ELSE CappedFactorial(BlockCount(null))

\* The answer before any state is visited.
OracleStatus(null) ==
    CASE null.name \notin OracleNames -> "UNSUPPORTED"
      [] null.name \in OracleNames /\ BindStatus(null) = "SHIFT_SPACE_EMPTY" -> "SHIFT_SPACE_EMPTY"
      [] null.name \in OracleNames /\ ~Circular(null) /\ null.length % null.parameter # 0 ->
            "NON_DIVISIBLE_TAIL"
      [] null.name \in OracleNames /\ ~Circular(null) /\ BlockCount(null) < 2 ->
            "FEWER_THAN_TWO_BLOCKS"
      [] OTHER -> IF StateTotal(null) > MaxExactStates THEN "EXACT_STATE_CAP_EXCEEDED" ELSE "ENUMERATES"

\* The states visited: every shift that is not excluded, every order but the ascending one.
NonidentityStates(null) ==
    IF Circular(null)
    THEN null.parameter .. null.length - null.parameter
    ELSE Orders(BlockCount(null)) \ {Ascending(BlockCount(null))}

Exceedances(null, decision) ==
    Cardinality({s \in NonidentityStates(null) : decision[s] >= decision[IdentityState(null)]})

\* p_exact as a fraction.
PExact(null, decision) == <<1 + Exceedances(null, decision), StateTotal(null)>>
=============================================================================
