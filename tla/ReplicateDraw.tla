---------------------------- MODULE ReplicateDraw ----------------------------
(***************************************************************************)
(* sample_token of a bound null over randbelow of one replicate stream     *)
(* (randomness.py, nulls/*_v2.py).                                         *)
(*                                                                         *)
(* The stream is a source of raw words, any word at any time.  A step      *)
(* consumes one word: randbelow joins words to a candidate, keeps its low  *)
(* bits and starts again when the candidate is not below the bound.  The   *)
(* circular null needs one index; the block null one per Fisher-Yates      *)
(* exchange, from the last position down to the second.                    *)
(***************************************************************************)
EXTENDS ExactOracle, Sequences, FiniteSetsExt

CONSTANTS
    Nulls,    \* the nulls a replicate may be drawn from
    WordBits  \* width of a raw word

ASSUME WordBitsAssumption == WordBits \in Nat \ {0}

ASSUME NullsAssumption ==
    \A null \in Nulls :
        /\ null.name \in {"circular_shift_v2", "block_shuffle_v2"}
        /\ null.length \in Nat \ {0}
        /\ null.parameter \in Nat \ {0}
        /\ BindStatus(null) = "ENABLED"

VARIABLES
    null,    \* the bound null
    phase,      \* "draw" or "drawn"
    words,   \* raw words of the current attempt
    index,   \* the position being exchanged; 0 for the circular null
    labels,  \* the order so far; the shift, once drawn
    picks    \* the indices randbelow returned, in order

drawVars == <<null, phase, words, index, labels, picks>>

-----------------------------------------------------------------------------
\* randbelow

PowerOfTwo[k \in Nat] == IF k = 0 THEN 1 ELSE 2 * PowerOfTwo[k - 1]

Words == 0 .. PowerOfTwo[WordBits] - 1

\* (bound - 1).bit_length()
BitCount(bound) ==
    CHOOSE k \in 0 .. bound :
        PowerOfTwo[k] >= bound /\ \A j \in 0 .. k - 1 : PowerOfTwo[j] < bound

WordsPerAttempt(bound) == (BitCount(bound) + WordBits - 1) \div WordBits

\* The words of an attempt as one number, the first word in front.
Joined(ws) ==
    LET Value[k \in 0 .. Len(ws)] ==
            IF k = 0 THEN 0 ELSE Value[k - 1] * PowerOfTwo[WordBits] + ws[k]
    IN  Value[Len(ws)]

\* Mutant of Masked: the joined words modulo the bound.
MaskedByBound(ws, bound) == Joined(ws) % bound

\* The low bits of the joined words.
Masked(ws, bound) == Joined(ws) % PowerOfTwo[BitCount(bound)]

-----------------------------------------------------------------------------
\* sample_token

\* What randbelow is asked for next.
Bound ==
    IF Circular(null)
    THEN ShiftCount(null.length, null.parameter)
    ELSE index + 1

DrawInit ==
    /\ null \in Nulls
    /\ phase = "draw"
    /\ words = <<>>
    /\ index = IF Circular(null) THEN 0 ELSE BlockCount(null) - 1
    /\ labels = IF Circular(null) THEN 0 ELSE Ascending(BlockCount(null))
    /\ picks = <<>>

\* A raw word that does not complete an attempt, or completes a rejected one.
ReadWord ==
    /\ phase = "draw"
    /\ \E w \in Words :
        LET ws == Append(words, w)
        IN  \/ /\ Len(ws) < WordsPerAttempt(Bound)
               /\ words' = ws
            \/ /\ Len(ws) = WordsPerAttempt(Bound)
               /\ Masked(ws, Bound) >= Bound
               /\ words' = <<>>
    /\ UNCHANGED <<null, phase, index, labels, picks>>

\* labels[index], labels[k] = labels[k], labels[index]
Exchanged(k) == [labels EXCEPT ![index] = labels[k], ![k] = labels[index]]

\* The word that completes an accepted attempt, and what sample_token does with the index.
AcceptWord ==
    /\ phase = "draw"
    /\ \E w \in Words :
        LET ws == Append(words, w)
            pick == Masked(ws, Bound)
        IN  /\ Len(ws) = WordsPerAttempt(Bound)
            /\ pick < Bound
            /\ picks' = Append(picks, pick)
            /\ labels' = IF Circular(null) THEN ShiftAt(null.parameter, pick) ELSE Exchanged(pick)
            /\ index' = IF Circular(null) THEN 0 ELSE index - 1
            /\ phase' = IF index' = 0 THEN "drawn" ELSE "draw"
    /\ words' = <<>>
    /\ UNCHANGED null

Drawn ==
    /\ phase = "drawn"
    /\ UNCHANGED drawVars

DrawNext == ReadWord \/ AcceptWord \/ Drawn

DrawSpec == DrawInit /\ [][DrawNext]_drawVars

-----------------------------------------------------------------------------
\* Properties

\* The bounds a draw asks for, in order.
Bounds ==
    IF Circular(null)
    THEN <<ShiftCount(null.length, null.parameter)>>
    ELSE [k \in 1 .. BlockCount(null) - 1 |-> BlockCount(null) - k + 1]

\* The values of attempts on a bound: every value below it is the value of as many
\* word sequences as any other, so a first accepted attempt is uniform (uniform_randbelow).
AttemptsAreUniform ==
    phase = "draw" =>
        LET attempts == [1 .. WordsPerAttempt(Bound) -> Words]
            hits(v) == Cardinality({ws \in attempts : Masked(ws, Bound) = v})
        IN  /\ hits(0) > 0
            /\ \A v \in 0 .. Bound - 1 : hits(v) = hits(0)

\* The state an index sequence leads to: positions are filled from the last one down, each
\* with what the later exchanges left there.
OrderOf(ks, q) ==
    LET Order[j \in 0 .. Len(ks)] ==
            IF j = 0 THEN Ascending(q)
            ELSE LET o == Order[j - 1]
                     top == q - j
                 IN  [o EXCEPT ![top] = o[ks[j]], ![ks[j]] = o[top]]
    IN  Order[Len(ks)]

IndexSequences == {ks \in [DOMAIN Bounds -> 0 .. Max({Bounds[j] : j \in DOMAIN Bounds}) - 1] :
                      \A j \in DOMAIN Bounds : ks[j] < Bounds[j]}

\* A drawn state is one the bound null accepts and the oracle visits, one index sequence
\* alone leads to it, and there are as many sequences as the oracle counts states: with
\* uniform indices the sampler draws every state of the exact test with the same probability
\* (sample_token, exact_state_oracle_v0).
EveryStateHasOneDraw ==
    phase = "drawn" =>
        /\ labels \in StatesOf(null)
        /\ picks \in IndexSequences
        /\ StatesOf(null) = NonidentityStates(null) \cup {IdentityState(null)}
        /\ OracleStatus(null) = "ENUMERATES" =>
               /\ Cardinality(IndexSequences) = StateTotal(null)
               /\ Cardinality(StatesOf(null)) = StateTotal(null)
        /\ OracleStatus(null) # "ENUMERATES" => Cardinality(IndexSequences) > MaxExactStates
        /\ ~Circular(null) =>
               {ks \in IndexSequences : OrderOf(ks, BlockCount(null)) = labels} = {picks}
        /\ Circular(null) =>
               \A k \in 0 .. Bounds[1] - 1 : ShiftAt(null.parameter, k) = labels => k = picks[1]
=============================================================================
