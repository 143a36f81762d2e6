--------------------------- MODULE FamilySelection ---------------------------
(***************************************************************************)
(* The central reselection of a scanned family, select_family_v2.          *)
(*                                                                         *)
(* A result vector is a function from the candidate lags to an integer     *)
(* estimate or to Failure, the mark of a statistic whose validity is       *)
(* ANALYTIC_FAILURE.  Integers stand for the finite floats of the code:    *)
(* the selector only compares, subtracts and takes absolute values.        *)
(***************************************************************************)
EXTENDS Integers, FiniteSets, FiniteSetsExt

CONSTANTS
    Candidates, \* the planned lags, in the order of their values
    Rule,       \* "max_upper" or "max_absolute"
    Tolerance,  \* tie tolerance of the plan
    Failure     \* the mark of an analytical failure

ASSUME CandidatesAssumption ==
    /\ IsFiniteSet(Candidates)
    /\ Candidates # {}
    /\ Candidates \subseteq Nat \ {0}

ASSUME RuleAssumption == Rule \in {"max_upper", "max_absolute"}

ASSUME ToleranceAssumption == Tolerance \in Nat

ASSUME FailureAssumption == Failure \notin Int

-----------------------------------------------------------------------------
Magnitude(e) == IF e < 0 THEN -e ELSE e

Score(e) == IF Rule = "max_upper" THEN e ELSE Magnitude(e)

\* Every candidate of the family has a finite estimate.
AllValid(v) == \A c \in Candidates : v[c] # Failure

\* The true family maximum A, whatever the label.
Decision(v) == Max({Score(v[c]) : c \in Candidates})

\* Mutant of Tied: the tolerance boundary is excluded.
StrictTied(v) == {c \in Candidates : Decision(v) - Score(v[c]) < Tolerance}

Tied(v) == {c \in Candidates : Decision(v) - Score(v[c]) <= Tolerance}

\* Mutant of SelectedCandidate: the last of the tied candidates.
LastTied(v) == Max(Tied(v))

\* The first tied candidate in plan order is the smallest tied lag.
SelectedCandidate(v) == Min(Tied(v))
=============================================================================
