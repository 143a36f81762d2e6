-------------------------- MODULE SelectedFamilyTest --------------------------
(***************************************************************************)
(* What a calibration promises, without the machinery that keeps the       *)
(* promise: B null states are drawn, one verdict is given about all of     *)
(* them, or the run is refused and says nothing.                           *)
(***************************************************************************)
EXTENDS FamilySelection, Sequences

CONSTANTS
    Estimates,   \* the values a statistic returns
    StateCount,  \* states of the null, identity included
    Plans,       \* planned replicates, alpha, and whether every state is drawn once, in order
    NoValue      \* None

VARIABLES
    plan,   \* the plan of the run
    stat,   \* the estimates the statistic has on each null state
    draws,  \* the null states drawn so far
    verdict \* what the run has said, if anything

testVars == <<plan, stat, draws, verdict>>

States == 0 .. StateCount - 1

Vectors == [Candidates -> Estimates \cup {Failure}]

\* The verdict on the scans of the replicates, given the scan of the pair itself: a decision
\* when all of them could be evaluated, bounds on the p-value otherwise.
Verdict(observed, scans) ==
    LET failed   == {i \in DOMAIN scans : ~AllValid(scans[i])}
        exceeded == {i \in DOMAIN scans \ failed : Decision(scans[i]) >= Decision(observed)}
        count(S) == <<1 + Cardinality(S), plan.replicates + 1>>
    IN  IF failed = {}
        THEN [kind |-> "decided", p |-> count(exceeded),
              reject |-> count(exceeded)[1] * plan.alpha[2]
                            <= plan.alpha[1] * count(exceeded)[2]]
        ELSE [kind |-> "bounded", low |-> count(exceeded), high |-> count(exceeded \cup failed)]

\* A verdict, and who gave it: the test, or the verification hook its result went through.
Signed(author, says) == [by |-> author, says |-> says]

\* Every state of an enumerating null is drawn once, or none is.
Complete == plan.enumerating => plan.replicates = StateCount - 1

\* What can be said of any pair under the plan.
Verdicts ==
    {[kind |-> "NULL_BIND"], [kind |-> "OBSERVED_STATISTIC_SCAN"]}
    \cup {Verdict(o, scans) : o \in {v \in Vectors : Complete /\ AllValid(v)},
                              scans \in [1 .. plan.replicates -> Vectors]}

Init ==
    /\ plan \in Plans
    /\ stat \in [States -> Vectors]
    /\ draws = <<>>
    /\ verdict = NoValue

Draw ==
    /\ verdict = NoValue
    /\ AllValid(stat[0])
    /\ Len(draws) < plan.replicates
    /\ \E s \in IF plan.enumerating THEN {Len(draws) + 1} ELSE States : draws' = Append(draws, s)
    /\ UNCHANGED <<plan, stat, verdict>>

Conclude ==
    /\ verdict = NoValue
    /\ AllValid(stat[0])
    /\ Len(draws) = plan.replicates
    /\ Complete
    /\ verdict' = Signed("test", Verdict(stat[0], [i \in DOMAIN draws |-> stat[draws[i]]]))
    /\ UNCHANGED <<plan, stat, draws>>

\* The null could not be bound, or the observed scan failed: no draw was made.
NotEvaluable ==
    /\ verdict = NoValue
    /\ draws = <<>>
    /\ \/ verdict' = Signed("test", [kind |-> "NULL_BIND"])
       \/ ~AllValid(stat[0]) /\ verdict' = Signed("test", [kind |-> "OBSERVED_STATISTIC_SCAN"])
    /\ UNCHANGED <<plan, stat, draws>>

\* The hook replaced the result of a finished run: what is said is no longer about the draws,
\* but still the verdict on some scans of as many replicates as were planned.
Replace ==
    /\ verdict = NoValue
    /\ Len(draws) \in {0, plan.replicates}
    /\ \E says \in Verdicts : verdict' = Signed("hook", says)
    /\ UNCHANGED <<plan, stat, draws>>

\* An error is raised, at any time before the verdict; nothing is returned.
Refuse ==
    /\ verdict = NoValue
    /\ verdict' = Signed("test", [kind |-> "refused"])
    /\ UNCHANGED <<plan, stat, draws>>

Next == Draw \/ Conclude \/ NotEvaluable \/ Replace \/ Refuse

Spec == Init /\ [][Next]_testVars
=============================================================================
