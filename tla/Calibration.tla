----------------------------- MODULE Calibration -----------------------------
(***************************************************************************)
(* calibrate_selected_family (calibration_v2.py): one exact-B calibration  *)
(* of a scanned family, from the entry snapshot to the verified result.    *)
(*                                                                         *)
(* The program is sequential, but between its own statements it calls      *)
(* adapters (a statistic, a null model) and a public verifier hook.  Any   *)
(* of these callbacks may change an object the run still reads.  A step    *)
(* below is one callback followed by the checks the code makes before the  *)
(* next callback; the change a callback makes is a set of components that  *)
(* have drifted from their snapshot, and a read of a drifted component     *)
(* returns anything.  A check "the signature equals the snapshot" is the   *)
(* test that the component is not in drift.                                *)
(***************************************************************************)
EXTENDS FamilySelection, Sequences

CONSTANTS
    Estimates,    \* the values a statistic returns
    StateCount,   \* total_state_count of the bound null, identity included
    NullStatuses, \* what null_model.bind may answer
    Plans,        \* planned replicates, alpha (a fraction), and whether the null enumerates
    Faults,       \* components a callback may make drift
    Restorable,   \* drifted components a later callback may put back
    MaxReplicates, MaxResultRows, MaxTokenUnits, MaxWork, \* the B, BC, BS and work caps
    ObservedLength, TokenUnits, \* N and S of the in-memory envelope
    NoValue       \* None

Components ==
    {"plan", "statistic", "null",    \* slots the light checkpoint reads
     "arrays",                       \* array contents below those slots
     "globals",                      \* module globals the frozen operations rely on
     "observed", "history", "token", \* retained records
     "result", "malformed"}          \* what a hook or an adapter returns

ASSUME CalibrationAssumption ==
    /\ Estimates \subseteq Int
    /\ StateCount \in Nat \ {0}
    /\ NullStatuses \subseteq {"enabled", "disabled"}
    /\ Plans \subseteq [replicates : Nat \ {0}, alpha : (Nat \ {0}) \X (Nat \ {0}),
                        enumerating : BOOLEAN]
    /\ Faults \subseteq Components
    /\ Restorable \subseteq Components
    /\ {MaxReplicates, MaxResultRows, MaxTokenUnits, MaxWork} \subseteq Nat
    /\ {ObservedLength, TokenUnits} \subseteq Nat \ {0}
    /\ NoValue \notin Int

VARIABLES
    pc,          \* the next segment to run, or "returned" or "raised"
    plan,        \* the plan as the entry snapshot fixed it
    stat,        \* the estimates the statistic has on each null state
    drift,       \* components that differ from their snapshot
    observed,    \* the retained observed vector
    token,       \* the null state drawn for the current replicate
    transformed, \* the null state the transformed pair is in
    history,     \* the outcomes registered so far
    result,      \* the result under construction or returned
    error        \* the kind of the raised error

vars == <<pc, plan, stat, drift, observed, token, transformed, history, result, error>>

-----------------------------------------------------------------------------
\* Data

States == 0 .. StateCount - 1

Identity == 0

Vectors == [Candidates -> Estimates \cup {Failure}]

DecisionValues == {Score(e) : e \in Estimates}

Stages == {"NONE", "NULL_BIND", "OBSERVED_STATISTIC_SCAN", "REPLICATE_EXECUTION"}

Outcomes ==
    [id       : Nat,
     token    : States,
     status   : {"COMPLETE", "ANALYTIC_FAILURE"},
     vector   : Vectors,
     decision : DecisionValues \cup {NoValue}]

\* What the light checkpoint compares: slots and array headers, no contents.
LightVisible == {"plan", "statistic", "null"}

\* What a full recapture of the prepared graph compares.
PreparedGraph == LightVisible \cup {"arrays", "observed"}

\* The states a callback may leave the components in; parts are those within its reach.
DriftsOf(parts) ==
    {d \in SUBSET Components :
        /\ d \ drift \subseteq Faults \cap parts
        /\ drift \ d \subseteq Restorable}

\* A read of what may have drifted: the snapshot's value, or anything.
Reading(component, d, value, range) ==
    IF component \in d THEN range ELSE {value}

\* What evaluate_all returns on a pair in state s.
Evaluations(s, d) ==
    IF d \cap {"statistic", "arrays"} # {} THEN Vectors ELSE {stat[s]}

-----------------------------------------------------------------------------
\* Control

Raise(kind) ==
    /\ pc' = "raised"
    /\ error' = kind

\* Every check on an adapter's return value, failed.
Malformed ==
    /\ "malformed" \in Faults
    /\ pc \in {"bind_statistic", "bind_null", "scan_observed", "sample", "apply", "evaluate"}
    /\ Raise("integrity")
    /\ UNCHANGED <<plan, stat, drift, observed, token, transformed, history, result>>

Init ==
    /\ pc = "bind_statistic"
    /\ plan \in Plans
    /\ stat \in [States -> Vectors]
    /\ drift = {}
    /\ observed = NoValue
    /\ token = NoValue
    /\ transformed = NoValue
    /\ history = <<>>
    /\ result = NoValue
    /\ error = NoValue
-----------------------------------------------------------------------------
\* The checkpoints between callbacks

Proceed(checked, next) ==
    \/ checked /\ pc' = next /\ UNCHANGED error
    \/ ~checked /\ Raise("integrity")

\* Full recapture during preparation; it calls public getters, which may drift again.
ActiveCheck(d) == d \cap PreparedGraph = {}

\* The last checkpoint of the preparation calls no getter.
FinalCheck(d) == d \cap PreparedGraph = {}

\* Mutant of LightCheck: the bound null's slots are not in the fingerprint.
LightCheckWithoutNull(d) == d \cap {"plan", "statistic"} = {}

LightCheck(d) == d \cap LightVisible = {}

\* The identities of the behaviour-critical module globals.
GlobalsCheck(d) == "globals" \notin d

\* What follows every callback of the replicate loop.
LoopCheck(d) == LightCheck(d) /\ GlobalsCheck(d)

\* Mutant of OwnedCheck: the deep recapture after the last replicate is skipped.
OwnedCheckSkipped(d) == d \cap LightVisible = {}

OwnedCheck(d) == d \cap PreparedGraph = {}

\* Registered signatures of the outcomes against the outcomes now held.
HistoryCheck(d) == "history" \notin d

\* Mutant of TokenCheck: the token is not compared after the scan.
TokenNotChecked(d) == TRUE

\* Snapshot of the sampled token against the token now held.
TokenCheck(d) == "token" \notin d

-----------------------------------------------------------------------------
\* Results

Result(status, stage, vector, decision, outcomes) ==
    [status |-> status, stage |-> stage, digest |-> "entry", plan |-> plan,
     observed |-> vector, decision |-> decision, outcomes |-> outcomes,
     label |-> IF decision = NoValue THEN NoValue ELSE SelectedCandidate(vector),
     exceed |-> 0, fails |-> 0, p |-> NoValue, low |-> NoValue, high |-> NoValue,
     reject |-> NoValue]

\* _terminal_result: a run that stopped before its first replicate.
TerminalResult(stage, vector) == Result("NOT_EVALUABLE", stage, vector, NoValue, <<>>)

\* Mutant of ExceedanceCount: a tie with the observed maximum is not counted.
StrictExceedanceCount(outcomes, a) ==
    Cardinality({i \in DOMAIN outcomes :
        outcomes[i].status = "COMPLETE" /\ outcomes[i].decision > a})

\* E: the completed replicates whose family maximum reaches the observed one.
ExceedanceCount(outcomes, a) ==
    Cardinality({i \in DOMAIN outcomes :
        outcomes[i].status = "COMPLETE" /\ outcomes[i].decision >= a})

\* F: the replicates whose scan failed.
FailureCount(outcomes) ==
    Cardinality({i \in DOMAIN outcomes : outcomes[i].status = "ANALYTIC_FAILURE"})

\* p <= alpha, for fractions with positive denominators.
AtMost(p, alpha) == p[1] * alpha[2] <= alpha[1] * p[2]

\* Mutant of FinalResult: failed replicates leave the denominator and a decision is made.
FinalResultDroppingFailures(outcomes, vector, a, pl) ==
    LET E == ExceedanceCount(outcomes, a)
        p == <<1 + E, pl.replicates - FailureCount(outcomes) + 1>>
    IN  [Result("COMPLETE", "NONE", vector, a, outcomes)
            EXCEPT !.plan = pl, !.exceed = E, !.p = p, !.reject = AtMost(p, pl.alpha)]

\* Mutant of PlusOne: the observed family is not one of the compared families.
WithoutObserved(E, B) == <<E, B>>

\* The p-value of a complete run: the observed family is one of the B + 1 compared.
PlusOne(E, B) == <<1 + E, B + 1>>

\* Mutant of FailureBound: only the completed replicates are in the upper bound.
FailureBoundIgnoringFailures(E, F, B) == <<1 + E, B + 1>>

\* A p-value bound when F failed replicates count as exceedances.
FailureBound(E, F, B) == <<1 + E + F, B + 1>>

\* The plus-one p-value of a complete run, or its bounds when a replicate failed.
FinalResult(outcomes, vector, a, pl) ==
    LET E == ExceedanceCount(outcomes, a)
        F == FailureCount(outcomes)
        B == pl.replicates
        complete ==
            [Result("COMPLETE", "NONE", vector, a, outcomes)
                EXCEPT !.plan = pl, !.exceed = E, !.p = PlusOne(E, B),
                       !.reject = AtMost(PlusOne(E, B), pl.alpha)]
        failed ==
            [Result("NOT_EVALUABLE", "REPLICATE_EXECUTION", vector, a, outcomes)
                EXCEPT !.plan = pl, !.exceed = E, !.fails = F,
                       !.low = FailureBound(E, 0, B), !.high = FailureBound(E, F, B)]
    IN  IF F = 0 THEN complete ELSE failed

\* Mutant of OutcomeIsSound: the decision is the score of the selected candidate.
OutcomeIsSoundByLabel(o, position) ==
    /\ o.id = position - 1
    /\ o.status = "COMPLETE" =>
           AllValid(o.vector) /\ o.decision = Score(o.vector[SelectedCandidate(o.vector)])

\* A complete vector is scored everywhere and carries the decision its scores give.
CompleteVector(v, decision) == AllValid(v) /\ decision = Decision(v)

\* A failure vector stays raw: some candidate failed, nothing was selected.
FailureVector(v, decision) == ~AllValid(v) /\ decision = NoValue

OutcomeIsSound(o, position) ==
    /\ o.id = position - 1
    /\ IF o.status = "COMPLETE"
       THEN CompleteVector(o.vector, o.decision)
       ELSE FailureVector(o.vector, o.decision)
    /\ plan.enumerating => o.token = o.id + 1

\* Status, counts, p-value or bounds and decision are those the outcomes give.
TerminalIsSound(r) ==
    [r EXCEPT !.digest = "entry"] =
        IF r.stage \in {"NULL_BIND", "OBSERVED_STATISTIC_SCAN"}
        THEN TerminalResult(r.stage, r.observed)
        ELSE FinalResult(r.outcomes, r.observed, r.decision, plan)

\* verify_calibration_result: the result against the sealed plan and its own outcomes.
VerifierAccepts(r) ==
    /\ r.plan = plan
    /\ CASE r.stage = "NULL_BIND"               -> r.observed = NoValue
         [] r.stage = "OBSERVED_STATISTIC_SCAN" -> FailureVector(r.observed, r.decision)
         [] OTHER ->
            /\ r.observed # NoValue
            /\ CompleteVector(r.observed, r.decision)
            /\ Len(r.outcomes) = plan.replicates
            /\ plan.enumerating => plan.replicates = StateCount - 1
            /\ \A i \in DOMAIN r.outcomes : OutcomeIsSound(r.outcomes[i], i)
    /\ TerminalIsSound(r)
-----------------------------------------------------------------------------
\* Preparation: one bind, one observed scan

BindStatistic ==
    /\ pc = "bind_statistic"
    /\ drift' \in DriftsOf({"plan", "arrays", "globals"})
    /\ pc' = "bind_null"
    /\ UNCHANGED <<plan, stat, observed, token, transformed, history, result, error>>

\* An enumerating null runs every non-identity state once, or not at all.
PartialEnumeration == plan.enumerating /\ plan.replicates # StateCount - 1

BindNull ==
    /\ pc = "bind_null"
    /\ \E d \in DriftsOf({"plan", "statistic", "arrays", "globals"}), s \in NullStatuses :
        /\ drift' = d
        /\ Proceed(ActiveCheck(d),
                   IF s = "disabled" \/ PartialEnumeration
                   THEN "close_null_bind" ELSE "scan_observed")
    /\ UNCHANGED <<plan, stat, observed, token, transformed, history, result>>

\* The checkpoint before a terminal result: its getters may drift, then the final check.
Terminate(stage, vector, parts) ==
    /\ \E d \in DriftsOf(parts) :
        /\ drift' = d
        /\ Proceed(ActiveCheck(drift) /\ FinalCheck(d), "verify")
    /\ result' = IF pc' = "verify" THEN TerminalResult(stage, vector) ELSE NoValue
    /\ UNCHANGED <<plan, stat, observed, token, transformed, history>>

TerminateNullBind ==
    /\ pc = "close_null_bind"
    /\ Terminate("NULL_BIND", NoValue, (PreparedGraph \cup {"globals"}) \ {"observed"})

ScanObserved ==
    /\ pc = "scan_observed"
    /\ \E d \in DriftsOf(LightVisible \cup {"arrays", "globals"}) :
        /\ drift' = d
        /\ observed' \in Evaluations(Identity, drift \cup d)
        /\ Proceed(ActiveCheck(d),
                   IF AllValid(observed') THEN "prepare" ELSE "close_observed")
    /\ UNCHANGED <<plan, stat, token, transformed, history, result>>

TerminateObservedScan ==
    /\ pc = "close_observed"
    /\ Terminate("OBSERVED_STATISTIC_SCAN", observed, PreparedGraph \cup {"globals"})

\* Selection on the observed vector, the checks after it, and the ownership capture.
Prepare ==
    /\ pc = "prepare"
    /\ \E d \in DriftsOf(PreparedGraph \cup {"globals"}) :
        /\ drift' = d
        /\ Proceed(ActiveCheck(drift) /\ FinalCheck(d), "admit")
    /\ UNCHANGED <<plan, stat, observed, token, transformed, history, result>>

\* The inclusive in-memory envelope, checked before any replicate is allocated.
WithinBudget(B) ==
    /\ B <= MaxReplicates
    /\ B * Cardinality(Candidates) <= MaxResultRows
    /\ B * TokenUnits <= MaxTokenUnits
    /\ B * (Cardinality(Candidates) * ObservedLength + TokenUnits + ObservedLength) <= MaxWork

AdmitBudget ==
    /\ pc = "admit"
    /\ \E d \in DriftsOf(PreparedGraph \cup {"globals"}) :
        /\ drift' = d
        /\ \/ ~(OwnedCheck(d) /\ GlobalsCheck(d)) /\ Raise("integrity")
           \/ OwnedCheck(d) /\ GlobalsCheck(d) /\ ~WithinBudget(plan.replicates) /\ Raise("resource")
           \/ /\ OwnedCheck(d) /\ GlobalsCheck(d)
              /\ WithinBudget(plan.replicates)
              /\ pc' = "sample"
              /\ UNCHANGED error
    /\ UNCHANGED <<plan, stat, observed, token, transformed, history, result>>

-----------------------------------------------------------------------------
\* The replicate loop

LoopParts == PreparedGraph \cup {"globals", "history", "token"}

\* The state of the next replicate: any, with replacement, or the enumerated one.
Draws(d) ==
    IF "null" \in d \/ ~plan.enumerating THEN States ELSE {Len(history) + 1}

SampleToken ==
    /\ pc = "sample"
    /\ \E d \in DriftsOf(LoopParts \ {"token"}) :
        /\ drift' = d
        /\ token' \in Draws(d)
        /\ Proceed(LoopCheck(d), "apply")
    /\ UNCHANGED <<plan, stat, observed, transformed, history, result>>

\* _validate_transform_result sees a drifted token if the adapter returned that object,
\* and drifted arrays if the observed target is among them.
ApplyNull ==
    /\ pc = "apply"
    /\ \E d \in DriftsOf(LoopParts) :
        /\ drift' = d
        /\ transformed' \in Reading("arrays", d, token, States)
        /\ \/ Proceed(LoopCheck(d), "evaluate")
           \/ d \cap {"token", "arrays"} # {} /\ Raise("integrity")
    /\ UNCHANGED <<plan, stat, observed, token, history, result>>

\* Mutant of Register: the ids start at one.
RegisterFromOne(t, status, v, decision) ==
    history' = Append(history,
        [id |-> Len(history) + 1, token |-> t, status |-> status, vector |-> v,
         decision |-> decision])

Register(t, status, v, decision) ==
    history' = Append(history,
        [id |-> Len(history), token |-> t, status |-> status, vector |-> v,
         decision |-> decision])

NextReplicate == IF Len(history') = plan.replicates THEN "close" ELSE "sample"

\* A sampled identity must give the observed family again.
ReproducesObserved(v, a) ==
    token = Identity => AllValid(v) /\ Decision(v) = a

\* Mutant of Conclude: a replicate whose scan failed is drawn again.
ConcludeRetryingFailures(v, d) ==
    IF AllValid(v)
    THEN /\ Register(token, "COMPLETE", v, Decision(v))
         /\ pc' = NextReplicate
         /\ UNCHANGED error
    ELSE /\ pc' = "sample"
         /\ UNCHANGED <<history, error>>

\* One outcome per replicate, failed or complete; a failed one keeps its raw vector.
Conclude(v, d) ==
    \E a \in Reading("observed", d, Decision(observed), DecisionValues),
       t \in Reading("token", d, token, States) :
        \/ ~ReproducesObserved(v, a) /\ Raise("integrity") /\ UNCHANGED history
        \/ /\ ReproducesObserved(v, a)
           /\ IF AllValid(v)
              THEN Register(t, "COMPLETE", v, Decision(v))
              ELSE Register(t, "ANALYTIC_FAILURE", v, NoValue)
           /\ pc' = NextReplicate
           /\ UNCHANGED error

\* The surrogate scan, then either the failed or the complete outcome.
EvaluateReplicate ==
    /\ pc = "evaluate"
    /\ \E d \in DriftsOf(LoopParts) : \E v \in Evaluations(transformed, d) :
        /\ drift' = d
        /\ \/ ~(LoopCheck(d) /\ TokenCheck(d)) /\ Raise("integrity") /\ UNCHANGED history
           \/ LoopCheck(d) /\ TokenCheck(d) /\ Conclude(v, d)
    /\ UNCHANGED <<plan, stat, observed, token, transformed, result>>
-----------------------------------------------------------------------------
\* Finalisation and terminal verification

\* Terminal tokens, ownership recapture, light checkpoint and history comparison.
CloseHistory ==
    /\ pc = "close"
    /\ \E d \in DriftsOf(LoopParts \ {"token"}) :
        /\ drift' = d
        /\ Proceed(OwnedCheck(d) /\ LoopCheck(d) /\ HistoryCheck(d), "finalise")
    /\ UNCHANGED <<plan, stat, observed, token, transformed, history, result>>

\* The outcomes as read: a drifted history has a changed decision somewhere.
HistoryReadings ==
    {history} \cup
    {[history EXCEPT ![i].decision = x] :
        i \in DOMAIN history, x \in DecisionValues}

Finalise ==
    /\ pc = "finalise"
    /\ \E outcomes \in Reading("history", drift, history, HistoryReadings),
          pl \in Reading("plan", drift, plan, Plans),
          a \in Reading("observed", drift, Decision(observed), DecisionValues) :
        result' = FinalResult(outcomes, observed, a, pl)
    /\ pc' = "verify"
    /\ UNCHANGED <<plan, stat, drift, observed, token, transformed, history, error>>

\* The outcome of replicate i that a scan v of the null state t gives.
OutcomeOf(i, t, v) ==
    [id       |-> i - 1,
     token    |-> t,
     status   |-> IF AllValid(v) THEN "COMPLETE" ELSE "ANALYTIC_FAILURE",
     vector   |-> v,
     decision |-> IF AllValid(v) THEN Decision(v) ELSE NoValue]

\* Every result of the plan that agrees with itself, whatever was drawn and scanned.
ConsistentResults ==
    LET replicates == 1 .. plan.replicates
        family(ts, vs) == [i \in replicates |-> OutcomeOf(i, ts[i], vs[i])]
    IN  {TerminalResult("NULL_BIND", NoValue)}
        \cup {TerminalResult("OBSERVED_STATISTIC_SCAN", v) : v \in {u \in Vectors : ~AllValid(u)}}
        \cup {FinalResult(family(ts, vs), v, Decision(v), plan) :
                 ts \in [replicates -> States], vs \in [replicates -> Vectors],
                 v \in {u \in Vectors : AllValid(u)}}

\* What a public hook that rewrites the result leaves of it: one field altered, or all of
\* them replaced by those of another consistent result.
HookedResults ==
    LET B == plan.replicates
        outcome(i) ==
            {[result EXCEPT !.outcomes[i].decision = x] : x \in DecisionValues}
            \cup {[result EXCEPT !.outcomes[i].token = t] : t \in States}
            \cup {[result EXCEPT !.outcomes[i].vector = v] : v \in Vectors}
    IN  ConsistentResults
        \cup {[result EXCEPT !.digest = "other"]}
        \cup {[result EXCEPT !.plan = q] : q \in Plans}
        \cup {[result EXCEPT !.exceed = k] : k \in 0 .. B}
        \cup {[result EXCEPT !.fails = k] : k \in 0 .. B}
        \cup {[result EXCEPT !.p = <<k, B + 1>>] : k \in 1 .. B + 1}
        \cup {[result EXCEPT !.high = <<k, B + 1>>] : k \in 1 .. B + 1}
        \cup {[result EXCEPT !.reject = b] : b \in BOOLEAN}
        \cup {[result EXCEPT !.label = c] : c \in Candidates}
        \cup UNION {outcome(i) : i \in DOMAIN result.outcomes}

\* Provenance, the public hook, the frozen verifier, provenance and plan again.
VerifyAndReturn ==
    /\ pc = "verify"
    /\ \E d \in DriftsOf({"plan", "globals", "result"}) :
       \E r \in Reading("result", d, result, HookedResults) :
        /\ drift' = d
        /\ Proceed(/\ GlobalsCheck(drift) /\ result.digest = "entry"
                   /\ GlobalsCheck(d) /\ VerifierAccepts(r)
                   /\ r.digest = "entry"
                   /\ "plan" \notin d,
                   "returned")
        /\ result' = IF pc' = "returned" THEN r ELSE NoValue
    /\ UNCHANGED <<plan, stat, observed, token, transformed, history>>

Stopped ==
    /\ pc \in {"returned", "raised"}
    /\ UNCHANGED vars

Next ==
    \/ BindStatistic
    \/ BindNull
    \/ TerminateNullBind
    \/ ScanObserved
    \/ TerminateObservedScan
    \/ Prepare
    \/ AdmitBudget
    \/ SampleToken
    \/ ApplyNull
    \/ EvaluateReplicate
    \/ CloseHistory
    \/ Finalise
    \/ VerifyAndReturn
    \/ Malformed
    \/ Stopped

Spec == Init /\ [][Next]_vars

\* The run is one thread whose callbacks return: it never stops between two steps.
FairSpec == Spec /\ WF_vars(Next)
-----------------------------------------------------------------------------
\* Properties

ResultFields ==
    [status   : {"COMPLETE", "NOT_EVALUABLE"},
     stage    : Stages,
     digest   : {"entry", "other"},
     plan     : Plans,
     observed : Vectors \cup {NoValue},
     decision : DecisionValues \cup {NoValue},
     label    : Candidates \cup {NoValue},
     outcomes : Seq(Outcomes),
     exceed   : Nat,
     fails    : Nat,
     p        : (Nat \X Nat) \cup {NoValue},
     low      : (Nat \X Nat) \cup {NoValue},
     high     : (Nat \X Nat) \cup {NoValue},
     reject   : BOOLEAN \cup {NoValue}]

\* Every variable holds what the code's types and constructors admit: an exact-B history
\* in replicate order, one raw vector per outcome, and a result with the record's fields.
TypeOK ==
    /\ pc \in {"bind_statistic", "bind_null", "close_null_bind", "scan_observed",
               "close_observed", "prepare", "admit", "sample", "apply", "evaluate",
               "close", "finalise", "verify", "returned", "raised"}
    /\ plan \in Plans
    /\ stat \in [States -> Vectors]
    /\ drift \subseteq Components
    /\ observed \in Vectors \cup {NoValue}
    /\ token \in States \cup {NoValue}
    /\ transformed \in States \cup {NoValue}
    /\ history \in Seq(Outcomes)
    /\ Len(history) <= plan.replicates
    /\ \A i \in DOMAIN history : history[i].id = i - 1
    /\ result \in ResultFields \cup {NoValue}
    /\ error \in {"integrity", "resource", NoValue}

Returned == pc = "returned"

\* The public hook returned the result as the run had built it.  The frozen verifier after
\* it sees only the result and the plan, so it cannot tell a consistent rewrite.
HookKeptResult == "result" \notin drift

\* The run returned its result with every planned replicate executed.
Executed ==
    Returned /\ HookKeptResult /\ result.stage \in {"NONE", "REPLICATE_EXECUTION"}

\* The replicates that had to be counted, had every callback been honest.
TrueFailures == {i \in DOMAIN history : ~AllValid(stat[history[i].token])}

TrueExceedances ==
    {i \in DOMAIN history \ TrueFailures :
        Decision(stat[history[i].token]) >= Decision(stat[Identity])}

\* A result that the hook kept counts exactly the drawn states that reach the observed
\* maximum and exactly those whose scan fails, over all B planned draws, whatever the
\* adapters' callbacks broke on the way (calibrate_selected_family).
ReturnedCountsAreTrue ==
    Executed =>
        /\ Len(history) = plan.replicates
        /\ result.exceed = Cardinality(TrueExceedances)
        /\ result.fails = Cardinality(TrueFailures)

\* The bounds of a run with failed replicates bracket, and attain at both ends, the p-value
\* of every completion of those replicates (exceedance_bound_low, exceedance_bound_high).
BoundsBracketEveryCompletion ==
    Executed /\ result.stage = "REPLICATE_EXECUTION" =>
        LET completions ==
                {1 + Cardinality(TrueExceedances) + Cardinality(G) : G \in SUBSET TrueFailures}
        IN  /\ result.low = <<Min(completions), plan.replicates + 1>>
            /\ result.high = <<Max(completions), plan.replicates + 1>>
            /\ result.low # result.high

\* A complete run of an enumerating null returns the exact p-value: the share of all
\* states, the identity included, whose family maximum reaches the observed one.
EnumeratedPValueIsExact ==
    Executed /\ plan.enumerating /\ result.stage = "NONE" =>
        result.p = <<Cardinality({s \in States : Decision(stat[s]) >= Decision(stat[Identity])}),
                     StateCount>>

\* The reported lag is the first one whose observed score is within the tolerance of the
\* maximum; the tolerance moves the label only, the test is on the maximum itself.
LabelIsFirstNearMaximum ==
    Returned /\ HookKeptResult /\ result.label # NoValue =>
        \A c \in Candidates :
            /\ Score(stat[Identity][c]) <= Score(stat[Identity][result.label]) + Tolerance
            /\ c < result.label =>
                   \E e \in Candidates :
                       Score(stat[Identity][c]) + Tolerance < Score(stat[Identity][e])

\* A replicate that drew the identity is in every exceedance count the run returns, even when
\* array contents drift and are put back between two callbacks (_execute_replicates compares
\* its scan with the observed one).
IdentityIsAlwaysCounted ==
    Executed =>
        Cardinality({i \in DOMAIN history : history[i].token = Identity}) <= result.exceed

\* No adapter operation of the loop starts, and no result is computed, on a prepared graph
\* whose slots have drifted, although a later callback may put them back.
LoopRunsOnIntactSlots ==
    pc \in {"sample", "apply", "evaluate", "close", "finalise"} =>
        drift \cap (LightVisible \cup {"globals"}) = {}

\* Whatever still differs from its snapshot when the last replicate is done, contents of
\* arrays and retained outcomes included, keeps the run from returning a result.
DriftIsNeverReturned ==
    Returned => drift \cap (PreparedGraph \cup {"history", "globals"}) = {}

\* The history only grows, by one outcome whose id is its position, and a result once
\* returned is never touched again.
HistoryIsAppendOnly ==
    [][/\ history' # history =>
            /\ Len(history') = Len(history) + 1
            /\ SubSeq(history', 1, Len(history)) = history
       /\ ~Returned]_<<history, result>>

\* With honest callbacks, a run within the budget always returns a result: no check,
\* the frozen verifier's included, refuses what the calibrator itself built.
HonestRunReturns ==
    Faults = {} /\ WithinBudget(plan.replicates) ~> Returned

\* Every run ends, in a result or an error, whatever the callbacks break.
RunEnds == <>(pc \in {"returned", "raised"})
-----------------------------------------------------------------------------
\* What every step relies on: the parts of the inductive invariant

BeforeLoop == {"bind_statistic", "bind_null", "close_null_bind", "scan_observed",
               "close_observed", "prepare", "admit"}

Loop == {"sample", "apply", "evaluate", "close", "finalise"}

Prepared == {"prepare", "admit"} \cup Loop

\* Each segment of calibrate_selected_family finds what the segments before it had to leave
\* behind: a valid observed vector, an admissible enumeration, room in the exact-B history,
\* and no drift that an earlier checkpoint should have stopped.
ControlInv ==
    /\ pc \in Prepared => observed \in Vectors /\ AllValid(observed)
    /\ pc = "close_observed" => observed \in Vectors /\ ~AllValid(observed)
    /\ pc \in {"scan_observed", "close_observed"} \cup Prepared => ~PartialEnumeration
    /\ pc \in BeforeLoop => history = <<>> /\ drift \cap {"history", "token"} = {}
    /\ pc \in {"sample", "apply", "evaluate"} => Len(history) < plan.replicates
    /\ pc \in {"close", "finalise"} => Len(history) = plan.replicates
    /\ pc \in {"apply", "evaluate"} => token \in States
    /\ pc = "evaluate" => transformed \in States
    /\ pc \in {"verify", "returned"} => result \in ResultFields
    /\ pc \in Loop => drift \cap (LightVisible \cup {"globals"}) = {}
    /\ pc = "scan_observed" => drift \cap PreparedGraph = {}
    /\ pc \in {"finalise", "verify"} => drift \cap (PreparedGraph \cup {"history"}) = {}
    /\ pc = "returned" => drift \cap (PreparedGraph \cup {"history", "globals"}) = {}

Intact == drift \cap (PreparedGraph \cup {"history"}) = {}

OutcomeIsTrue(o) ==
    /\ o.status = (IF AllValid(stat[o.token]) THEN "COMPLETE" ELSE "ANALYTIC_FAILURE")
    /\ AllValid(stat[o.token]) => o.decision = Decision(stat[o.token])

\* As long as nothing the run reads has drifted, what it retains is true of the statistic
\* and the drawn states, and a result built from it is the one its history gives.
TruthInv ==
    /\ pc \in Prepared => observed = stat[Identity]
    /\ pc = "evaluate" /\ "arrays" \notin drift => transformed = token
    /\ Intact => \A i \in DOMAIN history : OutcomeIsTrue(history[i])
    /\ pc = "verify" /\ result.stage \in {"NONE", "REPLICATE_EXECUTION"} =>
           /\ Len(history) = plan.replicates
           /\ result = FinalResult(history, stat[Identity], Decision(stat[Identity]), plan)
=============================================================================
