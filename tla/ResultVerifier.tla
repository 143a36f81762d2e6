---------------------------- MODULE ResultVerifier ----------------------------
(***************************************************************************)
(* The verifier of results (verify_calibration_result, contracts_v2.py):   *)
(* a result against the plan of a resolution, without the pair.  It calls  *)
(* nothing of the caller's and has one answer, so it is one predicate; a   *)
(* check reads what an earlier one made sure is there.                     *)
(***************************************************************************)
EXTENDS ResultContract

-----------------------------------------------------------------------------
\* Vectors

\* read_statistic: the candidate of the plan, one support, the implementation of the plan.
ItemReads(item, candidate, support) ==
    /\ item.candidate = candidate
    /\ support >= 1 /\ item.support = support
    /\ item.identity = Identity

FailureStaysRaw(item) == item.estimate = NoValue /\ item.score = NoValue

VectorReads(items) ==
    /\ Len(items) = Len(CandidateOrder)
    /\ \A i \in DOMAIN items :
        /\ ItemReads(items[i], CandidateOrder[i], items[1].support)
        /\ IF items[i].valid THEN items[i].estimate # NoValue ELSE FailureStaysRaw(items[i])

\* The scores again, from the estimates.
Rescored(items) == [i \in DOMAIN items |-> Score(items[i].estimate)]

\* Mutant of Retied: only the maxima are tied.
RetiedExactly(scores) ==
    {i \in DOMAIN scores : scores[i] = Max(ToSet(scores))}

Retied(scores) ==
    {i \in DOMAIN scores : Max(ToSet(scores)) - scores[i] <= Tolerance}

\* verify_selection: the selection is the one of the central rule over the scores.
SelectionHolds(s, scores) ==
    /\ s # NoValue
    /\ s.index = Min(Retied(scores)) - 1
    /\ s.candidate = CandidateOrder[Min(Retied(scores))]
    /\ s.statistic = Max(ToSet(scores))
    /\ s.ties = Sorted({CandidateOrder[i] : i \in Retied(scores)})

CompleteVectorHolds(items, selection) ==
    /\ VectorReads(items)
    /\ \A i \in DOMAIN items : items[i].valid /\ items[i].score = Score(items[i].estimate)
    /\ SelectionHolds(selection, Rescored(items))

FailureVectorHolds(items, selection) ==
    /\ VectorReads(items)
    /\ \A i \in DOMAIN items : items[i].score = NoValue
    /\ \E i \in DOMAIN items : ~items[i].valid
    /\ selection = NoValue

-----------------------------------------------------------------------------
\* Tokens

\* Owned by the pair the result names, the plan, and the null at the observed length.
OwnedToken(t, plan, pair, length) ==
    /\ t.name = plan.name /\ t.parameter = plan.parameter
    /\ t.pair = pair /\ t.plan = plan
    /\ t.owner = Owner(plan, pair, length)

CircularTokenHolds(t, plan, length) ==
    /\ 2 * plan.parameter <= length
    /\ Len(t.state) = 1 /\ t.identity = (t.state[1] = 0)
    /\ t.state[1] # 0 => t.state[1] \in plan.parameter .. length - plan.parameter

\* The complete enumeration can be read off the tokens alone.
ExactTokenHolds(t, plan, length, id) ==
    /\ length >= 2
    /\ Len(t.state) = 1 /\ t.identity = (t.state[1] = 0)
    /\ t.state[1] \in 0 .. length - 1
    /\ plan.replicates = length - 1 /\ t.state[1] = id + 1

BlockTokenHolds(t, plan, length) ==
    LET count == length \div plan.parameter
    IN  /\ length % plan.parameter = 0
        /\ count \in 2 .. MaxBlockCount
        /\ Len(t.state) = count /\ ToSet(t.state) = 0 .. count - 1
        /\ t.identity = IsIdentity(t.state)

\* The null adapter of the resolution still says what the plan does; the exact one has every
\* shift.
AdapterHolds(plan) == Constructible(plan)

TokenHolds(t, plan, pair, length, id) ==
    /\ AdapterHolds(plan)
    /\ OwnedToken(t, plan, pair, length)
    /\ CASE plan.name = "circular_shift_v2"       -> CircularTokenHolds(t, plan, length)
         [] plan.name = "circular_shift_exact_v1" -> ExactTokenHolds(t, plan, length, id)
         [] OTHER                                 -> BlockTokenHolds(t, plan, length)

-----------------------------------------------------------------------------
\* Replicates and terminal states

OutcomeHolds(o, id, plan, pair, support) ==
    /\ o.id = id /\ o.seed = Seed(plan, id)
    /\ IF o.status = "ANALYTIC_FAILURE"
       THEN FailureVectorHolds(o.items, o.selection) /\ o.stage = "STATISTIC_SCAN"
       ELSE CompleteVectorHolds(o.items, o.selection) /\ o.stage = "NONE"
    /\ o.items[1].support = support
    /\ TokenHolds(o.token, plan, pair, support + Max(Candidates), id)

\* The counts again, from the outcomes.
DerivedExceedances(r) ==
    Cardinality({i \in DOMAIN r.replicates :
        r.replicates[i].status = "COMPLETE"
        /\ r.replicates[i].selection.statistic >= r.selection.statistic})

DerivedFailures(r) ==
    Cardinality({i \in DOMAIN r.replicates : r.replicates[i].status = "ANALYTIC_FAILURE"})

ReplicatesHold(r, plan) ==
    /\ Len(r.replicates) = r.planned
    /\ \A i \in DOMAIN r.replicates :
        OutcomeHolds(r.replicates[i], i - 1, plan, r.pair, r.observed[1].support)

CompleteTerminalHolds(r) ==
    /\ r.stage = "NONE"
    /\ DerivedFailures(r) = 0 /\ r.failures = 0
    /\ r.exceedances = DerivedExceedances(r)
    /\ r.p = 1 + DerivedExceedances(r)
    /\ r.low = NoValue /\ r.high = NoValue
    /\ r.reject = Rejects(r.p, r.planned, r.alpha)

ExecutionTerminalHolds(r) ==
    /\ DerivedFailures(r) >= 1 /\ r.failures = DerivedFailures(r)
    /\ r.exceedances = DerivedExceedances(r)
    /\ r.p = NoValue /\ r.reject = NoValue
    /\ r.low = 1 + DerivedExceedances(r)
    /\ r.high = 1 + DerivedExceedances(r) + DerivedFailures(r)

\* Both early terminal states: nothing was run and nothing decided.
EmptyTerminalHolds(r) ==
    /\ r.selection = NoValue /\ r.replicates = <<>>
    /\ r.exceedances = 0 /\ r.failures = 0
    /\ <<r.p, r.low, r.high, r.reject>> = <<NoValue, NoValue, NoValue, NoValue>>

-----------------------------------------------------------------------------
\* The scalars of the result are those of the sealed plan.
PrefixHolds(r, plan) ==
    r.plan = plan /\ r.planned = plan.replicates /\ r.alpha = plan.alpha

VerifierAccepts(r, plan) ==
    /\ PrefixHolds(r, plan)
    /\ CASE r.stage = "NULL_BIND" ->
              r.status = "NOT_EVALUABLE" /\ r.observed = <<>> /\ EmptyTerminalHolds(r)
         [] r.stage = "OBSERVED_STATISTIC_SCAN" ->
              /\ r.status = "NOT_EVALUABLE"
              /\ FailureVectorHolds(r.observed, r.selection) /\ EmptyTerminalHolds(r)
         [] OTHER ->
              /\ CompleteVectorHolds(r.observed, r.selection)
              /\ ReplicatesHold(r, plan)
              /\ IF r.status = "COMPLETE"
                 THEN CompleteTerminalHolds(r)
                 ELSE r.stage = "REPLICATE_EXECUTION" /\ ExecutionTerminalHolds(r)
=============================================================================
