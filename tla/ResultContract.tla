---------------------------- MODULE ResultContract ----------------------------
(***************************************************************************)
(* The result of a calibration as a record (contracts_v2.py): what the     *)
(* calibrator puts into one, and what its constructors admit.              *)
(*                                                                         *)
(* A digest is what it is taken of.  Probabilities are numerators over     *)
(* planned + 1, which is the one division the code makes to get them.      *)
(* Leaves that equal a right one and are not it are named in two sets of   *)
(* a result: inexact, of another type, as True equals 1; and negative, the *)
(* kinds of floats among which a zero is -0.0.                             *)
(***************************************************************************)
EXTENDS FamilySelection, NullStates, SequencesExt

CONSTANTS
    Estimates, \* the values a statistic returns
    Pairs,     \* the contents of pairs of series
    Plans,     \* null name, its parameter, replicates and alpha
    NoValue    \* None

\* Records of a selected candidate.
Selections == [candidate : Int, statistic : Int, index : Int, ties : Seq(Int)]

ASSUME ContractAssumption ==
    /\ Estimates \subseteq Int
    /\ Plans \subseteq [name : NullNames, parameter : Nat \ {0},
                        replicates : Nat \ {0}, alpha : (Nat \ {0}) \X (Nat \ {0})]
    /\ \A plan \in Plans : Constructible(plan)
    /\ NoValue \notin Int \cup Selections
    /\ NoValue # Failure

-----------------------------------------------------------------------------
\* Shapes

\* The elements of a finite set of integers in their order.
Sorted(S) == [i \in 1 .. Cardinality(S) |-> CHOOSE x \in S : Cardinality({y \in S : y < x}) = i - 1]

CandidateOrder == Sorted(Candidates)

Replicates(plan) == 1 .. plan.replicates

\* The implementation identities of the statistic of the plan.
Identity == "statistic"

\* The bound null of a plan over a pair of the given length.
BoundTo(plan, length) == [name |-> plan.name, parameter |-> plan.parameter, length |-> length]

Owner(plan, pair, length) == [pair |-> pair, plan |-> plan, null |-> BoundTo(plan, length)]

\* A state in its record is one shift, or an order of at least two blocks.
StateRecords(null) ==
    IF Circular(null)
    THEN {<<s>> : s \in Shifts(null.length, null.parameter)}
    ELSE {[k \in 1 .. BlockCount(null) |-> o[k - 1]] : o \in Orders(BlockCount(null))}

\* Shift 0, or the blocks in their own order.
IsIdentity(state) == \A k \in DOMAIN state : state[k] = k - 1

Token(plan, pair, length, state) ==
    [name |-> plan.name, parameter |-> plan.parameter, pair |-> pair, plan |-> plan,
     owner |-> Owner(plan, pair, length), identity |-> IsIdentity(state), state |-> state]

Seed(plan, id) == [plan |-> plan, id |-> id]

Item(candidate, support, estimate, score) ==
    [candidate |-> candidate, support |-> support, identity |-> Identity,
     valid |-> estimate # Failure, score |-> score,
     estimate |-> IF estimate = Failure THEN NoValue ELSE estimate]

RawItems(v, support) ==
    [i \in DOMAIN CandidateOrder |-> Item(CandidateOrder[i], support, v[CandidateOrder[i]], NoValue)]

ScoredItems(v, support) ==
    [i \in DOMAIN CandidateOrder |->
        Item(CandidateOrder[i], support, v[CandidateOrder[i]], Score(v[CandidateOrder[i]]))]

\* The selection of a vector, with its index in plan order counted from zero.
Selection(v) ==
    [candidate |-> SelectedCandidate(v), statistic |-> Decision(v),
     index |-> Cardinality({c \in Candidates : c < SelectedCandidate(v)}),
     ties |-> Sorted(Tied(v))]

-----------------------------------------------------------------------------
\* What the calibrator reports of a run.  A run is the pair, its length, the observed vector,
\* and for each replicate its state and its vector.

Support(length) == length - Max(Candidates)

\* What bind says besides its status.
BindDiagnostics(null) ==
    CASE BindStatus(null) # "ENABLED" -> <<BindStatus(null)>>
      [] BindStatus(null) = "ENABLED" /\ null.name = "circular_shift_v2"
            /\ 2 * null.parameter = null.length -> <<"ORBIT_RESOLUTION">>
      [] OTHER -> <<>>

\* The observed scan is reached: the null is bound at that length and, if it enumerates, has
\* a state for every replicate and no more.
Starts(plan, length) ==
    /\ BindStatus(BoundTo(plan, length)) = "ENABLED"
    /\ plan.name = "circular_shift_exact_v1" => plan.replicates = length - 1

RefusalDiagnostics(null) ==
    IF BindStatus(null) = "ENABLED"
    THEN Append(BindDiagnostics(null), "ENUMERATION_COUNT_MISMATCH")
    ELSE BindDiagnostics(null)

Outcome(plan, run, i) ==
    LET reply   == run.replies[i]
        support == Support(run.length)
        done    == AllValid(reply.vector)
    IN  [id        |-> i - 1,
         seed      |-> Seed(plan, i - 1),
         status    |-> IF done THEN "COMPLETE" ELSE "ANALYTIC_FAILURE",
         stage     |-> IF done THEN "NONE" ELSE "STATISTIC_SCAN",
         token     |-> Token(plan, run.pair, run.length, reply.state),
         items     |-> IF done THEN ScoredItems(reply.vector, support) ELSE RawItems(reply.vector, support),
         selection |-> IF done THEN Selection(reply.vector) ELSE NoValue]

Unfinished(plan, pair, stage, items, diagnostics) ==
    [status |-> "NOT_EVALUABLE", stage |-> stage, pair |-> pair, plan |-> plan,
     planned |-> plan.replicates, alpha |-> plan.alpha,
     observed |-> items, selection |-> NoValue, replicates |-> <<>>,
     exceedances |-> 0, failures |-> 0,
     p |-> NoValue, low |-> NoValue, high |-> NoValue, reject |-> NoValue,
     diagnostics |-> diagnostics, inexact |-> {}, negative |-> {}]

\* Mutant of Exceeding: a surrogate equal to the observed maximum is not counted.
StrictlyExceeding(outcomes, decision) ==
    {i \in DOMAIN outcomes : outcomes[i].status = "COMPLETE" /\ outcomes[i].selection.statistic > decision}

Exceeding(outcomes, decision) ==
    {i \in DOMAIN outcomes : outcomes[i].status = "COMPLETE" /\ outcomes[i].selection.statistic >= decision}

Failing(outcomes) == {i \in DOMAIN outcomes : outcomes[i].status = "ANALYTIC_FAILURE"}

\* p <= alpha, for p = k / (planned + 1).
Rejects(k, planned, alpha) == k * alpha[2] <= alpha[1] * (planned + 1)

Finished(plan, run) ==
    LET outcomes == [i \in Replicates(plan) |-> Outcome(plan, run, i)]
        e        == Cardinality(Exceeding(outcomes, Decision(run.observed)))
        f        == Cardinality(Failing(outcomes))
        decided  == f = 0
        notes    == BindDiagnostics(BoundTo(plan, run.length))
    IN  [status      |-> IF decided THEN "COMPLETE" ELSE "NOT_EVALUABLE",
         stage       |-> IF decided THEN "NONE" ELSE "REPLICATE_EXECUTION",
         pair        |-> run.pair, plan |-> plan, planned |-> plan.replicates, alpha |-> plan.alpha,
         observed    |-> ScoredItems(run.observed, Support(run.length)),
         selection   |-> Selection(run.observed),
         replicates  |-> outcomes,
         exceedances |-> e, failures |-> f,
         p           |-> IF decided THEN 1 + e ELSE NoValue,
         low         |-> IF decided THEN NoValue ELSE 1 + e,
         high        |-> IF decided THEN NoValue ELSE 1 + e + f,
         reject      |-> IF decided THEN Rejects(1 + e, plan.replicates, plan.alpha) ELSE NoValue,
         diagnostics |-> IF decided THEN notes ELSE Append(notes, "REPLICATE_EXECUTION_FAILURE"),
         inexact     |-> {}, negative |-> {}]

Report(plan, run) ==
    LET null == BoundTo(plan, run.length)
    IN  CASE ~Starts(plan, run.length) ->
                Unfinished(plan, run.pair, "NULL_BIND", <<>>, RefusalDiagnostics(null))
          [] Starts(plan, run.length) /\ ~AllValid(run.observed) ->
                Unfinished(plan, run.pair, "OBSERVED_STATISTIC_SCAN",
                           RawItems(run.observed, Support(run.length)),
                           Append(BindDiagnostics(null), "OBSERVED_SCAN_FAILURE"))
          [] OTHER -> Finished(plan, run)

-----------------------------------------------------------------------------
\* What the constructors admit, of the values alone: they know no plan and no resolution.

Maximum(items) == Max({items[i].score : i \in DOMAIN items})

Ascends(q) == \A i, j \in DOMAIN q : i < j => q[i] < q[j]

ItemAdmitted(item) ==
    /\ item.candidate >= 1 /\ item.support >= 1
    /\ item.valid => item.estimate # NoValue
    /\ ~item.valid => item.estimate = NoValue /\ item.score = NoValue

ItemsAdmitted(items) ==
    /\ \A i \in DOMAIN items : ItemAdmitted(items[i])
    /\ Ascends([i \in DOMAIN items |-> items[i].candidate])

\* The constructor sorts the ties, refuses repeated ones and wants the selected one among them.
SelectionAdmitted(s) ==
    /\ IsInjective(s.ties)
    /\ s.candidate \in ToSet(s.ties)

ScoredVectorAdmitted(items, s) ==
    /\ items # <<>> /\ s # NoValue
    /\ \A i \in DOMAIN items : items[i].valid /\ items[i].score # NoValue
    /\ SelectionAdmitted(s)
    /\ s.index < Len(items) /\ items[s.index + 1].candidate = s.candidate
    /\ ToSet(s.ties) \subseteq {items[i].candidate : i \in DOMAIN items}
    /\ s.candidate = Min(ToSet(s.ties))
    /\ s.statistic = Maximum(items)

RawVectorAdmitted(items) ==
    /\ \E i \in DOMAIN items : ~items[i].valid
    /\ \A i \in DOMAIN items : items[i].score = NoValue

StateAdmitted(state) == Len(state) >= 2 => ToSet(state) = 0 .. Len(state) - 1

TokenAdmitted(t) ==
    /\ StateAdmitted(t.state)
    /\ (Len(t.state) >= 2) = (t.name = "block_shuffle_v2")
    /\ t.identity = IsIdentity(t.state)

OutcomeAdmitted(o) ==
    /\ o.id >= 0
    /\ TokenAdmitted(o.token)
    /\ ItemsAdmitted(o.items)
    /\ IF o.status = "COMPLETE"
       THEN o.stage = "NONE" /\ ScoredVectorAdmitted(o.items, o.selection)
       ELSE o.stage = "STATISTIC_SCAN" /\ o.selection = NoValue /\ RawVectorAdmitted(o.items)

Undecided(r) == <<r.p, r.low, r.high, r.reject>> = <<NoValue, NoValue, NoValue, NoValue>>

NothingRun(r) ==
    r.selection = NoValue /\ r.replicates = <<>> /\ r.exceedances = 0 /\ r.failures = 0

\* All B outcomes in order, of one run of one null, over the observed family.
HistoryAdmitted(r) ==
    /\ Len(r.replicates) = r.planned
    /\ \A i \in DOMAIN r.replicates :
        LET o == r.replicates[i]
            t == o.token
        IN  /\ o.id = i - 1
            /\ t.pair = r.pair /\ t.plan = r.plan
            /\ LET first == r.replicates[1].token
               IN  <<t.name, t.parameter, t.owner>> = <<first.name, first.parameter, first.owner>>
            /\ [k \in DOMAIN o.items |-> o.items[k].candidate]
                  = [k \in DOMAIN r.observed |-> r.observed[k].candidate]

CompleteAdmitted(r) ==
    /\ r.stage = "NONE"
    /\ ScoredVectorAdmitted(r.observed, r.selection)
    /\ HistoryAdmitted(r)
    /\ \A i \in DOMAIN r.replicates : r.replicates[i].status = "COMPLETE"
    /\ r.failures = 0
    /\ r.exceedances = Cardinality(Exceeding(r.replicates, r.selection.statistic))
    /\ r.p = 1 + r.exceedances
    /\ r.low = NoValue /\ r.high = NoValue
    /\ r.reject = Rejects(r.p, r.planned, r.alpha)

BoundsAdmitted(r) ==
    /\ ScoredVectorAdmitted(r.observed, r.selection)
    /\ HistoryAdmitted(r)
    /\ r.failures >= 1 /\ r.failures = Cardinality(Failing(r.replicates))
    /\ r.exceedances = Cardinality(Exceeding(r.replicates, r.selection.statistic))
    /\ r.p = NoValue /\ r.reject = NoValue
    /\ r.low = 1 + r.exceedances /\ r.high = 1 + r.exceedances + r.failures

\* CalibrationResult.__post_init__ with the constructors of everything in it.
Admitted(r) ==
    /\ r.planned >= 1
    /\ ItemsAdmitted(r.observed)
    /\ \A i \in DOMAIN r.replicates : OutcomeAdmitted(r.replicates[i])
    /\ CASE r.status = "COMPLETE"                -> CompleteAdmitted(r)
         [] r.status # "COMPLETE" /\ r.stage = "NULL_BIND" ->
               r.observed = <<>> /\ NothingRun(r) /\ Undecided(r)
         [] r.status # "COMPLETE" /\ r.stage = "OBSERVED_STATISTIC_SCAN" ->
               r.observed # <<>> /\ RawVectorAdmitted(r.observed) /\ NothingRun(r) /\ Undecided(r)
         [] r.status # "COMPLETE" /\ r.stage = "REPLICATE_EXECUTION" -> BoundsAdmitted(r)
         [] OTHER                                -> FALSE
=============================================================================
