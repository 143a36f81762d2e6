---------------------------- MODULE ResultExchange ----------------------------
(***************************************************************************)
(* The life of a result after its run: verified against a resolution,      *)
(* encoded, kept as a document, decoded and verified again                 *)
(* (result_wire.py and verify_calibration_result).                         *)
(*                                                                         *)
(* The fields of a result can be written although its classes are frozen,  *)
(* and a document can be edited.  A document is its body, the value it     *)
(* spells, and the set of ways its spelling deviates from the canonical    *)
(* one.                                                                    *)
(***************************************************************************)
EXTENDS ResultVerifier

CONSTANTS
    LeastSupport, \* the common support the statistic needs to be bound
    Lengths,     \* lengths of pairs
    Runs,        \* runs whose results are looked at: a plan and the raw answers
    Budgets,     \* how many fields of a result and its document may change, by run
    Limits       \* byte limits of the two calls, in rows

\* Kinds of leaves of another type, and kinds of floats that may be zero.
Leaves == {"ties", "token_schema", "empty_observed"}

Floats == {"estimate", "score", "statistic"}

Deviations == {"layout", "spelling", "duplicate_key", "raw_float", "extra_key", "nesting", "framing"}

Answers == [Candidates -> Estimates \cup {Failure}]

RunRecords ==
    [plan : Plans, pair : Pairs, length : Lengths, observed : Answers,
     replies : Seq([state : Seq(Nat), vector : Answers])]

\* The calibrator raises when an identity replicate does not reproduce the observed maximum.
Reproduces(reply, observed) ==
    IsIdentity(reply.state) => AllValid(reply.vector) /\ Decision(reply.vector) = Decision(observed)

\* The statistic is bound with its support.  A run that gets to its replicates has a state of
\* the null for each, the exact null every state once in order.
RunIsPossible(plan, run) ==
    /\ Support(run.length) >= LeastSupport
    /\ Starts(plan, run.length) /\ AllValid(run.observed) =>
        /\ Len(run.replies) = plan.replicates
        /\ \A i \in Replicates(plan) :
            /\ run.replies[i].state \in StateRecords(BoundTo(plan, run.length))
            /\ plan.name = "circular_shift_exact_v1" => run.replies[i].state = <<i>>
            /\ Reproduces(run.replies[i], run.observed)

ASSUME ExchangeAssumption ==
    /\ LeastSupport \in Nat \ {0}
    /\ Lengths \subseteq Nat
    /\ \A run \in Runs :
        run \in RunRecords /\ RunIsPossible(run.plan, run) /\ Budgets[run] \in Nat
    /\ Limits \subseteq Nat \ {0}

VARIABLES
    pc,        \* "made", "judged", "stored", "unstorable", "restored", "refused"
    sealed,    \* the plan of the resolution that verifies
    limit,     \* max_bytes
    result,    \* the result in memory
    accepted,  \* what verify_calibration_result said of the result
    document,  \* the bytes
    restored,  \* what decode_calibration_result returned
    changes,   \* fields changed so far
    again,     \* the verdict on what was restored
    left       \* changes still allowed

vars == <<pc, sealed, limit, result, accepted, document, restored, changes, again, left>>

-----------------------------------------------------------------------------
\* Encoding

\* Rows are what the size of a document grows with.
Rows(r) == 1 + Len(r.observed) + Len(r.replicates)

\* result / replicates / outcome / statistic_results / statistic / float tag
Depth(doc) ==
    (IF doc.body.replicates # <<>> THEN 6 ELSE IF doc.body.observed # <<>> THEN 4 ELSE 2)
    + (IF "nesting" \in doc.deviations THEN 6 ELSE 0)

Canonical(r) == [body |-> r, deviations |-> {}]

Size(doc) == Rows(doc.body) + (IF doc.deviations \cap {"layout", "extra_key"} = {} THEN 0 ELSE 1)

\* Mutant of DepthHolds: the tags of the replicates' floats are not counted.
DepthHoldsShort(doc) == Depth(doc) <= 5

DepthHolds(doc) == Depth(doc) <= 6

Parses(doc) == doc.deviations \cap {"duplicate_key", "raw_float", "framing"} = {}

\* The constructors sort the ties, turn every -0.0 into 0.0 and keep every other value.
SortedTies(s) == IF s = NoValue THEN s ELSE [s EXCEPT !.ties = Sorted(ToSet(s.ties))]

Constructed(r) ==
    [r EXCEPT !.negative = {},
              !.selection = SortedTies(r.selection),
              !.replicates = [i \in DOMAIN r.replicates |->
                  [r.replicates[i] EXCEPT !.selection = SortedTies(r.replicates[i].selection)]]]

\* _read_result: exactly the keys, and what every constructor admits.
Reads(doc) == "extra_key" \notin doc.deviations /\ Admitted(doc.body)

\* Mutant of IsCanonical: a value is enough, whatever its spelling.
IsCanonicalValue(doc) == Constructed(doc.body) = doc.body

\* The restored result encodes to the very bytes.
IsCanonical(doc) == Canonical(Constructed(doc.body)) = doc

Decodable(doc, max) ==
    Size(doc) <= max /\ DepthHolds(doc) /\ Parses(doc) /\ Reads(doc) /\ IsCanonical(doc)

\* _project_result: every leaf has its exact type.
Projects(r) == r.inexact = {}

-----------------------------------------------------------------------------
\* Fields written and documents edited: one field at a time

Alphas == {plan.alpha : plan \in Plans}

ItemChanges(item) ==
    {[item EXCEPT !.candidate = c] : c \in Candidates \cup {Max(Candidates) + 1}}
    \cup {[item EXCEPT !.support = s] : s \in {item.support - 1, item.support + 1}}
    \cup {[item EXCEPT !.identity = "foreign"], [item EXCEPT !.valid = ~item.valid]}
    \cup {[item EXCEPT !.estimate = e] : e \in Estimates \cup {NoValue}}
    \cup {[item EXCEPT !.score = e] : e \in Estimates \cup {NoValue}}
    \cup {Item(item.candidate, item.support, e, NoValue) : e \in Estimates \cup {Failure}}
    \cup {Item(item.candidate, item.support, e, Score(e)) : e \in Estimates}

TieTuples == {Sorted(T) : T \in SUBSET Candidates \ {{}}} \cup {Reverse(CandidateOrder)}

SelectionChanges(s) ==
    IF s = NoValue
    THEN {[candidate |-> c, statistic |-> e, index |-> 0, ties |-> <<c>>] : c \in Candidates, e \in Estimates}
    ELSE {NoValue}
         \cup {[s EXCEPT !.candidate = c] : c \in Candidates}
         \cup {[s EXCEPT !.index = i] : i \in 0 .. Len(CandidateOrder)}
         \cup {[s EXCEPT !.statistic = e] : e \in Estimates}
         \cup {[s EXCEPT !.ties = q] : q \in TieTuples}

\* States of every shape, of the universe of a null or of none.
AnyStates == {<<s>> : s \in 0 .. 4} \cup {<<0, 1>>, <<1, 0>>, <<0, 0>>, <<1, 2, 0>>}

TokenChanges(t) ==
    {[t EXCEPT !.state = s] : s \in AnyStates}
    \cup {[t EXCEPT !.state = s, !.identity = IsIdentity(s)] : s \in AnyStates}
    \cup {[t EXCEPT !.identity = ~t.identity], [t EXCEPT !.parameter = t.parameter + 1]}
    \cup {[t EXCEPT !.pair = pair] : pair \in Pairs}
    \cup {[t EXCEPT !.plan = plan] : plan \in Plans}
    \cup {[t EXCEPT !.name = name] : name \in NullNames}
    \cup {[t EXCEPT !.owner = Owner(t.plan, t.pair, length)] : length \in 3 .. 5}

VectorChanges(items) ==
    {<<>>, Reverse(items)}
    \cup UNION {{[items EXCEPT ![i] = x] : x \in ItemChanges(items[i])} : i \in DOMAIN items}

OutcomeChanges(o) ==
    {[o EXCEPT !.id = k] : k \in 0 .. 2}
    \cup {[o EXCEPT !.seed = Seed(o.seed.plan, k)] : k \in 0 .. 2}
    \cup {[o EXCEPT !.status = x] : x \in {"COMPLETE", "ANALYTIC_FAILURE"}}
    \cup {[o EXCEPT !.stage = x] : x \in {"NONE", "STATISTIC_SCAN"}}
    \cup {[o EXCEPT !.token = t] : t \in TokenChanges(o.token)}
    \cup {[o EXCEPT !.items = v] : v \in VectorChanges(o.items)}
    \cup {[o EXCEPT !.selection = s] : s \in SelectionChanges(o.selection)}

Stages == {"NONE", "NULL_BIND", "OBSERVED_STATISTIC_SCAN", "REPLICATE_EXECUTION"}

Numerators == 1 .. 3

\* The pair is replaced wherever it is named, in the result and in its tokens.
Rehashed(r, pair) ==
    [r EXCEPT !.pair = pair,
              !.replicates = [i \in DOMAIN r.replicates |->
                  [r.replicates[i] EXCEPT !.token.pair = pair, !.token.owner.pair = pair]]]

\* The counts, what is decided by them, and what is said of it.
DecisionChanges(r) ==
    {[r EXCEPT !.exceedances = k] : k \in 0 .. 2}
    \cup {[r EXCEPT !.failures = k] : k \in 0 .. 2}
    \cup {[r EXCEPT !.p = k] : k \in Numerators \cup {NoValue}}
    \cup {[r EXCEPT !.low = k] : k \in Numerators \cup {NoValue}}
    \cup {[r EXCEPT !.high = k] : k \in Numerators \cup {NoValue}}
    \cup {[r EXCEPT !.reject = b] : b \in BOOLEAN \cup {NoValue}}
    \cup {[r EXCEPT !.diagnostics = <<"OTHER">>]}

\* The terminal state and what was planned, for which pair.
HeadChanges(r) ==
    {[r EXCEPT !.status = x] : x \in {"COMPLETE", "NOT_EVALUABLE"}}
    \cup {[r EXCEPT !.stage = x] : x \in Stages}
    \cup {[r EXCEPT !.pair = pair] : pair \in Pairs}
    \cup {Rehashed(r, pair) : pair \in Pairs}
    \cup {[r EXCEPT !.plan = plan] : plan \in Plans}
    \cup {[r EXCEPT !.planned = r.planned + 1]}
    \cup {[r EXCEPT !.alpha = a] : a \in Alphas}

HistoryChanges(r) ==
    {[r EXCEPT !.replicates = q] : q \in {<<>>, Reverse(r.replicates)}}
    \cup UNION {{[r EXCEPT !.replicates[i] = o] : o \in OutcomeChanges(r.replicates[i])} :
                    i \in DOMAIN r.replicates}

Changes(r) ==
    HeadChanges(r)
    \cup {[r EXCEPT !.observed = v] : v \in VectorChanges(r.observed)}
    \cup {[r EXCEPT !.selection = s] : s \in SelectionChanges(r.selection)}
    \cup HistoryChanges(r)
    \cup DecisionChanges(r)

\* Leaves a value of another type can stand in, the value unchanged.
Inexact(r) ==
    (IF r.replicates # <<>> THEN {"token_schema"} ELSE {})
    \cup (IF r.selection # NoValue THEN {"ties"} ELSE {})
    \cup (IF r.observed = <<>> THEN {"empty_observed"} ELSE {})

\* The vectors and the selections of a result.
VectorsOf(r) == {r.observed} \cup {r.replicates[i].items : i \in DOMAIN r.replicates}

SelectionsOf(r) ==
    ({r.selection} \cup {r.replicates[i].selection : i \in DOMAIN r.replicates}) \ {NoValue}

\* Kinds of floats of which one is zero, so that it may be -0.0.
Zeros(r) ==
    (IF \E v \in VectorsOf(r) : \E i \in DOMAIN v : v[i].estimate = 0 THEN {"estimate"} ELSE {})
    \cup (IF \E v \in VectorsOf(r) : \E i \in DOMAIN v : v[i].score = 0 THEN {"score"} ELSE {})
    \cup (IF \E s \in SelectionsOf(r) : s.statistic = 0 THEN {"statistic"} ELSE {})

\* A result with one of its leaves replaced by another value, type or sign of zero.
Alterations(r) ==
    {[x EXCEPT !.inexact = @ \cap Inexact(x), !.negative = @ \cap Zeros(x)] : x \in Changes(r)}
    \cup {[r EXCEPT !.inexact = {leaf}] : leaf \in Inexact(r)}
    \cup {[r EXCEPT !.negative = {float}] : float \in Zeros(r)}

-----------------------------------------------------------------------------
\* The steps

Init ==
    /\ \E run \in Runs :
        /\ result = Report(run.plan, run)
        /\ left = Budgets[run]
    /\ pc = "made"
    /\ sealed \in Plans
    /\ limit \in Limits
    /\ accepted = FALSE /\ again = FALSE
    /\ document = NoValue /\ restored = NoValue
    /\ changes = 0

Write ==
    /\ pc = "made" /\ changes < left
    /\ result' \in Alterations(result) \ {result}
    /\ changes' = changes + 1
    /\ UNCHANGED <<pc, sealed, limit, accepted, document, restored, again, left>>

Verify ==
    /\ pc = "made"
    /\ accepted' = VerifierAccepts(result, sealed)
    /\ pc' = "judged"
    /\ UNCHANGED <<sealed, limit, result, document, restored, changes, again, left>>

\* encode_calibration_result, which decodes what it wrote before it returns it.
Encode ==
    /\ pc = "judged"
    /\ IF Projects(result) /\ Decodable(Canonical(result), limit)
       THEN pc' = "stored" /\ document' = Canonical(result)
       ELSE pc' = "unstorable" /\ UNCHANGED document
    /\ UNCHANGED <<sealed, limit, result, accepted, restored, changes, again, left>>

Edit ==
    /\ pc = "stored" /\ changes < left
    /\ document' \in ({[document EXCEPT !.body = b] : b \in {x \in Alterations(document.body) : x.inexact = {}}}
                      \cup {[document EXCEPT !.deviations = @ \cup {d}] : d \in Deviations})
                     \ {document}
    /\ changes' = changes + 1
    /\ UNCHANGED <<pc, sealed, limit, result, accepted, restored, again, left>>

Decode ==
    /\ pc = "stored"
    /\ IF Decodable(document, limit)
       THEN /\ pc' = "restored"
            /\ restored' = Constructed(document.body)
            /\ again' = VerifierAccepts(Constructed(document.body), sealed)
       ELSE pc' = "refused" /\ UNCHANGED <<restored, again>>
    /\ UNCHANGED <<sealed, limit, result, accepted, document, changes, left>>

Done ==
    /\ pc \in {"unstorable", "restored", "refused"}
    /\ UNCHANGED vars

Next == Write \/ Verify \/ Encode \/ Edit \/ Decode \/ Done

Spec == Init /\ [][Next]_vars

-----------------------------------------------------------------------------
\* Properties

\* The raw answers a result is about.
VectorOf(items) ==
    [c \in Candidates |->
        LET i == Cardinality({d \in Candidates : d <= c})
        IN  IF items[i].valid THEN items[i].estimate ELSE Failure]

Legible(items) ==
    /\ Len(items) = Len(CandidateOrder)
    /\ \A i \in DOMAIN items : items[i].valid => items[i].estimate # NoValue

\* The lengths the pair of a result may have had: an early result does not say.
LengthsOf(r, plan) ==
    IF r.observed = <<>>
    THEN {length \in Lengths : ~Starts(plan, length)}
    ELSE {r.observed[1].support + Max(Candidates)}

RunOf(r, length) ==
    [pair     |-> r.pair,
     length   |-> length,
     observed |-> IF r.observed = <<>> THEN NoValue ELSE VectorOf(r.observed),
     replies  |-> [i \in DOMAIN r.replicates |->
                      [state  |-> r.replicates[i].token.state,
                       vector |-> VectorOf(r.replicates[i].items)]]]

\* A result without regard to the types of its leaves, the signs of its zeros and its
\* diagnostics, of which the verifier reads only that they are strings.
Facts(r) == [r EXCEPT !.inexact = {}, !.negative = {}, !.diagnostics = <<>>]

\* Some run of the plan reports these facts.
IsReport(r, plan) ==
    /\ r.observed # <<>> => Legible(r.observed)
    /\ \A i \in DOMAIN r.replicates : Legible(r.replicates[i].items)
    /\ \E length \in LengthsOf(r, plan) :
        /\ RunIsPossible(plan, RunOf(r, length))
        /\ Facts(r) = Facts(Report(plan, RunOf(r, length)))

\* What the verifier does not look at: whether the null would have ended the run where the
\* result says, or before; whether the statistic is bound with so short a support; and whether
\* an identity replicate reproduces the observed maximum.
EndContradictsNull(r, plan) ==
    \/ /\ r.stage = "NULL_BIND"
       /\ \A length \in Lengths : Support(length) >= LeastSupport => Starts(plan, length)
    \/ /\ r.stage = "OBSERVED_STATISTIC_SCAN"
       /\ ~Starts(plan, r.observed[1].support + Max(Candidates))

SupportIsShort(r) == r.observed # <<>> /\ r.observed[1].support < LeastSupport

IdentityDiffers(r) ==
    \E i \in DOMAIN r.replicates :
        /\ r.replicates[i].token.identity
        /\ \/ r.replicates[i].selection = NoValue
           \/ r.replicates[i].selection.statistic # r.selection.statistic

Unlooked(r, plan) == EndContradictsNull(r, plan) \/ SupportIsShort(r) \/ IdentityDiffers(r)

\* The verifier accepts the facts of every report, none is checked too strictly.  And what it
\* accepts is what a run of the sealed plan reports, in every field of the result, of an
\* outcome, of a vector or of a token but diagnostics, unless one of those three things is off
\* that it does not look at (verify_calibration_result).  The same of what is restored from a
\* document somebody may have edited.
AcceptedIsWhatRunsReport ==
    /\ pc = "judged" => (IsReport(result, sealed) <=> accepted /\ ~Unlooked(result, sealed))
    /\ pc = "restored" => (IsReport(restored, sealed) <=> again /\ ~Unlooked(restored, sealed))

\* A verified result of exact types within the limit is stored and comes back unchanged,
\* diagnostics included, and verified again, unless its document is edited.  With a -0.0, which
\* the verifier takes for 0.0 and no constructor keeps, it is refused before anything is stored
\* (encode_calibration_result, decode_calibration_result).
AcceptedResultSurvivesStorage ==
    accepted /\ result.inexact = {} /\ Rows(result) <= limit =>
        /\ pc = "unstorable" => result.negative # {}
        /\ pc \in {"stored", "restored", "refused"} => result.negative = {}
        /\ document = Canonical(result) => pc # "refused" /\ (pc = "restored" => restored = result /\ again)

\* The family maximum of a scored vector.
Top(items) == Max({items[i].score : i \in DOMAIN items})

\* What is decoded, from any document, is consistent in itself: the decision follows from the
\* retained scores by the plus-one rule, whoever wrote the document.
DecodedIsConsistent ==
    pc = "restored" /\ restored.status = "COMPLETE" =>
        LET over == {i \in DOMAIN restored.replicates :
                        Top(restored.replicates[i].items) >= Top(restored.observed)}
        IN  /\ Len(restored.replicates) = restored.planned
            /\ restored.p = 1 + Cardinality(over)
            /\ restored.reject =
                   (restored.p * restored.alpha[2] <= restored.alpha[1] * (restored.planned + 1))
            /\ \A i \in DOMAIN restored.replicates :
                /\ restored.replicates[i].token.pair = restored.pair
                /\ restored.replicates[i].token.owner = restored.replicates[1].token.owner

\* A changed document shows: it is refused, or another result comes back; nothing is
\* spelled in two ways.
EditsShow == pc = "restored" /\ document # Canonical(result) => restored # result
=============================================================================
