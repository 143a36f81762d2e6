---------------------------- MODULE Attainability ----------------------------
(***************************************************************************)
(* The plan-time guard of the file workflow and the shift test it speaks   *)
(* about (workflow.py: preflight, attainability, run_files).               *)
(*                                                                         *)
(* Lagged Pearson scores lag c of a source shifted by s as it scores lag   *)
(* c + s of the unshifted one (ShiftMovesLagOntoLag), so the data are a    *)
(* profile: the score of each offset of the circle.  Alpha and p-values    *)
(* are fractions; a float product is off by at most one count.             *)
(***************************************************************************)
EXTENDS LagWindows, ExactOracle

CONSTANTS
    Requests, \* plan requests: null, statistic, parameter, lags, tolerance, replicates, alpha
    Lengths,  \* sample counts
    Scores,   \* values of a profile
    Caps      \* the inclusive in-memory caps

ASSUME AttainabilityAssumption ==
    /\ \A rq \in Requests :
        /\ rq.null \in NullNames
        /\ rq.statistic \in STRING
        /\ rq.parameter \in Nat \ {0}
        /\ rq.null = "circular_shift_exact_v1" => rq.parameter = 1
        /\ rq.lags \in SUBSET (Nat \ {0})
        /\ rq.lags # {} /\ IsFiniteSet(rq.lags)
        /\ rq.tolerance \in Nat
        /\ rq.replicates \in Nat \ {0}
        /\ rq.alpha.den \in Nat \ {0}
        /\ rq.alpha.num \in 1 .. rq.alpha.den - 1
    /\ Lengths \subseteq Nat \ {0}
    /\ Scores \subseteq Int
    /\ Caps \in [replicates : Nat, evaluations : Nat, states : Nat, work : Nat]

VARIABLES
    request,  \* the plan request
    n,        \* the sample count of the input
    profile,  \* the score of each offset of the input
    allow,    \* allow_unattainable
    pc,
    within,   \* within_caps: "yes", "no", or "unknown" without state units
    allowed,  \* count of _allowed_exceedances
    terms,    \* terms of the binomial sum
    status,   \* status of the report
    drawn,    \* replicates done
    exceed,   \* surrogate maxima at or above the observed one
    landed,   \* replicates whose shift puts a searched lag onto the selected one
    rejects   \* reject_null

vars == <<request, n, profile, allow, pc, within, allowed, terms, status,
          drawn, exceed, landed, rejects>>

-----------------------------------------------------------------------------
\* The plan

B == request.replicates

Enumerating == request.null = "circular_shift_exact_v1"

Assessed ==
    /\ request.null \in {"circular_shift_v2", "circular_shift_exact_v1"}
    /\ request.statistic = "lagged_pearson_v1"

EmptySpace == 2 * request.parameter > n

InStateSpace(shift) ==
    \/ shift = 0
    \/ request.parameter <= shift /\ shift <= n - request.parameter

States == ShiftCount(n, request.parameter)

\* The shifts that put a searched lag onto a selected one.
CollidingShifts(selected) ==
    {(selected - lag) % n : lag \in {c \in request.lags : InStateSpace((selected - c) % n)}}

Colliding == Min({Cardinality(CollidingShifts(c)) : c \in request.lags})

AtMostAlpha(num, den) == num * request.alpha.den <= request.alpha.num * den

\* k / (B + 1) <= alpha
Fits(k) == AtMostAlpha(k, B + 1)

FloorRejects == AtMostAlpha(Colliding, States)

-----------------------------------------------------------------------------
\* preflight

Init ==
    /\ request \in Requests
    /\ n \in {k \in Lengths : Loadable(k, request.lags)}
    /\ profile \in [0 .. n - 1 -> Scores]
    /\ allow \in BOOLEAN
    /\ pc = "budget"
    /\ within = "unknown" /\ allowed = 0 /\ terms = 0 /\ status = "none"
    /\ drawn = 0 /\ exceed = 0 /\ landed = 0 /\ rejects = FALSE

WithinCaps(units) ==
    LET C == Cardinality(request.lags)
    IN  IF /\ B <= Caps.replicates
           /\ B * C <= Caps.evaluations
           /\ B * units <= Caps.states
           /\ B * (C * n + units + n) <= Caps.work
        THEN "yes" ELSE "no"

\* _resource_budget: a block length that leaves a tail has no state units.
CheckBudget ==
    /\ pc = "budget"
    /\ pc' = "assess"
    /\ within' =
        CASE request.null # "block_shuffle_v2" -> WithinCaps(1)
          [] request.null = "block_shuffle_v2" /\ n % request.parameter # 0 -> "unknown"
          [] OTHER -> WithinCaps(n \div request.parameter)
    /\ UNCHANGED <<request, n, profile, allow, allowed, terms, status,
                   drawn, exceed, landed, rejects>>

Report(s) ==
    /\ status' = s
    /\ pc' = "planned"

\* Mutant of PlanStatus: the floor is not compared with alpha.
PlanStatusWithoutFloor ==
    CASE ~Fits(1) -> "REFUSE_REPLICATES_TOO_FEW"
      [] Fits(1) /\ request.parameter > 1 /\ Cardinality(request.lags) > 1 -> "REFUSE_NON_GROUP_NULL"
      [] OTHER -> "PASS"

PlanStatus ==
    CASE ~Fits(1) -> "REFUSE_REPLICATES_TOO_FEW"
      [] Fits(1) /\ request.parameter > 1 /\ Cardinality(request.lags) > 1 -> "REFUSE_NON_GROUP_NULL"
      [] Fits(1) /\ ~(request.parameter > 1 /\ Cardinality(request.lags) > 1) /\ ~FloorRejects ->
            "REFUSE_NULL_STATES_TOO_FEW"
      [] OTHER -> "PASS"

\* The returns of attainability that need no power cap.
Assess ==
    /\ pc = "assess"
    /\ \/ ~Assessed /\ Report("NOT_ASSESSED")
       \/ Assessed /\ EmptySpace /\ Report("NOT_ASSESSED_EMPTY_NULL_STATE_SPACE")
       \/ /\ Assessed /\ ~EmptySpace /\ Enumerating
          /\ Report(IF B = States - 1 THEN PlanStatus ELSE "REFUSE_ENUMERATION_REPLICATE_COUNT")
    /\ UNCHANGED <<request, n, profile, allow, within, allowed, terms,
                   drawn, exceed, landed, rejects>>

ExactFloor == (request.alpha.num * (B + 1)) \div request.alpha.den

\* floor(alpha * (B + 1)) in floats, clamped to 0 .. B + 1.
GuessAllowed ==
    /\ pc = "assess"
    /\ Assessed /\ ~EmptySpace /\ ~Enumerating
    /\ allowed' \in {k \in ExactFloor - 1 .. ExactFloor + 1 : 0 <= k /\ k <= B + 1}
    /\ pc' = "lower"
    /\ UNCHANGED <<request, n, profile, allow, within, terms, status,
                   drawn, exceed, landed, rejects>>

\* One test of the first loop of _allowed_exceedances.
LowerAllowed ==
    /\ pc = "lower"
    /\ IF allowed > 0 /\ ~Fits(allowed)
       THEN allowed' = allowed - 1 /\ UNCHANGED pc
       ELSE pc' = "raise" /\ UNCHANGED allowed
    /\ UNCHANGED <<request, n, profile, allow, within, terms, status,
                   drawn, exceed, landed, rejects>>

\* Mutant of RaiseAllowed: a guess that is too low is kept.
KeepAllowed ==
    /\ pc = "raise"
    /\ pc' = "cap"
    /\ UNCHANGED <<request, n, profile, allow, within, allowed, terms, status,
                   drawn, exceed, landed, rejects>>

\* One test of the second loop.
RaiseAllowed ==
    /\ pc = "raise"
    /\ IF allowed <= B /\ Fits(allowed + 1)
       THEN allowed' = allowed + 1 /\ UNCHANGED pc
       ELSE pc' = "cap" /\ UNCHANGED allowed
    /\ UNCHANGED <<request, n, profile, allow, within, terms, status,
                   drawn, exceed, landed, rejects>>

\* _binomial_cdf_below and the rest of attainability for a sampling null.
CapPower ==
    /\ pc = "cap"
    /\ terms' = IF allowed <= 0 \/ allowed > B \/ Colliding >= States THEN 0 ELSE allowed
    /\ Report(PlanStatus)
    /\ UNCHANGED <<request, n, profile, allow, within, allowed, drawn, exceed, landed, rejects>>

-----------------------------------------------------------------------------
\* run_files, and the calibration of a shift test

Refused ==
    {"REFUSE_ENUMERATION_REPLICATE_COUNT", "REFUSE_REPLICATES_TOO_FEW",
     "REFUSE_NON_GROUP_NULL", "REFUSE_NULL_STATES_TOO_FEW"}

\* What the calibrator does first: it binds the statistic, whose refusal ends run_files with
\* no record, and then the null.
AfterAdmission ==
    IF request.statistic = "lagged_pearson_v1" /\ ~Bindable(n, request.lags)
    THEN "unbound"
    ELSE IF ~Assessed \/ EmptySpace \/ (Enumerating /\ B # States - 1)
         THEN "elsewhere" ELSE "draw"

\* The refusals of run_files, and the terminal stages of the calibrator before a draw.
Admit ==
    /\ pc = "planned"
    /\ pc' = CASE within = "no" -> "resource_budget_exceeded"
               [] within # "no" /\ status \in Refused /\ ~allow -> "unattainable_plan"
               [] OTHER -> AfterAdmission
    /\ UNCHANGED <<request, n, profile, allow, within, allowed, terms, status,
                   drawn, exceed, landed, rejects>>

\* The family maximum of the source shifted by s, searching some lags.
Maximum(lags, values, s) == Max({values[(c + s) % n] : c \in lags})

FamilyMaximum(s) == Maximum(request.lags, profile, s)

\* The reported candidate: the smallest lag whose score is the maximum up to the tie
\* tolerance.
SelectedLag == Min({c \in request.lags : FamilyMaximum(0) - profile[c % n] <= request.tolerance})

\* The shifts a replicate may take.
DrawStates == IF Enumerating THEN {drawn + 1} ELSE Shifts(n, request.parameter)

\* Mutant of Exceeds: ties do not count.
ExceedsStrictly(s) == FamilyMaximum(s) > FamilyMaximum(0)

Exceeds(s) == FamilyMaximum(s) >= FamilyMaximum(0)

Draw ==
    /\ pc = "draw" /\ drawn < B
    /\ \E s \in DrawStates :
        /\ exceed' = exceed + (IF Exceeds(s) THEN 1 ELSE 0)
        /\ landed' = landed + (IF s \in CollidingShifts(SelectedLag) THEN 1 ELSE 0)
    /\ drawn' = drawn + 1
    /\ UNCHANGED <<request, n, profile, allow, pc, within, allowed, terms, status, rejects>>

\* Mutant of Decide: the observed statistic is not among the exceedances.
DecideWithoutObserved ==
    /\ pc = "draw" /\ drawn = B
    /\ rejects' = Fits(exceed)
    /\ pc' = "decided"
    /\ UNCHANGED <<request, n, profile, allow, within, allowed, terms, status,
                   drawn, exceed, landed>>

Decide ==
    /\ pc = "draw" /\ drawn = B
    /\ rejects' = Fits(1 + exceed)
    /\ pc' = "decided"
    /\ UNCHANGED <<request, n, profile, allow, within, allowed, terms, status,
                   drawn, exceed, landed>>

Finished ==
    /\ pc \in {"resource_budget_exceeded", "unattainable_plan", "unbound", "elsewhere", "decided"}
    /\ UNCHANGED vars

Next ==
    \/ CheckBudget \/ Assess \/ GuessAllowed \/ LowerAllowed \/ RaiseAllowed \/ CapPower
    \/ Admit \/ Draw \/ Decide \/ Finished

Spec == Init /\ [][Next]_vars

-----------------------------------------------------------------------------
\* Properties

\* The float guess is corrected to the number of exceedance counts that reject, so the
\* report and the calibrator agree on every boundary (_allowed_exceedances).
AllowedIsExact ==
    pc = "cap" => allowed = Cardinality({e \in 0 .. B : Fits(1 + e)})

\* A finished sampled run rejects exactly when it exceeded less often than the report allows.
ReportAgreesWithDecision ==
    pc = "decided" /\ ~Enumerating => (rejects <=> exceed < allowed)

\* A draw that puts a searched lag onto the selected one reaches the observed maximum up to
\* the tie tolerance, and exceeds whatever the data when the selected lag has that maximum.
\* An enumeration meets as many exceedances as the lag with the fewest collisions has,
\* whichever lag is selected: its p-value cannot be below null_state_p_floor.
CollisionsAreExceedances ==
    pc = "decided" =>
        /\ \A s \in CollidingShifts(SelectedLag) :
               FamilyMaximum(0) - FamilyMaximum(s) <= request.tolerance
        /\ profile[SelectedLag % n] = FamilyMaximum(0) => exceed >= landed
        /\ Enumerating => 1 + exceed >= Colliding

\* An enumerating plan refused for its replicates or its states rejects on no data, so a
\* refusal loses nothing.
RefusedPlanNeverRejects ==
    pc = "decided" =>
        /\ status = "REFUSE_REPLICATES_TOO_FEW" => ~rejects
        /\ Enumerating /\ status = "REFUSE_NULL_STATES_TOO_FEW" => ~rejects

\* The shift null of the plan as the oracle takes it.
OracleNull == [name |-> "circular_shift_v2", length |-> n, parameter |-> request.parameter]

\* What the oracle answers for data observed at rotation r.
OracleP(values, r) ==
    PExact(OracleNull, [s \in 0 .. n - 1 |-> Maximum(request.lags, values, (r + s) % n)])

OracleRejects(values, r) == AtMostAlpha(OracleP(values, r)[1], OracleP(values, r)[2])

Peak(c) == [k \in 0 .. n - 1 |-> IF k = c % n THEN 1 ELSE 0]

\* The floor is sharp: an enumerating plan that passes and whose statistic can be bound
\* rejects on some profile of scores, a single peak.
PassedPlanCanReject ==
    pc = "planned" /\ Enumerating /\ status = "PASS" /\ Bindable(n, request.lags) =>
        \E c \in request.lags : OracleRejects(Peak(c), 0)

Level == Cardinality({r \in 0 .. n - 1 : OracleRejects(profile, r)})

\* The p-value of an enumerating plan is the one the oracle finds by itself, and over the
\* rotations of any data the oracle of a plan that excludes no shift rejects a share of at
\* most alpha: what exchangeability of rotations promises (exact_state_oracle_v0).
CompleteTestKeepsItsLevel ==
    /\ pc = "decided" /\ Enumerating => <<1 + exceed, B + 1>> = OracleP(profile, 0)
    /\ pc = "planned" /\ request.parameter = 1 /\ ~EmptySpace => AtMostAlpha(Level, n)

\* What README.md and the comment of preflight say of a plan without a reason against it: it
\* is executable, so run does not end before its calibration.
ExecutablePlanIsBound ==
    pc = "unbound" => within = "no" \/ status \in Refused

\* What the comment of preflight and README.md say of an oversized plan.
OversizedPlanCostsNoArithmetic ==
    within = "no" => terms = 0
=============================================================================
