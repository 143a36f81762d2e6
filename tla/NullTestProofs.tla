-------------------------- MODULE NullTestProofs --------------------------
(***************************************************************************)
(* The test over the states of a null: what a replicate draws, and what    *)
(* the plan-time guard and the decision make of the states.                *)
(*                                                                         *)
(* Guard and decision (Attainability), for every plan, length, profile of  *)
(* scores and set of caps: Inv is inductive.  The exceedances a plan       *)
(* allows are corrected to the largest count that rejects, a status        *)
(* records the comparison it was derived from, and the counters of an      *)
(* enumeration are those of the shifts 1 .. drawn.  What the counters say  *)
(* of the states is arithmetic on the circle.                              *)
(*                                                                         *)
(* Draws (ReplicateDraw), for every null and width of a raw word: DrawInv  *)
(* says that the labels are the order the indices so far lead to.  The     *)
(* rest is about numbers and functions: the words of an attempt are the    *)
(* digits of one number, the exchanges match index sequences and orders    *)
(* one to one, and there are factorially many of both.  An induction runs  *)
(* over a set of numbers (SetInduction), a recursive function exists and   *)
(* is the only one (GoingIsPossible, GoingIsUnique).                       *)
(***************************************************************************)
EXTENDS Attainability, ReplicateDraw, FiniteSetTheorems, FunctionTheorems, SequenceTheorems,
        WellFoundedInduction, TLAPS

-----------------------------------------------------------------------------
\* Extrema and positions on the circle

\* A finite, non-empty set of integers has a greatest element, and Max is it.
LEMMA MaxOfFiniteSet ==
    ASSUME NEW S, IsFiniteSet(S), S # {}, S \subseteq Int
    PROVE  Max(S) \in S /\ \A y \in S : Max(S) >= y
PROOF
  <1> DEFINE Above(x) == {y \in S : y > x}
             Counts   == {Cardinality(Above(x)) : x \in S}
  <1>1. \A x \in S : IsFiniteSet(Above(x)) /\ Cardinality(Above(x)) \in Nat
    <2>1. \A x \in S : Above(x) \in SUBSET S
      OBVIOUS
    <2> QED
      BY <2>1, FS_Subset, FS_CardinalityType
  <1>2. PICK k \in Counts : \A j \in Counts : ~(<<j, k>> \in OpToRel(<, Nat))
    <2>1. Counts \subseteq Nat /\ Counts # {}
      BY <1>1
    <2> HIDE DEF Counts
    <2> QED
      BY <2>1, NatLessThanWellFounded, WFMin
  <1>3. PICK x \in S : k = Cardinality(Above(x))
    BY <1>2
  <1>4. ASSUME NEW y \in S, y > x
        PROVE  FALSE
    <2>1. Above(y) \in SUBSET Above(x)
      BY <1>3, <1>4
    <2>2. y \in Above(x) /\ y \notin Above(y)
      BY <1>3, <1>4
    <2>3. Cardinality(Above(y)) < Cardinality(Above(x))
      <3>1. IsFiniteSet(Above(x)) /\ Cardinality(Above(x)) \in Nat
        BY <1>1
      <3>2. Cardinality(Above(y)) \in Nat
        BY <1>1
      <3> HIDE DEF Above
      <3> QED
        BY <2>1, <2>2, <3>1, <3>2, FS_Subset
    <2>4. <<Cardinality(Above(y)), k>> \in OpToRel(<, Nat)
      BY <1>1, <1>3, <2>3 DEF OpToRel
    <2> QED
      BY <1>2, <2>4
  <1>5. \A y \in S : x >= y
    BY <1>3, <1>4
  <1> QED
    BY <1>5 DEF Max

\* The same for the least element.
LEMMA MinOfFiniteSet ==
    ASSUME NEW S, IsFiniteSet(S), S # {}, S \subseteq Int
    PROVE  Min(S) \in S /\ \A y \in S : Min(S) <= y
PROOF
  <1> DEFINE Below(x) == {y \in S : y < x}
             Counts   == {Cardinality(Below(x)) : x \in S}
  <1>1. \A x \in S : IsFiniteSet(Below(x)) /\ Cardinality(Below(x)) \in Nat
    <2>1. \A x \in S : Below(x) \in SUBSET S
      OBVIOUS
    <2> QED
      BY <2>1, FS_Subset, FS_CardinalityType
  <1>2. PICK k \in Counts : \A j \in Counts : ~(<<j, k>> \in OpToRel(<, Nat))
    <2>1. Counts \subseteq Nat /\ Counts # {}
      BY <1>1
    <2> HIDE DEF Counts
    <2> QED
      BY <2>1, NatLessThanWellFounded, WFMin
  <1>3. PICK x \in S : k = Cardinality(Below(x))
    BY <1>2
  <1>4. ASSUME NEW y \in S, y < x
        PROVE  FALSE
    <2>1. Below(y) \in SUBSET Below(x)
      BY <1>3, <1>4
    <2>2. y \in Below(x) /\ y \notin Below(y)
      BY <1>3, <1>4
    <2>3. Cardinality(Below(y)) < Cardinality(Below(x))
      <3>1. IsFiniteSet(Below(x)) /\ Cardinality(Below(x)) \in Nat
        BY <1>1
      <3>2. Cardinality(Below(y)) \in Nat
        BY <1>1
      <3> HIDE DEF Below
      <3> QED
        BY <2>1, <2>2, <3>1, <3>2, FS_Subset
    <2>4. <<Cardinality(Below(y)), k>> \in OpToRel(<, Nat)
      BY <1>1, <1>3, <2>3 DEF OpToRel
    <2> QED
      BY <1>2, <2>4
  <1>5. \A y \in S : x <= y
    BY <1>3, <1>4
  <1> QED
    BY <1>5 DEF Min

\* A difference of two positions of the circle wraps at most once.
LEMMA WrapDown ==
    ASSUME NEW N \in Nat \ {0}, NEW i \in 0 .. N - 1, NEW s \in 0 .. N - 1
    PROVE  (i - s) % N = IF s <= i THEN i - s ELSE i - s + N
PROOF
  <1>1. CASE s <= i
    BY <1>1, Z3
  <1>2. CASE ~(s <= i)
    BY <1>2, Z3
  <1> QED
    BY <1>1, <1>2

\* A sum of two positions of the circle wraps at most once.
LEMMA WrapUp ==
    ASSUME NEW N \in Nat \ {0}, NEW i \in 0 .. N - 1, NEW s \in 0 .. N - 1
    PROVE  (i + s) % N = IF i + s < N THEN i + s ELSE i + s - N
PROOF
  <1>1. CASE i + s < N
    BY <1>1, Z3
  <1>2. CASE ~(i + s < N)
    BY <1>2, Z3
  <1> QED
    BY <1>1, <1>2

-----------------------------------------------------------------------------
\* Windows

\* No window reaches outside the series, where a slice bound below zero would count from
\* the other end (forward_for).
THEOREM WindowsStayInside ==
    ASSUME NEW N \in Nat \ {0}, NEW lags \in SUBSET (Nat \ {0}),
           Max(lags) \in lags, \A c \in lags : c <= Max(lags),
           NEW c \in lags, NEW t \in Support(N, lags)
    PROVE  t - c \in 0 .. N - 1 /\ t - 1 \in 0 .. N - 1
PROOF
  <1>1. Max(lags) \in Nat \ {0} /\ c \in Nat \ {0} /\ c <= Max(lags)
    OBVIOUS
  <1> QED
    BY <1>1 DEF Support

\* Shifting the source by d - c puts under lag c what was under lag d, so a null state that
\* maps one searched lag onto the selected one reproduces the observed maximum: the
\* arithmetic behind null_state_p_floor (attainability).
THEOREM ShiftMovesLagOntoLag ==
    ASSUME NEW N \in Nat \ {0}, NEW lags \in SUBSET (Nat \ {0}),
           Max(lags) \in lags, \A c \in lags : c <= Max(lags), Loadable(N, lags),
           NEW V, NEW x \in [0 .. N - 1 -> V], NEW c \in lags, NEW d \in lags
    PROVE  SourcePast(Shifted(x, N, (d - c) % N), N, lags, c) = SourcePast(x, N, lags, d)
PROOF
  <1> DEFINE s == (d - c) % N
  <1>1. Max(lags) \in Nat \ {0} /\ c <= Max(lags) /\ d <= Max(lags) /\ Max(lags) < N
    <2>1. Max(lags) \in Nat \ {0} /\ c <= Max(lags) /\ d <= Max(lags)
      OBVIOUS
    <2> QED
      BY <2>1 DEF Loadable
  <1>2. s = (IF c <= d THEN d - c ELSE d - c + N) /\ s \in 0 .. N - 1
    <2>1. c \in 0 .. N - 1 /\ d \in 0 .. N - 1
      BY <1>1
    <2> QED
      BY <2>1, WrapDown
  <1> HIDE DEF s
  <1>3. ASSUME NEW t \in Support(N, lags)
        PROVE  Shifted(x, N, s)[t - c] = x[t - d]
    <2>1. t - c \in 0 .. N - 1 /\ t - d \in 0 .. N - 1
      BY WindowsStayInside
    <2> DEFINE i == t - c
    <2>2. (i - s) % N = IF s <= i THEN i - s ELSE i - s + N
      BY <1>2, <2>1, WrapDown
    <2>3. (i - s) % N = t - d
      BY <1>1, <1>2, <2>1, <2>2 DEF Support
    <2> QED
      BY <2>1, <2>3 DEF Shifted
  <1> QED
    BY <1>3 DEF SourcePast, s

-----------------------------------------------------------------------------
\* The plan and its data

PlanOK ==
    /\ request \in Requests
    /\ n \in Lengths
    /\ Loadable(n, request.lags)
    /\ profile \in [0 .. n - 1 -> Scores]

LEMMA RequestFacts ==
    ASSUME PlanOK
    PROVE  /\ request.lags \in SUBSET (Nat \ {0})
           /\ request.lags # {} /\ IsFiniteSet(request.lags)
           /\ B \in Nat \ {0}
           /\ request.alpha.den \in Nat \ {0}
           /\ request.alpha.num \in 1 .. request.alpha.den - 1
           /\ request.parameter \in Nat \ {0}
           /\ request.tolerance \in Nat
           /\ Enumerating => request.parameter = 1
PROOF
  BY AttainabilityAssumption DEF PlanOK, B, Enumerating

\* Every lag is below the length, so it is a position of the circle.
LEMMA DataFacts ==
    ASSUME PlanOK
    PROVE  /\ n \in Nat \ {0, 1}
           /\ request.lags \subseteq 1 .. n - 1
           /\ profile \in [0 .. n - 1 -> Int]
PROOF
  <1> DEFINE lags == request.lags
  <1>1. lags \in SUBSET (Nat \ {0}) /\ lags # {} /\ IsFiniteSet(lags)
    BY RequestFacts
  <1>2. n \in Nat \ {0} /\ n > Max(lags) /\ profile \in [0 .. n - 1 -> Scores]
    BY AttainabilityAssumption DEF PlanOK, Loadable
  <1>3. Scores \subseteq Int
    BY AttainabilityAssumption
  <1> HIDE DEF lags
  <1>4. lags \subseteq Int
    BY <1>1
  <1>5. Max(lags) \in lags /\ \A c \in lags : Max(lags) >= c
    BY <1>1, <1>4, MaxOfFiniteSet
  <1> DEFINE top == Max(lags)
  <1>8. top \in Nat \ {0} /\ n > top /\ \A c \in lags : top >= c
    BY <1>1, <1>2, <1>5
  <1> HIDE DEF top
  <1>6. ASSUME NEW c \in lags
        PROVE  c \in 1 .. n - 1
    <2>1. c \in Nat \ {0} /\ top >= c
      BY <1>1, <1>8
    <2> QED
      BY <1>2, <1>8, <2>1
  <1>7. n \in Nat \ {0, 1}
    BY <1>2, <1>8
  <1> QED
    BY <1>2, <1>3, <1>6, <1>7 DEF lags

LEMMA ProductIsMonotone ==
    ASSUME NEW i \in Nat, NEW j \in Nat, NEW k \in Nat, i <= j
    PROVE  i * k <= j * k
PROOF
  BY Z3

\* What passes the comparison with alpha passes it with any smaller numerator.
LEMMA AtMostAlphaDownward ==
    ASSUME PlanOK, NEW i \in Nat, NEW j \in Nat, NEW k \in Nat, i <= j, AtMostAlpha(j, k)
    PROVE  AtMostAlpha(i, k)
PROOF
  <1> DEFINE u == request.alpha.den
             v == request.alpha.num
  <1>1. u \in Nat /\ v \in Nat
    BY RequestFacts
  <1>2. j * u <= v * k
    BY DEF AtMostAlpha
  <1> HIDE DEF u, v
  <1>3. i * u <= j * u
    BY <1>1, ProductIsMonotone
  <1>4. i * u \in Nat /\ j * u \in Nat /\ v * k \in Nat
    BY <1>1, Z3
  <1>5. i * u <= v * k
    BY <1>2, <1>3, <1>4
  <1> QED
    BY <1>5 DEF AtMostAlpha, u, v

LEMMA FitsDownward ==
    ASSUME PlanOK, NEW i \in Nat, NEW j \in Nat, i <= j, Fits(j)
    PROVE  Fits(i)
PROOF
  <1>1. B + 1 \in Nat
    BY RequestFacts
  <1>2. AtMostAlpha(j, B + 1)
    BY DEF Fits
  <1>3. AtMostAlpha(i, B + 1)
    BY <1>1, <1>2, AtMostAlphaDownward
  <1> QED
    BY <1>3 DEF Fits

-----------------------------------------------------------------------------
\* Family maxima

\* The maximum of a family under a shift is the value of one of its lags and no less than
\* that of any other.
LEMMA MaximumIsAttained ==
    ASSUME PlanOK, NEW values \in [0 .. n - 1 -> Int], NEW s \in Int
    PROVE  /\ Maximum(request.lags, values, s) \in Int
           /\ \E c \in request.lags : Maximum(request.lags, values, s) = values[(c + s) % n]
           /\ \A c \in request.lags : Maximum(request.lags, values, s) >= values[(c + s) % n]
PROOF
  <1> DEFINE lags == request.lags
             f    == [c \in lags |-> values[(c + s) % n]]
             S    == {values[(c + s) % n] : c \in lags}
  <1>1. lags \in SUBSET (Nat \ {0}) /\ lags # {} /\ IsFiniteSet(lags) /\ n \in Nat \ {0}
    BY RequestFacts, DataFacts
  <1>2. \A c \in lags : (c + s) % n \in 0 .. n - 1
    BY <1>1
  <1>3. S \subseteq Int /\ S # {}
    BY <1>1, <1>2
  <1>4. f \in Surjection(lags, S)
    BY DEF Surjection
  <1>5. IsFiniteSet(S)
    <2> HIDE DEF S, f, lags
    <2> QED
      BY <1>1, <1>4, FS_Surjection
  <1>6. Max(S) \in S /\ \A y \in S : Max(S) >= y
    <2> HIDE DEF S
    <2> QED
      BY <1>3, <1>5, MaxOfFiniteSet
  <1>7. Maximum(request.lags, values, s) = Max(S)
    BY DEF Maximum
  <1>8. Max(S) \in Int
    BY <1>3, <1>6
  <1>9. PICK c \in lags : Max(S) = values[(c + s) % n]
    BY <1>6
  <1>10. \A d \in lags : Max(S) >= values[(d + s) % n]
    BY <1>6
  <1> HIDE DEF S
  <1> QED
    BY <1>7, <1>8, <1>9, <1>10

\* A shift by the difference of two positions moves one onto the other.
LEMMA DifferenceMoves ==
    ASSUME NEW N \in Nat \ {0}, NEW i \in 0 .. N - 1, NEW j \in 0 .. N - 1
    PROVE  /\ (j - i) % N \in 0 .. N - 1
           /\ (i + ((j - i) % N)) % N = j
PROOF
  <1> DEFINE s == (j - i) % N
  <1>1. s = IF i <= j THEN j - i ELSE j - i + N
    BY WrapDown
  <1>2. s \in 0 .. N - 1
    BY <1>1
  <1> HIDE DEF s
  <1>3. (i + s) % N = IF i + s < N THEN i + s ELSE i + s - N
    BY <1>2, WrapUp
  <1>4. (i + s) % N = j
    BY <1>1, <1>2, <1>3
  <1> QED
    BY <1>2, <1>4 DEF s

\* And no other shift does.
LEMMA OnlyTheDifferenceMoves ==
    ASSUME NEW N \in Nat \ {0}, NEW i \in 0 .. N - 1, NEW s \in 0 .. N - 1
    PROVE  (((i + s) % N) - i) % N = s
PROOF
  <1> DEFINE j == (i + s) % N
  <1>1. j = IF i + s < N THEN i + s ELSE i + s - N
    BY WrapUp
  <1>2. j \in 0 .. N - 1
    BY <1>1
  <1> HIDE DEF j
  <1>3. (j - i) % N = IF i <= j THEN j - i ELSE j - i + N
    BY <1>2, WrapDown
  <1>4. (j - i) % N = s
    BY <1>1, <1>2, <1>3
  <1> QED
    BY <1>4 DEF j

\* One searched lag has the observed maximum, and no other is above it.
LEMMA SomeLagHasMaximum ==
    ASSUME PlanOK
    PROVE  /\ FamilyMaximum(0) \in Int
           /\ \E c \in request.lags : profile[c % n] = FamilyMaximum(0)
           /\ \A c \in request.lags : profile[c % n] \in Int /\ profile[c % n] <= FamilyMaximum(0)
PROOF
  <1>1. profile \in [0 .. n - 1 -> Int] /\ n \in Nat \ {0}
    BY DataFacts
  <1>2. FamilyMaximum(0) = Maximum(request.lags, profile, 0) /\ 0 \in Int
    BY DEF FamilyMaximum
  <1>3. \A c \in request.lags : c + 0 = c /\ c % n \in 0 .. n - 1
    BY <1>1, RequestFacts
  <1>4. /\ Maximum(request.lags, profile, 0) \in Int
        /\ \E c \in request.lags : Maximum(request.lags, profile, 0) = profile[(c + 0) % n]
        /\ \A c \in request.lags : Maximum(request.lags, profile, 0) >= profile[(c + 0) % n]
    BY <1>1, <1>2, MaximumIsAttained
  <1>5. \A c \in request.lags : profile[c % n] \in Int /\ profile[(c + 0) % n] = profile[c % n]
    BY <1>1, <1>3
  <1> QED
    BY <1>2, <1>4, <1>5

\* The reported candidate is a searched lag whose score is the observed maximum up to the tie
\* tolerance.
LEMMA SelectedIsNearMaximum ==
    ASSUME PlanOK
    PROVE  /\ SelectedLag \in request.lags
           /\ FamilyMaximum(0) - profile[SelectedLag % n] <= request.tolerance
PROOF
  <1> DEFINE S == {c \in request.lags : FamilyMaximum(0) - profile[c % n] <= request.tolerance}
  <1>1. PICK c \in request.lags : profile[c % n] = FamilyMaximum(0)
    BY SomeLagHasMaximum
  <1>2. FamilyMaximum(0) \in Int /\ request.tolerance \in Nat
    BY SomeLagHasMaximum, RequestFacts
  <1>3. c \in S
    BY <1>1, <1>2
  <1>4. IsFiniteSet(S) /\ S # {} /\ S \subseteq Int
    <2>1. IsFiniteSet(request.lags) /\ request.lags \subseteq Int /\ S \in SUBSET request.lags
      BY RequestFacts
    <2> HIDE DEF S
    <2> QED
      BY <1>3, <2>1, FS_Subset
  <1>5. Min(S) \in S
    <2> HIDE DEF S
    <2> QED
      BY <1>4, MinOfFiniteSet
  <1> QED
    BY <1>5 DEF SelectedLag

\* A shift that puts a searched lag onto lag c reaches the score of c, whatever the data.
LEMMA CollisionReaches ==
    ASSUME PlanOK, NEW c \in request.lags, NEW s \in CollidingShifts(c)
    PROVE  FamilyMaximum(s) \in Int /\ FamilyMaximum(s) >= profile[c % n]
PROOF
  <1>1. PICK lag \in request.lags : s = (c - lag) % n
    BY DEF CollidingShifts
  <1>2. /\ n \in Nat \ {0} /\ profile \in [0 .. n - 1 -> Int]
        /\ c \in 0 .. n - 1 /\ lag \in 0 .. n - 1
    BY DataFacts
  <1>3. s \in 0 .. n - 1 /\ (lag + s) % n = c
    BY <1>1, <1>2, DifferenceMoves
  <1>4. c % n = c
    BY <1>2
  <1>5. FamilyMaximum(s) = Maximum(request.lags, profile, s) /\ s \in Int
    BY <1>3 DEF FamilyMaximum
  <1>6. /\ Maximum(request.lags, profile, s) \in Int
        /\ Maximum(request.lags, profile, s) >= profile[(lag + s) % n]
    BY <1>2, <1>5, MaximumIsAttained
  <1> QED
    BY <1>3, <1>4, <1>5, <1>6

\* If c has the observed maximum, such a shift exceeds.
LEMMA CollisionExceeds ==
    ASSUME PlanOK, NEW c \in request.lags, profile[c % n] = FamilyMaximum(0),
           NEW s \in CollidingShifts(c)
    PROVE  Exceeds(s)
PROOF
  BY CollisionReaches DEF Exceeds

-----------------------------------------------------------------------------
\* The inductive invariant

Runnable == Assessed /\ ~EmptySpace /\ (Enumerating => B = States - 1)

Sampling == Assessed /\ ~EmptySpace /\ ~Enumerating

\* No count above allowed rejects, and allowed itself does unless it is 0.
LargestFitting ==
    /\ allowed = 0 \/ Fits(allowed)
    /\ allowed = B + 1 \/ ~Fits(allowed + 1)

AllowedOK ==
    /\ allowed \in 0 .. B + 1
    /\ pc \in {"lower", "raise", "cap"} => Sampling
    /\ pc = "raise" => allowed = 0 \/ Fits(allowed)
    /\ pc = "cap" => LargestFitting
    /\ pc \in {"planned", "draw", "decided"} /\ Sampling => LargestFitting

StatusOK ==
    /\ status = "REFUSE_REPLICATES_TOO_FEW" => ~Fits(1)
    /\ status = "REFUSE_NULL_STATES_TOO_FEW" => ~FloorRejects
    /\ status = "PASS" => FloorRejects /\ ~EmptySpace

\* The shifts 1 .. k that exceed.
Exceeding(k) == {s \in 1 .. k : Exceeds(s)}

CountsOK ==
    /\ drawn \in 0 .. B
    /\ exceed \in 0 .. drawn
    /\ landed \in 0 .. drawn
    /\ profile[SelectedLag % n] = FamilyMaximum(0) => landed <= exceed
    /\ Enumerating => exceed = Cardinality(Exceeding(drawn))

OutcomeOK ==
    /\ pc \in {"draw", "decided"} => Runnable
    /\ pc = "decided" => drawn = B /\ (rejects <=> Fits(1 + exceed))

Inv == PlanOK /\ AllowedOK /\ StatusOK /\ CountsOK /\ OutcomeOK

\* No step changes the plan or its data.
LEMMA PlanStays ==
    ASSUME [Next]_vars
    PROVE  request' = request /\ n' = n /\ profile' = profile
PROOF
  <1>1. CASE Next
    BY <1>1 DEF Next, CheckBudget, Assess, GuessAllowed, LowerAllowed, RaiseAllowed, CapPower,
                Admit, Draw, Decide, Finished, vars
  <1>2. CASE UNCHANGED vars
    BY <1>2 DEF vars
  <1> QED
    BY <1>1, <1>2

LEMMA DerivedStay ==
    ASSUME request' = request, n' = n, profile' = profile
    PROVE  /\ B' = B
           /\ Assessed' <=> Assessed
           /\ EmptySpace' <=> EmptySpace
           /\ Enumerating' <=> Enumerating
           /\ States' = States
           /\ \A k : Fits(k)' <=> Fits(k)
           /\ FloorRejects' <=> FloorRejects
           /\ \A k : Exceeding(k)' = Exceeding(k)
           /\ (profile[SelectedLag % n] = FamilyMaximum(0))'
                <=> profile[SelectedLag % n] = FamilyMaximum(0)
PROOF
  <1>1. B' = B
    BY DEF B
  <1>2. (Assessed' <=> Assessed) /\ (EmptySpace' <=> EmptySpace) /\ (Enumerating' <=> Enumerating)
    BY DEF Assessed, EmptySpace, Enumerating
  <1>3. States' = States
    BY DEF States
  <1>4. ASSUME NEW k
        PROVE  Fits(k)' <=> Fits(k)
    BY <1>1 DEF Fits, AtMostAlpha
  <1>5. Colliding' = Colliding
    BY DEF Colliding, CollidingShifts, InStateSpace
  <1>6. FloorRejects' <=> FloorRejects
    BY <1>3, <1>5 DEF FloorRejects, AtMostAlpha
  <1>7. ASSUME NEW k
        PROVE  Exceeding(k)' = Exceeding(k)
    BY DEF Exceeding, Exceeds, FamilyMaximum, Maximum
  <1>8. FamilyMaximum(0)' = FamilyMaximum(0)
    BY DEF FamilyMaximum, Maximum
  <1>9. SelectedLag' = SelectedLag
    BY <1>8 DEF SelectedLag
  <1>10. (profile[SelectedLag % n])' = profile[SelectedLag % n]
    BY <1>9
  <1> QED
    BY <1>1, <1>2, <1>3, <1>4, <1>6, <1>7, <1>8, <1>10

-----------------------------------------------------------------------------
\* Init and steps

LEMMA InitInv == Init => Inv
PROOF
  <1> SUFFICES ASSUME Init
               PROVE  Inv
    OBVIOUS
  <1>1. PlanOK
    BY DEF Init, PlanOK
  <1>2. B \in Nat \ {0}
    BY <1>1, RequestFacts
  <1>3. AllowedOK
    BY <1>2 DEF Init, AllowedOK
  <1>4. StatusOK
    BY DEF Init, StatusOK
  <1>5. Exceeding(0) = {}
    BY DEF Exceeding
  <1>6. CountsOK
    <2>1. drawn = 0 /\ exceed = 0 /\ landed = 0
      BY DEF Init
    <2>2. Cardinality(Exceeding(drawn)) = 0
      BY <1>5, <2>1, FS_EmptySet
    <2> QED
      BY <1>2, <2>1, <2>2 DEF CountsOK
  <1>7. OutcomeOK
    BY DEF Init, OutcomeOK
  <1> QED
    BY <1>1, <1>3, <1>4, <1>6, <1>7 DEF Inv

LEMMA PlanOKStays == PlanOK /\ [Next]_vars => PlanOK'
PROOF
  BY PlanStays DEF PlanOK

LEMMA AllowedOKStays == Inv /\ [Next]_vars => AllowedOK'
PROOF
  <1> SUFFICES ASSUME Inv, [Next]_vars
               PROVE  AllowedOK'
    OBVIOUS
  <1>1. /\ B' = B
        /\ Sampling' <=> Sampling
        /\ \A k : Fits(k)' <=> Fits(k)
    BY PlanStays, DerivedStay DEF Sampling
  <1>2. B \in Nat \ {0}
    BY RequestFacts DEF Inv
  <1>3. AllowedOK
    BY DEF Inv
  <1>4. CASE CheckBudget
    BY <1>1, <1>2, <1>3, <1>4 DEF CheckBudget, AllowedOK
  <1>5. CASE Assess
    <2>1. allowed' = allowed /\ pc' = "planned" /\ ~Sampling
      BY <1>5 DEF Assess, Report, Sampling
    <2> QED
      BY <1>1, <1>2, <1>3, <2>1 DEF AllowedOK
  <1>6. CASE GuessAllowed
    <2>1. allowed' \in 0 .. B + 1 /\ pc' = "lower" /\ Sampling
      BY <1>2, <1>6, RequestFacts DEF GuessAllowed, Sampling, Inv, ExactFloor
    <2> QED
      BY <1>1, <1>2, <2>1 DEF AllowedOK
  <1>7. CASE LowerAllowed
    <2>1. pc = "lower" /\ Sampling /\ allowed \in 0 .. B + 1
      BY <1>3, <1>7 DEF LowerAllowed, AllowedOK
    <2>2. CASE allowed > 0 /\ ~Fits(allowed)
      BY <1>1, <1>2, <1>7, <2>1, <2>2 DEF LowerAllowed, AllowedOK
    <2>3. CASE ~(allowed > 0 /\ ~Fits(allowed))
      <3>1. allowed' = allowed /\ pc' = "raise" /\ (allowed = 0 \/ Fits(allowed))
        BY <1>7, <2>1, <2>3 DEF LowerAllowed
      <3> QED
        BY <1>1, <1>2, <2>1, <3>1 DEF AllowedOK
    <2> QED
      BY <2>2, <2>3
  <1>8. CASE RaiseAllowed
    <2>1. pc = "raise" /\ Sampling /\ allowed \in 0 .. B + 1 /\ (allowed = 0 \/ Fits(allowed))
      BY <1>3, <1>8 DEF RaiseAllowed, AllowedOK
    <2>2. CASE allowed <= B /\ Fits(allowed + 1)
      BY <1>1, <1>2, <1>8, <2>1, <2>2 DEF RaiseAllowed, AllowedOK
    <2>3. CASE ~(allowed <= B /\ Fits(allowed + 1))
      <3>1. allowed' = allowed /\ pc' = "cap" /\ LargestFitting
        BY <1>2, <1>8, <2>1, <2>3 DEF RaiseAllowed, LargestFitting
      <3>2. LargestFitting'
        BY <1>1, <3>1 DEF LargestFitting
      <3> QED
        BY <1>1, <1>2, <2>1, <3>1, <3>2 DEF AllowedOK
    <2> QED
      BY <2>2, <2>3
  <1>9. CASE CapPower
    <2>1. pc = "cap" /\ pc' = "planned" /\ allowed' = allowed
      BY <1>9 DEF CapPower, Report
    <2> QED
      BY <1>1, <1>3, <2>1 DEF AllowedOK, LargestFitting
  <1>10. CASE Admit
    <2>1. allowed' = allowed /\ pc = "planned"
          /\ pc' \in {"resource_budget_exceeded", "unattainable_plan", "unbound", "elsewhere", "draw"}
      BY <1>10 DEF Admit, AfterAdmission
    <2> QED
      BY <1>1, <1>3, <2>1 DEF AllowedOK, LargestFitting
  <1>11. CASE Draw
    <2>1. allowed' = allowed /\ pc' = pc
      BY <1>11 DEF Draw
    <2> QED
      BY <1>1, <1>3, <2>1 DEF AllowedOK, LargestFitting
  <1>12. CASE Decide
    <2>1. allowed' = allowed /\ pc = "draw" /\ pc' = "decided"
      BY <1>12 DEF Decide
    <2> QED
      BY <1>1, <1>3, <2>1 DEF AllowedOK, LargestFitting
  <1>13. CASE UNCHANGED vars
    <2>1. allowed' = allowed /\ pc' = pc
      BY <1>13 DEF vars
    <2> QED
      BY <1>1, <1>3, <2>1 DEF AllowedOK, LargestFitting
  <1> QED
    BY <1>4, <1>5, <1>6, <1>7, <1>8, <1>9, <1>10, <1>11, <1>12, <1>13 DEF Next, Finished

LEMMA StatusOKStays == Inv /\ [Next]_vars => StatusOK'
PROOF
  <1> SUFFICES ASSUME Inv, [Next]_vars
               PROVE  StatusOK'
    OBVIOUS
  <1>1. (Fits(1)' <=> Fits(1)) /\ (FloorRejects' <=> FloorRejects) /\ (EmptySpace' <=> EmptySpace)
    BY PlanStays, DerivedStay
  <1>2. ASSUME status' = PlanStatus, ~EmptySpace
        PROVE  StatusOK'
    BY <1>1, <1>2 DEF StatusOK, PlanStatus
  <1>3. CASE status' = status
    BY <1>1, <1>3 DEF Inv, StatusOK
  <1>4. CASE Assess
    <2>1. CASE status' = PlanStatus /\ ~EmptySpace
      BY <1>2, <2>1
    <2>2. CASE ~(status' = PlanStatus /\ ~EmptySpace)
      <3>1. status' \in {"NOT_ASSESSED", "NOT_ASSESSED_EMPTY_NULL_STATE_SPACE",
                         "REFUSE_ENUMERATION_REPLICATE_COUNT"}
        BY <1>4, <2>2 DEF Assess, Report
      <3> QED
        BY <3>1 DEF StatusOK
    <2> QED
      BY <2>1, <2>2
  <1>5. CASE CapPower
    <2>1. status' = PlanStatus /\ ~EmptySpace
      BY <1>5 DEF CapPower, Report, Inv, AllowedOK, Sampling
    <2> QED
      BY <1>2, <2>1
  <1>6. CASE ~Assess /\ ~CapPower
    <2>1. status' = status
      BY <1>6 DEF Next, CheckBudget, GuessAllowed, LowerAllowed, RaiseAllowed,
                  Admit, Draw, Decide, Finished, vars
    <2> QED
      BY <1>3, <2>1
  <1> QED
    BY <1>4, <1>5, <1>6

LEMMA ExceedingGrows ==
    ASSUME NEW k \in Nat
    PROVE  /\ IsFiniteSet(Exceeding(k)) /\ Cardinality(Exceeding(k)) \in Nat
           /\ Cardinality(Exceeding(k + 1)) =
                Cardinality(Exceeding(k)) + (IF Exceeds(k + 1) THEN 1 ELSE 0)
PROOF
  <1>1. Exceeding(k) \in SUBSET (1 .. k)
    BY DEF Exceeding
  <1>2. IsFiniteSet(1 .. k)
    BY FS_Interval
  <1>3. IsFiniteSet(Exceeding(k)) /\ Cardinality(Exceeding(k)) \in Nat
    BY <1>1, <1>2, FS_Subset, FS_CardinalityType
  <1>4. k + 1 \notin Exceeding(k)
    BY <1>1
  <1>5. CASE Exceeds(k + 1)
    <2>1. Exceeding(k + 1) = Exceeding(k) \cup {k + 1}
      BY <1>5 DEF Exceeding
    <2> QED
      BY <1>3, <1>4, <1>5, <2>1, FS_AddElement
  <1>6. CASE ~Exceeds(k + 1)
    <2>1. Exceeding(k + 1) = Exceeding(k)
      BY <1>6 DEF Exceeding
    <2> QED
      BY <1>3, <1>6, <2>1
  <1> QED
    BY <1>5, <1>6

LEMMA CountsOKStays == Inv /\ [Next]_vars => CountsOK'
PROOF
  <1> SUFFICES ASSUME Inv, [Next]_vars
               PROVE  CountsOK'
    OBVIOUS
  <1>1. /\ B' = B
        /\ Enumerating' <=> Enumerating
        /\ \A k : Exceeding(k)' = Exceeding(k)
        /\ (profile[SelectedLag % n] = FamilyMaximum(0))'
             <=> profile[SelectedLag % n] = FamilyMaximum(0)
    BY PlanStays, DerivedStay
  <1>2. B \in Nat \ {0} /\ PlanOK /\ SelectedLag \in request.lags
    BY RequestFacts, SelectedIsNearMaximum DEF Inv
  <1>3. /\ drawn \in 0 .. B /\ exceed \in 0 .. drawn /\ landed \in 0 .. drawn
        /\ profile[SelectedLag % n] = FamilyMaximum(0) => landed <= exceed
        /\ Enumerating => exceed = Cardinality(Exceeding(drawn))
    BY DEF Inv, CountsOK
  <1>4. CASE Draw
    <2>1. PICK s \in DrawStates :
            /\ exceed' = exceed + (IF Exceeds(s) THEN 1 ELSE 0)
            /\ landed' = landed + (IF s \in CollidingShifts(SelectedLag) THEN 1 ELSE 0)
      BY <1>4 DEF Draw
    <2>2. drawn' = drawn + 1 /\ drawn < B
      BY <1>4 DEF Draw
    <2>3. ASSUME profile[SelectedLag % n] = FamilyMaximum(0), s \in CollidingShifts(SelectedLag)
          PROVE  Exceeds(s)
      BY <1>2, <2>3, CollisionExceeds
    <2>4. /\ exceed' \in 0 .. drawn' /\ landed' \in 0 .. drawn'
          /\ profile[SelectedLag % n] = FamilyMaximum(0) => landed' <= exceed'
      BY <1>3, <2>1, <2>2, <2>3
    <2>5. ASSUME Enumerating
          PROVE  exceed' = Cardinality(Exceeding(drawn'))
      <3>1. s = drawn + 1
        BY <2>1, <2>5 DEF DrawStates
      <3>2. Cardinality(Exceeding(drawn + 1)) =
                Cardinality(Exceeding(drawn)) + (IF Exceeds(drawn + 1) THEN 1 ELSE 0)
        BY <1>3, ExceedingGrows
      <3> QED
        BY <1>3, <2>1, <2>2, <2>5, <3>1, <3>2
    <2>6. Cardinality(Exceeding(drawn))' = Cardinality(Exceeding(drawn'))
      BY PlanStays DEF Exceeding, Exceeds, FamilyMaximum, Maximum
    <2>7. drawn' \in 0 .. B'
      BY <1>1, <1>2, <1>3, <2>2
    <2> QED
      BY <1>1, <2>4, <2>5, <2>6, <2>7 DEF CountsOK
  <1>5. CASE ~Draw
    <2>1. drawn' = drawn /\ exceed' = exceed /\ landed' = landed
      BY <1>5 DEF Next, CheckBudget, Assess, GuessAllowed, LowerAllowed, RaiseAllowed, CapPower,
                  Admit, Decide, Finished, vars
    <2>2. Cardinality(Exceeding(drawn))' = Cardinality(Exceeding(drawn))
      BY <2>1, PlanStays DEF Exceeding, Exceeds, FamilyMaximum, Maximum
    <2> QED
      BY <1>1, <1>3, <2>1, <2>2 DEF CountsOK
  <1> QED
    BY <1>4, <1>5

LEMMA OutcomeOKStays == Inv /\ [Next]_vars => OutcomeOK'
PROOF
  <1> SUFFICES ASSUME Inv, [Next]_vars
               PROVE  OutcomeOK'
    OBVIOUS
  <1>1. /\ B' = B
        /\ Runnable' <=> Runnable
        /\ \A k : Fits(k)' <=> Fits(k)
    BY PlanStays, DerivedStay DEF Runnable
  <1>2. OutcomeOK
    BY DEF Inv
  <1>3. CASE Admit
    <2>1. pc' # "decided" /\ (pc' = "draw" => Runnable)
      BY <1>3 DEF Admit, AfterAdmission, Runnable
    <2> QED
      BY <1>1, <2>1 DEF OutcomeOK
  <1>4. CASE Decide
    <2>1. pc' = "decided" /\ Runnable /\ drawn' = B /\ exceed' = exceed
      BY <1>2, <1>4 DEF Decide, OutcomeOK
    <2>2. rejects' <=> Fits(1 + exceed)
      BY <1>4 DEF Decide
    <2> QED
      BY <1>1, <2>1, <2>2 DEF OutcomeOK
  <1>5. CASE Draw
    <2>1. pc = "draw" /\ pc' = "draw"
      BY <1>5 DEF Draw
    <2> QED
      BY <1>1, <1>2, <2>1 DEF OutcomeOK
  <1>6. CASE CheckBudget \/ Assess \/ GuessAllowed \/ LowerAllowed \/ RaiseAllowed \/ CapPower
    <2>1. pc' \notin {"draw", "decided"}
      BY <1>6 DEF CheckBudget, Assess, GuessAllowed, LowerAllowed, RaiseAllowed, CapPower, Report
    <2> QED
      BY <2>1 DEF OutcomeOK
  <1>7. CASE UNCHANGED vars
    <2>1. pc' = pc /\ drawn' = drawn /\ exceed' = exceed /\ rejects' = rejects
      BY <1>7 DEF vars
    <2> QED
      BY <1>1, <1>2, <2>1 DEF OutcomeOK
  <1> QED
    BY <1>3, <1>4, <1>5, <1>6, <1>7 DEF Next, Finished

LEMMA Invariance == Spec => []Inv
PROOF
  <1>1. Init => Inv
    BY InitInv
  <1>2. Inv /\ [Next]_vars => Inv'
    <2>1. Inv => PlanOK
      BY DEF Inv
    <2> QED
      BY <2>1, PlanOKStays, AllowedOKStays, StatusOKStays, CountsOKStays, OutcomeOKStays DEF Inv
  <1> QED
    BY <1>1, <1>2, PTL DEF Spec

-----------------------------------------------------------------------------
\* What a plan allows

\* The float guess of _allowed_exceedances is corrected to the number of exceedance counts
\* that reject, for every alpha and every number of replicates.
THEOREM AllowedIsTheRejectingCounts == Spec => []AllowedIsExact
PROOF
  <1>1. ASSUME Inv
        PROVE  AllowedIsExact
    <2>1. SUFFICES ASSUME pc = "cap"
                   PROVE  allowed = Cardinality({e \in 0 .. B : Fits(1 + e)})
      BY DEF AllowedIsExact
    <2>2. /\ PlanOK /\ B \in Nat \ {0} /\ allowed \in 0 .. B + 1 /\ LargestFitting
      BY <1>1, <2>1, RequestFacts DEF Inv, AllowedOK
    <2>3. ASSUME NEW e \in 0 .. B
          PROVE  Fits(1 + e) <=> e \in 0 .. allowed - 1
      <3>1. CASE e < allowed
        <4>1. Fits(allowed) /\ 1 + e \in Nat /\ 1 + e <= allowed /\ allowed \in Nat
          BY <2>2, <3>1 DEF LargestFitting
        <4>2. Fits(1 + e)
          BY <2>2, <4>1, FitsDownward
        <4> QED
          BY <2>2, <3>1, <4>2
      <3>2. CASE ~(e < allowed)
        <4>1. ~Fits(allowed + 1)
          BY <2>2, <3>2 DEF LargestFitting
        <4>2. 1 + e \in Nat /\ allowed + 1 \in Nat /\ allowed + 1 <= 1 + e
          BY <2>2, <3>2
        <4>3. ~Fits(1 + e)
          BY <2>2, <4>1, <4>2, FitsDownward
        <4> QED
          BY <2>2, <3>2, <4>3
      <3> QED
        BY <3>1, <3>2
    <2>4. {e \in 0 .. B : Fits(1 + e)} = 0 .. allowed - 1
      BY <2>2, <2>3
    <2>5. Cardinality(0 .. allowed - 1) = allowed
      <3>1. 0 \in Int /\ allowed - 1 \in Int
        BY <2>2
      <3>2. Cardinality(0 .. allowed - 1)
              = IF 0 > allowed - 1 THEN 0 ELSE (allowed - 1) - 0 + 1
        BY <3>1, FS_Interval
      <3> QED
        BY <2>2, <3>2
    <2> QED
      BY <2>4, <2>5
  <1> QED
    BY <1>1, Invariance, PTL

\* A finished sampled run rejects exactly when it exceeded less often than the report allows,
\* for every plan and every draw: attainability and calibrate_selected_family agree on every
\* boundary.
THEOREM ReportAndDecisionAgree == Spec => []ReportAgreesWithDecision
PROOF
  <1>1. ASSUME Inv
        PROVE  ReportAgreesWithDecision
    <2>1. SUFFICES ASSUME pc = "decided", ~Enumerating
                   PROVE  rejects <=> exceed < allowed
      BY DEF ReportAgreesWithDecision
    <2>2. /\ Runnable /\ drawn = B /\ (rejects <=> Fits(1 + exceed))
      BY <1>1, <2>1 DEF Inv, OutcomeOK
    <2>3. Sampling
      BY <2>1, <2>2 DEF Runnable, Sampling
    <2>4. /\ PlanOK /\ B \in Nat \ {0} /\ allowed \in 0 .. B + 1 /\ LargestFitting
          /\ exceed \in 0 .. B
      BY <1>1, <2>1, <2>2, <2>3, RequestFacts DEF Inv, AllowedOK, CountsOK
    <2>5. CASE exceed < allowed
      <3>1. Fits(allowed) /\ 1 + exceed \in Nat /\ 1 + exceed <= allowed /\ allowed \in Nat
        BY <2>4, <2>5 DEF LargestFitting
      <3>2. Fits(1 + exceed)
        BY <2>4, <3>1, FitsDownward
      <3> QED
        BY <2>2, <2>5, <3>2
    <2>6. CASE ~(exceed < allowed)
      <3>1. ~Fits(allowed + 1)
        BY <2>4, <2>6 DEF LargestFitting
      <3>2. 1 + exceed \in Nat /\ allowed + 1 \in Nat /\ allowed + 1 <= 1 + exceed
        BY <2>4, <2>6
      <3>3. ~Fits(1 + exceed)
        BY <2>4, <3>1, <3>2, FitsDownward
      <3> QED
        BY <2>2, <2>6, <3>3
    <2> QED
      BY <2>5, <2>6
  <1> QED
    BY <1>1, Invariance, PTL

-----------------------------------------------------------------------------
\* What an enumeration meets

LEMMA CollidingShiftsAreFinite ==
    ASSUME PlanOK, NEW c \in request.lags
    PROVE  /\ IsFiniteSet(CollidingShifts(c))
           /\ Cardinality(CollidingShifts(c)) \in Nat
           /\ CollidingShifts(c) \in SUBSET (0 .. n - 1)
PROOF
  <1>1. n \in Nat \ {0} /\ c \in 0 .. n - 1 /\ request.lags \subseteq 0 .. n - 1
    BY DataFacts
  <1>2. ASSUME NEW s \in CollidingShifts(c)
        PROVE  s \in 0 .. n - 1
    <2>1. PICK lag \in request.lags : s = (c - lag) % n
      BY DEF CollidingShifts
    <2> QED
      BY <1>1, <2>1, DifferenceMoves
  <1>3. IsFiniteSet(0 .. n - 1)
    <2>1. 0 \in Int /\ n - 1 \in Int
      BY <1>1
    <2> QED
      BY <2>1, FS_Interval
  <1>4. CollidingShifts(c) \in SUBSET (0 .. n - 1)
    BY <1>2
  <1> QED
    BY <1>3, <1>4, FS_Subset, FS_CardinalityType

\* Colliding is the least number of colliding shifts of a searched lag, and one lag has it.
LEMMA CollidingIsLeast ==
    ASSUME PlanOK
    PROVE  /\ Colliding \in Nat
           /\ \E c \in request.lags : Colliding = Cardinality(CollidingShifts(c))
           /\ \A c \in request.lags : Colliding <= Cardinality(CollidingShifts(c))
PROOF
  <1> DEFINE lags == request.lags
             f    == [c \in lags |-> Cardinality(CollidingShifts(c))]
             S    == {Cardinality(CollidingShifts(c)) : c \in lags}
  <1>1. lags # {} /\ IsFiniteSet(lags)
    BY RequestFacts
  <1>2. \A c \in lags : Cardinality(CollidingShifts(c)) \in Nat
    BY CollidingShiftsAreFinite
  <1>3. S \subseteq Int /\ S # {}
    BY <1>1, <1>2
  <1>4. f \in Surjection(lags, S)
    BY DEF Surjection
  <1>5. IsFiniteSet(S)
    <2> HIDE DEF S, f, lags
    <2> QED
      BY <1>1, <1>4, FS_Surjection
  <1>6. Min(S) \in S /\ \A y \in S : Min(S) <= y
    <2> HIDE DEF S
    <2> QED
      BY <1>3, <1>5, MinOfFiniteSet
  <1>7. Colliding = Min(S)
    BY DEF Colliding
  <1>8. PICK c \in lags : Min(S) = Cardinality(CollidingShifts(c))
    BY <1>6
  <1>9. \A d \in lags : Min(S) <= Cardinality(CollidingShifts(d))
    BY <1>6
  <1> HIDE DEF S
  <1> QED
    BY <1>2, <1>7, <1>8, <1>9

\* A complete enumeration has one replicate for each shift but the identity.
LEMMA CompleteEnumeration ==
    ASSUME Inv, pc = "decided", Enumerating
    PROVE  /\ request.parameter = 1 /\ States = n
           /\ B = n - 1 /\ drawn = n - 1
           /\ exceed = Cardinality(Exceeding(n - 1))
           /\ rejects <=> Fits(1 + exceed)
PROOF
  <1>1. Runnable /\ drawn = B /\ (rejects <=> Fits(1 + exceed))
    BY DEF Inv, OutcomeOK
  <1>2. request.parameter = 1 /\ n \in Nat
    BY RequestFacts, DataFacts DEF Inv
  <1>3. States = n /\ B = States - 1
    BY <1>1, <1>2 DEF States, ShiftCount, Runnable
  <1>4. exceed = Cardinality(Exceeding(drawn))
    BY DEF Inv, CountsOK
  <1> QED
    BY <1>1, <1>2, <1>3, <1>4

LEMMA EnumerationMeetsCollisions ==
    ASSUME Inv, pc = "decided", Enumerating
    PROVE  1 + exceed >= Colliding
PROOF
  <1>0. PICK c \in request.lags : profile[c % n] = FamilyMaximum(0)
    BY SomeLagHasMaximum DEF Inv
  <1> DEFINE C == CollidingShifts(c)
             E == Exceeding(n - 1)
  <1>1. PlanOK /\ n \in Nat \ {0, 1}
    BY DataFacts DEF Inv
  <1>2. exceed = Cardinality(E)
    BY CompleteEnumeration
  <1>3. C \in SUBSET (0 .. n - 1) /\ Cardinality(C) \in Nat
    BY <1>1, CollidingShiftsAreFinite
  <1>4. \A s \in C : Exceeds(s)
    BY <1>0, <1>1, CollisionExceeds
  <1>5. C \in SUBSET (E \cup {0})
    BY <1>1, <1>3, <1>4 DEF Exceeding
  <1>6. IsFiniteSet(E) /\ Cardinality(E) \in Nat
    <2>1. n - 1 \in Nat
      BY <1>1
    <2> QED
      BY <2>1, ExceedingGrows
  <1>7. Colliding <= Cardinality(C) /\ Colliding \in Nat
    BY <1>1, CollidingIsLeast
  <1> HIDE DEF C, E
  <1>8. IsFiniteSet(E \cup {0}) /\ Cardinality(E \cup {0}) <= 1 + Cardinality(E)
    <2>1. /\ IsFiniteSet(E \cup {0})
          /\ Cardinality(E \cup {0}) = IF 0 \in E THEN Cardinality(E) ELSE Cardinality(E) + 1
      BY <1>6, FS_AddElement
    <2> QED
      BY <1>6, <2>1
  <1>9. Cardinality(E \cup {0}) \in Nat
    BY <1>8, FS_CardinalityType
  <1>10. Cardinality(C) <= Cardinality(E \cup {0})
    BY <1>5, <1>8, FS_Subset
  <1> QED
    BY <1>2, <1>3, <1>6, <1>7, <1>8, <1>9, <1>10

\* A draw that puts a searched lag onto the selected one reaches the observed maximum up to
\* the tie tolerance whatever the data, and exceeds when the selected lag has the maximum; a
\* complete enumeration meets Colliding exceedances whichever lag is selected, for every
\* family of lags, tolerance and length: its p-value cannot be below null_state_p_floor
\* (attainability, select_family_v2).
THEOREM CollisionsExceed == Spec => []CollisionsAreExceedances
PROOF
  <1>1. ASSUME Inv
        PROVE  CollisionsAreExceedances
    <2>1. profile[SelectedLag % n] = FamilyMaximum(0) => exceed >= landed
      <3>1. B \in Nat /\ drawn \in Nat /\ exceed \in Nat /\ landed \in Nat
        BY <1>1, RequestFacts DEF Inv, CountsOK
      <3> QED
        BY <1>1, <3>1 DEF Inv, CountsOK
    <2>2. ASSUME NEW s \in CollidingShifts(SelectedLag)
          PROVE  FamilyMaximum(0) - FamilyMaximum(s) <= request.tolerance
      <3>1. PlanOK
        BY <1>1 DEF Inv
      <3>2. /\ SelectedLag \in request.lags
            /\ FamilyMaximum(0) - profile[SelectedLag % n] <= request.tolerance
        BY <3>1, SelectedIsNearMaximum
      <3>3. FamilyMaximum(s) \in Int /\ FamilyMaximum(s) >= profile[SelectedLag % n]
        BY <3>1, <3>2, CollisionReaches
      <3>4. /\ FamilyMaximum(0) \in Int /\ profile[SelectedLag % n] \in Int
            /\ request.tolerance \in Nat
        BY <3>1, <3>2, SomeLagHasMaximum, RequestFacts
      <3> QED
        BY <3>2, <3>3, <3>4
    <2> QED
      BY <1>1, <2>1, <2>2, EnumerationMeetsCollisions DEF CollisionsAreExceedances
  <1> QED
    BY <1>1, Invariance, PTL

\* An enumerating plan refused for its replicates or its states would reject on no data, for
\* every plan and every profile, so the refusal loses nothing (attainability, run_files).
THEOREM RefusedPlansNeverReject == Spec => []RefusedPlanNeverRejects
PROOF
  <1>1. ASSUME Inv
        PROVE  RefusedPlanNeverRejects
    <2>1. SUFFICES ASSUME pc = "decided", rejects
                   PROVE  /\ status # "REFUSE_REPLICATES_TOO_FEW"
                          /\ ~(Enumerating /\ status = "REFUSE_NULL_STATES_TOO_FEW")
      BY DEF RefusedPlanNeverRejects
    <2>2. Fits(1 + exceed) /\ PlanOK /\ exceed \in Nat
      BY <1>1, <2>1 DEF Inv, OutcomeOK, CountsOK
    <2>3. Fits(1)
      <3>1. 1 \in Nat /\ 1 + exceed \in Nat /\ 1 <= 1 + exceed
        BY <2>2
      <3> QED
        BY <2>2, <3>1, FitsDownward
    <2>4. ASSUME Enumerating
          PROVE  FloorRejects
      <3>1. B + 1 = States /\ States \in Nat
        BY <1>1, <2>1, <2>2, <2>4, CompleteEnumeration, DataFacts
      <3>2. AtMostAlpha(1 + exceed, States)
        BY <2>2, <3>1 DEF Fits
      <3>3. 1 + exceed >= Colliding /\ Colliding \in Nat
        BY <1>1, <2>1, <2>2, <2>4, EnumerationMeetsCollisions, CollidingIsLeast
      <3>4. Colliding <= 1 + exceed /\ 1 + exceed \in Nat
        BY <2>2, <3>3
      <3>5. AtMostAlpha(Colliding, States)
        BY <2>2, <3>1, <3>2, <3>3, <3>4, AtMostAlphaDownward
      <3> QED
        BY <3>5 DEF FloorRejects
    <2> QED
      BY <1>1, <2>3, <2>4 DEF Inv, StatusOK
  <1> QED
    BY <1>1, Invariance, PTL

-----------------------------------------------------------------------------
\* The complete test and the oracle

\* The rotations by 1 .. n - 1 whose family maximum is at least that of rotation r.
AtLeastAs(values, r) ==
    {s \in 1 .. n - 1 :
        Maximum(request.lags, values, (r + s) % n) >= Maximum(request.lags, values, r)}

LEMMA AtLeastAsIsFinite ==
    ASSUME PlanOK, NEW values, NEW r
    PROVE  IsFiniteSet(AtLeastAs(values, r)) /\ Cardinality(AtLeastAs(values, r)) \in Nat
PROOF
  <1>1. 1 \in Int /\ n - 1 \in Int
    BY DataFacts
  <1>2. IsFiniteSet(1 .. n - 1)
    BY <1>1, FS_Interval
  <1>3. AtLeastAs(values, r) \in SUBSET (1 .. n - 1)
    BY DEF AtLeastAs
  <1> QED
    BY <1>2, <1>3, FS_Subset, FS_CardinalityType

\* What the oracle counts when no shift is excluded.
LEMMA OracleCounts ==
    ASSUME PlanOK, request.parameter = 1, NEW values, NEW r \in 0 .. n - 1
    PROVE  OracleP(values, r) = <<1 + Cardinality(AtLeastAs(values, r)), n>>
PROOF
  <1> DEFINE d == [s \in 0 .. n - 1 |-> Maximum(request.lags, values, (r + s) % n)]
  <1>1. n \in Nat \ {0, 1}
    BY DataFacts
  <1>2. Circular(OracleNull) /\ OracleNull.parameter = 1 /\ OracleNull.length = n
    BY DEF Circular, OracleNull
  <1>3. NonidentityStates(OracleNull) = 1 .. n - 1 /\ IdentityState(OracleNull) = 0
    BY <1>2 DEF NonidentityStates, IdentityState
  <1>4. StateTotal(OracleNull) = n
    BY <1>1, <1>2 DEF StateTotal
  <1>5. (r + 0) % n = r
    BY <1>1
  <1>6. d[0] = Maximum(request.lags, values, r)
    BY <1>1, <1>5
  <1>7. ASSUME NEW s \in 1 .. n - 1
        PROVE  d[s] = Maximum(request.lags, values, (r + s) % n)
    BY <1>1
  <1> HIDE DEF d
  <1>8. {s \in 1 .. n - 1 : d[s] >= d[0]} = AtLeastAs(values, r)
    BY <1>6, <1>7 DEF AtLeastAs
  <1>9. Exceedances(OracleNull, d) = Cardinality(AtLeastAs(values, r))
    BY <1>3, <1>8 DEF Exceedances
  <1>10. PExact(OracleNull, d) = <<1 + Cardinality(AtLeastAs(values, r)), n>>
    BY <1>4, <1>9 DEF PExact
  <1> QED
    BY <1>10 DEF OracleP, d

\* The p-value the calibrator counts and the one the oracle counts are the same.
LEMMA EnumerationCountsAsTheOracle ==
    ASSUME Inv, pc = "decided", Enumerating
    PROVE  <<1 + exceed, B + 1>> = OracleP(profile, 0)
PROOF
  <1>1. PlanOK /\ n \in Nat \ {0, 1} /\ 0 \in 0 .. n - 1
    BY DataFacts DEF Inv
  <1>2. request.parameter = 1 /\ B = n - 1 /\ exceed = Cardinality(Exceeding(n - 1))
    BY CompleteEnumeration
  <1>3. OracleP(profile, 0) = <<1 + Cardinality(AtLeastAs(profile, 0)), n>>
    BY <1>1, <1>2, OracleCounts
  <1>4. ASSUME NEW s \in 1 .. n - 1
        PROVE  (0 + s) % n = s
    BY <1>1
  <1>5. Exceeding(n - 1) = AtLeastAs(profile, 0)
    BY <1>4 DEF Exceeding, AtLeastAs, Exceeds, FamilyMaximum
  <1> QED
    BY <1>1, <1>2, <1>3, <1>5

\* Among the rotations of a set, the one with the least maximum is exceeded by all of them:
\* the set is no larger than one plus the rotations that exceed it.
LEMMA LeastRotationIsExceededByAll ==
    ASSUME PlanOK, NEW values, NEW R \in SUBSET (0 .. n - 1), NEW r \in R,
           \A q \in R : Maximum(request.lags, values, q) >= Maximum(request.lags, values, r)
    PROVE  Cardinality(R) <= 1 + Cardinality(AtLeastAs(values, r))
PROOF
  <1> DEFINE E == AtLeastAs(values, r)
             g == [q \in R |-> (q - r) % n]
  <1>1. n \in Nat \ {0} /\ r \in 0 .. n - 1
    BY DataFacts
  <1>2. ASSUME NEW q \in R
        PROVE  g[q] \in 0 .. n - 1 /\ (r + g[q]) % n = q
    <2>1. q \in 0 .. n - 1 /\ g[q] = (q - r) % n
      OBVIOUS
    <2> QED
      BY <1>1, <2>1, DifferenceMoves
  <1>3. ASSUME NEW q \in R
        PROVE  g[q] \in E \cup {0}
    <2>1. CASE g[q] = 0
      BY <2>1
    <2>2. CASE g[q] # 0
      <3>1. g[q] \in 1 .. n - 1 /\ (r + g[q]) % n = q
        BY <1>2, <2>2
      <3> HIDE DEF g
      <3>2. g[q] \in E
        BY <3>1 DEF AtLeastAs
      <3> QED
        BY <3>2
    <2> QED
      BY <2>1, <2>2
  <1>4. g \in Injection(R, E \cup {0})
    <2>1. ASSUME NEW p \in R, NEW q \in R, g[p] = g[q]
          PROVE  p = q
      <3>1. (r + g[p]) % n = p /\ (r + g[q]) % n = q
        BY <1>2
      <3> QED
        BY <2>1, <3>1
    <2>2. g \in [R -> E \cup {0}]
      BY <1>3
    <2> HIDE DEF g, E
    <2> QED
      BY <2>1, <2>2 DEF Injection, IsInjective
  <1>5. IsFiniteSet(E) /\ Cardinality(E) \in Nat
    BY AtLeastAsIsFinite
  <1> HIDE DEF E, g
  <1>6. IsFiniteSet(E \cup {0}) /\ Cardinality(E \cup {0}) <= 1 + Cardinality(E)
        /\ Cardinality(E \cup {0}) \in Nat
    <2>1. IsFiniteSet(E \cup {0}) /\ Cardinality(E \cup {0})
            = IF 0 \in E THEN Cardinality(E) ELSE Cardinality(E) + 1
      BY <1>5, FS_AddElement
    <2> QED
      BY <1>5, <2>1
  <1>7. IsFiniteSet(R) /\ Cardinality(R) <= Cardinality(E \cup {0})
    BY <1>4, <1>6, FS_Injection
  <1>8. Cardinality(R) \in Nat
    BY <1>7, FS_CardinalityType
  <1> QED
    BY <1>5, <1>6, <1>7, <1>8 DEF E

\* At most a share of alpha of the rotations reject when the oracle excludes no shift.
LEMMA RejectingRotationsAreFew ==
    ASSUME PlanOK, request.parameter = 1
    PROVE  AtMostAlpha(Level, n)
PROOF
  <1> DEFINE R == {r \in 0 .. n - 1 : OracleRejects(profile, r)}
             M(r) == Maximum(request.lags, profile, r)
             f == [r \in R |-> M(r)]
             S == {M(r) : r \in R}
  <1>1. n \in Nat \ {0, 1} /\ profile \in [0 .. n - 1 -> Int]
    BY DataFacts
  <1>2. Level = Cardinality(R)
    BY DEF Level
  <1>3. R \in SUBSET (0 .. n - 1)
    OBVIOUS
  <1>4. IsFiniteSet(R)
    <2>1. 0 \in Int /\ n - 1 \in Int
      BY <1>1
    <2> QED
      BY <1>3, <2>1, FS_Interval, FS_Subset
  <1>5. CASE R = {}
    <2>1. Level = 0
      BY <1>2, <1>5, FS_EmptySet
    <2>2. request.alpha.den \in Nat /\ request.alpha.num \in Nat
      BY RequestFacts
    <2> DEFINE u == request.alpha.den
               v == request.alpha.num
    <2>3. 0 * u = 0 /\ v * n >= 0
      <3>1. u \in Nat /\ v \in Nat
        BY <2>2
      <3> HIDE DEF u, v
      <3> QED
        BY <1>1, <3>1, Z3
    <2> QED
      BY <2>1, <2>3 DEF AtMostAlpha
  <1>6. CASE R # {}
    <2>1. \A r \in R : M(r) \in Int
      <3>1. \A r \in R : r \in Int
        BY <1>3
      <3> QED
        BY <1>1, <3>1, MaximumIsAttained
    <2>2. f \in Surjection(R, S)
      BY DEF Surjection
    <2>3. IsFiniteSet(S) /\ S # {} /\ S \subseteq Int
      <3>1. S # {} /\ S \subseteq Int
        BY <1>6, <2>1
      <3> HIDE DEF f, S, R
      <3> QED
        BY <1>4, <2>2, <3>1, FS_Surjection
    <2>4. Min(S) \in S /\ \A y \in S : Min(S) <= y
      <3> HIDE DEF S
      <3> QED
        BY <2>3, MinOfFiniteSet
    <2>5. PICK r \in R : M(r) = Min(S)
      BY <2>4
    <2>6. \A q \in R : M(q) \in S
      OBVIOUS
    <2>7. \A q \in R : M(q) >= M(r)
      <3> HIDE DEF S, R, M
      <3> QED
        BY <2>1, <2>4, <2>5, <2>6
    <2>8. Cardinality(R) <= 1 + Cardinality(AtLeastAs(profile, r))
      <3>1. \A q \in R : Maximum(request.lags, profile, q) >= Maximum(request.lags, profile, r)
        BY <2>7
      <3> HIDE DEF R
      <3> QED
        BY <1>3, <3>1, LeastRotationIsExceededByAll
    <2>9. AtMostAlpha(1 + Cardinality(AtLeastAs(profile, r)), n)
      <3>1. r \in 0 .. n - 1 /\ OracleRejects(profile, r)
        OBVIOUS
      <3>2. OracleP(profile, r) = <<1 + Cardinality(AtLeastAs(profile, r)), n>>
        BY <3>1, OracleCounts
      <3> QED
        BY <3>1, <3>2 DEF OracleRejects
    <2>10. Cardinality(R) \in Nat /\ Cardinality(AtLeastAs(profile, r)) \in Nat
      BY <1>4, FS_CardinalityType, AtLeastAsIsFinite
    <2> HIDE DEF R, M, S, f
    <2>11. 1 + Cardinality(AtLeastAs(profile, r)) \in Nat /\ n \in Nat
      BY <1>1, <2>10
    <2> QED
      BY <1>2, <2>8, <2>9, <2>10, <2>11, AtMostAlphaDownward
  <1> QED
    BY <1>5, <1>6

\* For every family of lags, length, alpha and profile of scores, the p-value of a complete
\* enumeration is the one the oracle finds by itself, and over the rotations of the data the
\* oracle of a plan that excludes no shift rejects a share of at most alpha: the exactness
\* exact_oracle_v0.py is a reference for.
THEOREM CompleteTestsKeepTheirLevel == Spec => []CompleteTestKeepsItsLevel
PROOF
  <1>1. ASSUME Inv
        PROVE  CompleteTestKeepsItsLevel
    <2>1. PlanOK
      BY <1>1 DEF Inv
    <2> QED
      BY <1>1, <2>1, EnumerationCountsAsTheOracle, RejectingRotationsAreFew
      DEF CompleteTestKeepsItsLevel
  <1> QED
    BY <1>1, Invariance, PTL

-----------------------------------------------------------------------------
\* The floor is sharp

\* A single peak at lag c is exceeded exactly by the shifts that put a searched lag onto c.
LEMMA PeakIsExceededByCollisions ==
    ASSUME PlanOK, request.parameter = 1, NEW c \in request.lags
    PROVE  1 + Cardinality(AtLeastAs(Peak(c), 0)) = Cardinality(CollidingShifts(c))
PROOF
  <1> DEFINE values == Peak(c)
             lags   == request.lags
             C      == CollidingShifts(c)
             E      == AtLeastAs(values, 0)
  <1>1. n \in Nat \ {0, 1} /\ c \in 0 .. n - 1 /\ lags \subseteq 0 .. n - 1
    BY DataFacts
  <1>2. c % n = c
    BY <1>1
  <1>3. /\ values \in [0 .. n - 1 -> Int]
        /\ \A k \in 0 .. n - 1 : values[k] = IF k = c THEN 1 ELSE 0
    BY <1>2 DEF Peak
  <1> HIDE DEF values
  <1>4. Maximum(lags, values, 0) = 1
    <2>1. /\ Maximum(lags, values, 0) \in Int
          /\ \E d \in lags : Maximum(lags, values, 0) = values[(d + 0) % n]
          /\ \A d \in lags : Maximum(lags, values, 0) >= values[(d + 0) % n]
      <3>1. 0 \in Int
        OBVIOUS
      <3> QED
        BY <1>3, <3>1, MaximumIsAttained
    <2>2. PICK d \in lags : Maximum(lags, values, 0) = values[(d + 0) % n]
      BY <2>1
    <2>3. (d + 0) % n \in 0 .. n - 1 /\ (c + 0) % n = c
      BY <1>1
    <2>4. values[(d + 0) % n] <= 1 /\ values[(c + 0) % n] = 1
      BY <1>1, <1>3, <2>3
    <2> QED
      BY <2>1, <2>2, <2>4
  <1>5. ASSUME NEW s \in 0 .. n - 1
        PROVE  Maximum(lags, values, s) >= 1 <=> s \in C
    <2>1. /\ Maximum(lags, values, s) \in Int
          /\ \E d \in lags : Maximum(lags, values, s) = values[(d + s) % n]
          /\ \A d \in lags : Maximum(lags, values, s) >= values[(d + s) % n]
      <3>1. s \in Int
        OBVIOUS
      <3> QED
        BY <1>3, <3>1, MaximumIsAttained
    <2>2. ASSUME Maximum(lags, values, s) >= 1
          PROVE  s \in C
      <3>1. PICK d \in lags : Maximum(lags, values, s) = values[(d + s) % n]
        BY <2>1
      <3>2. d \in 0 .. n - 1 /\ (d + s) % n \in 0 .. n - 1
        BY <1>1
      <3>3. (d + s) % n = c
        BY <1>3, <2>2, <3>1, <3>2
      <3>4. (((d + s) % n) - d) % n = s
        BY <1>1, <3>2, OnlyTheDifferenceMoves
      <3>5. s = (c - d) % n
        BY <3>3, <3>4
      <3>6. InStateSpace((c - d) % n)
        BY <1>1, <3>5 DEF InStateSpace
      <3> QED
        BY <3>5, <3>6 DEF CollidingShifts
    <2>3. ASSUME s \in C
          PROVE  Maximum(lags, values, s) >= 1
      <3>1. PICK d \in lags : s = (c - d) % n
        BY <2>3 DEF CollidingShifts
      <3>2. (d + s) % n = c
        <4>1. d \in 0 .. n - 1 /\ n \in Nat \ {0}
          BY <1>1
        <4> QED
          BY <1>1, <3>1, <4>1, DifferenceMoves
      <3>3. values[(d + s) % n] = 1
        BY <1>1, <1>3, <3>2
      <3> QED
        BY <2>1, <3>3
    <2> QED
      BY <2>2, <2>3
  <1>6. 0 \in C
    <2>1. 0 \in 0 .. n - 1
      BY <1>1
    <2> QED
      BY <1>4, <1>5, <2>1
  <1>7. C \in SUBSET (0 .. n - 1) /\ IsFiniteSet(C) /\ Cardinality(C) \in Nat
    BY CollidingShiftsAreFinite
  <1>8. E = C \ {0}
    <2>1. ASSUME NEW s \in 1 .. n - 1
          PROVE  (0 + s) % n = s /\ s \in 0 .. n - 1
      BY <1>1
    <2>2. ASSUME NEW s \in 1 .. n - 1
          PROVE  Maximum(lags, values, (0 + s) % n) >= Maximum(lags, values, 0) <=> s \in C
      BY <1>4, <1>5, <2>1
    <2>3. E = {s \in 1 .. n - 1 : s \in C}
      BY <2>2 DEF AtLeastAs
    <2>4. C \ {0} = {s \in 1 .. n - 1 : s \in C}
      <3> HIDE DEF C
      <3>1. \A s \in C : s \in 0 .. n - 1
        BY <1>7
      <3>2. \A s \in 0 .. n - 1 : s # 0 <=> s \in 1 .. n - 1
        BY <1>1
      <3>3. \A s \in 1 .. n - 1 : s # 0
        OBVIOUS
      <3> QED
        BY <3>1, <3>2, <3>3
    <2> QED
      BY <2>3, <2>4
  <1> HIDE DEF C, E
  <1>9. Cardinality(E) = Cardinality(C) - 1
    BY <1>6, <1>7, <1>8, FS_RemoveElement
  <1>10. Cardinality(E) \in Nat
    BY AtLeastAsIsFinite DEF E
  <1>11. 1 + Cardinality(E) = Cardinality(C)
    BY <1>7, <1>9, <1>10
  <1> QED
    BY <1>11 DEF C, E, values

\* The floor of attainability is sharp: an enumerating plan that passes, with two samples in
\* its common support, rejects on some profile of scores, a single peak at the lag with the
\* fewest collisions.
THEOREM PassedPlansCanReject == Spec => []PassedPlanCanReject
PROOF
  <1>1. ASSUME Inv
        PROVE  PassedPlanCanReject
    <2>1. SUFFICES ASSUME pc = "planned", Enumerating, status = "PASS"
                   PROVE  \E c \in request.lags : OracleRejects(Peak(c), 0)
      BY DEF PassedPlanCanReject
    <2>2. PlanOK /\ FloorRejects
      BY <1>1, <2>1 DEF Inv, StatusOK
    <2>3. request.parameter = 1 /\ n \in Nat \ {0, 1} /\ 0 \in 0 .. n - 1
      BY <2>1, <2>2, RequestFacts, DataFacts
    <2>4. States = n
      BY <2>3 DEF States, ShiftCount
    <2>5. PICK c \in request.lags : Colliding = Cardinality(CollidingShifts(c))
      BY <2>2, CollidingIsLeast
    <2>6. 1 + Cardinality(AtLeastAs(Peak(c), 0)) = Colliding
      BY <2>2, <2>3, <2>5, PeakIsExceededByCollisions
    <2>7. OracleP(Peak(c), 0) = <<Colliding, n>>
      <3>1. OracleP(Peak(c), 0) = <<1 + Cardinality(AtLeastAs(Peak(c), 0)), n>>
        BY <2>2, <2>3, OracleCounts
      <3> QED
        BY <2>6, <3>1
    <2>8. AtMostAlpha(Colliding, n)
      BY <2>2, <2>4 DEF FloorRejects
    <2>9. OracleRejects(Peak(c), 0)
      BY <2>7, <2>8 DEF OracleRejects
    <2> QED
      BY <2>9
  <1> QED
    BY <1>1, Invariance, PTL

-----------------------------------------------------------------------------
\* Induction and recursion

\* Induction, put as what a set of numbers contains.
LEMMA SetInduction ==
    ASSUME NEW S, 0 \in S, \A i \in Nat : i \in S => i + 1 \in S
    PROVE  \A i \in Nat : i \in S
PROOF
  <1> DEFINE Missing == Nat \ S
  <1> SUFFICES ASSUME Missing # {}
               PROVE  FALSE
    OBVIOUS
  <1>1. PICK i \in Missing : \A m \in Missing : ~(<<m, i>> \in OpToRel(<, Nat))
    <2>1. Missing \subseteq Nat
      OBVIOUS
    <2> HIDE DEF Missing
    <2> QED
      BY <2>1, NatLessThanWellFounded, WFMin
  <1>2. i \in Nat /\ i # 0 /\ i - 1 \in Nat
    OBVIOUS
  <1>3. CASE i - 1 \in S
    BY <1>2, <1>3
  <1>4. CASE i - 1 \notin S
    <2>1. <<i - 1, i>> \in OpToRel(<, Nat)
      BY <1>2 DEF OpToRel
    <2> QED
      BY <1>1, <1>2, <1>4, <2>1
  <1> QED
    BY <1>3, <1>4

\* The numbers a recursive function is defined on: from b upwards without a gap.
Upward(D, b) == b \in Int /\ D \subseteq Int /\ b \in D /\ \A k \in D : k >= b /\ (k # b => k - 1 \in D)

\* f goes from a by steps.
Goes(f, D, b, a, step) == f[b] = a /\ \A k \in D \ {b} : f[k] = step[<<k, f[k - 1]>>]

\* Functions that agree at the start and, if at one number, then at the next, agree.
LEMMA GoingIsUnique ==
    ASSUME NEW D, NEW b, Upward(D, b), NEW f, NEW g,
           f[b] = g[b], \A k \in D \ {b} : f[k - 1] = g[k - 1] => f[k] = g[k]
    PROVE  \A k \in D : f[k] = g[k]
PROOF
  <1> DEFINE Same == {i \in Nat : b + i \in D => f[b + i] = g[b + i]}
  <1>0. b \in Int
    BY DEF Upward
  <1>1. 0 \in Same
    BY <1>0
  <1>2. ASSUME NEW i \in Nat, i \in Same
        PROVE  i + 1 \in Same
    <2> SUFFICES ASSUME b + (i + 1) \in D
                 PROVE  f[b + (i + 1)] = g[b + (i + 1)]
      OBVIOUS
    <2> DEFINE k == b + (i + 1)
    <2>1. k \in Int /\ k # b /\ k - 1 = b + i
      BY <1>0
    <2> HIDE DEF k
    <2>2. k \in D /\ k - 1 \in D
      BY <2>1 DEF k, Upward
    <2>3. f[k - 1] = g[k - 1]
      BY <1>2, <2>1, <2>2
    <2>4. f[k] = g[k]
      BY <2>1, <2>2, <2>3
    <2> QED
      BY <2>4 DEF k
  <1>3. \A i \in Nat : i \in Same
    <2> HIDE DEF Same
    <2> QED
      BY <1>1, <1>2, SetInduction
  <1>4. ASSUME NEW k \in D
        PROVE  f[k] = g[k]
    <2>1. k \in Int /\ k >= b
      BY DEF Upward
    <2>2. k - b \in Nat /\ b + (k - b) = k
      BY <1>0, <2>1
    <2>3. k - b \in Same
      BY <1>3, <2>2
    <2> QED
      BY <2>2, <2>3
  <1> QED
    BY <1>4

\* There is a function that goes by given steps.
LEMMA GoingIsPossible ==
    ASSUME NEW D, NEW b, Upward(D, b), NEW S, NEW a \in S, NEW step,
           \A k \in D \ {b} : \A x \in S : step[<<k, x>>] \in S
    PROVE  \E f \in [D -> S] : Goes(f, D, b, a, step)
PROOF
  <1> DEFINE Upto(k) == b .. k
             Good(f, k) == f \in [Upto(k) -> S] /\ Goes(f, Upto(k), b, a, step)
             Reached == {i \in Nat : b + i \in D => \E f : Good(f, b + i)}
  <1>0. b \in Int
    BY DEF Upward
  <1>1. 0 \in Reached
    <2> DEFINE f == [j \in Upto(b) |-> a]
    <2>1. Upto(b) = {b}
      BY <1>0
    <2>2. Good(f, b)
      BY <2>1 DEF Goes
    <2>3. b + 0 = b
      BY <1>0
    <2> QED
      BY <2>2, <2>3
  <1>2. ASSUME NEW i \in Nat, i \in Reached
        PROVE  i + 1 \in Reached
    <2> SUFFICES ASSUME b + (i + 1) \in D
                 PROVE  \E f : Good(f, b + (i + 1))
      OBVIOUS
    <2> DEFINE k == b + (i + 1)
    <2>1. k \in Int /\ k # b /\ k - 1 = b + i /\ k > b
      BY <1>0
    <2>2. k \in D /\ k - 1 \in D
      BY <2>1 DEF Upward
    <2>3. PICK f : Good(f, k - 1)
      BY <1>2, <2>1, <2>2
    <2> HIDE DEF k
    <2> DEFINE g == [j \in Upto(k) |-> IF j = k THEN step[<<k, f[k - 1]>>] ELSE f[j]]
    <2>4. f[k - 1] \in S /\ \A j \in Upto(k - 1) : f[j] \in S
      BY <1>0, <2>1, <2>3
    <2>5. step[<<k, f[k - 1]>>] \in S
      BY <2>1, <2>2, <2>4
    <2>6. \A j \in Upto(k) : j # k => j \in Upto(k - 1)
      BY <1>0, <2>1
    <2>7. g \in [Upto(k) -> S]
      BY <2>4, <2>5, <2>6
    <2>8. g[b] = a
      BY <1>0, <2>1, <2>3 DEF Goes
    <2>9. ASSUME NEW j \in Upto(k) \ {b}
          PROVE  g[j] = step[<<j, g[j - 1]>>]
      <3>1. j \in Int /\ b < j /\ j <= k
        BY <1>0, <2>1
      <3>2. j - 1 \in Upto(k) /\ j - 1 # k
        BY <1>0, <2>1, <3>1
      <3>3. g[j - 1] = f[j - 1]
        BY <3>2
      <3>4. CASE j = k
        BY <3>3, <3>4
      <3>5. CASE j # k
        <4>1. j \in Upto(k - 1) \ {b}
          BY <2>6, <3>5
        <4>2. f[j] = step[<<j, f[j - 1]>>]
          BY <2>3, <4>1 DEF Goes
        <4> QED
          BY <3>3, <3>5, <4>2
      <3> QED
        BY <3>4, <3>5
    <2>10. Good(g, k)
      BY <2>7, <2>8, <2>9 DEF Goes
    <2> QED
      BY <2>10 DEF k
  <1>3. \A i \in Nat : i \in Reached
    <2> HIDE DEF Reached
    <2> QED
      BY <1>1, <1>2, SetInduction
  <1>4. ASSUME NEW k \in D
        PROVE  \E f : Good(f, k)
    <2>1. k \in Int /\ k >= b
      BY DEF Upward
    <2>2. k - b \in Nat /\ b + (k - b) = k
      BY <1>0, <2>1
    <2>3. k - b \in Reached
      BY <1>3, <2>2
    <2> QED
      BY <2>2, <2>3
  <1> DEFINE best(k) == CHOOSE f : Good(f, k)
             f == [k \in D |-> best(k)[k]]
  <1>5. \A k \in D : Good(best(k), k)
    BY <1>4
  <1> HIDE DEF best
  <1>6. ASSUME NEW k \in D
        PROVE  k \in Int /\ k >= b /\ k \in Upto(k) /\ b \in Upto(k)
    <2>1. k \in Int /\ k >= b
      BY DEF Upward
    <2> QED
      BY <1>0, <2>1
  <1>7. f \in [D -> S]
    BY <1>5, <1>6
  <1>8. f[b] = a
    <2>1. b \in D
      BY DEF Upward
    <2> QED
      BY <1>5, <2>1 DEF Goes
  <1>9. ASSUME NEW k \in D \ {b}
        PROVE  f[k] = step[<<k, f[k - 1]>>]
    <2>1. k - 1 \in D /\ k \in Int /\ k > b
      <3>1. k \in D /\ k # b
        OBVIOUS
      <3>2. k \in Int /\ k >= b
        BY <1>6, <3>1
      <3> QED
        BY <1>0, <3>1, <3>2 DEF Upward
    <2>2. best(k)[k] = step[<<k, best(k)[k - 1]>>]
      BY <1>5, <1>6 DEF Goes
    <2>3. best(k - 1)[k - 1] = best(k)[k - 1]
      <3>1. Upward(Upto(k - 1), b) /\ \A j \in Upto(k - 1) : j \in Upto(k)
        BY <1>0, <2>1 DEF Upward
      <3>2. k - 1 \in Upto(k - 1)
        BY <1>6, <2>1
      <3>3. Goes(best(k - 1), Upto(k - 1), b, a, step) /\ Goes(best(k), Upto(k), b, a, step)
        BY <1>5, <2>1
      <3> HIDE DEF Upto
      <3>4. \A j \in Upto(k - 1) : best(k - 1)[j] = best(k)[j]
        <4> DEFINE lower == best(k - 1)
                   upper == best(k)
        <4>1. lower[b] = upper[b]
          BY <3>3 DEF Goes
        <4>2. \A j \in Upto(k - 1) \ {b} : lower[j - 1] = upper[j - 1] => lower[j] = upper[j]
          BY <3>1, <3>3 DEF Goes
        <4> HIDE DEF lower, upper
        <4>3. \A j \in Upto(k - 1) : lower[j] = upper[j]
          BY <3>1, <4>1, <4>2, GoingIsUnique
        <4> QED
          BY <4>3 DEF lower, upper
      <3> QED
        BY <3>2, <3>4
    <2> QED
      BY <2>1, <2>2, <2>3
  <1> HIDE DEF f
  <1> QED
    BY <1>7, <1>8, <1>9 DEF Goes

-----------------------------------------------------------------------------
\* Powers of two

\* Parameters cancel and split as in a product.
LEMMA ProductRule == \A x, y \in Int : 2 * (x * y) = x * (2 * y)
BY Z3

LEMMA PowersOfTwo ==
    /\ PowerOfTwo \in [Nat -> Nat]
    /\ PowerOfTwo[0] = 1
    /\ \A k \in Nat : PowerOfTwo[k + 1] = 2 * PowerOfTwo[k]
PROOF
  <1> DEFINE step == [p \in Nat \X Nat |-> 2 * p[2]]
  <1>1. Upward(Nat, 0)
    BY DEF Upward
  <1>2. \A k \in Nat \ {0} : \A x \in Nat : step[<<k, x>>] = 2 * x
    OBVIOUS
  <1>3. \A k \in Nat \ {0} : \A x \in Nat : step[<<k, x>>] \in Nat
    <2>1. \A x \in Nat : 2 * x \in Nat
      OBVIOUS
    <2> HIDE DEF step
    <2> QED
      BY <1>2, <2>1
  <1>4. 1 \in Nat
    OBVIOUS
  <1> HIDE DEF step
  <1>5. PICK f \in [Nat -> Nat] : Goes(f, Nat, 0, 1, step)
    BY <1>1, <1>3, <1>4, GoingIsPossible
  <1>6. \A k \in Nat : f[k] = IF k = 0 THEN 1 ELSE 2 * f[k - 1]
    <2> SUFFICES ASSUME NEW k \in Nat, k # 0
                 PROVE  f[k] = 2 * f[k - 1]
      BY <1>5 DEF Goes
    <2>1. k - 1 \in Nat /\ k \in Nat \ {0}
      OBVIOUS
    <2>2. f[k - 1] \in Nat
      BY <1>5, <2>1
    <2> QED
      BY <1>2, <1>5, <2>1, <2>2 DEF Goes
  <1>7. f = [k \in Nat |-> IF k = 0 THEN 1 ELSE 2 * f[k - 1]]
    BY <1>5, <1>6
  <1>8. PowerOfTwo = [k \in Nat |-> IF k = 0 THEN 1 ELSE 2 * PowerOfTwo[k - 1]]
    BY <1>7 DEF PowerOfTwo
  <1>9. \A k \in Nat : PowerOfTwo[k] = IF k = 0 THEN 1 ELSE 2 * PowerOfTwo[k - 1]
    BY <1>8
  <1>10. \A k \in Nat : PowerOfTwo[k + 1] = 2 * PowerOfTwo[k]
    <2>1. \A k \in Nat : k + 1 \in Nat /\ k + 1 # 0 /\ (k + 1) - 1 = k
      OBVIOUS
    <2> QED
      BY <1>9, <2>1
  <1>11. PowerOfTwo[0] = 1
    BY <1>9
  <1> DEFINE Typed == {k \in Nat : PowerOfTwo[k] \in Nat \ {0}}
  <1>12. \A k \in Nat : k \in Typed
    <2>1. 0 \in Typed
      BY <1>11
    <2>2. ASSUME NEW k \in Nat, k \in Typed
          PROVE  k + 1 \in Typed
      BY <1>10, <2>2
    <2> HIDE DEF Typed
    <2> QED
      BY <2>1, <2>2, SetInduction
  <1>13. \A k \in Nat : PowerOfTwo[k] \in Nat \ {0}
    BY <1>12
  <1> QED
    BY <1>8, <1>10, <1>11, <1>13

\* They grow, and faster than their exponents.
LEMMA PowersGrow == \A k \in Nat : PowerOfTwo[k] > k
PROOF
  <1> DEFINE Large == {k \in Nat : PowerOfTwo[k] > k}
  <1>1. 0 \in Large
    BY PowersOfTwo
  <1>2. ASSUME NEW k \in Nat, k \in Large
        PROVE  k + 1 \in Large
    <2>1. PowerOfTwo[k + 1] = 2 * PowerOfTwo[k] /\ PowerOfTwo[k] \in Nat /\ PowerOfTwo[k] > k
      BY <1>2, PowersOfTwo
    <2>2. PowerOfTwo[k + 1] > k + 1
      BY <2>1
    <2> QED
      BY <2>2
  <1> HIDE DEF Large
  <1>3. \A k \in Nat : k \in Large
    BY <1>1, <1>2, SetInduction
  <1> QED
    BY <1>3 DEF Large

LEMMA PowersMultiply ==
    \A j, k \in Nat : PowerOfTwo[j + k] = PowerOfTwo[j] * PowerOfTwo[k]
PROOF
  <1> SUFFICES ASSUME NEW j \in Nat
               PROVE  \A k \in Nat : PowerOfTwo[j + k] = PowerOfTwo[j] * PowerOfTwo[k]
    OBVIOUS
  <1> DEFINE Splits == {k \in Nat : PowerOfTwo[j + k] = PowerOfTwo[j] * PowerOfTwo[k]}
  <1>0. PowerOfTwo[j] \in Nat
    BY PowersOfTwo
  <1>1. 0 \in Splits
    BY <1>0, PowersOfTwo
  <1>2. ASSUME NEW k \in Nat, k \in Splits
        PROVE  k + 1 \in Splits
    <2>1. PowerOfTwo[j + (k + 1)] = 2 * PowerOfTwo[j + k]
      <3>1. j + (k + 1) = (j + k) + 1 /\ j + k \in Nat
        OBVIOUS
      <3> QED
        BY <3>1, PowersOfTwo
    <2>2. PowerOfTwo[k] \in Int /\ PowerOfTwo[j] \in Int
      BY PowersOfTwo
    <2>3. 2 * (PowerOfTwo[j] * PowerOfTwo[k]) = PowerOfTwo[j] * (2 * PowerOfTwo[k])
      BY <2>2, ProductRule
    <2>4. PowerOfTwo[j + k] = PowerOfTwo[j] * PowerOfTwo[k]
      BY <1>2
    <2>5. PowerOfTwo[j + (k + 1)] = PowerOfTwo[j] * PowerOfTwo[k + 1]
      BY <2>1, <2>3, <2>4, PowersOfTwo
    <2> QED
      BY <2>5
  <1> HIDE DEF Splits
  <1>3. \A k \in Nat : k \in Splits
    BY <1>1, <1>2, SetInduction
  <1> QED
    BY <1>3 DEF Splits

\* bit_length of the bound less one: enough bits for every value below the bound.
LEMMA BitsSuffice ==
    ASSUME NEW bound \in Nat \ {0}
    PROVE  BitCount(bound) \in Nat /\ PowerOfTwo[BitCount(bound)] >= bound
PROOF
  <1> DEFINE Enough == {k \in Nat : PowerOfTwo[k] >= bound}
  <1>1. bound \in Enough
    BY PowersGrow, PowersOfTwo
  <1>2. PICK k \in Enough : \A j \in Enough : ~(<<j, k>> \in OpToRel(<, Nat))
    <2>1. Enough \subseteq Nat /\ Enough # {}
      BY <1>1
    <2> HIDE DEF Enough
    <2> QED
      BY <2>1, NatLessThanWellFounded, WFMin
  <1>3. \A j \in Enough : ~(j < k)
    BY <1>2 DEF OpToRel
  <1>4. k \in 0 .. bound
    BY <1>1, <1>3
  <1>5. \A j \in 0 .. k - 1 : PowerOfTwo[j] < bound
    <2> SUFFICES ASSUME NEW j \in 0 .. k - 1
                 PROVE  PowerOfTwo[j] < bound
      OBVIOUS
    <2>1. j \in Nat /\ j < k
      OBVIOUS
    <2>2. PowerOfTwo[j] \in Nat
      BY <2>1, PowersOfTwo
    <2> QED
      BY <1>3, <2>1, <2>2
  <1>6. PowerOfTwo[k] >= bound
    OBVIOUS
  <1>7. /\ BitCount(bound) \in 0 .. bound
        /\ PowerOfTwo[BitCount(bound)] >= bound
    BY <1>4, <1>5, <1>6 DEF BitCount
  <1> QED
    BY <1>7
-----------------------------------------------------------------------------
\* Words as digits

LEMMA ProductsGrow ==
    ASSUME NEW x \in Int, NEW y \in Int, NEW z \in Nat, x <= y
    PROVE  x * z <= y * z
PROOF
  <1>1. y * z = x * z + (y - x) * z
    BY Z3
  <1>2. (y - x) * z >= 0
    <2>1. \A d, e \in Nat : d * e >= 0
      BY Z3
    <2>2. y - x \in Nat
      OBVIOUS
    <2> QED
      BY <2>1, <2>2
  <1>3. x * z \in Int /\ (y - x) * z \in Int
    OBVIOUS
  <1> QED
    BY <1>1, <1>2, <1>3

LEMMA OneMoreFactor == \A x, z \in Int : (x + 1) * z = x * z + z
BY Z3

\* A quotient and a remainder are the only ones.
LEMMA DivisionIsUnique ==
    ASSUME NEW z \in Nat \ {0}, NEW x \in Int, NEW y \in Int, NEW w \in 0 .. z - 1, NEW u \in 0 .. z - 1,
           x * z + w = y * z + u
    PROVE  x = y /\ w = u
PROOF
  <1>0. x * z \in Int /\ y * z \in Int
    OBVIOUS
  <1>1. ASSUME x < y
        PROVE  FALSE
    <2>1. x * z + z <= y * z
      BY <1>1, ProductsGrow, OneMoreFactor
    <2> QED
      BY <1>0, <2>1
  <1>2. ASSUME y < x
        PROVE  FALSE
    <2>1. y * z + z <= x * z
      BY <1>2, ProductsGrow, OneMoreFactor
    <2> QED
      BY <1>0, <2>1
  <1>3. x = y
    BY <1>1, <1>2
  <1> QED
    BY <1>0, <1>3

LEMMA DivisionHolds ==
    ASSUME NEW v \in Int, NEW z \in Nat \ {0}
    PROVE  /\ v = (v \div z) * z + (v % z)
           /\ v \div z \in Int
           /\ v % z \in 0 .. z - 1
BY Z3

Base == PowerOfTwo[WordBits]

LEMMA WordsAreDigits == Base \in Nat \ {0} /\ Words = 0 .. Base - 1
PROOF
  <1>1. WordBits \in Nat
    BY WordBitsAssumption
  <1>2. PowerOfTwo[WordBits] \in Nat /\ PowerOfTwo[WordBits] > WordBits
    BY <1>1, PowersOfTwo, PowersGrow
  <1> QED
    BY <1>1, <1>2 DEF Base, Words

\* The values of the joined words up to each place.
Values(f, ws) ==
    /\ f \in [0 .. Len(ws) -> Nat]
    /\ f[0] = 0
    /\ \A k \in 1 .. Len(ws) : f[k] = f[k - 1] * Base + ws[k]

LEMMA NaturalsAreClosed == \A x, y, w \in Nat : x * y + w \in Nat
BY Z3

LEMMA JoinedIsTheLastValue ==
    ASSUME NEW ws \in Seq(Words)
    PROVE  \E f : Values(f, ws) /\ Joined(ws) = f[Len(ws)]
PROOF
  <1> DEFINE i == Len(ws)
             step == [p \in (1 .. i) \X Nat |-> p[2] * Base + ws[p[1]]]
  <1>0. i \in Nat /\ Base \in Nat /\ \A k \in 1 .. i : ws[k] \in Nat
    BY WordsAreDigits
  <1>1. Upward(0 .. i, 0)
    BY <1>0 DEF Upward
  <1>2. \A k \in 1 .. i : \A x \in Nat : step[<<k, x>>] = x * Base + ws[k]
    OBVIOUS
  <1>3. \A k \in (0 .. i) \ {0} : \A x \in Nat : step[<<k, x>>] \in Nat
    <2> SUFFICES ASSUME NEW k \in (0 .. i) \ {0}, NEW x \in Nat
                 PROVE  step[<<k, x>>] \in Nat
      OBVIOUS
    <2>1. k \in 1 .. i
      BY <1>0
    <2> HIDE DEF step, i
    <2> QED
      BY <1>0, <1>2, <2>1, NaturalsAreClosed
  <1>4. 0 \in Nat
    OBVIOUS
  <1> HIDE DEF step
  <1>5. PICK f \in [0 .. i -> Nat] : Goes(f, 0 .. i, 0, 0, step)
    BY <1>1, <1>3, <1>4, GoingIsPossible
  <1>6. ASSUME NEW k \in 1 .. i
        PROVE  f[k] = f[k - 1] * Base + ws[k]
    <2>1. k - 1 \in 0 .. i /\ k \in (0 .. i) \ {0}
      BY <1>0
    <2>2. f[k - 1] \in Nat
      BY <1>5, <2>1
    <2> QED
      BY <1>2, <1>5, <2>1, <2>2 DEF Goes
  <1>7. Values(f, ws)
    BY <1>5, <1>6 DEF Values, Goes
  <1> DEFINE Defines(g) == g = [k \in 0 .. i |-> IF k = 0 THEN 0 ELSE g[k - 1] * Base + ws[k]]
             chosen == CHOOSE g : Defines(g)
  <1>8. Defines(f)
    <2>1. \A k \in 0 .. i : f[k] = IF k = 0 THEN 0 ELSE f[k - 1] * Base + ws[k]
      BY <1>0, <1>6, <1>7 DEF Values
    <2> QED
      BY <1>5, <2>1
  <1>9. Defines(chosen)
    BY <1>8
  <1>10. Joined(ws) = chosen[i]
    BY DEF Joined, Base
  <1> HIDE DEF chosen
  <1>11. \A k \in 0 .. i : f[k] = chosen[k]
    <2>1. f[0] = chosen[0]
      BY <1>0, <1>7, <1>9 DEF Values
    <2>2. \A k \in (0 .. i) \ {0} : f[k - 1] = chosen[k - 1] => f[k] = chosen[k]
      BY <1>0, <1>6, <1>9
    <2> DEFINE places == 0 .. i
    <2>3. Upward(places, 0) /\ \A k \in places \ {0} : f[k - 1] = chosen[k - 1] => f[k] = chosen[k]
      BY <1>1, <2>2
    <2> HIDE DEF places
    <2>4. \A k \in places : f[k] = chosen[k]
      BY <2>1, <2>3, GoingIsUnique
    <2> QED
      BY <2>4 DEF places
  <1>12. i \in 0 .. i
    BY <1>0
  <1> QED
    BY <1>7, <1>10, <1>11, <1>12

LEMMA JoinedOfNothing == Joined(<<>>) = 0
PROOF
  <1>1. <<>> \in Seq(Words) /\ Len(<<>>) = 0
    OBVIOUS
  <1> QED
    BY <1>1, JoinedIsTheLastValue DEF Values

\* Another word makes the number so far the higher digits.
LEMMA JoinedGrows ==
    ASSUME NEW ws \in Seq(Words), NEW w \in Words
    PROVE  Joined(Append(ws, w)) = Joined(ws) * Base + w
PROOF
  <1> DEFINE us == Append(ws, w)
             i == Len(ws)
  <1>1. /\ us \in Seq(Words) /\ i \in Nat /\ Len(us) = i + 1 /\ us[i + 1] = w
        /\ \A k \in 1 .. i : us[k] = ws[k]
    OBVIOUS
  <1> HIDE DEF us
  <1>2. PICK f : Values(f, ws) /\ Joined(ws) = f[i]
    BY JoinedIsTheLastValue
  <1>3. PICK g : Values(g, us) /\ Joined(us) = g[i + 1]
    BY <1>1, JoinedIsTheLastValue
  <1> HIDE DEF i
  <1>4. \A k \in 0 .. i : f[k] = g[k]
    <2>1. Upward(0 .. i, 0)
      BY <1>1 DEF Upward
    <2>2. f[0] = g[0]
      BY <1>2, <1>3 DEF Values
    <2>3. \A k \in (0 .. i) \ {0} : f[k - 1] = g[k - 1] => f[k] = g[k]
      <3> SUFFICES ASSUME NEW k \in (0 .. i) \ {0}, f[k - 1] = g[k - 1]
                   PROVE  f[k] = g[k]
        OBVIOUS
      <3>1. k \in 1 .. i /\ k \in 1 .. i + 1
        BY <1>1
      <3>2. f[k] = f[k - 1] * Base + ws[k] /\ g[k] = g[k - 1] * Base + us[k]
        BY <1>1, <1>2, <1>3, <3>1 DEF Values, i
      <3> QED
        BY <1>1, <3>1, <3>2
    <2> DEFINE places == 0 .. i
    <2>4. Upward(places, 0) /\ \A k \in places \ {0} : f[k - 1] = g[k - 1] => f[k] = g[k]
      BY <2>1, <2>3
    <2> HIDE DEF places
    <2>5. \A k \in places : f[k] = g[k]
      BY <2>2, <2>4, GoingIsUnique
    <2> QED
      BY <2>5 DEF places
  <1>5. i \in 0 .. i /\ i + 1 \in 1 .. i + 1 /\ (i + 1) - 1 = i
    BY <1>1
  <1>6. g[i + 1] = g[i] * Base + us[i + 1]
    BY <1>1, <1>3, <1>5 DEF Values
  <1> QED
    BY <1>1, <1>2, <1>3, <1>4, <1>5, <1>6 DEF us

\* All but the last word.
Front(ws) == [k \in 1 .. Len(ws) - 1 |-> ws[k]]

LEMMA FrontAndLast ==
    ASSUME NEW S, NEW ws \in Seq(S), NEW i \in Nat, Len(ws) = i + 1
    PROVE  /\ Front(ws) \in Seq(S) /\ Len(Front(ws)) = i
           /\ ws[i + 1] \in S
           /\ ws = Append(Front(ws), ws[i + 1])
PROOF
  <1>1. /\ Front(ws) \in Seq(S) /\ Len(Front(ws)) = i
        /\ ws[i + 1] \in S
    BY DEF Front
  <1>2. \A k \in 1 .. i : Front(ws)[k] = ws[k]
    BY DEF Front
  <1>3. Append(Front(ws), ws[i + 1]) \in Seq(S) /\ Len(Append(Front(ws), ws[i + 1])) = i + 1
    BY <1>1
  <1>4. \A k \in 1 .. i + 1 : Append(Front(ws), ws[i + 1])[k] = ws[k]
    BY <1>1, <1>2
  <1> HIDE DEF Front
  <1> QED
    BY <1>1, <1>3, <1>4, SeqEqual

Attempt(i) == {ws \in Seq(Words) : Len(ws) = i}

LEMMA NoWords == Attempt(0) = {<<>>}
BY EmptySeq DEF Attempt

\* How many numbers i words can be.
Room(i) == PowerOfTwo[i * WordBits]

LEMMA RoomGrows ==
    ASSUME NEW i \in Nat
    PROVE  Room(i) \in Nat /\ Room(i + 1) = Room(i) * Base /\ Room(0) = 1
PROOF
  <1>1. WordBits \in Nat /\ i * WordBits \in Nat
    <2>1. WordBits \in Nat
      BY WordBitsAssumption
    <2>2. i * WordBits + 0 \in Nat
      BY <2>1, NaturalsAreClosed
    <2> QED
      BY <2>1, <2>2
  <1>2. (i + 1) * WordBits = i * WordBits + WordBits /\ 0 * WordBits = 0
    BY <1>1, OneMoreFactor
  <1> QED
    BY <1>1, <1>2, PowersMultiply, PowersOfTwo DEF Room, Base

LEMMA JoinedIsBelow ==
    \A i \in Nat : \A ws \in Attempt(i) : Joined(ws) \in 0 .. Room(i) - 1
PROOF
  <1> DEFINE Holds == {i \in Nat : \A ws \in Attempt(i) : Joined(ws) \in 0 .. Room(i) - 1}
  <1>1. 0 \in Holds
    <2>1. Room(0) = 1
      BY RoomGrows
    <2>2. \A ws \in Attempt(0) : Joined(ws) = 0
      BY NoWords, JoinedOfNothing
    <2> QED
      BY <2>1, <2>2
  <1>2. ASSUME NEW i \in Nat, i \in Holds
        PROVE  i + 1 \in Holds
    <2> SUFFICES ASSUME NEW ws \in Attempt(i + 1)
                 PROVE  Joined(ws) \in 0 .. Room(i + 1) - 1
      OBVIOUS
    <2>1. /\ Front(ws) \in Attempt(i) /\ ws[i + 1] \in Words
          /\ ws = Append(Front(ws), ws[i + 1])
      BY FrontAndLast DEF Attempt
    <2>2. Joined(Front(ws)) \in 0 .. Room(i) - 1
      BY <1>2, <2>1
    <2>3. Joined(ws) = Joined(Front(ws)) * Base + ws[i + 1]
      BY <2>1, JoinedGrows DEF Attempt
    <2> DEFINE x == Joined(Front(ws))
               w == ws[i + 1]
    <2>4. x \in Nat /\ x + 1 <= Room(i) /\ Room(i) \in Nat /\ w \in 0 .. Base - 1 /\ Base \in Nat
      <3>1. Room(i) \in Nat
        BY RoomGrows
      <3>2. Base \in Nat /\ w \in 0 .. Base - 1
        BY <2>1, WordsAreDigits
      <3>3. x \in 0 .. Room(i) - 1
        BY <2>2
      <3> HIDE DEF x, w
      <3> QED
        BY <3>1, <3>2, <3>3
    <2> HIDE DEF x, w
    <2>5. x * Base + Base <= Room(i) * Base
      BY <2>4, ProductsGrow, OneMoreFactor
    <2>6. x * Base + w \in Nat
      BY <2>4, NaturalsAreClosed
    <2>7. x * Base \in Int /\ Room(i) * Base \in Int
      BY <2>4
    <2>8. x * Base + w \in 0 .. Room(i) * Base - 1
      BY <2>4, <2>5, <2>6, <2>7
    <2> QED
      BY <2>3, <2>8, RoomGrows DEF x, w
  <1> HIDE DEF Holds
  <1>3. \A i \in Nat : i \in Holds
    BY <1>1, <1>2, SetInduction
  <1> QED
    BY <1>3 DEF Holds

\* Different attempts are different numbers.
LEMMA JoinedIsInjective ==
    \A i \in Nat : \A ws, us \in Attempt(i) : Joined(ws) = Joined(us) => ws = us
PROOF
  <1> DEFINE Holds == {i \in Nat : \A ws, us \in Attempt(i) : Joined(ws) = Joined(us) => ws = us}
  <1>1. 0 \in Holds
    BY NoWords
  <1>2. ASSUME NEW i \in Nat, i \in Holds
        PROVE  i + 1 \in Holds
    <2> SUFFICES ASSUME NEW ws \in Attempt(i + 1), NEW us \in Attempt(i + 1), Joined(ws) = Joined(us)
                 PROVE  ws = us
      OBVIOUS
    <2>1. /\ Front(ws) \in Attempt(i) /\ ws[i + 1] \in Words
          /\ ws = Append(Front(ws), ws[i + 1])
      BY FrontAndLast DEF Attempt
    <2>2. /\ Front(us) \in Attempt(i) /\ us[i + 1] \in Words
          /\ us = Append(Front(us), us[i + 1])
      BY FrontAndLast DEF Attempt
    <2>3. Joined(ws) = Joined(Front(ws)) * Base + ws[i + 1]
      BY <2>1, JoinedGrows DEF Attempt
    <2>4. Joined(us) = Joined(Front(us)) * Base + us[i + 1]
      BY <2>2, JoinedGrows DEF Attempt
    <2>5. Joined(Front(ws)) \in Int /\ Joined(Front(us)) \in Int
      <3>1. \A fs \in Attempt(i) : Joined(fs) \in Int
        BY JoinedIsBelow
      <3> QED
        BY <2>1, <2>2, <3>1
    <2>6. ws[i + 1] \in 0 .. Base - 1 /\ us[i + 1] \in 0 .. Base - 1 /\ Base \in Nat \ {0}
      BY <2>1, <2>2, WordsAreDigits
    <2>7. Joined(Front(ws)) = Joined(Front(us)) /\ ws[i + 1] = us[i + 1]
      <3> DEFINE x == Joined(Front(ws))
                 y == Joined(Front(us))
      <3>1. x * Base + ws[i + 1] = y * Base + us[i + 1]
        BY <2>3, <2>4
      <3>2. x \in Int /\ y \in Int
        BY <2>5
      <3> HIDE DEF x, y
      <3>3. x = y /\ ws[i + 1] = us[i + 1]
        BY <2>6, <3>1, <3>2, DivisionIsUnique
      <3> QED
        BY <3>3 DEF x, y
    <2>8. Front(ws) = Front(us)
      BY <1>2, <2>1, <2>2, <2>7
    <2> QED
      BY <2>1, <2>2, <2>7, <2>8
  <1> HIDE DEF Holds
  <1>3. \A i \in Nat : i \in Holds
    BY <1>1, <1>2, SetInduction
  <1> QED
    BY <1>3 DEF Holds

\* Every number there is room for is an attempt.
LEMMA JoinedIsSurjective ==
    \A i \in Nat : \A v \in 0 .. Room(i) - 1 : \E ws \in Attempt(i) : Joined(ws) = v
PROOF
  <1> DEFINE Holds == {i \in Nat : \A v \in 0 .. Room(i) - 1 : \E ws \in Attempt(i) : Joined(ws) = v}
  <1>1. 0 \in Holds
    BY NoWords, JoinedOfNothing, RoomGrows
  <1>2. ASSUME NEW i \in Nat, i \in Holds
        PROVE  i + 1 \in Holds
    <2> SUFFICES ASSUME NEW v \in 0 .. Room(i + 1) - 1
                 PROVE  \E ws \in Attempt(i + 1) : Joined(ws) = v
      OBVIOUS
    <2> DEFINE x == v \div Base
               w == v % Base
    <2>1. Base \in Nat \ {0} /\ Room(i) \in Nat /\ v \in Nat /\ v < Room(i) * Base
      <3>1. Base \in Nat \ {0}
        BY WordsAreDigits
      <3>2. Room(i) \in Nat /\ Room(i + 1) = Room(i) * Base
        BY RoomGrows
      <3>3. Room(i) * Base \in Int
        BY <3>1, <3>2
      <3> QED
        BY <3>1, <3>2, <3>3
    <2>2. v = x * Base + w /\ x \in Int /\ w \in 0 .. Base - 1
      <3>1. v \in Int
        BY <2>1
      <3> QED
        BY <2>1, <3>1, DivisionHolds
    <2> HIDE DEF x, w
    <2>3. x >= 0
      <3> SUFFICES ASSUME x + 1 <= 0
                   PROVE  FALSE
        BY <2>2
      <3>1. x * Base + Base <= 0 * Base
        BY <2>1, <2>2, ProductsGrow, OneMoreFactor
      <3>2. x * Base \in Int /\ 0 * Base = 0
        BY <2>1, <2>2
      <3> QED
        BY <2>1, <2>2, <3>1, <3>2
    <2>4. x < Room(i)
      <3> SUFFICES ASSUME Room(i) <= x
                   PROVE  FALSE
        BY <2>1, <2>2
      <3>1. Room(i) * Base <= x * Base
        BY <2>1, <2>2, ProductsGrow
      <3>2. x * Base \in Int /\ Room(i) * Base \in Int
        BY <2>1, <2>2
      <3> QED
        BY <2>1, <2>2, <3>1, <3>2
    <2>5. PICK ws \in Attempt(i) : Joined(ws) = x
      BY <1>2, <2>1, <2>2, <2>3, <2>4
    <2>6. w \in Words
      BY <2>2, WordsAreDigits
    <2>7. Append(ws, w) \in Attempt(i + 1)
      BY <2>5, <2>6 DEF Attempt
    <2>8. Joined(Append(ws, w)) = v
      BY <2>2, <2>5, <2>6, JoinedGrows DEF Attempt
    <2> QED
      BY <2>7, <2>8
  <1> HIDE DEF Holds
  <1>3. \A i \in Nat : i \in Holds
    BY <1>1, <1>2, SetInduction
  <1> QED
    BY <1>3 DEF Holds

-----------------------------------------------------------------------------
\* Uniform indices

LEMMA AttemptsAreSequences ==
    \A i \in Nat : [1 .. i -> Words] = Attempt(i)
PROOF
  <1> SUFFICES ASSUME NEW i \in Nat
               PROVE  [1 .. i -> Words] = Attempt(i)
    OBVIOUS
  <1>1. \A ws \in [1 .. i -> Words] : ws \in Seq(Words) /\ Len(ws) = i
    OBVIOUS
  <1>2. \A ws \in Seq(Words) : Len(ws) = i => ws \in [1 .. i -> Words]
    OBVIOUS
  <1> QED
    BY <1>1, <1>2 DEF Attempt

LEMMA AttemptsAreFinite ==
    ASSUME NEW i \in Nat
    PROVE  IsFiniteSet(Attempt(i))
PROOF
  <1> DEFINE f == [ws \in Attempt(i) |-> Joined(ws)]
             T == 0 .. Room(i) - 1
  <1>1. f \in [Attempt(i) -> T]
    BY JoinedIsBelow
  <1>2. \A ws, us \in Attempt(i) : f[ws] = f[us] => ws = us
    BY JoinedIsInjective
  <1>3. IsFiniteSet(T)
    <2>1. Room(i) \in Nat
      BY RoomGrows
    <2>2. 0 \in Int /\ Room(i) - 1 \in Int
      BY <2>1
    <2> QED
      BY <2>2, FS_Interval
  <1> HIDE DEF f, T
  <1>4. f \in Injection(Attempt(i), T)
    BY <1>1, <1>2, Fun_IsInj
  <1> QED
    BY <1>3, <1>4, FS_Injection

\* Remainders under a shift that stays below the divisor.
LEMMA RemainderShifts ==
    ASSUME NEW z \in Nat \ {0}, NEW x \in Int, NEW v \in 0 .. z - 1
    PROVE  x % z = 0 <=> (x + v) % z = v
PROOF
  <1> DEFINE d == x \div z
             r == x % z
             e == (x + v) \div z
             t == (x + v) % z
  <1>1. x = d * z + r /\ d \in Int /\ r \in 0 .. z - 1
    BY DivisionHolds
  <1>2. x + v = e * z + t /\ e \in Int /\ t \in 0 .. z - 1
    <2>1. x + v \in Int
      OBVIOUS
    <2> QED
      BY <2>1, DivisionHolds
  <1> HIDE DEF d, r, e, t
  <1>3. d * z \in Int /\ e * z \in Int
    BY <1>1, <1>2
  <1>4. ASSUME r = 0
        PROVE  t = v
    <2>1. d * z + v = e * z + t
      BY <1>1, <1>2, <1>3, <1>4
    <2> QED
      BY <1>1, <1>2, <2>1, DivisionIsUnique
  <1>5. ASSUME t = v
        PROVE  r = 0
    <2>1. d * z + r = e * z + 0
      BY <1>1, <1>2, <1>3, <1>5
    <2>2. 0 \in 0 .. z - 1
      OBVIOUS
    <2> QED
      BY <1>1, <1>2, <2>1, <2>2, DivisionIsUnique
  <1> QED
    BY <1>4, <1>5 DEF r, t

\* A multiple of a divisor leaves room below a greater multiple.
LEMMA MultiplesLeaveRoom ==
    ASSUME NEW z \in Nat \ {0}, NEW q \in Nat, NEW x \in 0 .. q * z - 1, x % z = 0, NEW v \in 0 .. z - 1
    PROVE  x + v \in 0 .. q * z - 1
PROOF
  <1> DEFINE d == x \div z
  <1>0. q * z \in Int /\ x \in Int
    OBVIOUS
  <1>1. x = d * z + 0 /\ d \in Int
    BY <1>0, DivisionHolds
  <1> HIDE DEF d
  <1>2. d < q
    <2> SUFFICES ASSUME q <= d
                 PROVE  FALSE
      BY <1>1
    <2>1. q * z <= d * z
      BY <1>1, ProductsGrow
    <2>2. d * z \in Int
      BY <1>1
    <2> QED
      BY <1>0, <1>1, <2>1, <2>2
  <1>3. d * z + z <= q * z
    BY <1>1, <1>2, ProductsGrow, OneMoreFactor
  <1>4. d * z \in Int
    BY <1>1
  <1> QED
    BY <1>0, <1>1, <1>3, <1>4

\* Every value below the number of low bits is that of as many attempts as zero is.
LEMMA LowBitsAreUniform ==
    ASSUME NEW i \in Nat, NEW b \in Nat, b <= i * WordBits,
           NEW v \in 0 .. PowerOfTwo[b] - 1
    PROVE  LET hits(u) == {ws \in Attempt(i) : Joined(ws) % PowerOfTwo[b] = u}
           IN  /\ IsFiniteSet(hits(v)) /\ hits(0) # {}
               /\ Cardinality(hits(v)) = Cardinality(hits(0))
PROOF
  <1> DEFINE z == PowerOfTwo[b]
             hits(u) == {ws \in Attempt(i) : Joined(ws) % z = u}
             T == 0 .. Room(i) - 1
  <1>0. i * WordBits \in Nat /\ i * WordBits - b \in Nat
    <2>1. i * WordBits + 0 \in Nat
      BY WordBitsAssumption, NaturalsAreClosed
    <2>2. i * WordBits \in Int
      BY WordBitsAssumption
    <2> QED
      BY <2>1, <2>2
  <1> DEFINE q == PowerOfTwo[i * WordBits - b]
  <1>1. z \in Nat \ {0} /\ q \in Nat /\ Room(i) = q * z
    <2>1. PowerOfTwo[b] \in Nat /\ PowerOfTwo[b] > b
      BY PowersOfTwo, PowersGrow
    <2>2. q \in Nat
      BY <1>0, PowersOfTwo
    <2>3. i * WordBits = (i * WordBits - b) + b
      BY <1>0
    <2>4. Room(i) = q * z
      BY <1>0, <2>3, PowersMultiply DEF Room
    <2> QED
      BY <2>1, <2>2, <2>4
  <1>2. \A ws \in Attempt(i) : Joined(ws) \in T
    BY JoinedIsBelow
  <1>3. v \in 0 .. z - 1 /\ 0 \in 0 .. z - 1 /\ v \in Int
    BY <1>1
  <1>4. Room(i) \in Nat \ {0}
    <2>1. PowerOfTwo[i * WordBits] \in Nat /\ PowerOfTwo[i * WordBits] > i * WordBits
      BY <1>0, PowersGrow, PowersOfTwo
    <2> QED
      BY <1>0, <2>1 DEF Room
  <1> HIDE DEF z, q
  <1> DEFINE up(ws) == CHOOSE us \in Attempt(i) : Joined(us) = Joined(ws) + v
             f == [ws \in hits(0) |-> up(ws)]
  <1>5. ASSUME NEW ws \in hits(0)
        PROVE  up(ws) \in hits(v) /\ Joined(up(ws)) = Joined(ws) + v
    <2>1. Joined(ws) \in 0 .. q * z - 1 /\ Joined(ws) % z = 0
      BY <1>1, <1>2
    <2>2. Joined(ws) + v \in T
      BY <1>1, <1>3, <2>1, MultiplesLeaveRoom
    <2>3. \E us \in Attempt(i) : Joined(us) = Joined(ws) + v
      BY <2>2, JoinedIsSurjective
    <2>4. up(ws) \in Attempt(i) /\ Joined(up(ws)) = Joined(ws) + v
      BY <2>3
    <2>5. Joined(ws) \in Int
      BY <1>2, <1>4
    <2>6. (Joined(ws) + v) % z = v
      BY <1>1, <1>3, <2>1, <2>5, RemainderShifts
    <2> QED
      BY <2>4, <2>6
  <1> HIDE DEF up
  <1>6. f \in [hits(0) -> hits(v)]
    BY <1>5
  <1>7. ASSUME NEW ws \in hits(0), NEW us \in hits(0), f[ws] = f[us]
        PROVE  ws = us
    <2>1. Joined(ws) + v = Joined(us) + v
      BY <1>5, <1>7
    <2>2. Joined(ws) \in Int /\ Joined(us) \in Int
      BY <1>2, <1>4
    <2>3. Joined(ws) = Joined(us)
      BY <1>3, <2>1, <2>2
    <2> QED
      BY <2>3, JoinedIsInjective
  <1>8. ASSUME NEW us \in hits(v)
        PROVE  \E ws \in hits(0) : f[ws] = us
    <2>1. Joined(us) \in T /\ Joined(us) % z = v
      BY <1>2
    <2>2. Joined(us) - v \in T
      <3> DEFINE d == Joined(us) \div z
      <3>1. Joined(us) \in Int
        BY <1>4, <2>1
      <3>2. Joined(us) = d * z + v /\ d \in Int
        BY <1>1, <2>1, <3>1, DivisionHolds
      <3> HIDE DEF d
      <3>3. d >= 0
        <4> SUFFICES ASSUME d + 1 <= 0
                     PROVE  FALSE
          BY <3>2
        <4>1. d * z + z <= 0 * z
          BY <1>1, <3>2, ProductsGrow, OneMoreFactor
        <4>2. d * z \in Int /\ 0 * z = 0
          BY <1>1, <3>2
        <4> QED
          BY <1>1, <1>3, <2>1, <3>2, <4>1, <4>2
      <3>4. d * z + 0 \in Nat
        BY <1>1, <3>2, <3>3, NaturalsAreClosed
      <3>5. d * z \in Int
        BY <1>1, <3>2
      <3> QED
        BY <1>3, <1>4, <2>1, <3>2, <3>4, <3>5
    <2>3. PICK ws \in Attempt(i) : Joined(ws) = Joined(us) - v
      BY <2>2, JoinedIsSurjective
    <2>4. Joined(us) \in Int /\ Joined(ws) \in Int /\ Joined(ws) + v = Joined(us)
      BY <1>2, <1>3, <1>4, <2>3
    <2>5. Joined(ws) % z = 0
      BY <1>1, <1>3, <2>1, <2>4, RemainderShifts
    <2>6. ws \in hits(0)
      BY <2>5
    <2>7. Joined(up(ws)) = Joined(us) /\ up(ws) \in Attempt(i)
      BY <1>5, <2>4, <2>6
    <2>8. up(ws) = us
      BY <2>7, JoinedIsInjective
    <2> QED
      BY <2>6, <2>8
  <1>9. IsFiniteSet(hits(0)) /\ IsFiniteSet(hits(v))
    <2>1. hits(0) \in SUBSET Attempt(i) /\ hits(v) \in SUBSET Attempt(i)
      OBVIOUS
    <2> HIDE DEF hits
    <2> QED
      BY <2>1, AttemptsAreFinite, FS_Subset
  <1>10. hits(0) # {}
    <2>1. 0 \in T
      BY <1>4
    <2>2. PICK ws \in Attempt(i) : Joined(ws) = 0
      BY <2>1, JoinedIsSurjective
    <2>3. 0 % z = 0
      BY <1>1, Z3
    <2> QED
      BY <2>2, <2>3
  <1>11. Cardinality(hits(v)) = Cardinality(hits(0))
    <2> HIDE DEF hits, f
    <2>1. f \in Bijection(hits(0), hits(v))
      BY <1>6, <1>7, <1>8, Fun_IsBij
    <2>2. ExistsBijection(hits(0), hits(v))
      BY <2>1 DEF ExistsBijection
    <2> QED
      BY <1>9, <2>2, FS_Bijection
  <1> QED
    BY <1>9, <1>10, <1>11 DEF z

-----------------------------------------------------------------------------
\* Exchanges of labels

Exchange(o, top, k) == [o EXCEPT ![top] = o[k], ![k] = o[top]]

LEMMA ExchangeOfAnOrder ==
    ASSUME NEW q \in Nat, NEW o \in Orders(q), NEW top \in 0 .. q - 1, NEW k \in 0 .. q - 1
    PROVE  /\ Exchange(o, top, k) \in Orders(q)
           /\ Exchange(o, top, k)[top] = o[k]
           /\ Exchange(o, top, k)[k] = o[top]
           /\ \A x \in 0 .. q - 1 : x # top /\ x # k => Exchange(o, top, k)[x] = o[x]
PROOF
  <1> DEFINE D == 0 .. q - 1
             e == Exchange(o, top, k)
             from == [x \in D |-> IF x = k THEN top ELSE IF x = top THEN k ELSE x]
  <1>1. o \in [D -> D] /\ \A x, y \in D : o[x] = o[y] => x = y
    BY DEF Orders
  <1>2. e \in [D -> D]
    BY <1>1 DEF Exchange
  <1>3. /\ e[top] = o[k]
        /\ e[k] = o[top]
        /\ \A x \in D : x # top /\ x # k => e[x] = o[x]
    BY <1>1 DEF Exchange
  <1> HIDE DEF e
  <1>4. \A x \in D : e[x] = o[from[x]] /\ from[x] \in D
    BY <1>3
  <1>5. \A x, y \in D : from[x] = from[y] => x = y
    OBVIOUS
  <1> HIDE DEF D, from
  <1>6. \A x, y \in D : e[x] = e[y] => x = y
    BY <1>1, <1>4, <1>5
  <1>7. e \in Orders(q)
    BY <1>2, <1>6 DEF Orders, D
  <1> QED
    BY <1>3, <1>7 DEF e, D

LEMMA AscendingIsAnOrder == \A q \in Nat : Ascending(q) \in Orders(q)
BY DEF Ascending, Orders

\* An order takes every label.
LEMMA OrdersAreOnto ==
    ASSUME NEW q \in Nat, NEW o \in Orders(q), NEW y \in 0 .. q - 1
    PROVE  \E x \in 0 .. q - 1 : o[x] = y
PROOF
  <1> DEFINE D == 0 .. q - 1
  <1>1. o \in [D -> D] /\ \A x, z \in D : o[x] = o[z] => x = z
    BY DEF Orders
  <1>2. IsFiniteSet(D)
    <2>1. 0 \in Int /\ q - 1 \in Int
      OBVIOUS
    <2> QED
      BY <2>1, FS_Interval
  <1> HIDE DEF D
  <1>3. o \in Injection(D, D)
    BY <1>1, Fun_IsInj
  <1>4. o \in Surjection(D, D)
    BY <1>2, <1>3, FS_Injection
  <1>5. \A z \in D : \E x \in D : o[x] = z
    BY <1>4, Fun_SurjectionProperties
  <1> QED
    BY <1>5 DEF D

\* The first i indices of a block draw.
Indices(q, i) == {ks \in Seq(Nat) : Len(ks) = i /\ \A j \in 1 .. i : ks[j] <= q - j}

\* The orders the exchanges pass through.
Passes(f, ks, q) ==
    /\ f \in [0 .. Len(ks) -> Orders(q)]
    /\ f[0] = Ascending(q)
    /\ \A j \in 1 .. Len(ks) : f[j] = Exchange(f[j - 1], q - j, ks[j])

LEMMA IndicesAreLabels ==
    ASSUME NEW q \in Nat, NEW i \in 0 .. q, NEW ks \in Indices(q, i), NEW j \in 1 .. i
    PROVE  q - j \in 0 .. q - 1 /\ ks[j] \in 0 .. q - 1 /\ ks[j] <= q - j
PROOF
  <1>1. ks[j] \in Nat /\ ks[j] <= q - j
    BY DEF Indices
  <1> QED
    BY <1>1

LEMMA OrderOfIsTheLastPassed ==
    ASSUME NEW q \in Nat, NEW i \in 0 .. q, NEW ks \in Indices(q, i)
    PROVE  \E f : Passes(f, ks, q) /\ OrderOf(ks, q) = f[i]
PROOF
  <1> DEFINE step == [p \in (1 .. i) \X Orders(q) |-> Exchange(p[2], q - p[1], ks[p[1]])]
  <1>0. i \in Nat /\ Len(ks) = i
    BY DEF Indices
  <1>1. Upward(0 .. i, 0)
    BY <1>0 DEF Upward
  <1>2. \A j \in 1 .. i : \A o \in Orders(q) : step[<<j, o>>] = Exchange(o, q - j, ks[j])
    OBVIOUS
  <1>3. \A j \in (0 .. i) \ {0} : \A o \in Orders(q) : step[<<j, o>>] \in Orders(q)
    <2> SUFFICES ASSUME NEW j \in (0 .. i) \ {0}, NEW o \in Orders(q)
                 PROVE  step[<<j, o>>] \in Orders(q)
      OBVIOUS
    <2>1. j \in 1 .. i
      BY <1>0
    <2> HIDE DEF step
    <2>2. q - j \in 0 .. q - 1 /\ ks[j] \in 0 .. q - 1
      BY <2>1, IndicesAreLabels
    <2>3. Exchange(o, q - j, ks[j]) \in Orders(q)
      BY <2>2, ExchangeOfAnOrder
    <2> QED
      BY <1>2, <2>1, <2>3
  <1>4. Ascending(q) \in Orders(q)
    BY AscendingIsAnOrder
  <1> HIDE DEF step
  <1> DEFINE places == 0 .. i
             a == Ascending(q)
             S == Orders(q)
  <1>5. PICK f \in [places -> S] : Goes(f, places, 0, a, step)
    <2>1. Upward(places, 0) /\ a \in S /\ \A j \in places \ {0} : \A o \in S : step[<<j, o>>] \in S
      BY <1>1, <1>3, <1>4
    <2> HIDE DEF places, a, S
    <2> QED
      BY <2>1, GoingIsPossible
  <1>6. ASSUME NEW j \in 1 .. i
        PROVE  f[j] = Exchange(f[j - 1], q - j, ks[j])
    <2>1. j - 1 \in 0 .. i /\ j \in (0 .. i) \ {0}
      BY <1>0
    <2>2. f[j - 1] \in Orders(q)
      BY <1>5, <2>1
    <2> QED
      BY <1>2, <1>5, <2>1, <2>2 DEF Goes
  <1>7. Passes(f, ks, q)
    BY <1>0, <1>5, <1>6 DEF Passes, Goes
  <1> DEFINE Defines(g) ==
               g = [j \in 0 .. Len(ks) |->
                       IF j = 0 THEN Ascending(q) 
                       ELSE [g[j - 1] EXCEPT ![q - j] = g[j - 1][ks[j]], ![ks[j]] = g[j - 1][q - j]]]
             chosen == CHOOSE g : Defines(g)
  <1>8. Defines(f)
    <2>1. \A j \in 0 .. i : f[j] = IF j = 0 THEN Ascending(q)
                                   ELSE Exchange(f[j - 1], q - j, ks[j])
      BY <1>0, <1>6, <1>7 DEF Passes
    <2> QED
      BY <1>0, <1>5, <2>1 DEF Exchange
  <1>9. Defines(chosen)
    BY <1>8
  <1>10. OrderOf(ks, q) = chosen[i]
    BY <1>0 DEF OrderOf
  <1> HIDE DEF chosen
  <1>11. \A j \in places : f[j] = chosen[j]
    <2>1. f[0] = chosen[0]
      BY <1>0, <1>7, <1>9 DEF Passes
    <2>2. \A j \in places \ {0} : f[j - 1] = chosen[j - 1] => f[j] = chosen[j]
      <3> SUFFICES ASSUME NEW j \in places \ {0}, f[j - 1] = chosen[j - 1]
                   PROVE  f[j] = chosen[j]
        OBVIOUS
      <3>1. j \in 1 .. i /\ j \in 0 .. Len(ks) /\ j # 0
        BY <1>0
      <3>2. chosen[j] = Exchange(chosen[j - 1], q - j, ks[j])
        BY <1>9, <3>1 DEF Exchange
      <3> QED
        BY <1>6, <3>1, <3>2
    <2>3. Upward(places, 0)
      BY <1>1
    <2> HIDE DEF places
    <2> QED
      BY <2>1, <2>2, <2>3, GoingIsUnique
  <1>12. i \in 0 .. i
    BY <1>0
  <1> QED
    BY <1>7, <1>10, <1>11, <1>12

LEMMA NoIndices == \A q \in Nat : Indices(q, 0) = {<<>>}
PROOF
  <1> SUFFICES ASSUME NEW q \in Nat
               PROVE  Indices(q, 0) = {<<>>}
    OBVIOUS
  <1>1. <<>> \in Seq(Nat) /\ Len(<<>>) = 0 /\ \A ks \in Seq(Nat) : Len(ks) = 0 => ks = <<>>
    BY EmptySeq
  <1>2. \A j : ~(j \in 1 .. 0)
    OBVIOUS
  <1> QED
    BY <1>1, <1>2 DEF Indices

LEMMA OrderOfNothing == \A q \in Nat : OrderOf(<< >>, q) = Ascending(q)
PROOF
  <1> SUFFICES ASSUME NEW q \in Nat
               PROVE  OrderOf(<<>>, q) = Ascending(q)
    OBVIOUS
  <1>1. <<>> \in Indices(q, 0) /\ 0 \in 0 .. q
    BY NoIndices
  <1> QED
    BY <1>1, OrderOfIsTheLastPassed DEF Passes

LEMMA FrontOfIndices ==
    ASSUME NEW q \in Nat, NEW i \in Nat, NEW ks \in Indices(q, i + 1)
    PROVE  /\ Front(ks) \in Indices(q, i)
           /\ ks[i + 1] \in Nat /\ ks[i + 1] <= q - (i + 1)
           /\ ks = Append(Front(ks), ks[i + 1])
PROOF
  <1>1. ks \in Seq(Nat) /\ Len(ks) = i + 1 /\ \A j \in 1 .. i + 1 : ks[j] <= q - j
    BY DEF Indices
  <1>2. /\ Front(ks) \in Seq(Nat) /\ Len(Front(ks)) = i
        /\ ks[i + 1] \in Nat
        /\ ks = Append(Front(ks), ks[i + 1])
    BY <1>1, FrontAndLast
  <1>3. \A j \in 1 .. i : Front(ks)[j] <= q - j
    BY <1>1 DEF Front
  <1> QED
    BY <1>1, <1>2, <1>3 DEF Indices

LEMMA IndicesGrow ==
    ASSUME NEW q \in Nat, NEW i \in Nat, NEW ks \in Indices(q, i), NEW k \in Nat, k <= q - (i + 1)
    PROVE  Append(ks, k) \in Indices(q, i + 1)
PROOF
  <1>1. ks \in Seq(Nat) /\ Len(ks) = i /\ \A j \in 1 .. i : ks[j] <= q - j
    BY DEF Indices
  <1>2. Append(ks, k) \in Seq(Nat) /\ Len(Append(ks, k)) = i + 1
    BY <1>1
  <1>3. \A j \in 1 .. i + 1 : Append(ks, k)[j] <= q - j
    BY <1>1
  <1> QED
    BY <1>2, <1>3 DEF Indices

\* Another index exchanges the next position down.
LEMMA OrderOfGrows ==
    ASSUME NEW q \in Nat, NEW i \in 0 .. q - 1, NEW ks \in Indices(q, i), NEW k \in Nat, k <= q - (i + 1)
    PROVE  OrderOf(Append(ks, k), q) = Exchange(OrderOf(ks, q), q - (i + 1), k)
PROOF
  <1> DEFINE ls == Append(ks, k)
  <1>1. /\ i \in 0 .. q /\ i + 1 \in 0 .. q /\ i \in Nat
        /\ ls \in Indices(q, i + 1) /\ Len(ks) = i /\ Len(ls) = i + 1 /\ ls[i + 1] = k
        /\ \A j \in 1 .. i : ls[j] = ks[j]
    <2>1. i \in 0 .. q /\ i + 1 \in 0 .. q /\ i \in Nat
      OBVIOUS
    <2>2. ls \in Indices(q, i + 1)
      BY <2>1, IndicesGrow
    <2>3. ks \in Seq(Nat) /\ Len(ks) = i
      BY DEF Indices
    <2> QED
      BY <2>1, <2>2, <2>3
  <1> HIDE DEF ls
  <1>2. PICK f : Passes(f, ks, q) /\ OrderOf(ks, q) = f[i]
    BY <1>1, OrderOfIsTheLastPassed
  <1>3. PICK g : Passes(g, ls, q) /\ OrderOf(ls, q) = g[i + 1]
    BY <1>1, OrderOfIsTheLastPassed
  <1> DEFINE places == 0 .. i
  <1>4. \A j \in places : f[j] = g[j]
    <2>1. Upward(places, 0)
      BY <1>1 DEF Upward
    <2>2. f[0] = g[0]
      BY <1>2, <1>3 DEF Passes
    <2>3. \A j \in places \ {0} : f[j - 1] = g[j - 1] => f[j] = g[j]
      <3> SUFFICES ASSUME NEW j \in places \ {0}, f[j - 1] = g[j - 1]
                   PROVE  f[j] = g[j]
        OBVIOUS
      <3>1. j \in 1 .. i /\ j \in 1 .. i + 1
        BY <1>1
      <3>2. f[j] = Exchange(f[j - 1], q - j, ks[j]) /\ g[j] = Exchange(g[j - 1], q - j, ls[j])
        BY <1>1, <1>2, <1>3, <3>1 DEF Passes
      <3> QED
        BY <1>1, <3>1, <3>2
    <2> HIDE DEF places
    <2> QED
      BY <2>1, <2>2, <2>3, GoingIsUnique
  <1>5. i \in places /\ i + 1 \in 1 .. i + 1 /\ (i + 1) - 1 = i
    BY <1>1
  <1>6. g[i + 1] = Exchange(g[i], q - (i + 1), ls[i + 1])
    BY <1>1, <1>3, <1>5 DEF Passes
  <1> QED
    BY <1>1, <1>2, <1>3, <1>4, <1>5, <1>6 DEF ls

LEMMA OrderOfIsAnOrder ==
    ASSUME NEW q \in Nat, NEW i \in 0 .. q, NEW ks \in Indices(q, i)
    PROVE  OrderOf(ks, q) \in Orders(q)
PROOF
  <1>1. PICK f : Passes(f, ks, q) /\ OrderOf(ks, q) = f[i]
    BY OrderOfIsTheLastPassed
  <1>2. Len(ks) = i /\ i \in 0 .. i
    BY DEF Indices
  <1> QED
    BY <1>1, <1>2 DEF Passes

\* An exchange leaves the positions above its own as they are.
LEMMA FilledPositionsStay ==
    ASSUME NEW q \in Nat, NEW i \in 0 .. q - 1, NEW ks \in Indices(q, i), NEW k \in Nat, k <= q - (i + 1)
    PROVE  LET top == q - (i + 1)
               o == OrderOf(ks, q)
               e == OrderOf(Append(ks, k), q)
           IN  /\ e[top] = o[k]
               /\ \A x \in q - i .. q - 1 : e[x] = o[x]
PROOF
  <1> DEFINE top == q - (i + 1)
             o == OrderOf(ks, q)
             e == OrderOf(Append(ks, k), q)
  <1>1. e = Exchange(o, top, k)
    BY OrderOfGrows
  <1>2. i \in 0 .. q /\ top \in 0 .. q - 1 /\ k \in 0 .. q - 1
    OBVIOUS
  <1>3. o \in Orders(q)
    BY <1>2, OrderOfIsAnOrder
  <1>4. \A x \in q - i .. q - 1 : x \in 0 .. q - 1 /\ x # top /\ x # k
    OBVIOUS
  <1> HIDE DEF o, e, top
  <1>5. /\ Exchange(o, top, k)[top] = o[k]
        /\ \A x \in 0 .. q - 1 : x # top /\ x # k => Exchange(o, top, k)[x] = o[x]
    BY <1>2, <1>3, ExchangeOfAnOrder
  <1>6. e[top] = o[k] /\ \A x \in q - i .. q - 1 : e[x] = o[x]
    BY <1>1, <1>4, <1>5
  <1> QED
    BY <1>6 DEF o, e, top

\* The filled positions tell the indices.
LEMMA PositionsTellIndices ==
    ASSUME NEW q \in Nat
    PROVE  \A i \in 0 .. q : \A ks, ls \in Indices(q, i) :
               (\A x \in q - i .. q - 1 : OrderOf(ks, q)[x] = OrderOf(ls, q)[x]) => ks = ls
PROOF
  <1> DEFINE Same(ks, ls, i) == \A x \in q - i .. q - 1 : OrderOf(ks, q)[x] = OrderOf(ls, q)[x]
             Tells == {i \in Nat : i <= q => \A ks, ls \in Indices(q, i) : Same(ks, ls, i) => ks = ls}
  <1>1. 0 \in Tells
    BY NoIndices
  <1>2. ASSUME NEW i \in Nat, i \in Tells
        PROVE  i + 1 \in Tells
    <2> SUFFICES ASSUME i + 1 <= q, NEW ks \in Indices(q, i + 1), NEW ls \in Indices(q, i + 1),
                        Same(ks, ls, i + 1)
                 PROVE  ks = ls
      OBVIOUS
    <2> DEFINE fk == Front(ks)
               fl == Front(ls)
               k == ks[i + 1]
               l == ls[i + 1]
               top == q - (i + 1)
    <2>0. i \in 0 .. q - 1 /\ i \in 0 .. q /\ i <= q /\ top \in Nat
      OBVIOUS
    <2>1. fk \in Indices(q, i) /\ k \in Nat /\ k <= top /\ ks = Append(fk, k)
      BY FrontOfIndices
    <2>2. fl \in Indices(q, i) /\ l \in Nat /\ l <= top /\ ls = Append(fl, l)
      BY FrontOfIndices
    <2> HIDE DEF fk, fl, k, l
    <2>3. /\ OrderOf(ks, q)[top] = OrderOf(fk, q)[k]
          /\ \A x \in q - i .. q - 1 : OrderOf(ks, q)[x] = OrderOf(fk, q)[x]
      BY <2>0, <2>1, FilledPositionsStay
    <2>4. /\ OrderOf(ls, q)[top] = OrderOf(fl, q)[l]
          /\ \A x \in q - i .. q - 1 : OrderOf(ls, q)[x] = OrderOf(fl, q)[x]
      BY <2>0, <2>2, FilledPositionsStay
    <2>5. /\ top \in q - (i + 1) .. q - 1
          /\ \A x \in q - i .. q - 1 : x \in q - (i + 1) .. q - 1
      BY <2>0
    <2>6. Same(fk, fl, i)
      BY <2>3, <2>4, <2>5
    <2>7. fk = fl
      BY <1>2, <2>0, <2>1, <2>2, <2>6
    <2>8. OrderOf(fk, q)[k] = OrderOf(fk, q)[l]
      BY <2>3, <2>4, <2>5, <2>7
    <2>9. OrderOf(fk, q) \in Orders(q)
      BY <2>0, <2>1, OrderOfIsAnOrder
    <2>10. k \in 0 .. q - 1 /\ l \in 0 .. q - 1
      BY <2>0, <2>1, <2>2
    <2>11. k = l
      BY <2>8, <2>9, <2>10 DEF Orders
    <2> QED
      BY <2>1, <2>2, <2>7, <2>11
  <1>3. \A i \in Nat : i \in Tells
    <2> HIDE DEF Tells
    <2> QED
      BY <1>1, <1>2, SetInduction
  <1>4. \A i \in 0 .. q : i \in Nat /\ i <= q
    OBVIOUS
  <1> QED
    BY <1>3, <1>4

\* Indices can be chosen for what the filled positions are to hold.
LEMMA PositionsCanBeFilled ==
    ASSUME NEW q \in Nat, NEW t \in Orders(q)
    PROVE  \A i \in 0 .. q : \E ks \in Indices(q, i) :
               \A x \in q - i .. q - 1 : OrderOf(ks, q)[x] = t[x]
PROOF
  <1> DEFINE Fill(ks, i) == \A x \in q - i .. q - 1 : OrderOf(ks, q)[x] = t[x]
             Fillable == {i \in Nat : i <= q => \E ks \in Indices(q, i) : Fill(ks, i)}
  <1>1. 0 \in Fillable
    BY NoIndices
  <1>2. ASSUME NEW i \in Nat, i \in Fillable
        PROVE  i + 1 \in Fillable
    <2> SUFFICES ASSUME i + 1 <= q
                 PROVE  \E ks \in Indices(q, i + 1) : Fill(ks, i + 1)
      OBVIOUS
    <2> DEFINE top == q - (i + 1)
    <2>0. i \in 0 .. q - 1 /\ i \in 0 .. q /\ i <= q /\ top \in 0 .. q - 1
      OBVIOUS
    <2>1. PICK ks \in Indices(q, i) : Fill(ks, i)
      BY <1>2, <2>0
    <2> DEFINE o == OrderOf(ks, q)
    <2>2. o \in Orders(q)
      BY <2>0, OrderOfIsAnOrder
    <2>3. t[top] \in 0 .. q - 1
      BY <2>0 DEF Orders
    <2>4. PICK k \in 0 .. q - 1 : o[k] = t[top]
      BY <2>2, <2>3, OrdersAreOnto
    <2>5. k <= top
      <3> SUFFICES ASSUME k \in q - i .. q - 1
                   PROVE  FALSE
        BY <2>0
      <3>1. t[k] = t[top] /\ k # top
        BY <2>0, <2>1, <2>4
      <3> QED
        BY <2>0, <3>1 DEF Orders
    <2>6. k \in Nat /\ k <= q - (i + 1)
      BY <2>5
    <2> DEFINE ls == Append(ks, k)
    <2>7. ls \in Indices(q, i + 1)
      BY <2>6, IndicesGrow
    <2>8. /\ OrderOf(ls, q)[top] = o[k]
          /\ \A x \in q - i .. q - 1 : OrderOf(ls, q)[x] = o[x]
      BY <2>0, <2>6, FilledPositionsStay
    <2> HIDE DEF ls, o
    <2>9. ASSUME NEW x \in q - (i + 1) .. q - 1
          PROVE  OrderOf(ls, q)[x] = t[x]
      <3>1. x = top \/ x \in q - i .. q - 1
        BY <2>0
      <3> QED
        BY <2>1, <2>4, <2>8, <3>1 DEF o
    <2> QED
      BY <2>7, <2>9
  <1>3. \A i \in Nat : i \in Fillable
    <2> HIDE DEF Fillable
    <2> QED
      BY <1>1, <1>2, SetInduction
  <1>4. \A i \in 0 .. q : i \in Nat /\ i <= q
    OBVIOUS
  <1> QED
    BY <1>3, <1>4

\* q - 1 exchanges: one index sequence for each order.
LEMMA DrawsAreOneToOne ==
    ASSUME NEW q \in Nat \ {0}, NEW t \in Orders(q)
    PROVE  /\ \A ks, ls \in Indices(q, q - 1) : OrderOf(ks, q) = OrderOf(ls, q) => ks = ls
           /\ \E ks \in Indices(q, q - 1) : OrderOf(ks, q) = t
PROOF
  <1>0. q \in Nat /\ q - 1 \in 0 .. q
    OBVIOUS
  <1>1. \A ks, ls \in Indices(q, q - 1) : OrderOf(ks, q) = OrderOf(ls, q) => ks = ls
    BY <1>0, PositionsTellIndices
  <1>2. PICK ks \in Indices(q, q - 1) : \A x \in q - (q - 1) .. q - 1 : OrderOf(ks, q)[x] = t[x]
    BY <1>0, PositionsCanBeFilled
  <1> DEFINE o == OrderOf(ks, q)
  <1>3. o \in Orders(q)
    BY <1>0, OrderOfIsAnOrder
  <1> HIDE DEF o
  <1>4. \A x \in 0 .. q - 1 : x # 0 => o[x] = t[x]
    BY <1>2 DEF o
  <1>5. o[0] = t[0]
    <2>1. 0 \in 0 .. q - 1 /\ t[0] \in 0 .. q - 1
      BY DEF Orders
    <2>2. PICK x \in 0 .. q - 1 : o[x] = t[0]
      BY <1>0, <1>3, <2>1, OrdersAreOnto
    <2>3. x # 0 => t[x] = t[0]
      BY <1>4, <2>2
    <2>4. x = 0
      BY <2>1, <2>3 DEF Orders
    <2> QED
      BY <2>2, <2>4
  <1>6. o = t
    BY <1>3, <1>4, <1>5 DEF Orders
  <1> QED
    BY <1>1, <1>6 DEF o

-----------------------------------------------------------------------------
\* Counting index sequences

Draws(q) == Indices(q, q - 1)

Prefixed(k, ks) == [j \in 1 .. Len(ks) + 1 |-> IF j = 1 THEN k ELSE ks[j - 1]]

Behind(ks) == [j \in 1 .. Len(ks) - 1 |-> ks[j + 1]]

LEMMA PrefixedDraws ==
    ASSUME NEW q \in Nat \ {0}
    PROVE  /\ \A k \in 0 .. q : \A ks \in Draws(q) :
                  Prefixed(k, ks) \in Draws(q + 1) /\ Prefixed(k, ks)[1] = k /\ Behind(Prefixed(k, ks)) = ks
           /\ \A ls \in Draws(q + 1) :
                  ls[1] \in 0 .. q /\ Behind(ls) \in Draws(q) /\ Prefixed(ls[1], Behind(ls)) = ls
PROOF
  <1>0. q \in Nat /\ q >= 1
    OBVIOUS
  <1>1. ASSUME NEW k \in 0 .. q, NEW ks \in Draws(q)
        PROVE  Prefixed(k, ks) \in Draws(q + 1) /\ Prefixed(k, ks)[1] = k /\ Behind(Prefixed(k, ks)) = ks
    <2> DEFINE ls == Prefixed(k, ks)
    <2>1. ks \in Seq(Nat) /\ Len(ks) = q - 1 /\ \A j \in 1 .. q - 1 : ks[j] \in Nat /\ ks[j] <= q - j
      BY DEF Draws, Indices
    <2>2. ls = [j \in 1 .. q |-> IF j = 1 THEN k ELSE ks[j - 1]]
      BY <1>0, <2>1 DEF Prefixed
    <2> HIDE DEF ls
    <2>3. ASSUME NEW j \in 1 .. q
          PROVE  ls[j] \in Nat /\ ls[j] <= (q + 1) - j
      <3>1. CASE j = 1
        BY <1>0, <2>2, <3>1
      <3>2. CASE j # 1
        <4>1. j - 1 \in 1 .. q - 1
          BY <1>0, <3>2
        <4>2. ls[j] = ks[j - 1]
          BY <2>2, <3>2
        <4> QED
          BY <1>0, <2>1, <4>1, <4>2
      <3> QED
        BY <3>1, <3>2
    <2>4. ls \in [1 .. q -> Nat]
      BY <2>2, <2>3
    <2>5. ls \in Seq(Nat) /\ Len(ls) = q
      BY <1>0, <2>4
    <2>6. ls \in Draws(q + 1)
      BY <1>0, <2>3, <2>5 DEF Draws, Indices
    <2>7. ls[1] = k
      BY <1>0, <2>2
    <2>8. Behind(ls) = ks
      <3>1. Behind(ls) = [j \in 1 .. q - 1 |-> ls[j + 1]]
        BY <2>5 DEF Behind
      <3>2. \A j \in 1 .. q - 1 : j + 1 \in 1 .. q /\ j + 1 # 1 /\ (j + 1) - 1 = j
        BY <1>0
      <3>3. \A j \in 1 .. q - 1 : ls[j + 1] = ks[j]
        BY <2>2, <3>2
      <3>4. ks = [j \in 1 .. q - 1 |-> ks[j]]
        BY <1>0, <2>1
      <3> QED
        BY <3>1, <3>3, <3>4
    <2> QED
      BY <2>6, <2>7, <2>8 DEF ls
  <1>2. ASSUME NEW ls \in Draws(q + 1)
        PROVE  ls[1] \in 0 .. q /\ Behind(ls) \in Draws(q) /\ Prefixed(ls[1], Behind(ls)) = ls
    <2>1. ls \in Seq(Nat) /\ Len(ls) = q /\ \A j \in 1 .. q : ls[j] \in Nat /\ ls[j] <= (q + 1) - j
      BY <1>0 DEF Draws, Indices
    <2>2. ls[1] \in 0 .. q
      BY <1>0, <2>1
    <2> DEFINE ks == Behind(ls)
    <2>3. ks = [j \in 1 .. q - 1 |-> ls[j + 1]]
      BY <2>1 DEF Behind
    <2> HIDE DEF ks
    <2>4. \A j \in 1 .. q - 1 : ks[j] \in Nat /\ ks[j] <= q - j
      <3>1. \A j \in 1 .. q - 1 : j + 1 \in 1 .. q /\ (q + 1) - (j + 1) = q - j
        BY <1>0
      <3> QED
        BY <2>1, <2>3, <3>1
    <2>5. ks \in [1 .. q - 1 -> Nat]
      BY <2>3, <2>4
    <2>6. ks \in Seq(Nat) /\ Len(ks) = q - 1
      <3>1. q - 1 \in Nat
        BY <1>0
      <3> QED
        BY <2>5, <3>1
    <2>7. ks \in Draws(q)
      BY <2>4, <2>6 DEF Draws, Indices
    <2>8. Prefixed(ls[1], ks) = ls
      <3>1. Prefixed(ls[1], ks) = [j \in 1 .. q |-> IF j = 1 THEN ls[1] ELSE ks[j - 1]]
        BY <1>0, <2>6 DEF Prefixed
      <3>2. \A j \in 1 .. q : j # 1 => j - 1 \in 1 .. q - 1 /\ (j - 1) + 1 = j
        BY <1>0
      <3>3. \A j \in 1 .. q : j # 1 => ks[j - 1] = ls[j]
        BY <2>3, <3>2
      <3>4. ls = [j \in 1 .. q |-> ls[j]]
        BY <2>1
      <3> QED
        BY <3>1, <3>3, <3>4
    <2> QED
      BY <2>2, <2>7, <2>8 DEF ks
  <1> QED
    BY <1>1, <1>2

LEMMA DrawsMultiply ==
    ASSUME NEW q \in Nat \ {0}, IsFiniteSet(Draws(q))
    PROVE  /\ IsFiniteSet(Draws(q + 1))
           /\ Cardinality(Draws(q + 1)) = (q + 1) * Cardinality(Draws(q))
PROOF
  <1> DEFINE pairs == (0 .. q) \X Draws(q)
             f == [p \in pairs |-> Prefixed(p[1], p[2])]
  <1>1. IsFiniteSet(0 .. q) /\ Cardinality(0 .. q) = q + 1
    <2>1. 0 \in Int /\ q \in Int /\ q >= 0
      OBVIOUS
    <2> QED
      BY <2>1, FS_Interval
  <1>2. IsFiniteSet(pairs) /\ Cardinality(pairs) = (q + 1) * Cardinality(Draws(q))
    BY <1>1, FS_Product
  <1>3. \A p \in pairs : p[1] \in 0 .. q /\ p[2] \in Draws(q) /\ p = <<p[1], p[2]>>
    OBVIOUS
  <1>4. f \in [pairs -> Draws(q + 1)]
    BY <1>3, PrefixedDraws
  <1>5. ASSUME NEW p \in pairs, NEW r \in pairs, f[p] = f[r]
        PROVE  p = r
    <2>1. /\ f[p][1] = p[1] /\ Behind(f[p]) = p[2]
          /\ f[r][1] = r[1] /\ Behind(f[r]) = r[2]
      <3>1. f[p] = Prefixed(p[1], p[2]) /\ f[r] = Prefixed(r[1], r[2])
        OBVIOUS
      <3>2. /\ p[1] \in 0 .. q /\ p[2] \in Draws(q)
            /\ r[1] \in 0 .. q /\ r[2] \in Draws(q)
        BY <1>3
      <3>3. /\ Prefixed(p[1], p[2])[1] = p[1] /\ Behind(Prefixed(p[1], p[2])) = p[2]
            /\ Prefixed(r[1], r[2])[1] = r[1] /\ Behind(Prefixed(r[1], r[2])) = r[2]
        <4>1. \A k \in 0 .. q : \A ks \in Draws(q) :
                  Prefixed(k, ks)[1] = k /\ Behind(Prefixed(k, ks)) = ks
          BY PrefixedDraws
        <4> HIDE DEF pairs, f
        <4> QED
          BY <3>2, <4>1
      <3> HIDE DEF f
      <3> QED
        BY <3>1, <3>3
    <2>2. p[1] = r[1] /\ p[2] = r[2]
      BY <1>5, <2>1
    <2> QED
      BY <1>3, <2>2
  <1>6. ASSUME NEW ls \in Draws(q + 1)
        PROVE  \E p \in pairs : f[p] = ls
    <2>1. <<ls[1], Behind(ls)>> \in pairs /\ Prefixed(ls[1], Behind(ls)) = ls
      BY PrefixedDraws
    <2>2. f[<<ls[1], Behind(ls)>>] = ls
      BY <2>1
    <2> QED
      BY <2>1, <2>2
  <1> HIDE DEF pairs, f
  <1>7. f \in Bijection(pairs, Draws(q + 1))
    BY <1>4, <1>5, <1>6, Fun_IsBij
  <1>8. ExistsBijection(pairs, Draws(q + 1))
    BY <1>7 DEF ExistsBijection
  <1> QED
    BY <1>2, <1>8, FS_Bijection

\* q factorial many.
LEMMA DrawCounts ==
    /\ Cardinality(Draws(1)) = 1
    /\ \A q \in Nat \ {0} : /\ IsFiniteSet(Draws(q))
                            /\ Cardinality(Draws(q)) \in Nat \ {0}
                            /\ Cardinality(Draws(q + 1)) = (q + 1) * Cardinality(Draws(q))
PROOF
  <1> DEFINE Counted == {i \in Nat : IsFiniteSet(Draws(i + 1)) /\ Cardinality(Draws(i + 1)) \in Nat \ {0}}
  <1>1. IsFiniteSet(Draws(1)) /\ Cardinality(Draws(1)) = 1
    <2>1. Draws(1) = {<<>>}
      BY NoIndices DEF Draws
    <2> QED
      BY <2>1, FS_Singleton
  <1>2. 0 \in Counted
    BY <1>1
  <1>3. ASSUME NEW i \in Nat, i \in Counted
        PROVE  i + 1 \in Counted
    <2>1. i + 1 \in Nat \ {0} /\ IsFiniteSet(Draws(i + 1)) /\ Cardinality(Draws(i + 1)) \in Nat \ {0}
      BY <1>3
    <2>2. /\ IsFiniteSet(Draws((i + 1) + 1))
          /\ Cardinality(Draws((i + 1) + 1)) = ((i + 1) + 1) * Cardinality(Draws(i + 1))
      BY <2>1, DrawsMultiply
    <2>3. \A x, y \in Nat \ {0} : x * y \in Nat \ {0}
      BY Z3
    <2>4. (i + 1) + 1 \in Nat \ {0}
      OBVIOUS
    <2>5. ((i + 1) + 1) * Cardinality(Draws(i + 1)) \in Nat \ {0}
      BY <2>1, <2>3, <2>4
    <2> QED
      BY <2>1, <2>2, <2>5
  <1>4. \A i \in Nat : i \in Counted
    <2> HIDE DEF Counted
    <2> QED
      BY <1>2, <1>3, SetInduction
  <1>5. ASSUME NEW q \in Nat \ {0}
        PROVE  IsFiniteSet(Draws(q)) /\ Cardinality(Draws(q)) \in Nat \ {0}
    <2>1. q - 1 \in Nat /\ (q - 1) + 1 = q
      OBVIOUS
    <2>2. q - 1 \in Counted
      BY <1>4, <2>1
    <2> QED
      BY <2>1, <2>2
  <1> QED
    BY <1>1, <1>5, DrawsMultiply

LEMMA QuotientBelow ==
    ASSUME NEW x \in Nat, NEW k \in Nat \ {0}, NEW y \in Nat
    PROVE  x > y \div k <=> x * k > y
PROOF
  <1> DEFINE d == y \div k
             r == y % k
  <1>1. y = d * k + r /\ d \in Int /\ r \in 0 .. k - 1
    BY DivisionHolds
  <1> HIDE DEF d, r
  <1>2. x * k \in Int /\ d * k \in Int
    BY <1>1
  <1>3. ASSUME x >= d + 1
        PROVE  x * k > y
    <2>1. d * k + k <= x * k
      BY <1>1, <1>3, ProductsGrow, OneMoreFactor
    <2> QED
      BY <1>1, <1>2, <2>1
  <1>4. ASSUME x <= d
        PROVE  x * k <= y
    <2>1. x * k <= d * k
      BY <1>1, <1>4, ProductsGrow
    <2> QED
      BY <1>1, <1>2, <2>1
  <1>5. x > d <=> x * k > y
    BY <1>1, <1>2, <1>3, <1>4
  <1> QED
    BY <1>5 DEF d

\* The capped product is the factorial as long as that is under the cap, and passes the cap when it does.
LEMMA CappedFactorialCounts ==
    ASSUME NEW q \in Nat \ {0}
    PROVE  CappedFactorial(q) = IF Cardinality(Draws(q)) > MaxExactStates
                                THEN MaxExactStates + 1
                                ELSE Cardinality(Draws(q))
PROOF
  <1> DEFINE cap == MaxExactStates
             count(k) == Cardinality(Draws(k))
             D == 1 .. q
             f == [k \in D |-> IF count(k) > cap THEN cap + 1 ELSE count(k)]
  <1>0. cap \in Nat \ {0} /\ q \in Nat /\ q >= 1
    BY MaxExactStatesAssumption
  <1>1. \A k \in D : count(k) \in Nat \ {0}
    BY DrawCounts
  <1>2. ASSUME NEW k \in D, k > 1
        PROVE  k - 1 \in D /\ k \in Nat /\ count(k) = k * count(k - 1)
    <2>1. k - 1 \in D /\ k - 1 \in Nat \ {0} /\ (k - 1) + 1 = k
      BY <1>2
    <2> HIDE DEF D
    <2> QED
      BY <2>1, DrawCounts
  <1>3. count(1) = 1
    BY DrawCounts
  <1> HIDE DEF count, cap
  <1>4. f[1] = 1
    BY <1>0, <1>3
  <1>5. ASSUME NEW k \in D, k > 1
        PROVE  /\ f[k - 1] > cap \div k => f[k] = cap + 1
               /\ ~(f[k - 1] > cap \div k) => f[k] = f[k - 1] * k
    <2>1. k - 1 \in D /\ k \in Nat \ {0} /\ count(k) = k * count(k - 1)
      BY <1>2, <1>5
    <2> DEFINE c == count(k - 1)
    <2>2. c \in Nat \ {0}
      BY <1>1, <2>1
    <2>3. f[k] = IF k * c > cap THEN cap + 1 ELSE k * c
      BY <2>1
    <2>4. f[k - 1] = IF c > cap THEN cap + 1 ELSE c
      BY <2>1
    <2> HIDE DEF c, f
    <2>5. k * c = c * k /\ c * k \in Nat
      BY <2>1, <2>2
    <2>6. c > cap \div k <=> c * k > cap
      BY <1>0, <2>1, <2>2, QuotientBelow
    <2>7. cap + 1 > cap \div k <=> (cap + 1) * k > cap
      <3>1. cap + 1 \in Nat
        BY <1>0
      <3> QED
        BY <1>0, <2>1, <3>1, QuotientBelow
    <2>8. CASE c > cap
      <3>1. 1 * (cap + 1) <= k * (cap + 1)
        <4>1. 1 <= k /\ 1 \in Int /\ k \in Int /\ cap + 1 \in Nat
          BY <1>0, <2>1
        <4> QED
          BY <4>1, ProductsGrow
      <3>2. 1 * c <= k * c
        <4>1. 1 <= k /\ 1 \in Int /\ k \in Int /\ c \in Nat
          BY <1>0, <2>1, <2>2
        <4> QED
          BY <4>1, ProductsGrow
      <3>3. /\ 1 * (cap + 1) = cap + 1 /\ 1 * c = c
            /\ k * (cap + 1) = (cap + 1) * k /\ (cap + 1) * k \in Int
        BY <1>0, <2>1, <2>2
      <3>4. f[k - 1] = cap + 1 /\ k * c > cap /\ f[k - 1] > cap \div k
        BY <1>0, <2>2, <2>4, <2>5, <2>7, <2>8, <3>1, <3>2, <3>3
      <3> QED
        BY <2>3, <3>4
    <2>9. CASE ~(c > cap)
      <3>1. f[k - 1] = c
        BY <2>4, <2>9
      <3> QED
        BY <2>3, <2>5, <2>6, <3>1
    <2> QED
      BY <2>8, <2>9
  <1> DEFINE Defines(g) ==
               g = [factor \in 1 .. q |->
                       CASE factor = 1 -> 1
                         [] factor > 1 /\ g[factor - 1] > MaxExactStates \div factor -> MaxExactStates + 1
                         [] OTHER -> g[factor - 1] * factor]
             chosen == CHOOSE g : Defines(g)
  <1>6. Defines(f)
    <2>1. \A k \in D : f[k] = CASE k = 1 -> 1
                                [] k > 1 /\ f[k - 1] > cap \div k -> cap + 1
                                [] OTHER -> f[k - 1] * k
      <3> SUFFICES ASSUME NEW k \in D
                   PROVE  f[k] = CASE k = 1 -> 1
                                   [] k > 1 /\ f[k - 1] > cap \div k -> cap + 1
                                   [] OTHER -> f[k - 1] * k
        OBVIOUS
      <3>1. CASE k = 1
        BY <1>4, <3>1
      <3>2. CASE k > 1
        <4> HIDE DEF f
        <4> QED
          BY <1>5, <3>2
      <3> QED
        BY <3>1, <3>2
    <2> QED
      BY <2>1 DEF cap
  <1>7. Defines(chosen)
    BY <1>6
  <1>8. CappedFactorial(q) = chosen[q]
    BY DEF CappedFactorial
  <1> HIDE DEF chosen
  <1>9. chosen[1] = f[1]
    <2>1. 1 \in 1 .. q
      BY <1>0
    <2>2. chosen[1] = 1
      BY <1>7, <2>1
    <2> QED
      BY <1>4, <2>2
  <1>10. ASSUME NEW k \in D \ {1}, chosen[k - 1] = f[k - 1]
         PROVE  chosen[k] = f[k]
    <2>1. k \in 1 .. q /\ k > 1 /\ k # 1
      OBVIOUS
    <2>2. chosen[k] = CASE k = 1 -> 1
                        [] k > 1 /\ chosen[k - 1] > MaxExactStates \div k -> MaxExactStates + 1
                        [] OTHER -> chosen[k - 1] * k
      BY <1>7, <2>1
    <2>3. chosen[k] = IF chosen[k - 1] > cap \div k THEN cap + 1 ELSE chosen[k - 1] * k
      BY <2>1, <2>2 DEF cap
    <2> HIDE DEF f
    <2> QED
      BY <1>5, <1>10, <2>1, <2>3
  <1>11. Upward(D, 1) /\ q \in D
    BY <1>0 DEF Upward
  <1>12. \A k \in D : chosen[k] = f[k]
    <2> HIDE DEF D, f, Defines
    <2>1. \A k \in D \ {1} : chosen[k - 1] = f[k - 1] => chosen[k] = f[k]
      BY <1>10
    <2>2. Upward(D, 1)
      BY <1>11
    <2>3. ASSUME NEW g, NEW h, g[1] = h[1], \A k \in D \ {1} : g[k - 1] = h[k - 1] => g[k] = h[k]
          PROVE  \A k \in D : g[k] = h[k]
      BY <2>2, <2>3, GoingIsUnique
    <2> QED
      BY <1>9, <2>1, <2>3
  <1> QED
    BY <1>8, <1>11, <1>12 DEF count, cap

-----------------------------------------------------------------------------
\* The draw

LEMMA NullFacts ==
    ASSUME null \in Nulls
    PROVE  LET size == null.length
               m == null.parameter
               q == BlockCount(null)
           IN  /\ size \in Nat \ {0} /\ m \in Nat \ {0}
               /\ Circular(null) => 2 * m <= size /\ ShiftCount(size, m) \in Nat \ {0, 1}
               /\ ~Circular(null) => q \in Nat \ {0, 1}
               /\ OracleStatus(null) = IF StateTotal(null) > MaxExactStates
                                       THEN "EXACT_STATE_CAP_EXCEEDED" ELSE "ENUMERATES"
PROOF
  <1> DEFINE size == null.length
             m == null.parameter
             q == BlockCount(null)
  <1>1. /\ null.name \in {"circular_shift_v2", "block_shuffle_v2"}
        /\ size \in Nat \ {0} /\ m \in Nat \ {0}
        /\ BindStatus(null) = "ENABLED"
    BY NullsAssumption
  <1>2. q \in Int /\ size % m \in Int
    <2> HIDE DEF size, m
    <2>1. size \div m \in Int /\ size % m \in Int
      BY <1>1, DivisionHolds
    <2> QED
      BY <2>1 DEF BlockCount, q, size, m
  <1>3. CASE Circular(null)
    <2>1. null.name = "circular_shift_v2"
      BY <1>1, <1>3 DEF Circular
    <2>2. CircularBindStatus(null) = "ENABLED"
      BY <1>1, <1>3 DEF BindStatus
    <2>3. 2 * m <= size
      BY <1>1, <2>2 DEF CircularBindStatus
    <2>4. ShiftCount(size, m) \in Nat \ {0, 1}
      BY <1>1, <2>3 DEF ShiftCount
    <2>5. OracleStatus(null) = IF StateTotal(null) > MaxExactStates
                               THEN "EXACT_STATE_CAP_EXCEEDED" ELSE "ENUMERATES"
      BY <1>1, <1>3, <2>1 DEF OracleStatus, OracleNames
    <2> QED
      BY <1>1, <1>3, <2>3, <2>4, <2>5
  <1>4. CASE ~Circular(null)
    <2>1. null.name = "block_shuffle_v2"
      BY <1>1, <1>4 DEF Circular
    <2>2. BlockBindStatus(null) = "ENABLED"
      BY <1>1, <1>4 DEF BindStatus
    <2>3. size % m = 0 /\ ~(q < 2)
      BY <1>2, <2>2 DEF BlockBindStatus
    <2>4. OracleStatus(null) = IF StateTotal(null) > MaxExactStates
                               THEN "EXACT_STATE_CAP_EXCEEDED" ELSE "ENUMERATES"
      BY <1>1, <1>4, <2>1, <2>3 DEF OracleStatus, OracleNames
    <2>5. q \in Nat \ {0, 1}
      BY <1>2, <2>3
    <2> QED
      BY <1>1, <1>4, <2>4, <2>5
  <1> QED
    BY <1>3, <1>4

\* A circular draw holds nothing until its one index; the labels of a block draw are the order
\* its indices lead to.
DrawInv ==
    /\ null \in Nulls
    /\ phase \in {"draw", "drawn"}
    /\ words \in Seq(Words)
    /\ Circular(null) =>
           /\ index = 0
           /\ phase = "draw" => picks = << >>
           /\ phase = "drawn" =>
                  \E k \in 0 .. ShiftCount(null.length, null.parameter) - 1 :
                      picks = << k >> /\ labels = ShiftAt(null.parameter, k)
    /\ ~Circular(null) =>
           /\ index \in 0 .. BlockCount(null) - 1
           /\ phase = "drawn" <=> index = 0
           /\ picks \in Indices(BlockCount(null), BlockCount(null) - 1 - index)
           /\ labels = OrderOf(picks, BlockCount(null))

LEMMA DrawStarts == DrawInit => DrawInv
PROOF
  <1> SUFFICES ASSUME DrawInit
               PROVE  DrawInv
    OBVIOUS
  <1>1. null \in Nulls /\ phase = "draw" /\ words = <<>> /\ picks = <<>>
    BY DEF DrawInit
  <1>2. words \in Seq(Words)
    BY <1>1
  <1>3. CASE Circular(null)
    BY <1>1, <1>2, <1>3 DEF DrawInit, DrawInv
  <1>4. CASE ~Circular(null)
    <2> DEFINE q == BlockCount(null)
    <2>1. q \in Nat \ {0, 1}
      BY <1>1, <1>4, NullFacts
    <2>2. index = q - 1 /\ labels = Ascending(q)
      BY <1>4 DEF DrawInit
    <2> HIDE DEF q
    <2>3. index \in 0 .. q - 1 /\ index # 0 /\ q - 1 - index = 0 /\ q \in Nat
      BY <2>1, <2>2
    <2>4. picks \in Indices(q, q - 1 - index) /\ labels = OrderOf(picks, q)
      BY <1>1, <2>2, <2>3, NoIndices, OrderOfNothing
    <2> QED
      BY <1>1, <1>2, <1>4, <2>3, <2>4 DEF DrawInv, q
  <1> QED
    BY <1>3, <1>4

LEMMA MaskedIsNatural ==
    ASSUME NEW ws \in Seq(Words), NEW b \in Nat \ {0}
    PROVE  Masked(ws, b) \in Nat
PROOF
  <1>1. Len(ws) \in Nat /\ ws \in Attempt(Len(ws))
    BY DEF Attempt
  <1>2. Joined(ws) \in 0 .. Room(Len(ws)) - 1
    BY <1>1, JoinedIsBelow
  <1>3. Joined(ws) \in Int
    BY <1>2
  <1>4. PowerOfTwo[BitCount(b)] \in Nat \ {0}
    <2>1. BitCount(b) \in Nat
      BY BitsSuffice
    <2>2. PowerOfTwo[BitCount(b)] \in Nat /\ PowerOfTwo[BitCount(b)] > BitCount(b)
      BY <2>1, PowersOfTwo, PowersGrow
    <2> QED
      BY <2>1, <2>2
  <1>5. Joined(ws) % PowerOfTwo[BitCount(b)] \in 0 .. PowerOfTwo[BitCount(b)] - 1
    BY <1>3, <1>4, DivisionHolds
  <1> QED
    BY <1>4, <1>5 DEF Masked

LEMMA ReadingKeeps == DrawInv /\ ReadWord => DrawInv'
PROOF
  <1> SUFFICES ASSUME DrawInv, ReadWord
               PROVE  DrawInv'
    OBVIOUS
  <1>1. /\ null' = null /\ phase' = phase /\ index' = index
        /\ labels' = labels /\ picks' = picks
    BY DEF ReadWord
  <1>2. words' \in Seq(Words)
    <2>1. PICK w \in Words : words' = Append(words, w) \/ words' = <<>>
      BY DEF ReadWord
    <2>2. words \in Seq(Words)
      BY DEF DrawInv
    <2>3. Append(words, w) \in Seq(Words) /\ <<>> \in Seq(Words)
      BY <2>2
    <2> QED
      BY <2>1, <2>3
  <1> QED
    BY <1>1, <1>2 DEF DrawInv

LEMMA AcceptingKeeps == DrawInv /\ AcceptWord => DrawInv'
PROOF
  <1> SUFFICES ASSUME DrawInv, AcceptWord
               PROVE  DrawInv'
    OBVIOUS
  <1> USE DEF DrawInv
  <1>1. null' = null /\ words' = <<>> /\ phase = "draw" /\ words' \in Seq(Words)
    BY DEF AcceptWord
  <1>2. PICK w \in Words :
           LET ws == Append(words, w)
               pick == Masked(ws, Bound)
           IN  /\ pick < Bound
               /\ picks' = Append(picks, pick)
               /\ labels' = IF Circular(null) THEN ShiftAt(null.parameter, pick) ELSE Exchanged(pick)
               /\ index' = IF Circular(null) THEN 0 ELSE index - 1
               /\ phase' = IF index' = 0 THEN "drawn" ELSE "draw"
    BY DEF AcceptWord
  <1> DEFINE ws == Append(words, w)
             pick == Masked(ws, Bound)
  <1>3. ws \in Seq(Words)
    OBVIOUS
  <1>4. CASE Circular(null)
    <2> DEFINE c == ShiftCount(null.length, null.parameter)
    <2>1. Bound = c /\ c \in Nat \ {0, 1}
      BY <1>4, NullFacts DEF Bound
    <2>2. pick \in Nat
      BY <1>3, <2>1, MaskedIsNatural
    <2>3. pick < c
      BY <1>2, <2>1
    <2>4. picks' = Append(picks, pick) /\ labels' = ShiftAt(null.parameter, pick) /\ index' = 0 /\ phase' = "drawn"
      BY <1>2, <1>4
    <2>5. picks = <<>>
      BY <1>1, <1>4
    <2> HIDE DEF pick, c
    <2>6. pick \in 0 .. c - 1 /\ picks' = << pick >>
      BY <2>1, <2>2, <2>3, <2>4, <2>5
    <2>7. \E k \in 0 .. c - 1 : picks' = << k >> /\ labels' = ShiftAt(null.parameter, k)
      BY <2>4, <2>6
    <2> QED
      BY <1>1, <1>4, <2>4, <2>7 DEF c
  <1>5. CASE ~Circular(null)
    <2> DEFINE q == BlockCount(null)
               i == q - 1 - index
    <2>1. q \in Nat \ {0, 1}
      BY <1>5, NullFacts
    <2>2. index \in 0 .. q - 1 /\ index # 0 /\ picks \in Indices(q, i) /\ labels = OrderOf(picks, q)
      BY <1>1, <1>5
    <2>3. Bound = index + 1 /\ Bound \in Nat \ {0}
      BY <1>5, <2>1, <2>2 DEF Bound
    <2>4. pick \in Nat
      BY <1>3, <2>3, MaskedIsNatural
    <2>5. pick < index + 1
      BY <1>2, <2>3
    <2>6. /\ picks' = Append(picks, pick) /\ labels' = Exchanged(pick)
          /\ index' = index - 1 /\ phase' = IF index' = 0 THEN "drawn" ELSE "draw"
      BY <1>2, <1>5
    <2> HIDE DEF pick, q
    <2>7. /\ q \in Nat /\ i \in Nat /\ i \in 0 .. q - 1 /\ q - (i + 1) = index
          /\ pick <= q - (i + 1) /\ index' \in 0 .. q - 1 /\ q - 1 - index' = i + 1
      BY <2>1, <2>2, <2>4, <2>5, <2>6
    <2> HIDE DEF i
    <2>8. picks' \in Indices(q, q - 1 - index')
      BY <2>2, <2>4, <2>6, <2>7, IndicesGrow
    <2>9. labels' = OrderOf(picks', q)
      <3>1. OrderOf(Append(picks, pick), q) = Exchange(OrderOf(picks, q), q - (i + 1), pick)
        BY <2>2, <2>4, <2>7, OrderOfGrows
      <3>2. Exchange(labels, index, pick) = Exchanged(pick)
        BY DEF Exchange, Exchanged
      <3> QED
        BY <2>2, <2>6, <2>7, <3>1, <3>2
    <2> QED
      BY <1>1, <1>5, <2>6, <2>7, <2>8, <2>9 DEF q
  <1> QED
    BY <1>4, <1>5

LEMMA DrawInvariance == DrawSpec => []DrawInv
PROOF
  <1>1. DrawInv /\ [DrawNext]_drawVars => DrawInv'
    <2> SUFFICES ASSUME DrawInv, [DrawNext]_drawVars
                 PROVE  DrawInv'
      OBVIOUS
    <2>1. CASE ReadWord
      BY <2>1, ReadingKeeps
    <2>2. CASE AcceptWord
      BY <2>2, AcceptingKeeps
    <2>3. CASE UNCHANGED drawVars
      BY <2>3 DEF drawVars, DrawInv
    <2> QED
      BY <2>1, <2>2, <2>3 DEF DrawNext, Drawn
  <1> QED
    BY <1>1, DrawStarts, PTL DEF DrawSpec

\* Rounding up: the words of an attempt have the bits a bound needs.
LEMMA WordsSuffice ==
    ASSUME NEW b \in Nat \ {0}
    PROVE  WordsPerAttempt(b) \in Nat /\ BitCount(b) <= WordsPerAttempt(b) * WordBits
PROOF
  <1> DEFINE y == BitCount(b) + WordBits - 1
             d == y \div WordBits
             r == y % WordBits
  <1>1. BitCount(b) \in Nat /\ WordBits \in Nat \ {0} /\ y \in Nat
    <2>1. BitCount(b) \in Nat
      BY BitsSuffice
    <2> QED
      BY <2>1, WordBitsAssumption
  <1>2. y = d * WordBits + r /\ d \in Int /\ r \in 0 .. WordBits - 1
    <2>1. y \in Int
      BY <1>1
    <2> HIDE DEF y
    <2> QED
      BY <1>1, <2>1, DivisionHolds
  <1>3. WordsPerAttempt(b) = d
    BY DEF WordsPerAttempt
  <1>4. y = BitCount(b) + WordBits - 1
    OBVIOUS
  <1> HIDE DEF d, r, y
  <1>5. d * WordBits \in Int
    BY <1>1, <1>2
  <1>6. BitCount(b) <= d * WordBits
    BY <1>1, <1>2, <1>4, <1>5
  <1>7. d >= 0
    <2> SUFFICES ASSUME d + 1 <= 0
                 PROVE  FALSE
      BY <1>2
    <2>1. d * WordBits + WordBits <= 0 * WordBits
      BY <1>1, <1>2, ProductsGrow, OneMoreFactor
    <2>2. 0 * WordBits = 0
      BY <1>1
    <2> QED
      BY <1>1, <1>5, <1>6, <2>1, <2>2
  <1> QED
    BY <1>2, <1>3, <1>6, <1>7

\* randbelow of any bound, for words of any width.
LEMMA AttemptsOnABoundAreUniform ==
    ASSUME NEW b \in Nat \ {0}, NEW v \in 0 .. b - 1
    PROVE  LET hits(u) == {ws \in [1 .. WordsPerAttempt(b) -> Words] : Masked(ws, b) = u}
           IN  Cardinality(hits(0)) > 0 /\ Cardinality(hits(v)) = Cardinality(hits(0))
PROOF
  <1> DEFINE i == WordsPerAttempt(b)
             k == BitCount(b)
             low(u) == {ws \in Attempt(i) : Joined(ws) % PowerOfTwo[k] = u}
  <1>1. i \in Nat /\ k \in Nat /\ k <= i * WordBits /\ PowerOfTwo[k] >= b
    BY WordsSuffice, BitsSuffice
  <1>2. \A u : {ws \in [1 .. i -> Words] : Masked(ws, b) = u} = low(u)
    BY <1>1, AttemptsAreSequences DEF Masked
  <1> HIDE DEF i, k
  <1>3. v \in 0 .. PowerOfTwo[k] - 1 /\ 0 \in 0 .. PowerOfTwo[k] - 1
    <2>1. PowerOfTwo[k] \in Nat
      BY <1>1, PowersOfTwo
    <2> QED
      BY <1>1, <2>1
  <1>4. IsFiniteSet(low(0)) /\ low(0) # {} /\ Cardinality(low(v)) = Cardinality(low(0))
    BY <1>1, <1>3, LowBitsAreUniform
  <1>5. Cardinality(low(0)) > 0
    <2> HIDE DEF low
    <2>1. Cardinality(low(0)) \in Nat /\ Cardinality(low(0)) # 0
      BY <1>4, FS_CardinalityType, FS_EmptySet
    <2> QED
      BY <2>1
  <1> HIDE DEF low
  <1>6. /\ Cardinality({ws \in [1 .. i -> Words] : Masked(ws, b) = 0}) = Cardinality(low(0))
        /\ Cardinality({ws \in [1 .. i -> Words] : Masked(ws, b) = v}) = Cardinality(low(v))
    BY <1>2
  <1> QED
    BY <1>4, <1>5, <1>6 DEF i

\* Whatever the bound and the width of a word: every value below the bound is the value of as
\* many attempts as any other, and of at least one (uniform_randbelow).
THEOREM AttemptsStayUniform == DrawSpec => []AttemptsAreUniform
PROOF
  <1>1. DrawInv => AttemptsAreUniform
    <2> SUFFICES ASSUME DrawInv, phase = "draw"
                 PROVE  LET attempts == [1 .. WordsPerAttempt(Bound) -> Words]
                            hits(v) == Cardinality({ws \in attempts : Masked(ws, Bound) = v})
                        IN  /\ hits(0) > 0
                            /\ \A v \in 0 .. Bound - 1 : hits(v) = hits(0)
      BY DEF AttemptsAreUniform
    <2>1. Bound \in Nat \ {0}
      <3>1. CASE Circular(null)
        BY <3>1, NullFacts DEF Bound, DrawInv
      <3>2. CASE ~Circular(null)
        <4>1. BlockCount(null) \in Nat \ {0, 1}
          BY <3>2, NullFacts DEF DrawInv
        <4> QED
          BY <3>2, <4>1 DEF Bound, DrawInv
      <3> QED
        BY <3>1, <3>2
    <2> DEFINE b == Bound
               hits(v) == Cardinality({ws \in [1 .. WordsPerAttempt(b) -> Words] : Masked(ws, b) = v})
    <2> HIDE DEF b
    <2>2. \A v \in 0 .. b - 1 : hits(0) > 0 /\ hits(v) = hits(0)
      BY <2>1, AttemptsOnABoundAreUniform DEF b
    <2>3. 0 \in 0 .. b - 1
      BY <2>1 DEF b
    <2>4. hits(0) > 0 /\ \A v \in 0 .. b - 1 : hits(v) = hits(0)
      BY <2>2, <2>3
    <2> QED
      BY <2>4 DEF b
  <1> QED
    BY <1>1, DrawInvariance, PTL

LEMMA BlockSequences ==
    ASSUME null \in Nulls, ~Circular(null)
    PROVE  IndexSequences = Draws(BlockCount(null))
PROOF
  <1> DEFINE q == BlockCount(null)
             S == {Bounds[j] : j \in DOMAIN Bounds}
  <1>1. q \in Nat \ {0, 1}
    BY NullFacts
  <1>2. Bounds = [k \in 1 .. q - 1 |-> q - k + 1]
    BY DEF Bounds
  <1> HIDE DEF q
  <1>3. DOMAIN Bounds = 1 .. q - 1 /\ \A j \in 1 .. q - 1 : Bounds[j] = q - j + 1
    BY <1>2
  <1>4. q \in S /\ S \subseteq 1 .. q
    <2>1. 1 \in 1 .. q - 1 /\ q - 1 + 1 = q
      BY <1>1
    <2> QED
      BY <1>1, <1>3, <2>1
  <1>5. Max(S) = q
    <2>1. IsFiniteSet(S)
      <3>1. 1 \in Int /\ q \in Int
        BY <1>1
      <3>2. IsFiniteSet(1 .. q) /\ S \in SUBSET (1 .. q)
        BY <1>4, <3>1, FS_Interval
      <3> HIDE DEF S
      <3> QED
        BY <3>2, FS_Subset
    <2>2. S # {} /\ S \subseteq Int
      BY <1>1, <1>4
    <2> HIDE DEF S
    <2>3. Max(S) \in S /\ \A y \in S : Max(S) >= y
      BY <2>1, <2>2, MaxOfFiniteSet
    <2>4. Max(S) \in 1 .. q /\ Max(S) >= q
      BY <1>4, <2>3
    <2> QED
      BY <1>1, <2>4
  <1>6. IndexSequences = {ks \in [1 .. q - 1 -> 0 .. q - 1] : \A j \in 1 .. q - 1 : ks[j] < q - j + 1}
    <2>1. IndexSequences = {ks \in [1 .. q - 1 -> 0 .. q - 1] : \A j \in 1 .. q - 1 : ks[j] < Bounds[j]}
      BY <1>3, <1>5 DEF IndexSequences
    <2> QED
      BY <1>3, <2>1
  <1>7. ASSUME NEW ks \in [1 .. q - 1 -> 0 .. q - 1], \A j \in 1 .. q - 1 : ks[j] < q - j + 1
        PROVE  ks \in Draws(q)
    <2>1. ks \in [1 .. q - 1 -> Nat] /\ q - 1 \in Nat
      BY <1>1
    <2>2. ks \in Seq(Nat) /\ Len(ks) = q - 1
      BY <2>1
    <2>3. \A j \in 1 .. q - 1 : ks[j] <= q - j
      BY <1>1, <1>7
    <2> QED
      BY <2>2, <2>3 DEF Draws, Indices
  <1>8. ASSUME NEW ks \in Draws(q)
        PROVE  ks \in [1 .. q - 1 -> 0 .. q - 1] /\ \A j \in 1 .. q - 1 : ks[j] < q - j + 1
    <2>1. ks \in Seq(Nat) /\ Len(ks) = q - 1 /\ \A j \in 1 .. q - 1 : ks[j] \in Nat /\ ks[j] <= q - j
      BY <1>1 DEF Draws, Indices
    <2>2. \A j \in 1 .. q - 1 : ks[j] \in 0 .. q - 1 /\ ks[j] < q - j + 1
      BY <1>1, <2>1
    <2>3. ks = [j \in 1 .. q - 1 |-> ks[j]]
      BY <2>1
    <2> QED
      BY <2>2, <2>3
  <1> QED
    BY <1>6, <1>7, <1>8 DEF q

\* Among the index sequences of a block draw one alone leads to an order.
LEMMA BlockDrawsAreCounted ==
    ASSUME null \in Nulls, ~Circular(null)
    PROVE  /\ Cardinality(IndexSequences) = Cardinality(Orders(BlockCount(null)))
           /\ StateTotal(null) > MaxExactStates => Cardinality(IndexSequences) > MaxExactStates
           /\ ~(StateTotal(null) > MaxExactStates) => Cardinality(IndexSequences) = StateTotal(null)
PROOF
  <1> DEFINE q == BlockCount(null)
             f == [ks \in Draws(q) |-> OrderOf(ks, q)]
  <1>1. q \in Nat \ {0, 1}
    BY NullFacts
  <1>2. IndexSequences = Draws(q)
    BY BlockSequences
  <1>3. StateTotal(null) = CappedFactorial(q)
    BY DEF StateTotal
  <1> HIDE DEF q
  <1>4. IsFiniteSet(Draws(q)) /\ Cardinality(Draws(q)) \in Nat
    BY <1>1, DrawCounts
  <1>5. ExistsBijection(Draws(q), Orders(q))
    <2>0. q \in Nat /\ q \in Nat \ {0} /\ q - 1 \in 0 .. q
      BY <1>1
    <2>1. f \in [Draws(q) -> Orders(q)]
      BY <2>0, OrderOfIsAnOrder DEF Draws
    <2>2. \A ks, ls \in Draws(q) : f[ks] = f[ls] => ks = ls
      <3>1. Ascending(q) \in Orders(q)
        BY <2>0, AscendingIsAnOrder
      <3> QED
        BY <2>0, <3>1, DrawsAreOneToOne DEF Draws
    <2>3. \A t \in Orders(q) : \E ks \in Draws(q) : f[ks] = t
      BY <2>0, DrawsAreOneToOne DEF Draws
    <2> HIDE DEF f
    <2>4. f \in Bijection(Draws(q), Orders(q))
      BY <2>1, <2>2, <2>3, Fun_IsBij
    <2> QED
      BY <2>4 DEF ExistsBijection
  <1>6. Cardinality(Orders(q)) = Cardinality(Draws(q))
    BY <1>4, <1>5, FS_Bijection
  <1>7. CappedFactorial(q) = IF Cardinality(Draws(q)) > MaxExactStates
                             THEN MaxExactStates + 1
                             ELSE Cardinality(Draws(q))
    <2>1. q \in Nat \ {0}
      BY <1>1
    <2> QED
      BY <2>1, CappedFactorialCounts
  <1> QED
    BY <1>2, <1>3, <1>4, <1>6, <1>7, MaxExactStatesAssumption DEF q

\* A circular draw has one index for each shift.
LEMMA CircularDrawsAreCounted ==
    ASSUME null \in Nulls, Circular(null)
    PROVE  /\ IndexSequences = {ks \in [1 .. 1 -> 0 .. ShiftCount(null.length, null.parameter) - 1] : TRUE}
           /\ Bounds[1] = ShiftCount(null.length, null.parameter)
           /\ Cardinality(IndexSequences) = StateTotal(null)
           /\ StatesOf(null) = NonidentityStates(null) \cup {0}
           /\ Cardinality(StatesOf(null)) = StateTotal(null)
PROOF
  <1> DEFINE size == null.length
             m == null.parameter
             c == ShiftCount(size, m)
  <1>1. size \in Nat /\ m \in Nat \ {0} /\ 2 * m <= size /\ c \in Nat \ {0, 1} /\ c = size - 2 * m + 2
    BY NullFacts DEF ShiftCount
  <1>2. Bounds = << c >>
    BY DEF Bounds
  <1>3. StateTotal(null) = c
    BY DEF StateTotal, ShiftCount
  <1>4. StatesOf(null) = Shifts(size, m) /\ NonidentityStates(null) = m .. size - m
    BY DEF StatesOf, NonidentityStates
  <1> HIDE DEF size, m, c
  <1>5. DOMAIN Bounds = 1 .. 1 /\ Bounds[1] = c /\ \A j \in 1 .. 1 : j = 1
    BY <1>2
  <1>6. Max({Bounds[j] : j \in DOMAIN Bounds}) = c
    <2>1. {Bounds[j] : j \in DOMAIN Bounds} = {c}
      BY <1>5
    <2>2. IsFiniteSet({c}) /\ {c} # {} /\ {c} \subseteq Int
      <3>1. c \in Int
        BY <1>1
      <3>2. IsFiniteSet({c})
        BY FS_Singleton
      <3> QED
        BY <3>1, <3>2
    <2>3. Max({c}) \in {c}
      BY <2>2, MaxOfFiniteSet
    <2> QED
      BY <2>1, <2>3
  <1>7. IndexSequences = {ks \in [1 .. 1 -> 0 .. c - 1] : TRUE}
    <2>1. IndexSequences = {ks \in [1 .. 1 -> 0 .. c - 1] : \A j \in 1 .. 1 : ks[j] < Bounds[j]}
      BY <1>5, <1>6 DEF IndexSequences
    <2>2. \A ks \in [1 .. 1 -> 0 .. c - 1] : \A j \in 1 .. 1 : ks[j] < Bounds[j]
      BY <1>1, <1>5
    <2> QED
      BY <2>1, <2>2
  <1>8. Cardinality(IndexSequences) = c
    <2> DEFINE T == 0 .. c - 1
               f == [k \in T |-> [j \in 1 .. 1 |-> k]]
               U == [1 .. 1 -> T]
    <2>1. 1 \in 1 .. 1 /\ \A j \in 1 .. 1 : j = 1
      OBVIOUS
    <2>2. f \in [T -> U]
      OBVIOUS
    <2>3. \A k, l \in T : f[k] = f[l] => k = l
      <3>1. \A k \in T : f[k][1] = k
        BY <2>1
      <3> HIDE DEF f
      <3> QED
        BY <3>1
    <2>4. \A ks \in U : \E k \in T : f[k] = ks
      <3> SUFFICES ASSUME NEW ks \in U
                   PROVE  f[ks[1]] = ks /\ ks[1] \in T
        OBVIOUS
      <3>1. ks[1] \in T
        BY <2>1
      <3>2. f[ks[1]] = [j \in 1 .. 1 |-> ks[1]]
        BY <3>1
      <3>3. ks = [j \in 1 .. 1 |-> ks[j]]
        OBVIOUS
      <3> QED
        BY <2>1, <3>1, <3>2, <3>3
    <2>5. IsFiniteSet(T) /\ Cardinality(T) = c
      <3>1. 0 \in Int /\ c - 1 \in Int /\ ~(0 > c - 1) /\ (c - 1) - 0 + 1 = c
        BY <1>1
      <3> QED
        BY <3>1, FS_Interval
    <2>6. IndexSequences = U
      BY <1>7
    <2> HIDE DEF T, U, f
    <2>7. f \in Bijection(T, U)
      BY <2>2, <2>3, <2>4, Fun_IsBij
    <2>8. ExistsBijection(T, U)
      BY <2>7 DEF ExistsBijection
    <2> QED
      BY <2>5, <2>6, <2>8, FS_Bijection
  <1>9. Shifts(size, m) = (m .. size - m) \cup {0}
    BY <1>1 DEF Shifts, InShifts
  <1>10. Cardinality((m .. size - m) \cup {0}) = c
    <2>1. m \in Int /\ size - m \in Int /\ ~(m > size - m) /\ 0 \notin m .. size - m
      BY <1>1
    <2>2. IsFiniteSet(m .. size - m) /\ Cardinality(m .. size - m) = (size - m) - m + 1
      BY <2>1, FS_Interval
    <2>3. Cardinality((m .. size - m) \cup {0}) = Cardinality(m .. size - m) + 1
      BY <2>1, <2>2, FS_AddElement
    <2> QED
      BY <1>1, <2>2, <2>3
  <1>11. Cardinality(Shifts(size, m)) = c
    BY <1>9, <1>10
  <1> QED
    BY <1>3, <1>4, <1>5, <1>7, <1>8, <1>9, <1>11 DEF size, m, c

\* Whatever the null: a drawn state is a state of the space, exactly one index sequence leads to
\* it, and there are as many sequences as the oracle counts states, or more than its cap when it
\* counts none (sample_token, exact_state_oracle_v0).
THEOREM EveryStateIsDrawnOnce == DrawSpec => []EveryStateHasOneDraw
PROOF
  <1>1. DrawInv => EveryStateHasOneDraw
    <2> SUFFICES ASSUME DrawInv, phase = "drawn"
                 PROVE  EveryStateHasOneDraw
      BY DEF EveryStateHasOneDraw
    <2>0. null \in Nulls
      BY DEF DrawInv
    <2> DEFINE size == null.length
               m == null.parameter
               c == ShiftCount(size, m)
               q == BlockCount(null)
    <2>1. OracleStatus(null) = IF StateTotal(null) > MaxExactStates
                               THEN "EXACT_STATE_CAP_EXCEEDED" ELSE "ENUMERATES"
      BY <2>0, NullFacts
    <2>2. CASE Circular(null)
      <3>0. size \in Nat /\ m \in Nat \ {0} /\ 2 * m <= size /\ c \in Nat \ {0, 1} /\ c = size - 2 * m + 2
        BY <2>0, <2>2, NullFacts DEF ShiftCount
      <3>1. PICK k \in 0 .. c - 1 : picks = << k >> /\ labels = ShiftAt(m, k)
        BY <2>2 DEF DrawInv
      <3>2. /\ IndexSequences = {ks \in [1 .. 1 -> 0 .. c - 1] : TRUE}
            /\ Bounds[1] = c
            /\ Cardinality(IndexSequences) = StateTotal(null)
            /\ StatesOf(null) = NonidentityStates(null) \cup {0}
            /\ Cardinality(StatesOf(null)) = StateTotal(null)
        BY <2>0, <2>2, CircularDrawsAreCounted
      <3>3. IdentityState(null) = 0 /\ NonidentityStates(null) = m .. size - m /\ StateTotal(null) = c
        BY <2>2 DEF IdentityState, NonidentityStates, StateTotal, ShiftCount
      <3> HIDE DEF c, m, size
      <3>4. labels \in StatesOf(null)
        BY <3>0, <3>1, <3>2, <3>3 DEF ShiftAt
      <3>5. picks \in IndexSequences
        BY <3>1, <3>2
      <3>6. picks[1] = k
        BY <3>1
      <3>7. \A j \in 0 .. Bounds[1] - 1 : ShiftAt(m, j) = labels => j = picks[1]
        BY <3>0, <3>1, <3>2, <3>6 DEF ShiftAt
      <3>8. OracleStatus(null) # "ENUMERATES" => Cardinality(IndexSequences) > MaxExactStates
        BY <2>1, <3>2
      <3> QED
        BY <2>2, <3>2, <3>3, <3>4, <3>5, <3>7, <3>8 DEF EveryStateHasOneDraw, m
    <2>3. CASE ~Circular(null)
      <3>1. q \in Nat \ {0, 1}
        BY <2>0, <2>3, NullFacts
      <3>2. index = 0 /\ picks \in Indices(q, q - 1 - index) /\ labels = OrderOf(picks, q)
        BY <2>3 DEF DrawInv
      <3>3. IndexSequences = Draws(q)
        BY <2>0, <2>3, BlockSequences
      <3>4. /\ Cardinality(IndexSequences) = Cardinality(Orders(q))
            /\ StateTotal(null) > MaxExactStates => Cardinality(IndexSequences) > MaxExactStates
            /\ ~(StateTotal(null) > MaxExactStates) => Cardinality(IndexSequences) = StateTotal(null)
        BY <2>0, <2>3, BlockDrawsAreCounted
      <3>5. /\ StatesOf(null) = Orders(q) /\ IdentityState(null) = Ascending(q)
            /\ NonidentityStates(null) = Orders(q) \ {Ascending(q)}
        BY <2>3 DEF StatesOf, IdentityState, NonidentityStates
      <3> HIDE DEF q
      <3>6. q \in Nat /\ q \in Nat \ {0} /\ q - 1 \in 0 .. q /\ q - 1 - index = q - 1
        BY <3>1, <3>2
      <3>7. picks \in Draws(q) /\ labels \in Orders(q)
        <4>1. picks \in Indices(q, q - 1)
          BY <3>2, <3>6
        <4> QED
          BY <3>2, <3>6, <4>1, OrderOfIsAnOrder DEF Draws
      <3>8. Ascending(q) \in Orders(q)
        BY <3>6, AscendingIsAnOrder
      <3>9. {ks \in IndexSequences : OrderOf(ks, q) = labels} = {picks}
        <4>1. \A ks, ls \in Draws(q) : OrderOf(ks, q) = OrderOf(ls, q) => ks = ls
          BY <3>6, <3>8, DrawsAreOneToOne DEF Draws
        <4> QED
          BY <3>2, <3>3, <3>7, <4>1
      <3>10. StatesOf(null) = NonidentityStates(null) \cup {IdentityState(null)}
        BY <3>5, <3>8
      <3>11. /\ OracleStatus(null) = "ENUMERATES" =>
                   /\ Cardinality(IndexSequences) = StateTotal(null)
                   /\ Cardinality(StatesOf(null)) = StateTotal(null)
             /\ OracleStatus(null) # "ENUMERATES" => Cardinality(IndexSequences) > MaxExactStates
        BY <2>1, <3>4, <3>5
      <3> QED
        BY <2>3, <3>3, <3>5, <3>7, <3>9, <3>10, <3>11 DEF EveryStateHasOneDraw, q
    <2> QED
      BY <2>2, <2>3
  <1> QED
    BY <1>1, DrawInvariance, PTL
=============================================================================
