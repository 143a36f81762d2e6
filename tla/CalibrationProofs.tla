-------------------------- MODULE CalibrationProofs --------------------------
(***************************************************************************)
(* Safety of calibrate_selected_family for every family, statistic, null   *)
(* state space, plan and set of faults: the control, what is returned and  *)
(* what its numbers say, and that a calibration implements the abstract test*)
(* of SelectedFamilyTest.                                                  *)
(***************************************************************************)
EXTENDS CalibrationRefinement, FiniteSetTheorems, WellFoundedInduction, SequenceTheorems, TLAPS

-----------------------------------------------------------------------------
\* The selector, for every finite family of lags

\* A finite, non-empty set of integers has a greatest element, and Max is it: what the
\* selector relies on when it takes the maximum of the scores (selection_v2.py).
LEMMA MaxOfFiniteSet ==
    ASSUME NEW S, IsFiniteSet(S), S # {}, S \subseteq Int
    PROVE  Max(S) \in S /\ \A y \in S : Max(S) >= y
PROOF
  <1> DEFINE Above(x) == {y \in S : y > x}
             Counts   == {Cardinality(Above(x)) : x \in S}
  <1>1. \A x \in S : IsFiniteSet(Above(x)) /\ Cardinality(Above(x)) \in Nat
    <2>1. \A x \in S : Above(x) \in SUBSET S
      OBVIOUS
    <2> QED
      BY <2>1, FS_Subset, FS_CardinalityType
  <1>2. PICK k \in Counts : \A j \in Counts : ~(<<j, k>> \in OpToRel(<, Nat))
    <2>1. Counts \subseteq Nat /\ Counts # {}
      BY <1>1
    <2> HIDE DEF Counts
    <2> QED
      BY <2>1, NatLessThanWellFounded, WFMin
  <1>3. PICK x \in S : k = Cardinality(Above(x))
    BY <1>2
  <1>4. ASSUME NEW y \in S, y > x
        PROVE  FALSE
    <2>1. Above(y) \in SUBSET Above(x)
      BY <1>3, <1>4
    <2>2. y \in Above(x) /\ y \notin Above(y)
      BY <1>3, <1>4
    <2>3. Cardinality(Above(y)) < Cardinality(Above(x))
      <3>1. IsFiniteSet(Above(x)) /\ Cardinality(Above(x)) \in Nat
        BY <1>1
      <3>2. Cardinality(Above(y)) \in Nat
        BY <1>1
      <3> HIDE DEF Above
      <3> QED
        BY <2>1, <2>2, <3>1, <3>2, FS_Subset
    <2>4. <<Cardinality(Above(y)), k>> \in OpToRel(<, Nat)
      BY <1>1, <1>3, <2>3 DEF OpToRel
    <2> QED
      BY <1>2, <2>4
  <1>5. \A y \in S : x >= y
    BY <1>3, <1>4
  <1> QED
    BY <1>5 DEF Max

\* The same for the least element, which the selector takes among the tied lags.
LEMMA MinOfFiniteSet ==
    ASSUME NEW S, IsFiniteSet(S), S # {}, S \subseteq Int
    PROVE  Min(S) \in S /\ \A y \in S : Min(S) <= y
PROOF
  <1> DEFINE Below(x) == {y \in S : y < x}
             Counts   == {Cardinality(Below(x)) : x \in S}
  <1>1. \A x \in S : IsFiniteSet(Below(x)) /\ Cardinality(Below(x)) \in Nat
    <2>1. \A x \in S : Below(x) \in SUBSET S
      OBVIOUS
    <2> QED
      BY <2>1, FS_Subset, FS_CardinalityType
  <1>2. PICK k \in Counts : \A j \in Counts : ~(<<j, k>> \in OpToRel(<, Nat))
    <2>1. Counts \subseteq Nat /\ Counts # {}
      BY <1>1
    <2> HIDE DEF Counts
    <2> QED
      BY <2>1, NatLessThanWellFounded, WFMin
  <1>3. PICK x \in S : k = Cardinality(Below(x))
    BY <1>2
  <1>4. ASSUME NEW y \in S, y < x
        PROVE  FALSE
    <2>1. Below(y) \in SUBSET Below(x)
      BY <1>3, <1>4
    <2>2. y \in Below(x) /\ y \notin Below(y)
      BY <1>3, <1>4
    <2>3. Cardinality(Below(y)) < Cardinality(Below(x))
      <3>1. IsFiniteSet(Below(x)) /\ Cardinality(Below(x)) \in Nat
        BY <1>1
      <3>2. Cardinality(Below(y)) \in Nat
        BY <1>1
      <3> HIDE DEF Below
      <3> QED
        BY <2>1, <2>2, <3>1, <3>2, FS_Subset
    <2>4. <<Cardinality(Below(y)), k>> \in OpToRel(<, Nat)
      BY <1>1, <1>3, <2>3 DEF OpToRel
    <2> QED
      BY <1>2, <2>4
  <1>5. \A y \in S : x <= y
    BY <1>3, <1>4
  <1> QED
    BY <1>5 DEF Min

-----------------------------------------------------------------------------
\* The scores of a family whose estimates are all valid are finitely many integers.
LEMMA ScoresAreFinite ==
    ASSUME NEW v \in [Candidates -> Int]
    PROVE  LET scores == {Score(v[c]) : c \in Candidates}
           IN  IsFiniteSet(scores) /\ scores # {} /\ scores \subseteq Int
PROOF
  <1> DEFINE scores == {Score(v[c]) : c \in Candidates}
             f == [c \in Candidates |-> Score(v[c])]
  <1>1. f \in Surjection(Candidates, scores)
    BY DEF Surjection
  <1>2. IsFiniteSet(scores)
    BY <1>1, CandidatesAssumption, FS_Surjection
  <1>3. scores # {} /\ scores \subseteq Int
    <2>1. \A e \in Int : Score(e) \in Int
      BY DEF Score, Magnitude
    <2>2. \A c \in Candidates : v[c] \in Int
      OBVIOUS
    <2> QED
      BY <2>1, <2>2, CandidatesAssumption
  <1> QED
    BY <1>2, <1>3

\* The decision is the score of some candidate and no candidate scores more: the family
\* maximum of select_family_v2 is attained.
THEOREM DecisionIsMaximum ==
    ASSUME NEW v \in [Candidates -> Int]
    PROVE  /\ Decision(v) \in Int
           /\ \E c \in Candidates : Decision(v) = Score(v[c])
           /\ \A c \in Candidates : Decision(v) >= Score(v[c])
PROOF
  <1> DEFINE scores == {Score(v[c]) : c \in Candidates}
  <1>1. IsFiniteSet(scores) /\ scores # {} /\ scores \subseteq Int
    BY ScoresAreFinite
  <1>2. Decision(v) = Max(scores)
    BY DEF Decision
  <1>3. Max(scores) \in scores /\ \A y \in scores : Max(scores) >= y
    <2> HIDE DEF scores
    <2> QED
      BY <1>1, MaxOfFiniteSet
  <1> QED
    BY <1>1, <1>2, <1>3

\* The tied set is never empty and its label is its smallest lag, whatever the tolerance:
\* select_family_v2 always finds a first tied candidate.
THEOREM SelectedIsSmallestTied ==
    ASSUME NEW v \in [Candidates -> Int]
    PROVE  /\ SelectedCandidate(v) \in Tied(v)
           /\ \A c \in Tied(v) : SelectedCandidate(v) <= c
PROOF
  <1>1. PICK c \in Candidates : Decision(v) = Score(v[c])
    BY DecisionIsMaximum
  <1>2. c \in Tied(v)
    BY <1>1, DecisionIsMaximum, ToleranceAssumption DEF Tied
  <1>3. Tied(v) \in SUBSET Candidates
    BY DEF Tied
  <1>4. IsFiniteSet(Tied(v))
    BY <1>3, CandidatesAssumption, FS_Subset
  <1>5. Tied(v) # {}
    BY <1>2
  <1>6. Tied(v) \subseteq Int
    <2>1. \A d \in Candidates : d \in Int
      BY CandidatesAssumption
    <2>2. \A d \in Tied(v) : d \in Candidates
      BY <1>3
    <2> QED
      BY <2>1, <2>2
  <1> QED
    BY <1>4, <1>5, <1>6, MinOfFiniteSet DEF SelectedCandidate

-----------------------------------------------------------------------------
\* The calibrator

IInv == TypeOK /\ ControlInv

-----------------------------------------------------------------------------
\* A change of drift stays within the components and within the reach of the callback.
LEMMA DriftStaysInReach ==
    ASSUME NEW parts, NEW d \in DriftsOf(parts)
    PROVE  /\ d \in SUBSET Components
           /\ \A c \in d : c \in drift \/ c \in parts
PROOF
  BY DEF DriftsOf

\* An evaluation is a vector, and a valid one has its decision among the scores.
LEMMA DecisionIsAScore ==
    ASSUME NEW v \in Vectors, AllValid(v)
    PROVE  v \in [Candidates -> Int] /\ Decision(v) \in DecisionValues
PROOF
  <1>1. \A c \in Candidates : v[c] \in Estimates
    BY DEF Vectors, AllValid
  <1>2. v \in [Candidates -> Int]
    BY <1>1, CalibrationAssumption DEF Vectors
  <1>3. PICK c \in Candidates : Decision(v) = Score(v[c])
    BY <1>2, DecisionIsMaximum
  <1> QED
    BY <1>1, <1>2, <1>3 DEF DecisionValues

LEMMA EvaluationsAreVectors ==
    ASSUME TypeOK, NEW s \in States, NEW d, NEW v \in Evaluations(s, d)
    PROVE  v \in Vectors
PROOF
  BY DEF TypeOK, Evaluations

\* The counts of a history are natural numbers.
LEMMA CountsAreNatural ==
    ASSUME NEW outcomes \in Seq(Outcomes), NEW a
    PROVE  ExceedanceCount(outcomes, a) \in Nat /\ FailureCount(outcomes) \in Nat
PROOF
  <1> DEFINE D == DOMAIN outcomes
             E == {i \in D : outcomes[i].status = "COMPLETE" /\ outcomes[i].decision >= a}
             F == {i \in D : outcomes[i].status = "ANALYTIC_FAILURE"}
  <1>1. D = 1 .. Len(outcomes) /\ Len(outcomes) \in Nat
    OBVIOUS
  <1>2. IsFiniteSet(D)
    <2> HIDE DEF D
    <2> QED
      BY <1>1, FS_Interval
  <1>3. E \in SUBSET D /\ F \in SUBSET D
    OBVIOUS
  <1>4. Cardinality(E) \in Nat /\ Cardinality(F) \in Nat
    <2> HIDE DEF D, E, F
    <2> QED
      BY <1>2, <1>3, FS_Subset, FS_CardinalityType
  <1> QED
    BY <1>4 DEF ExceedanceCount, FailureCount

LEMMA FinalResultType ==
    ASSUME TypeOK,
           NEW outcomes \in Seq(Outcomes), NEW vector \in Vectors, AllValid(vector),
           NEW a \in DecisionValues, NEW pl \in Plans
    PROVE  FinalResult(outcomes, vector, a, pl) \in ResultFields
PROOF
  <1> DEFINE E == ExceedanceCount(outcomes, a)
             F == FailureCount(outcomes)
             B == pl.replicates
  <1>1. E \in Nat /\ F \in Nat
    BY CountsAreNatural
  <1>2. B \in Nat
    BY CalibrationAssumption
  <1>3. PlusOne(E, B) \in Nat \X Nat
    BY <1>1, <1>2 DEF PlusOne
  <1>4. FailureBound(E, 0, B) \in Nat \X Nat /\ FailureBound(E, F, B) \in Nat \X Nat
    BY <1>1, <1>2 DEF FailureBound
  <1>5. AtMost(PlusOne(E, B), pl.alpha) \in BOOLEAN
    BY DEF AtMost
  <1>6. SelectedCandidate(vector) \in Candidates
    BY DecisionIsAScore, SelectedIsSmallestTied DEF Tied
  <1> HIDE DEF E, F, B
  <1>7. plan \in Plans
    BY DEF TypeOK
  <1> QED
    BY <1>1, <1>3, <1>4, <1>5, <1>6, <1>7, ZenonT(60)
    DEF FinalResult, Result, ResultFields, Stages, E, F, B

LEMMA TerminalResultType ==
    ASSUME TypeOK, NEW stage \in Stages, NEW vector \in Vectors \cup {NoValue}
    PROVE  TerminalResult(stage, vector) \in ResultFields
PROOF
  BY EmptySeq DEF TypeOK, TerminalResult, Result, ResultFields

-----------------------------------------------------------------------------
\* Steps of the preparation

LEMMA InitEstablishes ==
    Init => IInv
PROOF
  <1> SUFFICES ASSUME Init
               PROVE  IInv
    OBVIOUS
  <1>1. Len(history) <= plan.replicates
    BY EmptySeq, CalibrationAssumption DEF Init
  <1>2. TypeOK
    BY <1>1, EmptySeq DEF Init, TypeOK
  <1>3. ControlInv
    BY DEF Init, ControlInv, Prepared, Loop, BeforeLoop
  <1> QED
    BY <1>2, <1>3 DEF IInv

LEMMA BindStatisticKeeps ==
    ASSUME IInv, BindStatistic
    PROVE  IInv'
PROOF
  <1>1. TypeOK'
    BY DriftStaysInReach DEF IInv, TypeOK, BindStatistic
  <1>2. drift' \cap {"history", "token"} = {}
    BY DriftStaysInReach DEF IInv, ControlInv, BindStatistic, BeforeLoop
  <1>3. ControlInv'
    BY <1>2 DEF IInv, ControlInv, BindStatistic, BeforeLoop, Loop, Prepared
  <1> QED
    BY <1>1, <1>3 DEF IInv

LEMMA BindNullKeeps ==
    ASSUME IInv, BindNull
    PROVE  IInv'
PROOF
  <1> USE DEF IInv
  <1>1. TypeOK'
    BY DriftStaysInReach DEF TypeOK, BindNull, Proceed, Raise
  <1>2. drift' \cap {"history", "token"} = {}
    BY DriftStaysInReach DEF ControlInv, BindNull, BeforeLoop
  <1>3. ControlInv'
    BY <1>2
    DEF ControlInv, BindNull, Proceed, Raise, ActiveCheck, PartialEnumeration, BeforeLoop, Loop,
        Prepared
  <1> QED
    BY <1>1, <1>3

\* A terminal result leaves the preparation only on a graph that is still its snapshot.
LEMMA TerminateKeeps ==
    ASSUME IInv, NEW stage \in Stages, NEW vector \in Vectors \cup {NoValue},
           NEW parts \in SUBSET (PreparedGraph \cup {"globals"}),
           pc \in BeforeLoop, Terminate(stage, vector, parts)
    PROVE  IInv'
PROOF
  <1> USE DEF IInv
  <1>1. TerminalResult(stage, vector) \in ResultFields
    BY TerminalResultType
  <1>2. PICK d \in DriftsOf(parts) :
            drift' = d /\ Proceed(ActiveCheck(drift) /\ FinalCheck(d), "verify")
    BY DEF Terminate
  <1>3. result' \in ResultFields \cup {NoValue} /\ (pc' = "verify" => result' \in ResultFields)
    BY <1>1 DEF Terminate
  <1>4. TypeOK'
    BY <1>2, <1>3, DriftStaysInReach DEF TypeOK, Terminate, Proceed, Raise
  <1>5. "history" \notin drift'
    BY <1>2, DriftStaysInReach DEF ControlInv, PreparedGraph, LightVisible
  <1>6. pc' = "verify" => drift' \cap PreparedGraph = {}
    BY <1>2 DEF Proceed, Raise, FinalCheck
  <1>7. pc' \in {"verify", "raised"}
    BY <1>2 DEF Proceed, Raise
  <1>8. ControlInv'
    BY <1>3, <1>5, <1>6, <1>7 DEF ControlInv, BeforeLoop, Loop, Prepared
  <1> QED
    BY <1>4, <1>8

LEMMA TerminateNullBindKeeps ==
    ASSUME IInv, TerminateNullBind
    PROVE  IInv'
PROOF
  BY TerminateKeeps DEF TerminateNullBind, Stages, BeforeLoop

LEMMA TerminateObservedScanKeeps ==
    ASSUME IInv, TerminateObservedScan
    PROVE  IInv'
PROOF
  <1>1. observed \in Vectors
    BY DEF IInv, ControlInv, TerminateObservedScan
  <1> QED
    BY <1>1, TerminateKeeps DEF TerminateObservedScan, Stages, BeforeLoop

LEMMA ScanObservedKeeps ==
    ASSUME IInv, ScanObserved
    PROVE  IInv'
PROOF
  <1> USE DEF IInv
  <1>1. PICK d \in DriftsOf(LightVisible \cup {"arrays", "globals"}) :
            /\ drift' = d
            /\ observed' \in Evaluations(Identity, drift \cup d)
            /\ Proceed(ActiveCheck(d),
                       IF AllValid(observed') THEN "prepare" ELSE "close_observed")
    BY DEF ScanObserved
  <1>2. Identity \in States
    BY CalibrationAssumption DEF Identity, States
  <1>3. observed' \in Vectors
    BY <1>1, <1>2, EvaluationsAreVectors
  <1>4. drift' \in SUBSET Components
    BY <1>1, DriftStaysInReach
  <1>5. /\ pc' \in {"prepare", "close_observed", "raised"}
        /\ pc' = "prepare" => AllValid(observed')
        /\ pc' = "close_observed" => ~AllValid(observed')
        /\ error' \in {"integrity", error}
    BY <1>1 DEF Proceed, Raise
  <1>6. TypeOK'
    BY <1>3, <1>4, <1>5 DEF TypeOK, ScanObserved
  <1>7. drift' \cap {"history", "token"} = {}
    BY <1>1, DriftStaysInReach DEF ControlInv, ScanObserved, BeforeLoop, LightVisible
  <1>8. AllValid(observed)' <=> AllValid(observed')
    BY DEF AllValid
  <1>9. ControlInv'
    BY <1>3, <1>5, <1>7, <1>8
    DEF ControlInv, ScanObserved, PartialEnumeration, BeforeLoop, Loop, Prepared
  <1> QED
    BY <1>6, <1>9

LEMMA PrepareKeeps ==
    ASSUME IInv, Prepare
    PROVE  IInv'
PROOF
  <1> USE DEF IInv
  <1>1. PICK d \in DriftsOf(PreparedGraph \cup {"globals"}) :
            /\ drift' = d
            /\ Proceed(ActiveCheck(drift) /\ FinalCheck(d), "admit")
    BY DEF Prepare
  <1>2. TypeOK'
    BY <1>1, DriftStaysInReach DEF TypeOK, Prepare, Proceed, Raise
  <1>3. drift' \cap {"history", "token"} = {}
    BY <1>1, DriftStaysInReach DEF ControlInv, Prepare, BeforeLoop, PreparedGraph, LightVisible
  <1>4. ControlInv'
    BY <1>1, <1>3
    DEF ControlInv, Prepare, Proceed, Raise, AllValid, PartialEnumeration,
        BeforeLoop, Loop, Prepared
  <1> QED
    BY <1>2, <1>4

LEMMA AdmitBudgetKeeps ==
    ASSUME IInv, AdmitBudget
    PROVE  IInv'
PROOF
  <1> USE DEF IInv
  <1>1. PICK d \in DriftsOf(PreparedGraph \cup {"globals"}) :
            /\ drift' = d
            /\ \/ Raise("integrity")
               \/ Raise("resource")
               \/ OwnedCheck(d) /\ GlobalsCheck(d) /\ pc' = "sample" /\ UNCHANGED error
    BY DEF AdmitBudget
  <1>2. TypeOK'
    BY <1>1, DriftStaysInReach DEF TypeOK, AdmitBudget, Raise
  <1>3. Len(history) < plan.replicates
    BY EmptySeq, CalibrationAssumption DEF TypeOK, ControlInv, AdmitBudget, BeforeLoop
  <1>4. pc' = "sample" => drift' \cap (LightVisible \cup {"globals"}) = {}
    BY <1>1 DEF Raise, OwnedCheck, GlobalsCheck, PreparedGraph
  <1>5. pc' \in {"sample", "raised"}
    BY <1>1 DEF Raise
  <1>6. ControlInv'
    BY <1>3, <1>4, <1>5
    DEF ControlInv, AdmitBudget, AllValid, PartialEnumeration, BeforeLoop, Loop, Prepared
  <1> QED
    BY <1>2, <1>6

-----------------------------------------------------------------------------
\* Steps of the replicate loop

\* What a checkpoint of the loop lets through.
LEMMA LoopCheckIsTight ==
    ASSUME NEW d, LoopCheck(d)
    PROVE  d \cap (LightVisible \cup {"globals"}) = {}
PROOF
  BY DEF LoopCheck, LightCheck, GlobalsCheck

LEMMA DrawsAreStates ==
    ASSUME IInv, pc = "sample", NEW d, NEW s \in Draws(d)
    PROVE  s \in States
PROOF
  <1>1. CASE "null" \in d \/ ~plan.enumerating
    BY <1>1 DEF Draws
  <1>2. CASE ~("null" \in d \/ ~plan.enumerating)
    <2>1. s = Len(history) + 1 /\ plan.enumerating
      BY <1>2 DEF Draws
    <2>2. Len(history) < plan.replicates /\ plan.replicates = StateCount - 1
      BY <2>1 DEF IInv, ControlInv, PartialEnumeration, Prepared, Loop
    <2>3. Len(history) \in Nat
      BY LenProperties DEF IInv, TypeOK
    <2> QED
      BY <2>1, <2>2, <2>3, CalibrationAssumption DEF States
  <1> QED
    BY <1>1, <1>2

LEMMA SampleTokenKeeps ==
    ASSUME IInv, SampleToken
    PROVE  IInv'
PROOF
  <1>1. PICK d \in DriftsOf(LoopParts \ {"token"}) :
            /\ drift' = d
            /\ token' \in Draws(d)
            /\ Proceed(LoopCheck(d), "apply")
    BY DEF SampleToken
  <1>2. token' \in States
    BY <1>1, DrawsAreStates DEF SampleToken
  <1> USE DEF IInv
  <1>3. TypeOK'
    BY <1>1, <1>2, DriftStaysInReach DEF TypeOK, SampleToken, Proceed, Raise
  <1>4. pc' \in {"apply", "raised"}
    BY <1>1 DEF Proceed, Raise
  <1>5. pc' = "apply" => drift' \cap (LightVisible \cup {"globals"}) = {}
    BY <1>1, LoopCheckIsTight DEF Proceed, Raise
  <1>6. ControlInv'
    BY <1>2, <1>4, <1>5
    DEF ControlInv, SampleToken, AllValid, PartialEnumeration, BeforeLoop, Loop, Prepared
  <1> QED
    BY <1>3, <1>6

LEMMA ApplyNullKeeps ==
    ASSUME IInv, ApplyNull
    PROVE  IInv'
PROOF
  <1> USE DEF IInv
  <1>1. PICK d \in DriftsOf(LoopParts) :
            /\ drift' = d
            /\ transformed' \in Reading("arrays", d, token, States)
            /\ Proceed(LoopCheck(d), "evaluate") \/ Raise("integrity")
    BY DEF ApplyNull
  <1>2. transformed' \in States
    BY <1>1 DEF Reading, ControlInv, ApplyNull
  <1>3. TypeOK'
    BY <1>1, <1>2, DriftStaysInReach DEF TypeOK, ApplyNull, Proceed, Raise
  <1>4. pc' \in {"evaluate", "raised"}
    BY <1>1 DEF Proceed, Raise
  <1>5. pc' = "evaluate" => drift' \cap (LightVisible \cup {"globals"}) = {}
    BY <1>1, LoopCheckIsTight DEF Proceed, Raise
  <1>6. ControlInv'
    BY <1>2, <1>4, <1>5
    DEF ControlInv, ApplyNull, AllValid, PartialEnumeration, BeforeLoop, Loop, Prepared
  <1> QED
    BY <1>3, <1>6

\* A registered outcome extends the exact-B history by its next position.
LEMMA RegisterExtends ==
    ASSUME TypeOK, Len(history) < plan.replicates,
           NEW t \in States, NEW status \in {"COMPLETE", "ANALYTIC_FAILURE"},
           NEW v \in Vectors, NEW decision \in DecisionValues \cup {NoValue},
           Register(t, status, v, decision)
    PROVE  /\ history' \in Seq(Outcomes)
           /\ Len(history') = Len(history) + 1
           /\ Len(history') <= plan.replicates
           /\ \A i \in DOMAIN history' : history'[i].id = i - 1
           /\ \A i \in DOMAIN history : i \in DOMAIN history' /\ history'[i] = history[i]
           /\ DOMAIN history' = DOMAIN history \cup {Len(history')}
           /\ history'[Len(history')] = [id |-> Len(history), token |-> t, status |-> status,
                                         vector |-> v, decision |-> decision]
PROOF
  <1> DEFINE o == [id |-> Len(history), token |-> t, status |-> status,
                   vector |-> v, decision |-> decision]
  <1>1. history \in Seq(Outcomes) /\ Len(history) \in Nat /\ plan.replicates \in Nat
    BY CalibrationAssumption DEF TypeOK
  <1>2. o \in Outcomes
    BY <1>1 DEF Outcomes
  <1>3. history' = Append(history, o)
    BY DEF Register
  <1>4. o.id = Len(history)
    OBVIOUS
  <1>5. \A i \in DOMAIN history : history[i].id = i - 1
    BY DEF TypeOK
  <1> HIDE DEF o
  <1>6. /\ history' \in Seq(Outcomes)
        /\ Len(history') = Len(history) + 1
        /\ \A i \in 1 .. Len(history) : history'[i] = history[i]
        /\ history'[Len(history) + 1] = o
    BY <1>1, <1>2, <1>3
  <1>7. DOMAIN history = 1 .. Len(history) /\ DOMAIN history' = 1 .. Len(history')
    BY <1>1, <1>6
  <1>8. \A i \in DOMAIN history' : history'[i].id = i - 1
    BY <1>1, <1>4, <1>5, <1>6, <1>7
  <1> QED
    BY <1>1, <1>6, <1>7, <1>8 DEF o

LEMMA EvaluateReplicateKeeps ==
    ASSUME IInv, EvaluateReplicate
    PROVE  IInv'
PROOF
  <1> USE DEF IInv
  <1>1. PICK d \in DriftsOf(LoopParts) : \E v \in Evaluations(transformed, d) :
            /\ drift' = d
            /\ \/ Raise("integrity") /\ UNCHANGED history
               \/ LoopCheck(d) /\ TokenCheck(d) /\ Conclude(v, d)
    BY DEF EvaluateReplicate
  <1>a. PICK v \in Evaluations(transformed, d) :
            /\ drift' = d
            /\ \/ Raise("integrity") /\ UNCHANGED history
               \/ LoopCheck(d) /\ TokenCheck(d) /\ Conclude(v, d)
    BY <1>1
  <1>2. v \in Vectors
    BY <1>a, EvaluationsAreVectors DEF ControlInv, EvaluateReplicate
  <1>3. drift' \in SUBSET Components
    BY <1>a, DriftStaysInReach
  <1>4. CASE Raise("integrity") /\ UNCHANGED history
    <2>1. TypeOK'
      BY <1>3, <1>4 DEF TypeOK, EvaluateReplicate, Raise
    <2>2. ControlInv'
      BY <1>4 DEF ControlInv, Raise, BeforeLoop, Loop, Prepared
    <2> QED
      BY <2>1, <2>2
  <1>5. CASE /\ ~(Raise("integrity") /\ UNCHANGED history)
             /\ LoopCheck(d) /\ TokenCheck(d) /\ Conclude(v, d)
    <2>1. PICK t \in States, status \in {"COMPLETE", "ANALYTIC_FAILURE"},
               decision \in DecisionValues \cup {NoValue} :
             /\ Register(t, status, v, decision)
             /\ pc' = NextReplicate
             /\ UNCHANGED error
      <3>1. PICK a \in Reading("observed", d, Decision(observed), DecisionValues),
                 t \in Reading("token", d, token, States) :
               /\ IF AllValid(v)
                  THEN Register(t, "COMPLETE", v, Decision(v))
                  ELSE Register(t, "ANALYTIC_FAILURE", v, NoValue)
               /\ pc' = NextReplicate
               /\ UNCHANGED error
        BY <1>5 DEF Conclude
      <3>2. t \in States
        BY <3>1 DEF Reading, ControlInv, EvaluateReplicate
      <3> QED
        BY <1>2, <3>1, <3>2, DecisionIsAScore
    <2>2. Len(history) < plan.replicates
      BY DEF ControlInv, EvaluateReplicate
    <2>3. /\ history' \in Seq(Outcomes)
          /\ Len(history') = Len(history) + 1
          /\ Len(history') <= plan.replicates
          /\ \A i \in DOMAIN history' : history'[i].id = i - 1
      BY <1>2, <2>1, <2>2, RegisterExtends
    <2>4. pc' = IF Len(history') = plan.replicates THEN "close" ELSE "sample"
      BY <2>1 DEF NextReplicate
    <2>5. TypeOK'
      BY <1>3, <2>1, <2>3, <2>4 DEF TypeOK, EvaluateReplicate
    <2>6. drift' \cap (LightVisible \cup {"globals"}) = {}
      BY <1>a, <1>5, LoopCheckIsTight
    <2>7. plan.replicates \in Nat /\ Len(history') \in Nat
      BY <2>3, CalibrationAssumption DEF TypeOK
    <2>8. pc' = "sample" => Len(history') < plan.replicates
      BY <2>3, <2>4, <2>7
    <2>9. ControlInv'
      BY <2>4, <2>6, <2>8
      DEF ControlInv, EvaluateReplicate, AllValid, PartialEnumeration, BeforeLoop, Loop, Prepared
    <2> QED
      BY <2>5, <2>9
  <1> QED
    BY <1>a, <1>4, <1>5

-----------------------------------------------------------------------------
\* Steps of the finalisation

LEMMA CloseHistoryKeeps ==
    ASSUME IInv, CloseHistory
    PROVE  IInv'
PROOF
  <1> USE DEF IInv
  <1>1. PICK d \in DriftsOf(LoopParts \ {"token"}) :
            /\ drift' = d
            /\ Proceed(OwnedCheck(d) /\ LoopCheck(d) /\ HistoryCheck(d), "finalise")
    BY DEF CloseHistory
  <1>2. TypeOK'
    BY <1>1, DriftStaysInReach DEF TypeOK, CloseHistory, Proceed, Raise
  <1>3. pc' \in {"finalise", "raised"}
    BY <1>1 DEF Proceed, Raise
  <1>4. pc' = "finalise" => drift' \cap (LightVisible \cup {"globals"}) = {}
    BY <1>1, LoopCheckIsTight DEF Proceed, Raise
  <1>5. pc' = "finalise" => drift' \cap (PreparedGraph \cup {"history"}) = {}
    BY <1>1 DEF Proceed, Raise, OwnedCheck, HistoryCheck
  <1>6. ControlInv'
    BY <1>3, <1>4, <1>5
    DEF ControlInv, CloseHistory, AllValid, PartialEnumeration, BeforeLoop, Loop, Prepared
  <1> QED
    BY <1>2, <1>6

\* At finalisation nothing the result is built from has drifted.
LEMMA FinaliseReadsSnapshots ==
    ASSUME IInv, Finalise
    PROVE  result' = FinalResult(history, observed, Decision(observed), plan)
PROOF
  <1>1. drift \cap (PreparedGraph \cup {"history"}) = {}
    BY DEF IInv, ControlInv, Finalise
  <1>2. "history" \notin drift /\ "plan" \notin drift /\ "observed" \notin drift
    BY <1>1 DEF PreparedGraph, LightVisible
  <1> QED
    BY <1>2 DEF Finalise, Reading

LEMMA FinaliseKeeps ==
    ASSUME IInv, Finalise
    PROVE  IInv'
PROOF
  <1> USE DEF IInv
  <1>1. observed \in Vectors /\ AllValid(observed)
    BY DEF ControlInv, Finalise, Prepared, Loop
  <1>2. result' \in ResultFields
    BY <1>1, FinaliseReadsSnapshots, FinalResultType, DecisionIsAScore DEF TypeOK
  <1>3. TypeOK'
    BY <1>2 DEF TypeOK, Finalise
  <1>4. ControlInv'
    BY <1>2 DEF ControlInv, Finalise, BeforeLoop, Loop, Prepared
  <1> QED
    BY <1>3, <1>4

\* A replicate of a consistent result is a registered outcome of its kind.
LEMMA OutcomesOfScans ==
    ASSUME NEW i \in Nat \ {0}, NEW t \in States, NEW v \in Vectors
    PROVE  OutcomeOf(i, t, v) \in Outcomes
PROOF
  <1> DEFINE status == IF AllValid(v) THEN "COMPLETE" ELSE "ANALYTIC_FAILURE"
             decision == IF AllValid(v) THEN Decision(v) ELSE NoValue
  <1>1. status \in {"COMPLETE", "ANALYTIC_FAILURE"} /\ decision \in DecisionValues \cup {NoValue}
    BY DecisionIsAScore
  <1>2. i - 1 \in Nat
    OBVIOUS
  <1> HIDE DEF status, decision
  <1>3. [id |-> i - 1, token |-> t, status |-> status, vector |-> v, decision |-> decision]
            \in Outcomes
    BY <1>1, <1>2, ZenonT(60) DEF Outcomes
  <1> QED
    BY <1>3 DEF OutcomeOf, status, decision

LEMMA ConsistentResultsAreResults ==
    ASSUME TypeOK, NEW r \in ConsistentResults
    PROVE  r \in ResultFields
PROOF
  <1> DEFINE replicates == 1 .. plan.replicates
             family(ts, vs) == [i \in replicates |-> OutcomeOf(i, ts[i], vs[i])]
  <1>1. plan.replicates \in Nat /\ plan \in Plans
    BY CalibrationAssumption DEF TypeOK
  <1>2. CASE r = TerminalResult("NULL_BIND", NoValue)
    BY <1>2, TerminalResultType DEF Stages
  <1>3. CASE \E v \in Vectors : r = TerminalResult("OBSERVED_STATISTIC_SCAN", v)
    BY <1>3, TerminalResultType DEF Stages
  <1>4. CASE \E ts \in [replicates -> States], vs \in [replicates -> Vectors], v \in Vectors :
               AllValid(v) /\ r = FinalResult(family(ts, vs), v, Decision(v), plan)
    <2>1. PICK ts \in [replicates -> States], vs \in [replicates -> Vectors], v \in Vectors :
               AllValid(v) /\ r = FinalResult(family(ts, vs), v, Decision(v), plan)
      BY <1>4
    <2>2. \A i \in replicates : OutcomeOf(i, ts[i], vs[i]) \in Outcomes
      BY <1>1, OutcomesOfScans
    <2>3. family(ts, vs) \in Seq(Outcomes)
      BY <1>1, <2>2
    <2> HIDE DEF family
    <2> QED
      BY <1>1, <2>1, <2>3, FinalResultType, DecisionIsAScore
  <1> QED
    BY <1>2, <1>3, <1>4 DEF ConsistentResults

\* The hook leaves a record of the result's type.
LEMMA HookedResultsAreResults ==
    ASSUME TypeOK, result \in ResultFields, NEW r \in HookedResults
    PROVE  r \in ResultFields
PROOF
  <1> DEFINE B == plan.replicates
  <1>1. B \in Nat
    BY CalibrationAssumption DEF TypeOK
  <1>2. CASE r \in ConsistentResults
    BY <1>2, ConsistentResultsAreResults
  <1>3. CASE r = [result EXCEPT !.digest = "other"]
    BY <1>3 DEF ResultFields
  <1>4. CASE \E q \in Plans : r = [result EXCEPT !.plan = q]
    BY <1>4 DEF ResultFields
  <1>5. CASE \E k \in 0 .. B : r = [result EXCEPT !.exceed = k]
    BY <1>1, <1>5 DEF ResultFields
  <1>6. CASE \E k \in 0 .. B : r = [result EXCEPT !.fails = k]
    BY <1>1, <1>6 DEF ResultFields
  <1>7. CASE \E k \in 1 .. B + 1 : r = [result EXCEPT !.p = <<k, B + 1>>]
    <2>1. \A k \in 1 .. B + 1 : <<k, B + 1>> \in Nat \X Nat
      BY <1>1
    <2> HIDE DEF B
    <2> QED
      BY <1>7, <2>1, ZenonT(60) DEF ResultFields
  <1>8. CASE \E k \in 1 .. B + 1 : r = [result EXCEPT !.high = <<k, B + 1>>]
    <2>1. \A k \in 1 .. B + 1 : <<k, B + 1>> \in Nat \X Nat
      BY <1>1
    <2> HIDE DEF B
    <2> QED
      BY <1>8, <2>1, ZenonT(60) DEF ResultFields
  <1>9. CASE \E b \in BOOLEAN : r = [result EXCEPT !.reject = b]
    BY <1>9 DEF ResultFields
  <1>10. CASE \E c \in Candidates : r = [result EXCEPT !.label = c]
    BY <1>10 DEF ResultFields
  <1>11. CASE \E i \in DOMAIN result.outcomes :
               \/ \E x \in DecisionValues : r = [result EXCEPT !.outcomes[i].decision = x]
               \/ \E t \in States : r = [result EXCEPT !.outcomes[i].token = t]
               \/ \E v \in Vectors : r = [result EXCEPT !.outcomes[i].vector = v]
    <2>1. PICK i \in DOMAIN result.outcomes :
               \/ \E x \in DecisionValues : r = [result EXCEPT !.outcomes[i].decision = x]
               \/ \E t \in States : r = [result EXCEPT !.outcomes[i].token = t]
               \/ \E v \in Vectors : r = [result EXCEPT !.outcomes[i].vector = v]
      BY <1>11
    <2>2. result.outcomes \in Seq(Outcomes) /\ i \in 1 .. Len(result.outcomes)
      BY DEF ResultFields
    <2>3. result.outcomes[i] \in Outcomes
      BY <2>2, ElementOfSeq
    <2>4. PICK o \in Outcomes : r = [result EXCEPT !.outcomes = [result.outcomes EXCEPT ![i] = o]]
      <3>1. CASE \E x \in DecisionValues : r = [result EXCEPT !.outcomes[i].decision = x]
        <4>1. PICK x \in DecisionValues : r = [result EXCEPT !.outcomes[i].decision = x]
          BY <3>1
        <4>2. [result.outcomes[i] EXCEPT !.decision = x] \in Outcomes
          BY <2>3 DEF Outcomes
        <4> QED
          BY <4>1, <4>2
      <3>2. CASE \E t \in States : r = [result EXCEPT !.outcomes[i].token = t]
        <4>1. PICK t \in States : r = [result EXCEPT !.outcomes[i].token = t]
          BY <3>2
        <4>2. [result.outcomes[i] EXCEPT !.token = t] \in Outcomes
          BY <2>3 DEF Outcomes
        <4> QED
          BY <4>1, <4>2
      <3>3. CASE \E v \in Vectors : r = [result EXCEPT !.outcomes[i].vector = v]
        <4>1. PICK v \in Vectors : r = [result EXCEPT !.outcomes[i].vector = v]
          BY <3>3
        <4>2. [result.outcomes[i] EXCEPT !.vector = v] \in Outcomes
          BY <2>3 DEF Outcomes
        <4> QED
          BY <4>1, <4>2
      <3> QED
        BY <2>1, <3>1, <3>2, <3>3
    <2>5. [result.outcomes EXCEPT ![i] = o] \in Seq(Outcomes)
      BY <2>2, <2>4, ExceptSeq
    <2> DEFINE outcomes == [result.outcomes EXCEPT ![i] = o]
    <2>6. r = [result EXCEPT !.outcomes = outcomes] /\ outcomes \in Seq(Outcomes)
      BY <2>4, <2>5
    <2> HIDE DEF outcomes
    <2> QED
      BY <2>6, ZenonT(60) DEF ResultFields
  <1> QED
    BY <1>2, <1>3, <1>4, <1>5, <1>6, <1>7, <1>8, <1>9, <1>10, <1>11 DEF HookedResults

\* What the checks around the frozen verifier establish when a result is returned: it is
\* verified, and it is the run's own unless the hook rewrote it.
LEMMA ReturnedIsVerified ==
    ASSUME IInv, VerifyAndReturn
    PROVE  /\ result' \in ResultFields \cup {NoValue}
           /\ pc' \in {"returned", "raised"}
           /\ error' \in {error, "integrity"}
           /\ drift' \in SUBSET Components
           /\ pc' = "returned" =>
                 /\ result' \in ResultFields /\ VerifierAccepts(result') /\ result'.digest = "entry"
                 /\ HookKeptResult' => result' = result
                 /\ drift' \cap (PreparedGraph \cup {"history", "globals"}) = {}
PROOF
  <1>1. PICK d \in DriftsOf({"plan", "globals", "result"}) :
          \E r \in Reading("result", d, result, HookedResults) :
            /\ drift' = d
            /\ Proceed(/\ GlobalsCheck(drift) /\ result.digest = "entry"
                       /\ GlobalsCheck(d) /\ VerifierAccepts(r)
                       /\ r.digest = "entry"
                       /\ "plan" \notin d,
                       "returned")
            /\ result' = IF pc' = "returned" THEN r ELSE NoValue
    BY DEF VerifyAndReturn
  <1>a. PICK r \in Reading("result", d, result, HookedResults) :
            /\ drift' = d
            /\ Proceed(/\ GlobalsCheck(drift) /\ result.digest = "entry"
                       /\ GlobalsCheck(d) /\ VerifierAccepts(r)
                       /\ r.digest = "entry"
                       /\ "plan" \notin d,
                       "returned")
            /\ result' = IF pc' = "returned" THEN r ELSE NoValue
    BY <1>1
  <1>2. result \in ResultFields
    BY DEF IInv, ControlInv, VerifyAndReturn
  <1>3. r \in ResultFields
    <2>1. r = result \/ r \in HookedResults
      BY DEF Reading
    <2> QED
      BY <1>2, <2>1, HookedResultsAreResults DEF IInv
  <1>4. pc' \in {"returned", "raised"} /\ error' \in {error, "integrity"}
    BY <1>a DEF Proceed, Raise
  <1>5. ASSUME pc' = "returned"
        PROVE  /\ VerifierAccepts(r) /\ result' = r /\ r.digest = "entry"
               /\ "plan" \notin d /\ "globals" \notin d
    BY <1>a, <1>5 DEF Proceed, Raise, GlobalsCheck
  <1>6. drift \cap (PreparedGraph \cup {"history"}) = {}
    BY DEF IInv, ControlInv, VerifyAndReturn
  <1>7. \A c \in drift' : c \in drift \/ c \in {"plan", "globals", "result"}
    BY <1>1, DriftStaysInReach
  <1>8. pc' = "returned" =>
            drift' \cap (PreparedGraph \cup {"history", "globals"}) = {}
    BY <1>1, <1>5, <1>6, <1>7 DEF PreparedGraph, LightVisible
  <1>9. drift' \in SUBSET Components
    BY <1>1, DriftStaysInReach
  <1>10. VerifierAccepts(r) /\ result' = r => VerifierAccepts(result')
    OBVIOUS
  <1>11. "result" \notin d => r = result
    BY DEF Reading
  <1> QED
    BY <1>a, <1>3, <1>4, <1>5, <1>8, <1>9, <1>10, <1>11 DEF HookKeptResult

LEMMA VerifyAndReturnKeeps ==
    ASSUME IInv, VerifyAndReturn
    PROVE  IInv'
PROOF
  <1>1. TypeOK'
    BY ReturnedIsVerified DEF IInv, TypeOK, VerifyAndReturn
  <1>2. ControlInv'
    BY ReturnedIsVerified DEF ControlInv, BeforeLoop, Loop, Prepared
  <1> QED
    BY <1>1, <1>2 DEF IInv

LEMMA MalformedKeeps ==
    ASSUME IInv, Malformed
    PROVE  IInv'
PROOF
  <1>1. TypeOK'
    BY DEF IInv, TypeOK, Malformed, Raise
  <1>2. ControlInv'
    BY DEF IInv, ControlInv, Malformed, Raise, BeforeLoop, Loop, Prepared
  <1> QED
    BY <1>1, <1>2 DEF IInv

LEMMA StutterKeeps ==
    ASSUME IInv, UNCHANGED vars
    PROVE  IInv'
PROOF
  <1>1. TypeOK'
    BY DEF IInv, TypeOK, vars
  <1>2. ControlInv'
    BY DEF IInv, ControlInv, vars, AllValid, PartialEnumeration
  <1> QED
    BY <1>1, <1>2 DEF IInv

-----------------------------------------------------------------------------
\* The invariant and what follows from it

LEMMA IInvIsInductive ==
    IInv /\ [Next]_vars => IInv'
PROOF
  <1> SUFFICES ASSUME IInv, [Next]_vars
               PROVE  IInv'
    OBVIOUS
  <1> QED
    BY BindStatisticKeeps, BindNullKeeps, TerminateNullBindKeeps, ScanObservedKeeps,
       TerminateObservedScanKeeps, PrepareKeeps, AdmitBudgetKeeps, SampleTokenKeeps,
       ApplyNullKeeps, EvaluateReplicateKeeps, CloseHistoryKeeps, FinaliseKeeps,
       VerifyAndReturnKeeps, MalformedKeeps, StutterKeeps
    DEF Next, Stopped

LEMMA SpecKeepsIInv ==
    Spec => []IInv
PROOF
  BY InitEstablishes, IInvIsInductive, PTL DEF Spec

\* Types, and with them the exact-B history whose ids are its positions.
THEOREM TypeCorrect ==
    Spec => []TypeOK
PROOF
  <1>1. IInv => TypeOK
    BY DEF IInv
  <1> QED
    BY <1>1, SpecKeepsIInv, PTL

\* Each segment finds what the segments before it had to leave behind.
THEOREM ControlIsKept ==
    Spec => []ControlInv
PROOF
  <1>1. IInv => ControlInv
    BY DEF IInv
  <1> QED
    BY <1>1, SpecKeepsIInv, PTL

\* No callback of the loop, and no computation of a result, starts on drifted slots,
\* whatever may be put back (_execute_replicates and its light checkpoints).
THEOREM SlotsAreIntactInLoop ==
    Spec => []LoopRunsOnIntactSlots
PROOF
  <1>1. IInv => LoopRunsOnIntactSlots
    BY DEF IInv, ControlInv, Loop, LoopRunsOnIntactSlots
  <1> QED
    BY <1>1, SpecKeepsIInv, PTL

\* A result is returned only if the prepared graph, the retained outcomes and the module
\* globals are at that moment what the snapshots say.
THEOREM ReturnedWithoutDrift ==
    Spec => []DriftIsNeverReturned
PROOF
  <1>1. IInv => DriftIsNeverReturned
    BY DEF IInv, ControlInv, DriftIsNeverReturned, Returned
  <1> QED
    BY <1>1, SpecKeepsIInv, PTL

-----------------------------------------------------------------------------
\* The counts of a returned result, in the runs in which no callback puts back contents or records

Truth == TruthInv /\ ReturnedCountsAreTrue

\* A step that puts back no contents of an array, nor the observed vector, nor a retained
\* outcome; slots, globals and tokens may be put back.  A change of contents that is undone
\* before the next full recapture is one that no check of the code can see.
Retains == drift \cap {"arrays", "observed", "history"} \subseteq drift'

\* What is intact after a callback was intact before it, or there is no outcome yet.
WasIntact == Intact' => Intact \/ history = <<>>

LEMMA DriftIsForGood ==
    ASSUME Retains, IInv, pc # "raised", NEW parts, NEW d \in DriftsOf(parts), drift' = d
    PROVE  WasIntact /\ ("arrays" \in drift => "arrays" \in d)
PROOF
  <1>1. drift \cap {"arrays", "observed", "history"} \subseteq d
    BY DEF DriftsOf, Retains
  <1>2. CASE pc \in BeforeLoop
    BY <1>1, <1>2 DEF WasIntact, IInv, ControlInv
  <1>3. CASE pc \notin BeforeLoop
    <2>1. drift \cap LightVisible = {}
      BY <1>3 DEF IInv, TypeOK, ControlInv, BeforeLoop, Loop, PreparedGraph
    <2> QED
      BY <1>1, <2>1 DEF WasIntact, Intact, PreparedGraph
  <1> QED
    BY <1>2, <1>3

\* What was true of the retained outcomes stays true while they are left alone.
LEMMA RetainedTruth ==
    ASSUME TruthInv, UNCHANGED <<stat, history>>, WasIntact
    PROVE  Intact' => \A i \in DOMAIN history' : OutcomeIsTrue(history[i])'
PROOF
  <1>1. Intact' => Intact \/ history = <<>>
    BY DEF WasIntact
  <1>2. Intact \/ history = <<>> => \A i \in DOMAIN history : OutcomeIsTrue(history[i])
    BY DEF TruthInv
  <1> QED
    BY <1>1, <1>2 DEF OutcomeIsTrue, AllValid

\* A step that retains everything and leaves neither for the surrogate scan, nor for the
\* verifier, nor for the caller keeps the truth.
LEMMA RetainingStepsKeepTruth ==
    ASSUME TruthInv, UNCHANGED <<plan, stat, observed, history>>, WasIntact,
           pc' \notin {"evaluate", "verify", "returned"},
           pc' \in Prepared => pc \in Prepared \/ observed = stat[Identity]
    PROVE  Truth'
PROOF
  <1>1. Intact' => \A i \in DOMAIN history' : OutcomeIsTrue(history[i])'
    BY RetainedTruth
  <1>2. TruthInv'
    BY <1>1 DEF TruthInv, Identity
  <1>3. ReturnedCountsAreTrue'
    BY DEF ReturnedCountsAreTrue, Executed, Returned, HookKeptResult
  <1> QED
    BY <1>2, <1>3 DEF Truth

LEMMA InitIsTrue ==
    Init => Truth
PROOF
  <1> SUFFICES ASSUME Init
               PROVE  Truth
    OBVIOUS
  <1>1. TruthInv
    BY DEF Init, TruthInv, Prepared, Loop
  <1>2. ReturnedCountsAreTrue
    BY DEF Init, ReturnedCountsAreTrue, Executed, Returned, HookKeptResult
  <1> QED
    BY <1>1, <1>2 DEF Truth

LEMMA BindingsKeepTruth ==
    ASSUME Retains, IInv, TruthInv, BindStatistic \/ BindNull
    PROVE  Truth'
PROOF
  <1>1. UNCHANGED <<plan, stat, observed, history>> /\ WasIntact
    BY DriftIsForGood DEF BindStatistic, BindNull
  <1>2. pc' \in {"bind_null", "close_null_bind", "scan_observed", "raised"}
    BY DEF BindStatistic, BindNull, Proceed, Raise
  <1> QED
    BY <1>1, <1>2, RetainingStepsKeepTruth DEF Prepared, Loop

LEMMA TerminalResultsKeepTruth ==
    ASSUME Retains, IInv, TruthInv, TerminateNullBind \/ TerminateObservedScan
    PROVE  Truth'
PROOF
  <1>1. PICK stage \in {"NULL_BIND", "OBSERVED_STATISTIC_SCAN"}, vector \in {NoValue, observed},
             parts \in {(PreparedGraph \cup {"globals"}) \ {"observed"},
                       PreparedGraph \cup {"globals"}} :
           Terminate(stage, vector, parts)
    BY DEF TerminateNullBind, TerminateObservedScan
  <1>2. UNCHANGED <<plan, stat, observed, history>> /\ WasIntact
    <2>1. PICK d \in DriftsOf(parts) : drift' = d
      BY <1>1 DEF Terminate
    <2>2. pc # "raised"
      BY DEF TerminateNullBind, TerminateObservedScan
    <2> QED
      BY <1>1, <2>1, <2>2, DriftIsForGood DEF Terminate
  <1>3. pc' \in {"verify", "raised"} /\ (pc' = "verify" => result'.stage = stage)
    BY <1>1 DEF Terminate, Proceed, Raise, TerminalResult, Result
  <1>4. Intact' => \A i \in DOMAIN history' : OutcomeIsTrue(history[i])'
    BY <1>2, RetainedTruth
  <1>5. TruthInv'
    BY <1>3, <1>4 DEF TruthInv, Prepared, Loop
  <1>6. ReturnedCountsAreTrue'
    BY <1>3 DEF ReturnedCountsAreTrue, Executed, Returned, HookKeptResult
  <1> QED
    BY <1>5, <1>6 DEF Truth

LEMMA ScanObservedKeepsTruth ==
    ASSUME Retains, IInv, TruthInv, ScanObserved
    PROVE  Truth'
PROOF
  <1>1. PICK d \in DriftsOf(LightVisible \cup {"arrays", "globals"}) :
            /\ drift' = d
            /\ observed' \in Evaluations(Identity, drift \cup d)
            /\ Proceed(ActiveCheck(d),
                       IF AllValid(observed') THEN "prepare" ELSE "close_observed")
    BY DEF ScanObserved
  <1>2. WasIntact /\ UNCHANGED <<stat, history>>
    BY <1>1, DriftIsForGood DEF ScanObserved
  <1>3. pc' \in {"prepare", "close_observed", "raised"}
    BY <1>1 DEF Proceed, Raise
  <1>4. pc' = "prepare" => observed' = stat'[Identity]
    <2>1. SUFFICES ASSUME pc' = "prepare"
                   PROVE  observed' = stat[Identity]
      BY <1>2
    <2>2. d \cap PreparedGraph = {}
      BY <1>1, <2>1 DEF Proceed, Raise, ActiveCheck
    <2>3. (drift \cup d) \cap {"statistic", "arrays"} = {}
      BY <2>2 DEF IInv, ControlInv, ScanObserved, PreparedGraph, LightVisible
    <2> QED
      BY <1>1, <2>3 DEF Evaluations
  <1>5. Intact' => \A i \in DOMAIN history' : OutcomeIsTrue(history[i])'
    BY <1>2, RetainedTruth
  <1>6. pc' \in Prepared => pc' = "prepare"
    BY <1>3 DEF Prepared, Loop
  <1>7. TruthInv'
    BY <1>3, <1>4, <1>5, <1>6 DEF TruthInv, Identity
  <1>8. ReturnedCountsAreTrue'
    BY <1>3 DEF ReturnedCountsAreTrue, Executed, Returned, HookKeptResult
  <1> QED
    BY <1>7, <1>8 DEF Truth

LEMMA CheckpointsKeepTruth ==
    ASSUME Retains, IInv, TruthInv,
           Prepare \/ AdmitBudget \/ SampleToken \/ CloseHistory
    PROVE  Truth'
PROOF
  <1>1. UNCHANGED <<plan, stat, observed, history>> /\ WasIntact
    BY DriftIsForGood DEF Prepare, AdmitBudget, SampleToken, CloseHistory
  <1>2. pc \in Prepared
    BY DEF Prepare, AdmitBudget, SampleToken, CloseHistory, Prepared, Loop
  <1>3. pc' \in {"admit", "sample", "apply", "finalise", "raised"}
    BY DEF Prepare, AdmitBudget, SampleToken, CloseHistory, Proceed, Raise
  <1> QED
    BY <1>1, <1>2, <1>3, RetainingStepsKeepTruth

LEMMA ApplyNullKeepsTruth ==
    ASSUME Retains, IInv, TruthInv, ApplyNull
    PROVE  Truth'
PROOF
  <1>1. PICK d \in DriftsOf(LoopParts) :
            /\ drift' = d
            /\ transformed' \in Reading("arrays", d, token, States)
            /\ Proceed(LoopCheck(d), "evaluate") \/ Raise("integrity")
    BY DEF ApplyNull
  <1>2. UNCHANGED <<plan, stat, observed, history, token>> /\ WasIntact
    BY <1>1, DriftIsForGood DEF ApplyNull
  <1>3. pc' \in {"evaluate", "raised"}
    BY <1>1 DEF Proceed, Raise
  <1>4. "arrays" \notin drift' => transformed' = token'
    BY <1>1, <1>2 DEF Reading
  <1>5. Intact' => \A i \in DOMAIN history' : OutcomeIsTrue(history[i])'
    BY <1>2, RetainedTruth
  <1>6. pc \in Prepared
    BY DEF ApplyNull, Prepared, Loop
  <1>7. TruthInv'
    BY <1>2, <1>3, <1>4, <1>5, <1>6 DEF TruthInv, Identity
  <1>8. ReturnedCountsAreTrue'
    BY <1>3 DEF ReturnedCountsAreTrue, Executed, Returned, HookKeptResult
  <1> QED
    BY <1>7, <1>8 DEF Truth

LEMMA EvaluateReplicateKeepsTruth ==
    ASSUME Retains, IInv, TruthInv, EvaluateReplicate
    PROVE  Truth'
PROOF
  <1>1. PICK d \in DriftsOf(LoopParts) : \E v \in Evaluations(transformed, d) :
            /\ drift' = d
            /\ \/ Raise("integrity") /\ UNCHANGED history
               \/ TokenCheck(d) /\ Conclude(v, d)
    BY DEF EvaluateReplicate
  <1>2. PICK v \in Evaluations(transformed, d) :
            /\ drift' = d
            /\ \/ Raise("integrity") /\ UNCHANGED history
               \/ TokenCheck(d) /\ Conclude(v, d)
    BY <1>1
  <1>3. UNCHANGED <<plan, stat, observed>> /\ WasIntact
    BY <1>2, DriftIsForGood DEF EvaluateReplicate
  <1>4. pc \in Prepared
    BY DEF EvaluateReplicate, Prepared, Loop
  <1>5. CASE Raise("integrity") /\ UNCHANGED history
    BY <1>3, <1>4, <1>5, RetainingStepsKeepTruth DEF Raise
  <1>6. CASE ~(Raise("integrity") /\ UNCHANGED history)
    <2>1. TokenCheck(d)
      BY <1>2, <1>6
    <2>2. PICK a \in Reading("observed", d, Decision(observed), DecisionValues),
               t \in Reading("token", d, token, States) :
             /\ IF AllValid(v)
                THEN Register(t, "COMPLETE", v, Decision(v))
                ELSE Register(t, "ANALYTIC_FAILURE", v, NoValue)
             /\ pc' = NextReplicate
      BY <1>2, <1>6 DEF Conclude
    <2>3. t = token /\ t \in States
      BY <2>1, <2>2 DEF TokenCheck, Reading, IInv, ControlInv, EvaluateReplicate
    <2>4. v \in Vectors
      BY EvaluationsAreVectors DEF IInv, ControlInv, EvaluateReplicate
    <2> DEFINE status == IF AllValid(v) THEN "COMPLETE" ELSE "ANALYTIC_FAILURE"
               decision == IF AllValid(v) THEN Decision(v) ELSE NoValue
    <2>5. Register(t, status, v, decision)
      BY <2>2
    <2>6. status \in {"COMPLETE", "ANALYTIC_FAILURE"} /\ decision \in DecisionValues \cup {NoValue}
      BY <2>4, DecisionIsAScore
    <2>7. TypeOK /\ Len(history) < plan.replicates
      BY DEF IInv, ControlInv, EvaluateReplicate
    <2> HIDE DEF status, decision
    <2>8. /\ \A i \in DOMAIN history : history'[i] = history[i]
          /\ DOMAIN history' = DOMAIN history \cup {Len(history')}
          /\ history'[Len(history')] = [id |-> Len(history), token |-> t, status |-> status,
                                        vector |-> v, decision |-> decision]
      BY <2>3, <2>4, <2>5, <2>6, <2>7, RegisterExtends, ZenonT(60)
    <2>9. ASSUME Intact'
          PROVE  \A i \in DOMAIN history' : OutcomeIsTrue(history[i])'
      <3>1. d \cap {"statistic", "arrays"} = {}
        BY <1>2, <2>9 DEF Intact, PreparedGraph, LightVisible
      <3>a. "arrays" \notin drift
        BY <1>2, <3>1, DriftIsForGood DEF EvaluateReplicate
      <3>2. v = stat[token]
        BY <3>1, <3>a DEF Evaluations, TruthInv, EvaluateReplicate
      <3>3. \A i \in DOMAIN history : OutcomeIsTrue(history[i])
        BY <1>3, <2>9 DEF TruthInv, WasIntact
      <3>4. OutcomeIsTrue(history'[Len(history')])
        BY <2>3, <2>8, <3>2 DEF OutcomeIsTrue, status, decision
      <3>5. \A i \in DOMAIN history' : OutcomeIsTrue(history'[i])
        BY <2>8, <3>3, <3>4
      <3> QED
        BY <1>3, <3>5 DEF OutcomeIsTrue, AllValid
    <2>10. pc' \in {"close", "sample"}
      BY <2>2 DEF NextReplicate
    <2>11. TruthInv'
      BY <1>3, <1>4, <2>9, <2>10 DEF TruthInv, Identity
    <2>12. ReturnedCountsAreTrue'
      BY <2>10 DEF ReturnedCountsAreTrue, Executed, Returned, HookKeptResult
    <2> QED
      BY <2>11, <2>12 DEF Truth
  <1> QED
    BY <1>5, <1>6

LEMMA FinaliseKeepsTruth ==
    ASSUME IInv, TruthInv, Finalise
    PROVE  Truth'
PROOF
  <1>1. result' = FinalResult(history, stat[Identity], Decision(stat[Identity]), plan)
    BY FinaliseReadsSnapshots DEF TruthInv, Finalise, Prepared, Loop
  <1>2. UNCHANGED <<plan, stat, drift, history>> /\ pc' = "verify"
    BY DEF Finalise
  <1>3. Intact' => \A i \in DOMAIN history' : OutcomeIsTrue(history[i])'
    BY <1>2, RetainedTruth DEF WasIntact, Intact
  <1>4. Len(history) = plan.replicates
    BY DEF IInv, ControlInv, Finalise
  <1>5. result' = FinalResult(history, stat[Identity], Decision(stat[Identity]), plan)'
    <2>1. plan' = plan /\ stat' = stat /\ history' = history
      BY <1>2
    <2> QED
      BY <1>1, <2>1
      DEF FinalResult, Result, ExceedanceCount, FailureCount, FailureBound, PlusOne, AtMost, Identity
  <1>6. TruthInv'
    BY <1>2, <1>3, <1>4, <1>5 DEF TruthInv, Prepared, Loop
  <1>7. ReturnedCountsAreTrue'
    BY <1>2 DEF ReturnedCountsAreTrue, Executed, Returned, HookKeptResult
  <1> QED
    BY <1>6, <1>7 DEF Truth

\* The fields of a final result that its history determines.
LEMMA FinalResultCounts ==
    ASSUME NEW outcomes, NEW vector, NEW a, NEW pl
    PROVE  LET r == FinalResult(outcomes, vector, a, pl)
           IN  /\ r.exceed = ExceedanceCount(outcomes, a)
               /\ r.fails = FailureCount(outcomes)
               /\ r.outcomes = outcomes
               /\ r.decision = a
               /\ r.stage \in {"NONE", "REPLICATE_EXECUTION"}
PROOF
  BY DEF FinalResult, Result

\* The counts of a true history are the true counts.
LEMMA TrueHistoryGivesTrueCounts ==
    ASSUME TypeOK, \A i \in DOMAIN history : OutcomeIsTrue(history[i])
    PROVE  /\ ExceedanceCount(history, Decision(stat[Identity])) = Cardinality(TrueExceedances)
           /\ FailureCount(history) = Cardinality(TrueFailures)
PROOF
  <1> DEFINE a == Decision(stat[Identity])
  <1>1. {i \in DOMAIN history : history[i].status = "ANALYTIC_FAILURE"} = TrueFailures
    BY DEF OutcomeIsTrue, TrueFailures
  <1>2. {i \in DOMAIN history : history[i].status = "COMPLETE" /\ history[i].decision >= a}
            = TrueExceedances
    BY DEF OutcomeIsTrue, TrueFailures, TrueExceedances
  <1> QED
    BY <1>1, <1>2 DEF ExceedanceCount, FailureCount

LEMMA VerifyAndReturnKeepsTruth ==
    ASSUME IInv, TruthInv, VerifyAndReturn
    PROVE  Truth'
PROOF
  <1>2. UNCHANGED <<plan, stat, history>>
    BY DEF VerifyAndReturn
  <1>3. TypeOK /\ pc = "verify"
    BY DEF IInv, VerifyAndReturn
  <1>4. Intact
    BY <1>3 DEF IInv, ControlInv, Intact
  <1>5. pc' \in {"returned", "raised"}
    BY ReturnedIsVerified
  <1>6. \A i \in DOMAIN history : OutcomeIsTrue(history[i])
    BY <1>4 DEF TruthInv
  <1>7. TruthInv'
    <2>1. \A i \in DOMAIN history' : OutcomeIsTrue(history[i])'
      BY <1>2, <1>6 DEF OutcomeIsTrue, AllValid
    <2> QED
      BY <1>5, <2>1 DEF TruthInv, Prepared, Loop
  <1>8. ASSUME pc' = "returned", HookKeptResult', result'.stage \in {"NONE", "REPLICATE_EXECUTION"}
        PROVE  /\ Len(history) = plan.replicates
               /\ result'.exceed = Cardinality(TrueExceedances)
               /\ result'.fails = Cardinality(TrueFailures)
    <2> DEFINE a == Decision(stat[Identity])
    <2>1. result' = result
      BY <1>8, ReturnedIsVerified
    <2>2. Len(history) = plan.replicates /\ result = FinalResult(history, stat[Identity], a, plan)
      BY <1>3, <1>8, <2>1 DEF TruthInv
    <2> HIDE DEF a
    <2>3. result.exceed = ExceedanceCount(history, a) /\ result.fails = FailureCount(history)
      BY <2>2, FinalResultCounts
    <2> QED
      BY <1>3, <1>6, <2>1, <2>2, <2>3, TrueHistoryGivesTrueCounts DEF a
  <1>9. ReturnedCountsAreTrue'
    BY <1>2, <1>8
    DEF ReturnedCountsAreTrue, Executed, Returned, HookKeptResult, TrueExceedances, TrueFailures, AllValid, Identity
  <1> QED
    BY <1>7, <1>9 DEF Truth

LEMMA MalformedKeepsTruth ==
    ASSUME TruthInv, Malformed
    PROVE  Truth'
PROOF
  <1>1. UNCHANGED <<plan, stat, observed, history>> /\ WasIntact /\ pc' = "raised"
    BY DEF Malformed, Raise, WasIntact, Intact
  <1> QED
    BY <1>1, RetainingStepsKeepTruth DEF Prepared, Loop

LEMMA StutterKeepsTruth ==
    ASSUME Truth, UNCHANGED vars
    PROVE  Truth'
PROOF
  BY DEF Truth, TruthInv, ReturnedCountsAreTrue, Executed, Returned, HookKeptResult, TrueExceedances,
         TrueFailures, AllValid, Identity, Intact, OutcomeIsTrue, vars,
         FinalResult, Result, ExceedanceCount, FailureCount, FailureBound, PlusOne, AtMost

LEMMA TruthAlways ==
    Spec /\ [][Retains]_vars => []Truth
PROOF
  <1>1. IInv /\ Truth /\ [Next]_vars /\ [Retains]_vars => Truth'
    <2> SUFFICES ASSUME IInv, Truth, [Next]_vars, [Retains]_vars
                 PROVE  Truth'
      OBVIOUS
    <2>1. TruthInv /\ Retains
      BY DEF Truth, Retains, vars
    <2> QED
      BY <2>1, BindingsKeepTruth, TerminalResultsKeepTruth, ScanObservedKeepsTruth,
         CheckpointsKeepTruth, ApplyNullKeepsTruth, EvaluateReplicateKeepsTruth,
         FinaliseKeepsTruth, VerifyAndReturnKeepsTruth, MalformedKeepsTruth, StutterKeepsTruth
      DEF Next, Stopped
  <1> QED
    BY <1>1, InitIsTrue, SpecKeepsIInv, PTL DEF Spec

\* In every run in which contents of arrays and retained records stay as callbacks leave them,
\* and for every result that the public hook kept, the counts that calibrate_selected_family
\* returns are the true counts of the drawn states, for every family, statistic, plan and set
\* of faults.
THEOREM ReturnedCountsTrue ==
    Spec /\ [][Retains]_vars => []ReturnedCountsAreTrue
PROOF
  <1>1. Truth => ReturnedCountsAreTrue
    BY DEF Truth
  <1> QED
    BY <1>1, TruthAlways, PTL

-----------------------------------------------------------------------------
\* Replicates that drew the identity, when even the contents of arrays may be put back

\* A step that puts back neither the observed vector nor a retained outcome.
RetainsRecords == drift \cap {"observed", "history"} \subseteq drift'

\* The records an identity outcome is compared with and kept in.
RecordsIntact == drift \cap {"observed", "history"} = {}

IdentityOutcomesCount ==
    \A i \in DOMAIN history :
        history[i].token = Identity =>
            history[i].status = "COMPLETE" /\ history[i].decision = Decision(observed)

IdentityInv ==
    /\ RecordsIntact => IdentityOutcomesCount
    /\ pc = "verify" /\ result.stage \in {"NONE", "REPLICATE_EXECUTION"} =>
           /\ result = FinalResult(history, observed, Decision(observed), plan)
           /\ observed \in Vectors /\ AllValid(observed)
    /\ IdentityIsAlwaysCounted

\* A step that leaves records and outcomes alone, and neither verifies nor returns.
LEMMA OtherStepsKeepIdentity ==
    ASSUME IdentityInv, UNCHANGED <<observed, history>>, RecordsIntact' => RecordsIntact,
           pc' \notin {"verify", "returned"}
    PROVE  IdentityInv'
PROOF
  <1>1. IdentityOutcomesCount => IdentityOutcomesCount'
    BY DEF IdentityOutcomesCount, Identity
  <1>2. IdentityIsAlwaysCounted'
    BY DEF IdentityIsAlwaysCounted, Executed, Returned, HookKeptResult
  <1> QED
    BY <1>1, <1>2 DEF IdentityInv

LEMMA RecordsDriftForGood ==
    ASSUME RetainsRecords, NEW parts, NEW d \in DriftsOf(parts), drift' = d
    PROVE  RecordsIntact' => RecordsIntact
PROOF
  BY DEF DriftsOf, RetainsRecords, RecordsIntact

LEMMA CallbacksKeepIdentity ==
    ASSUME RetainsRecords, IdentityInv,
           \/ BindStatistic \/ BindNull \/ Prepare \/ AdmitBudget
           \/ SampleToken \/ ApplyNull \/ CloseHistory
    PROVE  IdentityInv'
PROOF
  <1>1. UNCHANGED <<observed, history>> /\ (RecordsIntact' => RecordsIntact)
    BY RecordsDriftForGood
    DEF BindStatistic, BindNull, Prepare, AdmitBudget, SampleToken, ApplyNull, CloseHistory
  <1>2. pc' \notin {"verify", "returned"}
    BY DEF BindStatistic, BindNull, Prepare, AdmitBudget, SampleToken, ApplyNull, CloseHistory,
           Proceed, Raise
  <1> QED
    BY <1>1, <1>2, OtherStepsKeepIdentity

LEMMA StepsWithoutOutcomesKeepIdentity ==
    ASSUME IInv, ScanObserved \/ TerminateNullBind \/ TerminateObservedScan
    PROVE  IdentityInv'
PROOF
  <1>1. history' = <<>>
    BY DEF IInv, ControlInv, BeforeLoop, ScanObserved, TerminateNullBind, TerminateObservedScan,
           Terminate
  <1>2. pc' # "returned"
    BY DEF ScanObserved, TerminateNullBind, TerminateObservedScan, Terminate, Proceed, Raise
  <1>3. pc' = "verify" => result'.stage \in {"NULL_BIND", "OBSERVED_STATISTIC_SCAN"}
    BY DEF ScanObserved, TerminateNullBind, TerminateObservedScan, Terminate, Proceed, Raise,
           TerminalResult, Result
  <1>4. IdentityOutcomesCount'
    BY <1>1 DEF IdentityOutcomesCount
  <1>5. IdentityIsAlwaysCounted'
    BY <1>2 DEF IdentityIsAlwaysCounted, Executed, Returned, HookKeptResult
  <1> QED
    BY <1>3, <1>4, <1>5 DEF IdentityInv

LEMMA EvaluateReplicateKeepsIdentity ==
    ASSUME RetainsRecords, IInv, IdentityInv, EvaluateReplicate
    PROVE  IdentityInv'
PROOF
  <1>1. PICK d \in DriftsOf(LoopParts) : \E v \in Evaluations(transformed, d) :
            /\ drift' = d
            /\ \/ Raise("integrity") /\ UNCHANGED history
               \/ TokenCheck(d) /\ Conclude(v, d)
    BY DEF EvaluateReplicate
  <1>2. PICK v \in Evaluations(transformed, d) :
            /\ drift' = d
            /\ \/ Raise("integrity") /\ UNCHANGED history
               \/ TokenCheck(d) /\ Conclude(v, d)
    BY <1>1
  <1>3. observed' = observed /\ (RecordsIntact' => RecordsIntact)
    BY <1>2, RecordsDriftForGood DEF EvaluateReplicate
  <1>4. CASE Raise("integrity") /\ UNCHANGED history
    BY <1>3, <1>4, OtherStepsKeepIdentity DEF Raise
  <1>5. CASE ~(Raise("integrity") /\ UNCHANGED history)
    <2>1. TokenCheck(d) /\ "token" \notin d
      BY <1>2, <1>5 DEF TokenCheck
    <2>2. PICK a \in Reading("observed", d, Decision(observed), DecisionValues),
               t \in Reading("token", d, token, States) :
             /\ ReproducesObserved(v, a)
             /\ IF AllValid(v)
                THEN Register(t, "COMPLETE", v, Decision(v))
                ELSE Register(t, "ANALYTIC_FAILURE", v, NoValue)
             /\ pc' = NextReplicate
      BY <1>2, <1>5 DEF Conclude
    <2>3. t = token /\ t \in States
      BY <2>1, <2>2 DEF Reading, IInv, ControlInv, EvaluateReplicate
    <2>4. v \in Vectors
      BY EvaluationsAreVectors DEF IInv, ControlInv, EvaluateReplicate
    <2> DEFINE status == IF AllValid(v) THEN "COMPLETE" ELSE "ANALYTIC_FAILURE"
               decision == IF AllValid(v) THEN Decision(v) ELSE NoValue
    <2>5. Register(t, status, v, decision)
      BY <2>2
    <2>6. status \in {"COMPLETE", "ANALYTIC_FAILURE"} /\ decision \in DecisionValues \cup {NoValue}
      BY <2>4, DecisionIsAScore
    <2>7. TypeOK /\ Len(history) < plan.replicates
      BY DEF IInv, ControlInv, EvaluateReplicate
    <2> HIDE DEF status, decision
    <2>8. /\ \A i \in DOMAIN history : history'[i] = history[i]
          /\ DOMAIN history' = DOMAIN history \cup {Len(history')}
          /\ history'[Len(history')] = [id |-> Len(history), token |-> t, status |-> status,
                                        vector |-> v, decision |-> decision]
      BY <2>3, <2>4, <2>5, <2>6, <2>7, RegisterExtends, ZenonT(60)
    <2>9. ASSUME RecordsIntact', token = Identity
          PROVE  status = "COMPLETE" /\ decision = Decision(observed)
      <3>1. a = Decision(observed)
        BY <1>2, <2>2, <2>9 DEF RecordsIntact, Reading
      <3>2. AllValid(v) /\ Decision(v) = a
        BY <2>2, <2>9 DEF ReproducesObserved
      <3> QED
        BY <3>1, <3>2 DEF status, decision
    <2>10. ASSUME RecordsIntact'
           PROVE  IdentityOutcomesCount'
      <3>1. RecordsIntact
        BY <1>3, <2>10
      <3>2. \A i \in DOMAIN history : history[i].token = Identity =>
              history[i].status = "COMPLETE" /\ history[i].decision = Decision(observed)
        BY <3>1 DEF IdentityInv, IdentityOutcomesCount
      <3>3. ASSUME NEW i \in DOMAIN history', history'[i].token = Identity
            PROVE  history'[i].status = "COMPLETE" /\ history'[i].decision = Decision(observed)
        <4>1. CASE i \in DOMAIN history
          BY <2>8, <3>2, <3>3, <4>1
        <4>2. CASE i = Len(history')
          <5>1. token = Identity
            BY <2>3, <2>8, <3>3, <4>2
          <5> QED
            BY <2>8, <2>9, <2>10, <4>2, <5>1
        <4> QED
          BY <2>8, <3>3, <4>1, <4>2
      <3>4. Decision(observed)' = Decision(observed)
        BY <1>3
      <3> QED
        BY <3>3, <3>4 DEF IdentityOutcomesCount, Identity
    <2>11. pc' \in {"close", "sample"}
      BY <2>2 DEF NextReplicate
    <2> QED
      BY <2>10, <2>11 DEF IdentityInv, IdentityIsAlwaysCounted, Executed, Returned, HookKeptResult
  <1> QED
    BY <1>4, <1>5

LEMMA FinaliseKeepsIdentity ==
    ASSUME IInv, IdentityInv, Finalise
    PROVE  IdentityInv'
PROOF
  <1>1. result' = FinalResult(history, observed, Decision(observed), plan)
    BY FinaliseReadsSnapshots
  <1>2. UNCHANGED <<plan, drift, observed, history>> /\ pc' = "verify"
    BY DEF Finalise
  <1>3. RecordsIntact' => IdentityOutcomesCount'
    BY <1>2 DEF IdentityInv, RecordsIntact, IdentityOutcomesCount, Identity
  <1>4. result' = FinalResult(history, observed, Decision(observed), plan)'
    <2>1. plan' = plan /\ observed' = observed /\ history' = history
      BY <1>2
    <2> QED
      BY <1>1, <2>1
      DEF FinalResult, Result, ExceedanceCount, FailureCount, FailureBound, PlusOne, AtMost
  <1>5. observed' \in Vectors /\ AllValid(observed)'
    BY <1>2 DEF IInv, ControlInv, Finalise, Prepared, Loop, AllValid
  <1> QED
    BY <1>2, <1>3, <1>4, <1>5 DEF IdentityInv, IdentityIsAlwaysCounted, Executed, Returned, HookKeptResult

\* A count of outcomes that reach the observed maximum covers the identity outcomes.
LEMMA IdentityOutcomesAreExceedances ==
    ASSUME TypeOK, IdentityOutcomesCount, Decision(observed) \in Int
    PROVE  Cardinality({i \in DOMAIN history : history[i].token = Identity})
               <= ExceedanceCount(history, Decision(observed))
PROOF
  <1> DEFINE a == Decision(observed)
             identities == {i \in DOMAIN history : history[i].token = Identity}
             exceeding == {i \in DOMAIN history :
                              history[i].status = "COMPLETE" /\ history[i].decision >= a}
  <1>1. identities \subseteq exceeding
    BY DEF IdentityOutcomesCount
  <1>2. IsFiniteSet(exceeding)
    <2>1. Len(history) \in Nat /\ DOMAIN history = 1 .. Len(history)
      BY DEF TypeOK
    <2>2. IsFiniteSet(DOMAIN history)
      BY <2>1, FS_Interval
    <2> QED
      BY <2>2, FS_Subset
  <1>3. Cardinality(identities) <= Cardinality(exceeding)
    BY <1>1, <1>2, FS_Subset
  <1> QED
    BY <1>3 DEF ExceedanceCount

LEMMA VerifyAndReturnKeepsIdentity ==
    ASSUME IInv, IdentityInv, VerifyAndReturn
    PROVE  IdentityInv'
PROOF
  <1>2. UNCHANGED <<plan, observed, history>>
    BY DEF VerifyAndReturn
  <1>3. TypeOK /\ pc = "verify" /\ RecordsIntact
    BY DEF IInv, ControlInv, VerifyAndReturn, RecordsIntact, PreparedGraph
  <1>4. IdentityOutcomesCount
    BY <1>3 DEF IdentityInv
  <1>5. pc' \in {"returned", "raised"}
    BY ReturnedIsVerified
  <1>6. ASSUME pc' = "returned", HookKeptResult', result'.stage \in {"NONE", "REPLICATE_EXECUTION"}
        PROVE  Cardinality({i \in DOMAIN history : history[i].token = Identity}) <= result'.exceed
    <2> DEFINE a == Decision(observed)
    <2>1. result' = result
      BY <1>6, ReturnedIsVerified
    <2>2. result = FinalResult(history, observed, a, plan)
      BY <1>3, <1>6, <2>1 DEF IdentityInv
    <2> HIDE DEF a
    <2>8. result.exceed = ExceedanceCount(history, a)
      BY <2>2, FinalResultCounts
    <2>9. a \in Int
      <3>1. observed \in Vectors /\ AllValid(observed)
        BY <1>3, <1>6, <2>1 DEF IdentityInv
      <3>2. DecisionValues \subseteq Int
        BY CalibrationAssumption DEF DecisionValues, Score, Magnitude
      <3> QED
        BY <3>1, <3>2, DecisionIsAScore DEF a
    <2> QED
      BY <1>3, <1>4, <2>1, <2>8, <2>9, IdentityOutcomesAreExceedances DEF a
  <1>7. IdentityIsAlwaysCounted'
    BY <1>2, <1>6 DEF IdentityIsAlwaysCounted, Executed, Returned, HookKeptResult, Identity
  <1>8. IdentityOutcomesCount'
    BY <1>2, <1>4 DEF IdentityOutcomesCount, Identity
  <1> QED
    BY <1>5, <1>7, <1>8 DEF IdentityInv

\* A sampled identity is an exceedance of every result that a run returns, even when callbacks
\* put back the contents of arrays they changed: it had to reproduce the observed maximum.
THEOREM IdentityCounted ==
    Spec /\ [][RetainsRecords]_vars => []IdentityIsAlwaysCounted
PROOF
  <1>1. Init => IdentityInv
    BY DEF Init, IdentityInv, IdentityOutcomesCount, IdentityIsAlwaysCounted, Executed, Returned, HookKeptResult
  <1>2. IInv /\ IdentityInv /\ [Next]_vars /\ [RetainsRecords]_vars => IdentityInv'
    <2> SUFFICES ASSUME IInv, IdentityInv, [Next]_vars, [RetainsRecords]_vars
                 PROVE  IdentityInv'
      OBVIOUS
    <2>a. RetainsRecords
      BY DEF RetainsRecords, vars
    <2>1. CASE Malformed
      <3>1. UNCHANGED <<observed, history, drift>> /\ pc' = "raised"
        BY <2>1 DEF Malformed, Raise
      <3> QED
        BY <3>1, OtherStepsKeepIdentity DEF RecordsIntact
    <2>2. CASE UNCHANGED vars
      BY <2>2 DEF vars, IdentityInv, RecordsIntact, IdentityOutcomesCount, IdentityIsAlwaysCounted,
                  Executed, Returned, HookKeptResult, Identity, FinalResult, Result, ExceedanceCount, FailureCount,
                  FailureBound, PlusOne, AtMost, AllValid
    <2> QED
      BY <2>a, <2>1, <2>2, CallbacksKeepIdentity, StepsWithoutOutcomesKeepIdentity,
         EvaluateReplicateKeepsIdentity, FinaliseKeepsIdentity, VerifyAndReturnKeepsIdentity
      DEF Next, Stopped
  <1>3. Spec /\ [][RetainsRecords]_vars => []IdentityInv
    BY <1>1, <1>2, SpecKeepsIInv, PTL DEF Spec
  <1>4. IdentityInv => IdentityIsAlwaysCounted
    BY DEF IdentityInv
  <1> QED
    BY <1>3, <1>4, PTL

-----------------------------------------------------------------------------
\* One outcome per replicate, in order, none rewritten: only _register_task8b_outcome
\* touches the history, and nothing touches the result after it was returned.
THEOREM HistoryAppendOnly ==
    Spec => HistoryIsAppendOnly
PROOF
  <1> DEFINE Grows == /\ history' # history =>
                           /\ Len(history') = Len(history) + 1
                           /\ SubSeq(history', 1, Len(history)) = history
                      /\ ~Returned
  <1>1. ASSUME IInv, EvaluateReplicate, history' # history
        PROVE  /\ Len(history') = Len(history) + 1
               /\ SubSeq(history', 1, Len(history)) = history
    <2>1. PICK o : history' = Append(history, o)
      BY <1>1 DEF EvaluateReplicate, Conclude, Register, Raise
    <2>2. history \in Seq(Outcomes) /\ history' \in Seq(Outcomes)
      BY <1>1, EvaluateReplicateKeeps DEF IInv, TypeOK
    <2>3. /\ Len(history) \in Nat
          /\ Len(history') = Len(history) + 1
          /\ \A i \in 1 .. Len(history) : history'[i] = history[i]
      BY <2>1, <2>2
    <2>4. \A i \in 1 .. Len(history) : history[i] \in Outcomes
      BY <2>2, ElementOfSeq
    <2>5. /\ SubSeq(history', 1, Len(history)) \in Seq(Outcomes)
          /\ Len(SubSeq(history', 1, Len(history))) = Len(history)
          /\ \A i \in 1 .. Len(history) :
                SubSeq(history', 1, Len(history))[i] = history[i]
      <3>1. \A i \in 1 .. Len(history) : history'[i] \in Outcomes
        BY <2>3, <2>4
      <3>2. /\ SubSeq(history', 1, Len(history)) \in Seq(Outcomes)
            /\ Len(SubSeq(history', 1, Len(history)))
                 = IF 1 <= Len(history) THEN Len(history) - 1 + 1 ELSE 0
            /\ \A i \in 1 .. Len(history) - 1 + 1 :
                  SubSeq(history', 1, Len(history))[i] = history'[1 + i - 1]
        BY <2>3, <3>1, SubSeqProperties
      <3> QED
        BY <2>3, <3>2
    <2>6. SubSeq(history', 1, Len(history)) = history
      BY <2>2, <2>5, SeqEqual
    <2> QED
      BY <2>3, <2>6
  <1>2. IInv /\ [Next]_vars => [Grows]_<<history, result>>
    <2> SUFFICES ASSUME IInv, [Next]_vars, ~UNCHANGED <<history, result>>
                 PROVE  Grows
      OBVIOUS
    <2>1. CASE EvaluateReplicate
      BY <1>1, <2>1 DEF EvaluateReplicate, Returned
    <2>2. CASE Next /\ ~EvaluateReplicate
      <3>1. history' = history
        BY <2>2 DEF Next, BindStatistic, BindNull, TerminateNullBind, ScanObserved,
                    TerminateObservedScan, Terminate, Prepare, AdmitBudget, SampleToken,
                    ApplyNull, CloseHistory, Finalise, VerifyAndReturn, Malformed, Stopped, vars
      <3>2. ~Returned
        BY <2>2 DEF Next, BindStatistic, BindNull, TerminateNullBind, ScanObserved,
                    TerminateObservedScan, Prepare, AdmitBudget, SampleToken, ApplyNull,
                    CloseHistory, Finalise, VerifyAndReturn, Malformed, Stopped, vars, Returned
      <3> QED
        BY <3>1, <3>2
    <2> QED
      BY <2>1, <2>2 DEF vars
  <1>3. Spec => [][Grows]_<<history, result>>
    BY <1>2, SpecKeepsIInv, PTL DEF Spec
  <1> QED
    BY <1>3 DEF HistoryIsAppendOnly

-----------------------------------------------------------------------------
\* Everything a returned result says, and the test it implements

Terminal == {"NULL_BIND", "OBSERVED_STATISTIC_SCAN"}

\* The result that the history and the statistic determine.
Computed == FinalResult(history, stat[Identity], Decision(stat[Identity]), plan)

\* The records are of the enumerated states, and nothing is drawn or returned for a family
\* that could not be scanned.
DrawsOK ==
    /\ plan.enumerating /\ pc \in {"apply", "evaluate"} => token = Len(history) + 1
    /\ plan.enumerating => \A i \in DOMAIN history : history[i].token = i
    /\ history # <<>> => AllValid(stat[Identity])
    /\ pc = "close_observed" => observed = stat[Identity]

\* A result is the computed one, unless the hook replaced it.
ResultOK ==
    pc = "verify" \/ (Returned /\ HookKeptResult) =>
        /\ result.stage \in Terminal =>
               /\ history = <<>> /\ result.label = NoValue
               /\ result.stage = "OBSERVED_STATISTIC_SCAN" => ~AllValid(stat[Identity])
        /\ result.stage \notin Terminal =>
               /\ AllValid(stat[Identity])
               /\ Len(history) = plan.replicates /\ ~PartialEnumeration
               /\ result = Computed
               /\ \A i \in DOMAIN history : OutcomeIsTrue(history[i])

Settled == DrawsOK /\ ResultOK

LEMMA SettledStart == Init => Settled
PROOF
  <1> SUFFICES ASSUME Init
               PROVE  Settled
    OBVIOUS
  <1>1. pc = "bind_statistic" /\ history = <<>>
    BY DEF Init
  <1>2. DOMAIN history = {}
    BY <1>1
  <1> QED
    BY <1>1, <1>2 DEF Settled, DrawsOK, ResultOK, Returned

\* A step that registers no outcome, draws no token and hands on no result.
LEMMA QuietStepsKeepSettled ==
    ASSUME Settled, UNCHANGED <<plan, stat, history>>,
           pc' \notin {"apply", "close_observed", "verify", "returned"},
           pc' = "evaluate" => pc = "apply" /\ token' = token
    PROVE  Settled'
PROOF
  <1>1. DrawsOK'
    BY DEF Settled, DrawsOK, AllValid, Identity
  <1>2. ResultOK'
    BY DEF ResultOK, Returned
  <1> QED
    BY <1>1, <1>2 DEF Settled

LEMMA CallbacksKeepSettled ==
    ASSUME Settled,
           \/ BindStatistic \/ BindNull \/ Prepare \/ AdmitBudget \/ ApplyNull \/ CloseHistory
           \/ Malformed
    PROVE  Settled'
PROOF
  <1>1. UNCHANGED <<plan, stat, history>>
    BY DEF BindStatistic, BindNull, Prepare, AdmitBudget, ApplyNull, CloseHistory, Malformed
  <1>2. pc' \in {"bind_null", "close_null_bind", "scan_observed", "admit", "sample", "evaluate",
                 "finalise", "raised"}
    BY DEF BindStatistic, BindNull, Prepare, AdmitBudget, ApplyNull, CloseHistory, Malformed,
       Proceed, Raise
  <1>3. pc' = "evaluate" => ApplyNull
    BY DEF BindStatistic, BindNull, Prepare, AdmitBudget, CloseHistory, Malformed, Proceed, Raise
  <1>4. pc' = "evaluate" => pc = "apply" /\ token' = token
    BY <1>3 DEF ApplyNull
  <1> QED
    BY <1>1, <1>2, <1>4, QuietStepsKeepSettled

\* The token of an enumerating null is the next state, if the null has kept its slots.
LEMMA SampleTokenKeepsSettled ==
    ASSUME Settled, SampleToken
    PROVE  Settled'
PROOF
  <1>1. PICK d : token' \in Draws(d) /\ Proceed(LoopCheck(d), "apply")
    BY DEF SampleToken
  <1>2. UNCHANGED <<plan, stat, history>> /\ pc' \in {"apply", "raised"}
    BY <1>1 DEF SampleToken, Proceed, Raise
  <1>3. pc' = "apply" /\ plan.enumerating => token' = Len(history) + 1
    BY <1>1 DEF Proceed, Raise, LoopCheck, LightCheck, LightVisible, Draws
  <1>4. DrawsOK'
    BY <1>2, <1>3 DEF Settled, DrawsOK, AllValid, Identity
  <1>5. ResultOK'
    BY <1>2 DEF ResultOK, Returned
  <1> QED
    BY <1>4, <1>5 DEF Settled

\* The observed scan is of the pair as it is, or the run ends.
LEMMA ScanObservedKeepsSettled ==
    ASSUME IInv, Settled, ScanObserved
    PROVE  Settled'
PROOF
  <1>1. PICK d \in DriftsOf(LightVisible \cup {"arrays", "globals"}) :
            /\ observed' \in Evaluations(Identity, drift \cup d)
            /\ Proceed(ActiveCheck(d),
                       IF AllValid(observed') THEN "prepare" ELSE "close_observed")
    BY DEF ScanObserved
  <1>2. UNCHANGED <<plan, stat, history>> /\ pc' \in {"prepare", "close_observed", "raised"}
    BY <1>1 DEF ScanObserved, Proceed, Raise
  <1>3. ASSUME pc' = "close_observed"
        PROVE  observed' = stat[Identity]
    <2>1. d \cap PreparedGraph = {}
      BY <1>1, <1>3 DEF Proceed, Raise, ActiveCheck
    <2>2. (drift \cup d) \cap {"statistic", "arrays"} = {}
      BY <2>1 DEF IInv, ControlInv, ScanObserved, PreparedGraph, LightVisible
    <2> QED
      BY <1>1, <2>2 DEF Evaluations
  <1>4. DrawsOK'
    BY <1>2, <1>3 DEF Settled, DrawsOK, AllValid, Identity
  <1>5. ResultOK'
    BY <1>2 DEF ResultOK, Returned
  <1> QED
    BY <1>4, <1>5 DEF Settled

LEMMA TerminalResultsKeepSettled ==
    ASSUME IInv, Settled, TerminateNullBind \/ TerminateObservedScan
    PROVE  Settled'
PROOF
  <1>1. PICK stage, vector, parts :
          /\ stage \in Terminal
          /\ Terminate(stage, vector, parts)
          /\ stage = "OBSERVED_STATISTIC_SCAN" => pc = "close_observed"
    BY DEF TerminateNullBind, TerminateObservedScan, Terminal
  <1>2. UNCHANGED <<plan, stat, history>> /\ pc' \in {"verify", "raised"}
        /\ (pc' = "verify" => result' = TerminalResult(stage, vector))
    BY <1>1 DEF Terminate, Proceed, Raise
  <1>3. history = <<>>
    BY DEF IInv, ControlInv, TerminateNullBind, TerminateObservedScan, BeforeLoop
  <1>4. pc' = "verify" => result'.stage = stage /\ result'.label = NoValue
    BY <1>2 DEF TerminalResult, Result
  <1>5. stage = "OBSERVED_STATISTIC_SCAN" => ~AllValid(stat[Identity])
    BY <1>1 DEF IInv, ControlInv, Settled, DrawsOK
  <1>6. DrawsOK'
    BY <1>2 DEF Settled, DrawsOK, AllValid, Identity
  <1>7. ResultOK'
    BY <1>1, <1>2, <1>3, <1>4, <1>5 DEF ResultOK, Returned, AllValid, Identity
  <1> QED
    BY <1>6, <1>7 DEF Settled

\* A scan ends the run or registers one outcome, under the token that was drawn.
LEMMA ScansRegister ==
    ASSUME IInv, EvaluateReplicate
    PROVE  \/ pc' = "raised" /\ history' = history
           \/ /\ pc' \in {"close", "sample"}
              /\ \E o \in Outcomes : o.token = token /\ history' = Append(history, o)
PROOF
  <1>1. PICK d \in DriftsOf(LoopParts) : \E v \in Evaluations(transformed, d) :
            \/ Raise("integrity") /\ UNCHANGED history
            \/ TokenCheck(d) /\ Conclude(v, d)
    BY DEF EvaluateReplicate
  <1>2. PICK v \in Evaluations(transformed, d) :
            \/ Raise("integrity") /\ UNCHANGED history
            \/ TokenCheck(d) /\ Conclude(v, d)
    BY <1>1
  <1>3. CASE Raise("integrity") /\ UNCHANGED history
    BY <1>3 DEF Raise
  <1>4. CASE ~(Raise("integrity") /\ UNCHANGED history)
    <2>1. TokenCheck(d)
      BY <1>2, <1>4
    <2>2. PICK a \in Reading("observed", d, Decision(observed), DecisionValues),
               t \in Reading("token", d, token, States) :
             /\ IF AllValid(v)
                THEN Register(t, "COMPLETE", v, Decision(v))
                ELSE Register(t, "ANALYTIC_FAILURE", v, NoValue)
             /\ pc' = NextReplicate
      BY <1>2, <1>4 DEF Conclude
    <2>3. t = token /\ t \in States
      BY <2>1, <2>2 DEF TokenCheck, Reading, IInv, ControlInv, EvaluateReplicate
    <2>4. v \in Vectors
      BY EvaluationsAreVectors DEF IInv, ControlInv, EvaluateReplicate
    <2> DEFINE status == IF AllValid(v) THEN "COMPLETE" ELSE "ANALYTIC_FAILURE"
               decision == IF AllValid(v) THEN Decision(v) ELSE NoValue
               o == [id |-> Len(history), token |-> t, status |-> status, vector |-> v,
                     decision |-> decision]
    <2>5. history' = Append(history, o)
      BY <2>2 DEF Register
    <2>6. status \in {"COMPLETE", "ANALYTIC_FAILURE"} /\ decision \in DecisionValues \cup {NoValue}
      BY <2>4, DecisionIsAScore
    <2>7. Len(history) \in Nat
      BY DEF IInv, TypeOK
    <2> HIDE DEF status, decision
    <2>8. o \in Outcomes /\ o.token = token
      BY <2>3, <2>4, <2>6, <2>7, ZenonT(60) DEF Outcomes
    <2>9. pc' \in {"close", "sample"}
      BY <2>2 DEF NextReplicate
    <2> HIDE DEF o
    <2> QED
      BY <2>5, <2>8, <2>9
  <1> QED
    BY <1>3, <1>4

LEMMA EvaluateReplicateKeepsSettled ==
    ASSUME IInv, Truth, Settled, EvaluateReplicate
    PROVE  Settled'
PROOF
  <1>1. UNCHANGED <<plan, stat>> /\ pc = "evaluate"
    BY DEF EvaluateReplicate
  <1>2. CASE pc' = "raised" /\ history' = history
    BY <1>1, <1>2, QuietStepsKeepSettled
  <1>3. CASE /\ pc' \in {"close", "sample"}
             /\ \E o \in Outcomes : o.token = token /\ history' = Append(history, o)
    <2>1. PICK o \in Outcomes : o.token = token /\ history' = Append(history, o)
      BY <1>3
    <2>2. history \in Seq(Outcomes)
      BY DEF IInv, TypeOK
    <2>3. /\ Len(history) \in Nat /\ Len(history') = Len(history) + 1
          /\ DOMAIN history = 1 .. Len(history) /\ DOMAIN history' = 1 .. Len(history) + 1
          /\ \A i \in DOMAIN history : history'[i] = history[i]
          /\ history'[Len(history) + 1] = o
      BY <2>1, <2>2
    <2>4. plan.enumerating => \A i \in DOMAIN history' : history'[i].token = i
      <3> SUFFICES ASSUME plan.enumerating, NEW i \in DOMAIN history'
                   PROVE  history'[i].token = i
        OBVIOUS
      <3>1. token = Len(history) + 1 /\ \A j \in DOMAIN history : history[j].token = j
        BY <1>1 DEF Settled, DrawsOK
      <3>2. CASE i \in DOMAIN history
        BY <2>3, <3>1, <3>2
      <3>3. CASE i = Len(history) + 1
        BY <2>1, <2>3, <3>1, <3>3
      <3> QED
        BY <2>3, <3>2, <3>3
    <2>5. AllValid(stat[Identity])
      BY <1>1 DEF IInv, ControlInv, Truth, TruthInv, Prepared, Loop
    <2>6. DrawsOK'
      BY <1>1, <1>3, <2>4, <2>5 DEF DrawsOK, AllValid, Identity
    <2>7. ResultOK'
      BY <1>3 DEF ResultOK, Returned
    <2> QED
      BY <2>6, <2>7 DEF Settled
  <1> QED
    BY <1>2, <1>3, ScansRegister

LEMMA FinaliseKeepsSettled ==
    ASSUME IInv, Truth, Settled, Finalise, IInv', Truth'
    PROVE  Settled'
PROOF
  <1>1. /\ UNCHANGED <<plan, stat, history>> /\ pc = "finalise" /\ pc' = "verify"
        /\ result' = FinalResult(history, observed, Decision(observed), plan)
    BY FinaliseReadsSnapshots DEF Finalise
  <1>2. /\ observed = stat[Identity] /\ AllValid(observed) /\ ~PartialEnumeration
        /\ Len(history) = plan.replicates
    BY <1>1 DEF IInv, ControlInv, Truth, TruthInv, Prepared, Loop
  <1>3. result' = Computed
    BY <1>1, <1>2 DEF Computed
  <1>4. Computed' = Computed
    BY <1>1 DEF Computed, FinalResult, Result, ExceedanceCount, FailureCount, FailureBound,
       PlusOne, AtMost, Identity
  <1>5. result'.stage \in {"NONE", "REPLICATE_EXECUTION"}
    BY <1>3, FinalResultCounts DEF Computed
  <1>6. result' = Computed'
    BY <1>3, <1>4
  <1>7. \A i \in DOMAIN history' : OutcomeIsTrue(history[i])'
    BY <1>1 DEF IInv, ControlInv, Truth, TruthInv, Intact
  <1>8. DrawsOK'
    BY <1>1 DEF Settled, DrawsOK, AllValid, Identity
  <1>9. ResultOK'
    BY <1>1, <1>2, <1>5, <1>6, <1>7
       DEF ResultOK, Returned, Terminal, AllValid, Identity, PartialEnumeration
  <1> QED
    BY <1>8, <1>9 DEF Settled

LEMMA VerifyAndReturnKeepsSettled ==
    ASSUME IInv, Settled, VerifyAndReturn
    PROVE  Settled'
PROOF
  <1>1. UNCHANGED <<plan, stat, history>> /\ pc = "verify"
    BY DEF VerifyAndReturn
  <1>2. pc' \in {"returned", "raised"}
        /\ (pc' = "returned" /\ HookKeptResult' => result' = result)
    BY ReturnedIsVerified
  <1>3. DrawsOK'
    BY <1>1, <1>2 DEF Settled, DrawsOK, AllValid, Identity
  <1>4. Computed' = Computed
    BY <1>1 DEF Computed, FinalResult, Result, ExceedanceCount, FailureCount, FailureBound,
       PlusOne, AtMost, Identity
  <1>5. (\A i \in DOMAIN history : OutcomeIsTrue(history[i]))
            => \A i \in DOMAIN history' : OutcomeIsTrue(history[i])'
    BY <1>1 DEF OutcomeIsTrue, AllValid
  <1>6. ResultOK'
    <2> SUFFICES ASSUME Returned', HookKeptResult'
                 PROVE  ResultOK'
      BY <1>1, <1>2 DEF ResultOK
    <2>1. result' = result /\ ResultOK
      BY <1>2 DEF Returned, Settled
    <2> QED
      BY <1>1, <1>4, <1>5, <2>1 DEF ResultOK, AllValid, Identity, PartialEnumeration
  <1> QED
    BY <1>3, <1>6 DEF Settled

LEMMA StutterKeepsSettled ==
    ASSUME Settled, UNCHANGED vars
    PROVE  Settled'
PROOF
  <1>1. UNCHANGED <<pc, plan, stat, drift, observed, token, history, result>>
    BY DEF vars
  <1>2. Computed' = Computed
    BY <1>1 DEF Computed, FinalResult, Result, ExceedanceCount, FailureCount, FailureBound,
       PlusOne, AtMost, Identity
  <1>3. \A i \in DOMAIN history : OutcomeIsTrue(history[i])' = OutcomeIsTrue(history[i])
    BY <1>1 DEF OutcomeIsTrue, AllValid
  <1>4. DrawsOK'
    BY <1>1 DEF Settled, DrawsOK, AllValid, Identity
  <1>5. ResultOK'
    BY <1>1, <1>2, <1>3
       DEF Settled, ResultOK, Returned, HookKeptResult, AllValid, Identity, PartialEnumeration
  <1> QED
    BY <1>4, <1>5 DEF Settled

LEMMA SettledAlways ==
    Spec /\ [][Retains]_vars => []Settled
PROOF
  <1>1. IInv /\ Truth /\ Settled /\ [Next]_vars /\ IInv' /\ Truth' => Settled'
    <2> SUFFICES ASSUME IInv, Truth, Settled, [Next]_vars, IInv', Truth'
                 PROVE  Settled'
      OBVIOUS
    <2> QED
      BY CallbacksKeepSettled, SampleTokenKeepsSettled, ScanObservedKeepsSettled,
         TerminalResultsKeepSettled, EvaluateReplicateKeepsSettled, FinaliseKeepsSettled,
         VerifyAndReturnKeepsSettled, StutterKeepsSettled
      DEF Next, Stopped
  <1> QED
    BY <1>1, SettledStart, SpecKeepsIInv, TruthAlways, PTL DEF Spec

\* The fields of a result whose replicates have all been executed.
LEMMA ExecutedResult ==
    ASSUME IInv, Settled, Returned, HookKeptResult, result.stage \notin Terminal
    PROVE  LET E == Cardinality(TrueExceedances)
               F == Cardinality(TrueFailures)
               B == plan.replicates
           IN  /\ result.label = SelectedCandidate(stat[Identity])
               /\ E \in Nat /\ F \in Nat /\ IsFiniteSet(TrueExceedances) /\ IsFiniteSet(TrueFailures)
               /\ F = 0 => /\ result.stage = "NONE" /\ result.p = PlusOne(E, B)
                           /\ result.reject = AtMost(PlusOne(E, B), plan.alpha)
               /\ F # 0 => /\ result.stage = "REPLICATE_EXECUTION"
                           /\ result.low = FailureBound(E, 0, B)
                           /\ result.high = FailureBound(E, F, B)
PROOF
  <1> DEFINE E == Cardinality(TrueExceedances)
             F == Cardinality(TrueFailures)
             a == Decision(stat[Identity])
  <1>1. /\ AllValid(stat[Identity])
        /\ result = Computed
        /\ \A i \in DOMAIN history : OutcomeIsTrue(history[i])
    BY DEF Settled, ResultOK, Returned
  <1>2. ExceedanceCount(history, a) = E /\ FailureCount(history) = F
    BY <1>1, TrueHistoryGivesTrueCounts DEF IInv
  <1>3. stat[Identity] \in Vectors /\ history \in Seq(Outcomes)
    BY CalibrationAssumption DEF IInv, TypeOK, States, Identity
  <1>4. a \in Int /\ a # NoValue
    <2>1. stat[Identity] \in [Candidates -> Int]
      BY <1>1, <1>3, DecisionIsAScore
    <2>2. a \in Int
      BY <2>1, DecisionIsMaximum
    <2> QED
      BY <2>2, CalibrationAssumption
  <1>5. IsFiniteSet(TrueExceedances) /\ IsFiniteSet(TrueFailures)
    <2>1. Len(history) \in Nat /\ DOMAIN history = 1 .. Len(history)
      BY <1>3
    <2>2. IsFiniteSet(DOMAIN history)
      BY <2>1, FS_Interval
    <2>3. TrueExceedances \in SUBSET DOMAIN history /\ TrueFailures \in SUBSET DOMAIN history
      BY DEF TrueExceedances, TrueFailures
    <2> QED
      BY <2>2, <2>3, FS_Subset
  <1>6. E \in Nat /\ F \in Nat
    BY <1>5, FS_CardinalityType
  <1> HIDE DEF E, F, a
  <1>7. Computed = FinalResult(history, stat[Identity], a, plan)
    BY DEF Computed, a
  <1>8. CASE F = 0
    <2>1. Computed = [Result("COMPLETE", "NONE", stat[Identity], a, history)
                        EXCEPT !.plan = plan, !.exceed = E, !.p = PlusOne(E, plan.replicates),
                               !.reject = AtMost(PlusOne(E, plan.replicates), plan.alpha)]
      BY <1>2, <1>7, <1>8 DEF FinalResult
    <2>2. /\ Computed.stage = "NONE" /\ Computed.p = PlusOne(E, plan.replicates)
          /\ Computed.reject = AtMost(PlusOne(E, plan.replicates), plan.alpha)
          /\ Computed.label = SelectedCandidate(stat[Identity])
      BY <1>4, <2>1 DEF Result
    <2>3. /\ result.stage = Computed.stage /\ result.p = Computed.p
          /\ result.reject = Computed.reject /\ result.label = Computed.label
      BY <1>1, <2>1 DEF Result
    <2> QED
      BY <1>5, <1>6, <1>8, <2>2, <2>3 DEF E, F
  <1>9. CASE F # 0
    <2>1. Computed = [Result("NOT_EVALUABLE", "REPLICATE_EXECUTION", stat[Identity], a, history)
                        EXCEPT !.plan = plan, !.exceed = E, !.fails = F,
                               !.low = FailureBound(E, 0, plan.replicates),
                               !.high = FailureBound(E, F, plan.replicates)]
      BY <1>2, <1>7, <1>9 DEF FinalResult
    <2>2. /\ Computed.stage = "REPLICATE_EXECUTION"
          /\ Computed.low = FailureBound(E, 0, plan.replicates)
          /\ Computed.high = FailureBound(E, F, plan.replicates)
          /\ Computed.label = SelectedCandidate(stat[Identity])
      BY <1>4, <2>1 DEF Result
    <2>3. /\ result.stage = Computed.stage /\ result.low = Computed.low
          /\ result.high = Computed.high /\ result.label = Computed.label
      BY <1>1, <2>1 DEF Result
    <2> QED
      BY <1>5, <1>6, <1>9, <2>2, <2>3 DEF E, F
  <1> QED
    BY <1>8, <1>9

\* The lag of a result that the hook kept is the first whose score is within the tolerance of
\* the family maximum of the observed pair, in every run that retains contents: whatever else
\* the callbacks break, the label is never that of another vector (select_family_v2).
THEOREM LabelsAreFirstNearMaximum ==
    Spec /\ [][Retains]_vars => []LabelIsFirstNearMaximum
PROOF
  <1>1. IInv /\ Settled => LabelIsFirstNearMaximum
    <2> DEFINE v == stat[Identity]
    <2> SUFFICES ASSUME IInv, Settled, Returned, HookKeptResult, result.label # NoValue, NEW c \in Candidates
                 PROVE  /\ Score(v[c]) <= Score(v[result.label]) + Tolerance
                        /\ c < result.label =>
                              \E e \in Candidates : Score(v[c]) + Tolerance < Score(v[e])
      BY DEF LabelIsFirstNearMaximum
    <2>1. result.stage \notin Terminal
      BY DEF Settled, ResultOK, Returned
    <2>2. result.label = SelectedCandidate(v) /\ AllValid(v)
      BY <2>1, ExecutedResult DEF Settled, ResultOK, Returned
    <2>3. v \in Vectors
      BY CalibrationAssumption DEF IInv, TypeOK, States, Identity
    <2>4. v \in [Candidates -> Int]
      BY <2>2, <2>3, DecisionIsAScore
    <2> HIDE DEF v
    <2>5. \A e \in Candidates : Score(v[e]) \in Int /\ e \in Nat
      BY <2>4, CandidatesAssumption DEF Score, Magnitude
    <2>6. /\ Decision(v) \in Int /\ Decision(v) >= Score(v[c])
          /\ \E e \in Candidates : Decision(v) = Score(v[e])
      BY <2>4, DecisionIsMaximum
    <2>7. /\ result.label \in Tied(v) /\ \A d \in Tied(v) : result.label <= d
      BY <2>2, <2>4, SelectedIsSmallestTied
    <2>8. result.label \in Candidates /\ Decision(v) - Score(v[result.label]) <= Tolerance
      BY <2>7 DEF Tied
    <2>9. Score(v[c]) <= Score(v[result.label]) + Tolerance
      BY <2>5, <2>6, <2>8, ToleranceAssumption
    <2>10. ASSUME c < result.label
           PROVE  \E e \in Candidates : Score(v[c]) + Tolerance < Score(v[e])
      <3>1. c \notin Tied(v)
        BY <2>5, <2>7, <2>8, <2>10
      <3>2. Decision(v) - Score(v[c]) > Tolerance
        BY <2>5, <2>6, <3>1, ToleranceAssumption DEF Tied
      <3>3. Score(v[c]) + Tolerance < Decision(v)
        BY <2>5, <2>6, <3>2, ToleranceAssumption
      <3> QED
        BY <2>6, <3>3
    <2> QED
      BY <2>9, <2>10
  <1> QED
    BY <1>1, SpecKeepsIInv, SettledAlways, PTL

\* The bounds of a run with failed replicates are the least and the greatest p-value that
\* any completion of those replicates would give, for any number of them: the failed ones
\* count for the upper bound and stay in the denominator of both, in every run that retains
\* contents and returns its own result (exceedance_bound_low, exceedance_bound_high).
THEOREM BoundsBracket ==
    Spec /\ [][Retains]_vars => []BoundsBracketEveryCompletion
PROOF
  <1>1. IInv /\ Settled => BoundsBracketEveryCompletion
    <2> DEFINE E == Cardinality(TrueExceedances)
               F == Cardinality(TrueFailures)
               completions == {1 + E + Cardinality(G) : G \in SUBSET TrueFailures}
    <2> SUFFICES ASSUME IInv, Settled, Returned, HookKeptResult,
                        result.stage = "REPLICATE_EXECUTION"
                 PROVE  /\ result.low = <<Min(completions), plan.replicates + 1>>
                        /\ result.high = <<Max(completions), plan.replicates + 1>>
                        /\ result.low # result.high
      BY DEF BoundsBracketEveryCompletion, Executed
    <2>1. result.stage \notin Terminal /\ result.stage # "NONE"
      BY DEF Terminal
    <2>2. /\ E \in Nat /\ F \in Nat /\ IsFiniteSet(TrueFailures) /\ F # 0
          /\ result.low = FailureBound(E, 0, plan.replicates)
          /\ result.high = FailureBound(E, F, plan.replicates)
      BY <2>1, ExecutedResult
    <2>3. \A G \in SUBSET TrueFailures : Cardinality(G) \in Nat /\ Cardinality(G) <= F
      BY <2>2, FS_Subset, FS_CardinalityType
    <2>4. \A k \in completions : k \in 1 + E .. 1 + E + F
      BY <2>2, <2>3
    <2>5. 1 + E \in completions
      <3>1. {} \in SUBSET TrueFailures /\ Cardinality({}) = 0
        BY FS_EmptySet
      <3>2. 1 + E + Cardinality({}) = 1 + E
        BY <2>2, <3>1
      <3> QED
        BY <3>1, <3>2
    <2>6. 1 + E + F \in completions
      OBVIOUS
    <2> HIDE DEF E, F, completions
    <2>7. IsFiniteSet(completions) /\ completions \subseteq Int
      <3>1. IsFiniteSet(1 + E .. 1 + E + F)
        BY <2>2, FS_Interval
      <3>2. completions \in SUBSET (1 + E .. 1 + E + F)
        BY <2>4
      <3>3. IsFiniteSet(completions)
        BY <3>1, <3>2, FS_Subset
      <3>4. completions \subseteq Int
        BY <2>2, <2>4
      <3> QED
        BY <3>3, <3>4
    <2>8. Min(completions) \in completions /\ \A y \in completions : Min(completions) <= y
      BY <2>5, <2>7, MinOfFiniteSet
    <2>9. Max(completions) \in completions /\ \A y \in completions : Max(completions) >= y
      BY <2>5, <2>7, MaxOfFiniteSet
    <2>10. Min(completions) = 1 + E
      BY <2>2, <2>4, <2>5, <2>8
    <2>11. Max(completions) = 1 + E + F
      BY <2>2, <2>4, <2>6, <2>9
    <2>12. 1 + E + 0 = 1 + E /\ 1 + E + F # 1 + E
      BY <2>2
    <2> QED
      BY <2>2, <2>10, <2>11, <2>12 DEF FailureBound
  <1> QED
    BY <1>1, SpecKeepsIInv, SettledAlways, PTL

\* A complete run of an enumerating null returns the exact p-value, for every number of
\* states: B is one less than the states, replicate i has state i, and the plus one stands
\* for the identity, in every run that retains contents and returns its own result
\* (enumerate_token, _prepare_calibration).
THEOREM EnumerationIsExact ==
    Spec /\ [][Retains]_vars => []EnumeratedPValueIsExact
PROOF
  <1>1. IInv /\ Settled => EnumeratedPValueIsExact
    <2> DEFINE E == Cardinality(TrueExceedances)
               reach == {s \in States : Decision(stat[s]) >= Decision(stat[Identity])}
    <2> SUFFICES ASSUME IInv, Settled, Returned, HookKeptResult, plan.enumerating,
                        result.stage = "NONE"
                 PROVE  result.p = <<Cardinality(reach), StateCount>>
      BY DEF EnumeratedPValueIsExact, Executed
    <2>1. result.stage \notin Terminal /\ result.stage # "REPLICATE_EXECUTION"
      BY DEF Terminal
    <2>2. /\ E \in Nat /\ IsFiniteSet(TrueExceedances) /\ IsFiniteSet(TrueFailures)
          /\ Cardinality(TrueFailures) = 0 /\ result.p = PlusOne(E, plan.replicates)
      BY <2>1, ExecutedResult
    <2>3. /\ Len(history) = plan.replicates /\ plan.replicates = StateCount - 1
          /\ AllValid(stat[Identity]) /\ \A i \in DOMAIN history : history[i].token = i
      BY <2>1 DEF Settled, ResultOK, DrawsOK, Returned, PartialEnumeration
    <2>4. StateCount \in Nat \ {0} /\ DOMAIN history = 1 .. StateCount - 1
      <3>1. history \in Seq(Outcomes)
        BY DEF IInv, TypeOK
      <3> QED
        BY <2>3, <3>1, CalibrationAssumption
    <2>5. TrueFailures = {}
      BY <2>2, FS_EmptySet
    <2>6. TrueExceedances = {i \in 1 .. StateCount - 1 : Decision(stat[i]) >= Decision(stat[Identity])}
      BY <2>3, <2>4, <2>5 DEF TrueExceedances
    <2>7. Decision(stat[Identity]) \in Int
      <3>1. stat[Identity] \in Vectors
        BY <2>4 DEF IInv, TypeOK, States, Identity
      <3> QED
        BY <2>3, <3>1, DecisionIsAScore, DecisionIsMaximum
    <2>8. Identity \in reach
      BY <2>4, <2>7 DEF States, Identity
    <2>9. States = (1 .. StateCount - 1) \cup {Identity} /\ Identity \notin 1 .. StateCount - 1
      BY <2>4 DEF States, Identity
    <2>10. reach = TrueExceedances \cup {Identity} /\ Identity \notin TrueExceedances
      BY <2>6, <2>8, <2>9
    <2> HIDE DEF E, reach
    <2>11. Cardinality(reach) = E + 1
      BY <2>2, <2>10, FS_AddElement DEF E
    <2>12. 1 + E = E + 1 /\ plan.replicates + 1 = StateCount
      BY <2>2, <2>3, <2>4
    <2> QED
      BY <2>2, <2>11, <2>12 DEF PlusOne
  <1> QED
    BY <1>1, SpecKeepsIInv, SettledAlways, PTL

-----------------------------------------------------------------------------
\* The abstract test

LEMMA TestOperators ==
    /\ \A v : Test!AllValid(v) <=> AllValid(v)
    /\ \A v : Test!Decision(v) = Decision(v)
    /\ Test!States = States
    /\ Test!Vectors = Vectors
    /\ \A S : Test!Cardinality(S) = Cardinality(S)
PROOF
  <1>1. \A S : Test!Cardinality(S) = Cardinality(S)
    BY DEF Test!Cardinality, Cardinality
  <1> QED
    BY <1>1 DEF Test!AllValid, AllValid, Test!Decision, Decision, Test!Score, Score, Test!Magnitude,
     Magnitude, Test!Max, Max, Test!States, States, Test!Vectors, Vectors

\* Nothing is told before the run ends.
LEMMA NothingToldYet ==
    pc \notin {"returned", "raised"} => Told = NoValue
PROOF
  BY DEF Told

\* An outcome is registered as a draw.
LEMMA RegistrationIsADraw ==
    ASSUME IInv, Settled, Truth, UNCHANGED <<plan, stat>>, pc = "evaluate",
           pc' \in {"close", "sample"},
           NEW o \in Outcomes, o.token = token, history' = Append(history, o)
    PROVE  Test!Draw
PROOF
  <1>1. Told = NoValue /\ Told' = NoValue
    BY DEF Told
  <1>2. history \in Seq(Outcomes) /\ token \in States /\ Len(history) < plan.replicates
    BY DEF IInv, TypeOK, ControlInv
  <1>3. AllValid(stat[Identity])
    BY DEF IInv, ControlInv, Truth, TruthInv, Prepared, Loop
  <1>4. Len(Drawn) = Len(history)
    BY <1>2 DEF Drawn
  <1>5. Drawn' = Append(Drawn, token)
    <2>1. /\ Len(history) \in Nat /\ DOMAIN history = 1 .. Len(history)
          /\ DOMAIN history' = 1 .. Len(history) + 1
          /\ \A i \in 1 .. Len(history) : history'[i] = history[i]
          /\ history'[Len(history) + 1] = o
      BY <1>2
    <2>2. Drawn' = [i \in 1 .. Len(history) + 1 |-> history'[i].token]
      BY <2>1 DEF Drawn
    <2>3. Append(Drawn, token)
              = [i \in 1 .. Len(history) + 1 |-> IF i = Len(history) + 1 THEN token ELSE history[i].token]
      BY <1>2, <1>4, <2>1 DEF Drawn
    <2> QED
      BY <2>1, <2>2, <2>3
  <1>6. token \in IF plan.enumerating THEN {Len(Drawn) + 1} ELSE Test!States
    BY <1>2, <1>4, TestOperators DEF Settled, DrawsOK
  <1> QED
    BY <1>1, <1>2, <1>3, <1>4, <1>5, <1>6, TestOperators DEF Test!Draw, Identity

\* A final result says the verdict on the scans its outcomes were registered from.
LEMMA FinalResultSays ==
    ASSUME NEW outcomes \in Seq(Outcomes), NEW vector \in Vectors, AllValid(vector),
           NEW scans \in [DOMAIN outcomes -> Vectors],
           \A i \in DOMAIN outcomes :
              /\ outcomes[i].status
                     = (IF AllValid(scans[i]) THEN "COMPLETE" ELSE "ANALYTIC_FAILURE")
              /\ AllValid(scans[i]) => outcomes[i].decision = Decision(scans[i])
    PROVE  Says(FinalResult(outcomes, vector, Decision(vector), plan)) = Test!Verdict(vector, scans)
PROOF
  <1> DEFINE a == Decision(vector)
             r == FinalResult(outcomes, vector, a, plan)
             B == plan.replicates
             failed == {i \in DOMAIN outcomes : ~AllValid(scans[i])}
             exceeded == {i \in DOMAIN outcomes \ failed : Decision(scans[i]) >= a}
             E == Cardinality(exceeded)
             F == Cardinality(failed)
  <1>1. /\ {i \in DOMAIN outcomes : outcomes[i].status = "ANALYTIC_FAILURE"} = failed
        /\ {i \in DOMAIN outcomes : outcomes[i].status = "COMPLETE" /\ outcomes[i].decision >= a}
               = exceeded
    OBVIOUS
  <1>2. ExceedanceCount(outcomes, a) = E /\ FailureCount(outcomes) = F
    BY <1>1 DEF ExceedanceCount, FailureCount
  <1>3. IsFiniteSet(exceeded) /\ IsFiniteSet(failed)
    <2>1. Len(outcomes) \in Nat /\ DOMAIN outcomes = 1 .. Len(outcomes)
      OBVIOUS
    <2>2. IsFiniteSet(DOMAIN outcomes)
      BY <2>1, FS_Interval
    <2>3. exceeded \in SUBSET DOMAIN outcomes /\ failed \in SUBSET DOMAIN outcomes
      OBVIOUS
    <2> HIDE DEF exceeded, failed
    <2> QED
      BY <2>2, <2>3, FS_Subset
  <1>4. Cardinality(exceeded \cup failed) = E + F
    <2>1. exceeded \cap failed = {}
      OBVIOUS
    <2> HIDE DEF exceeded, failed
    <2>2. Cardinality(exceeded \cup failed) = E + F - Cardinality(exceeded \cap failed)
      BY <1>3, FS_Union
    <2>3. Cardinality(exceeded \cap failed) = 0 /\ E \in Nat /\ F \in Nat
      BY <1>3, <2>1, FS_EmptySet, FS_CardinalityType
    <2> HIDE DEF E, F
    <2> QED
      BY <2>2, <2>3
  <1>5. E \in Nat /\ F \in Nat /\ (failed = {} <=> F = 0)
    <2> HIDE DEF exceeded, failed
    <2> QED
      BY <1>3, FS_CardinalityType, FS_EmptySet
  <1>6. Test!Verdict(vector, scans) =
          IF failed = {}
          THEN [kind |-> "decided", p |-> <<1 + E, B + 1>>,
                reject |-> (1 + E) * plan.alpha[2] <= plan.alpha[1] * (B + 1)]
          ELSE [kind |-> "bounded", low |-> <<1 + E, B + 1>>, high |-> <<1 + (E + F), B + 1>>]
    <2> DEFINE failedT == {i \in DOMAIN scans : ~Test!AllValid(scans[i])}
               exceededT == {i \in DOMAIN scans \ failedT :
                                Test!Decision(scans[i]) >= Test!Decision(vector)}
               count(S) == <<1 + Cardinality(S), B + 1>>
    <2>1. Test!Verdict(vector, scans) =
            IF failedT = {}
            THEN [kind |-> "decided", p |-> count(exceededT),
                  reject |-> count(exceededT)[1] * plan.alpha[2]
                                <= plan.alpha[1] * count(exceededT)[2]]
            ELSE [kind |-> "bounded", low |-> count(exceededT),
                  high |-> count(exceededT \cup failedT)]
      BY TestOperators DEF Test!Verdict
    <2>2. failedT = failed /\ exceededT = exceeded
      BY TestOperators
    <2> HIDE DEF failedT, exceededT, failed, exceeded
    <2> QED
      BY <1>4, <2>1, <2>2
  <1> HIDE DEF E, F, failed, exceeded, a
  <1>7. CASE F = 0
    <2>1. r = [Result("COMPLETE", "NONE", vector, a, outcomes)
                  EXCEPT !.plan = plan, !.exceed = E, !.p = PlusOne(E, B),
                         !.reject = AtMost(PlusOne(E, B), plan.alpha)]
      BY <1>2, <1>7 DEF FinalResult
    <2>2. r.stage = "NONE" /\ r.p = PlusOne(E, B) /\ r.reject = AtMost(PlusOne(E, B), plan.alpha)
      BY <2>1 DEF Result
    <2> HIDE DEF r
    <2>3. Says(r) = [kind |-> "decided", p |-> r.p, reject |-> r.reject]
      BY <2>2 DEF Says
    <2>4. Says(r) = Test!Verdict(vector, scans)
      BY <1>5, <1>6, <1>7, <2>2, <2>3 DEF PlusOne, AtMost
    <2> QED
      BY <2>4 DEF r, a
  <1>8. CASE F # 0
    <2>1. r = [Result("NOT_EVALUABLE", "REPLICATE_EXECUTION", vector, a, outcomes)
                  EXCEPT !.plan = plan, !.exceed = E, !.fails = F,
                         !.low = FailureBound(E, 0, B), !.high = FailureBound(E, F, B)]
      BY <1>2, <1>8 DEF FinalResult
    <2>2. r.stage = "REPLICATE_EXECUTION" /\ r.low = FailureBound(E, 0, B)
          /\ r.high = FailureBound(E, F, B)
      BY <2>1 DEF Result
    <2> HIDE DEF r
    <2>3. Says(r) = [kind |-> "bounded", low |-> r.low, high |-> r.high]
      BY <2>2 DEF Says
    <2>4. 1 + E + 0 = 1 + E /\ 1 + E + F = 1 + (E + F)
      BY <1>5
    <2>5. Says(r) = Test!Verdict(vector, scans)
      BY <1>5, <1>6, <1>8, <2>2, <2>3, <2>4 DEF FailureBound
    <2> QED
      BY <2>5 DEF r, a
  <1> QED
    BY <1>7, <1>8

\* The scans of the states that were drawn.
Scans == [i \in DOMAIN Drawn |-> stat[Drawn[i]]]

\* What a returned result tells is the verdict on the draws, or why there are none.
ReturnedSays ==
    Returned /\ HookKeptResult =>
        \/ /\ result.stage \in Terminal /\ Drawn = <<>>
           /\ Says(result) = [kind |-> result.stage]
           /\ result.stage = "OBSERVED_STATISTIC_SCAN" => ~AllValid(stat[Identity])
        \/ /\ AllValid(stat[Identity]) /\ Len(Drawn) = plan.replicates /\ ~PartialEnumeration
           /\ Says(result) = Test!Verdict(stat[Identity], Scans)

LEMMA ReturnedResultsSay == IInv /\ Settled => ReturnedSays
PROOF
  <1> SUFFICES ASSUME IInv, Settled, Returned, HookKeptResult
               PROVE  \/ /\ result.stage \in Terminal /\ Drawn = <<>>
                         /\ Says(result) = [kind |-> result.stage]
                         /\ result.stage = "OBSERVED_STATISTIC_SCAN" => ~AllValid(stat[Identity])
                      \/ /\ AllValid(stat[Identity]) /\ Len(Drawn) = plan.replicates
                         /\ ~PartialEnumeration
                         /\ Says(result) = Test!Verdict(stat[Identity], Scans)
    BY DEF ReturnedSays
  <1>1. history \in Seq(Outcomes)
    BY DEF IInv, TypeOK
  <1>2. CASE result.stage \in Terminal
    <2>1. history = <<>> /\ (result.stage = "OBSERVED_STATISTIC_SCAN" => ~AllValid(stat[Identity]))
      BY <1>2 DEF Settled, ResultOK
    <2>2. Drawn = <<>>
      BY <2>1 DEF Drawn
    <2>3. Says(result) = [kind |-> result.stage]
      BY <1>2 DEF Says, Terminal
    <2> QED
      BY <1>2, <2>1, <2>2, <2>3
  <1>3. CASE result.stage \notin Terminal
    <2>1. /\ AllValid(stat[Identity]) /\ Len(history) = plan.replicates /\ ~PartialEnumeration
          /\ result = Computed /\ \A i \in DOMAIN history : OutcomeIsTrue(history[i])
      BY <1>3 DEF Settled, ResultOK
    <2>2. /\ DOMAIN Drawn = DOMAIN history /\ Len(Drawn) = Len(history)
          /\ \A i \in DOMAIN history : Drawn[i] = history[i].token
      BY <1>1 DEF Drawn
    <2>3. /\ stat \in [States -> Vectors] /\ stat[Identity] \in Vectors
          /\ \A i \in DOMAIN history : history[i].token \in States
      <3>1. stat \in [States -> Vectors] /\ Identity \in States
        BY CalibrationAssumption DEF IInv, TypeOK, States, Identity
      <3>2. \A i \in DOMAIN history : history[i] \in Outcomes
        BY <1>1, ElementOfSeq
      <3> QED
        BY <3>1, <3>2 DEF Outcomes
    <2>4. /\ Scans \in [DOMAIN history -> Vectors]
          /\ \A i \in DOMAIN history : Scans[i] = stat[history[i].token]
      BY <2>2, <2>3 DEF Scans
    <2>5. \A i \in DOMAIN history :
              /\ history[i].status
                     = (IF AllValid(Scans[i]) THEN "COMPLETE" ELSE "ANALYTIC_FAILURE")
              /\ AllValid(Scans[i]) => history[i].decision = Decision(Scans[i])
      BY <2>1, <2>4 DEF OutcomeIsTrue
    <2>6. Says(Computed) = Test!Verdict(stat[Identity], Scans)
      BY <1>1, <2>1, <2>3, <2>4, <2>5, FinalResultSays DEF Computed
    <2> QED
      BY <2>1, <2>2, <2>6
  <1> QED
    BY <1>2, <1>3

\* Whatever the frozen verifier accepts says a verdict on some scans of the plan.
LEMMA VerifiedResultsSay ==
    ASSUME TypeOK, NEW r \in ResultFields, VerifierAccepts(r), r.digest = "entry"
    PROVE  Says(r) \in Test!Verdicts
PROOF
  <1>1. CASE r.stage \in Terminal
    BY <1>1 DEF Says, Terminal, Test!Verdicts
  <1>2. CASE r.stage \notin Terminal
    <2> DEFINE scans == [i \in DOMAIN r.outcomes |-> r.outcomes[i].vector]
    <2>1. /\ r.observed # NoValue /\ CompleteVector(r.observed, r.decision)
          /\ Len(r.outcomes) = plan.replicates
          /\ plan.enumerating => plan.replicates = StateCount - 1
          /\ \A i \in DOMAIN r.outcomes : OutcomeIsSound(r.outcomes[i], i)
      BY <1>2 DEF VerifierAccepts, Terminal
    <2>2. /\ r.observed \in Vectors /\ AllValid(r.observed) /\ r.decision = Decision(r.observed)
          /\ r.outcomes \in Seq(Outcomes)
      BY <2>1 DEF ResultFields, CompleteVector
    <2>3. [r EXCEPT !.digest = "entry"] = r
      BY DEF ResultFields
    <2>4. r = FinalResult(r.outcomes, r.observed, Decision(r.observed), plan)
      BY <1>2, <2>2, <2>3 DEF VerifierAccepts, TerminalIsSound, Terminal
    <2>5. \A i \in DOMAIN r.outcomes : r.outcomes[i] \in Outcomes
      BY <2>2, ElementOfSeq
    <2>6. scans \in [DOMAIN r.outcomes -> Vectors]
      BY <2>5 DEF Outcomes
    <2>7. \A i \in DOMAIN r.outcomes :
              /\ r.outcomes[i].status
                     = (IF AllValid(scans[i]) THEN "COMPLETE" ELSE "ANALYTIC_FAILURE")
              /\ AllValid(scans[i]) => r.outcomes[i].decision = Decision(scans[i])
      BY <2>1, <2>5 DEF Outcomes, OutcomeIsSound, CompleteVector, FailureVector
    <2>8. DOMAIN r.outcomes = 1 .. plan.replicates
      BY <2>1, <2>2
    <2> HIDE DEF scans
    <2>9. Says(r) = Test!Verdict(r.observed, scans)
      BY <2>2, <2>4, <2>6, <2>7, FinalResultSays
    <2>10. Test!Complete /\ Test!AllValid(r.observed) /\ r.observed \in Test!Vectors
           /\ scans \in [1 .. plan.replicates -> Test!Vectors]
      BY <2>1, <2>2, <2>6, <2>8, TestOperators DEF Test!Complete
    <2> QED
      BY <2>9, <2>10 DEF Test!Verdicts
  <1> QED
    BY <1>1, <1>2

\* A raised error is a refusal, at any time before the result.
LEMMA RaisingIsRefusing ==
    ASSUME pc \notin {"returned", "raised"}, pc' = "raised", UNCHANGED <<plan, stat, history>>
    PROVE  Test!Refuse
PROOF
  <1>1. Told = NoValue
    BY DEF Told
  <1>2. Told' = Test!Signed("test", [kind |-> "refused"])
    BY DEF Told, Test!Signed
  <1>3. Drawn' = Drawn
    BY DEF Drawn
  <1> QED
    BY <1>1, <1>2, <1>3 DEF Test!Refuse

\* A returned result is a conclusion, or the reason why nothing was drawn, or the hook's.
LEMMA ReturningIsConcluding ==
    ASSUME IInv, Settled, VerifyAndReturn, pc' = "returned", ReturnedSays'
    PROVE  Test!Conclude \/ Test!NotEvaluable \/ Test!Replace
PROOF
  <1>1. UNCHANGED <<plan, stat, history>> /\ pc = "verify"
    BY DEF VerifyAndReturn
  <1>2. Told = NoValue
    BY <1>1 DEF Told
  <1>3. Drawn' = Drawn
    BY <1>1 DEF Drawn
  <1>4. (AllValid(stat[Identity])' <=> AllValid(stat[0])) /\ Scans' = Scans
    BY <1>1, <1>3 DEF AllValid, Identity, Scans
  <1>5. CASE HookKeptResult'
    <2>1. Told' = Test!Signed("test", Says(result'))
      BY <1>5 DEF Told, Test!Signed, Says
    <2>2. CASE /\ result'.stage \in Terminal /\ Drawn' = <<>>
               /\ Says(result)' = [kind |-> result'.stage]
               /\ result'.stage = "OBSERVED_STATISTIC_SCAN" => ~AllValid(stat[Identity])'
      <3>1. Says(result') = [kind |-> result'.stage]
        BY <2>2 DEF Says
      <3> QED
        BY <1>1, <1>2, <1>3, <1>4, <2>1, <2>2, <3>1, TestOperators DEF Test!NotEvaluable, Terminal
    <2>3. CASE /\ AllValid(stat[Identity])' /\ Len(Drawn)' = plan'.replicates
               /\ ~PartialEnumeration' /\ Says(result)' = Test!Verdict(stat[Identity], Scans)'
      <3>1. Test!Verdict(stat[Identity], Scans)' = Test!Verdict(stat[0], Scans)
        BY <1>1, <1>3, <1>4
           DEF Test!Verdict, Test!AllValid, Test!Decision, Test!Score, Test!Magnitude, Identity
      <3>2. Says(result)' = Says(result')
        BY DEF Says
      <3>3. Len(Drawn) = plan.replicates
        BY <1>1, <1>3, <2>3
      <3>4. Test!Complete
        BY <1>1, <2>3 DEF PartialEnumeration, Test!Complete
      <3> QED
        BY <1>1, <1>2, <1>3, <1>4, <2>1, <2>3, <3>1, <3>2, <3>3, <3>4, TestOperators
           DEF Test!Conclude, Scans
    <2> QED
      BY <1>5, <2>2, <2>3 DEF ReturnedSays, Returned
  <1>6. CASE ~HookKeptResult'
    <2>1. Told' = Test!Signed("hook", Says(result'))
      BY <1>6 DEF Told, Test!Signed, Says
    <2>2. result' \in ResultFields /\ VerifierAccepts(result') /\ result'.digest = "entry"
      BY ReturnedIsVerified
    <2>3. Says(result') \in Test!Verdicts
      BY <2>2, VerifiedResultsSay DEF IInv
    <2>4. Len(Drawn) \in {0, plan.replicates}
      <3>1. history \in Seq(Outcomes)
        BY DEF IInv, TypeOK
      <3>2. Len(Drawn) = Len(history)
        BY <3>1 DEF Drawn
      <3>3. history = <<>> \/ Len(history) = plan.replicates
        BY <1>1 DEF Settled, ResultOK
      <3> QED
        BY <3>1, <3>2, <3>3
    <2> QED
      BY <1>1, <1>2, <1>3, <2>1, <2>3, <2>4 DEF Test!Replace
  <1> QED
    BY <1>5, <1>6

\* No other step draws or tells anything.
LEMMA OtherStepsStutter ==
    ASSUME pc \notin {"returned", "raised"}, pc' \notin {"returned", "raised"},
           UNCHANGED <<plan, stat, history>>
    PROVE  UNCHANGED Test!testVars
PROOF
  <1>1. Told' = Told
    BY DEF Told
  <1>2. Drawn' = Drawn
    BY DEF Drawn
  <1> QED
    BY <1>1, <1>2 DEF Test!testVars

LEMMA StepsAreTestSteps ==
    ASSUME IInv, Truth, Settled, [Next]_vars, ReturnedSays'
    PROVE  [Test!Next]_Test!testVars
PROOF
  <1>1. CASE UNCHANGED vars
    <2>1. UNCHANGED <<pc, plan, stat, drift, history, result>>
      BY <1>1 DEF vars
    <2>2. Told' = Told /\ Drawn' = Drawn
      BY <2>1 DEF Told, Says, HookKeptResult, Drawn
    <2> QED
      BY <2>1, <2>2 DEF Test!testVars
  <1>2. CASE EvaluateReplicate
    <2>1. UNCHANGED <<plan, stat>> /\ pc = "evaluate"
      BY <1>2 DEF EvaluateReplicate
    <2>2. CASE pc' = "raised" /\ history' = history
      BY <2>1, <2>2, RaisingIsRefusing DEF Test!Next
    <2>3. CASE /\ pc' \in {"close", "sample"}
               /\ \E o \in Outcomes : o.token = token /\ history' = Append(history, o)
      BY <2>1, <2>3, RegistrationIsADraw DEF Test!Next
    <2> QED
      BY <1>2, <2>2, <2>3, ScansRegister
  <1>3. CASE VerifyAndReturn
    <2>1. UNCHANGED <<plan, stat, history>> /\ pc = "verify"
      BY <1>3 DEF VerifyAndReturn
    <2>2. pc' \in {"returned", "raised"}
      BY <1>3, ReturnedIsVerified
    <2> QED
      BY <1>3, <2>1, <2>2, RaisingIsRefusing, ReturningIsConcluding DEF Test!Next
  <1>4. CASE \/ BindStatistic \/ BindNull \/ TerminateNullBind \/ ScanObserved
             \/ TerminateObservedScan \/ Prepare \/ AdmitBudget \/ SampleToken \/ ApplyNull
             \/ CloseHistory \/ Finalise \/ Malformed
    <2>1. UNCHANGED <<plan, stat, history>> /\ pc \notin {"returned", "raised"}
      BY <1>4 DEF BindStatistic, BindNull, TerminateNullBind, ScanObserved, TerminateObservedScan,
         Terminate, Prepare, AdmitBudget, SampleToken, ApplyNull, CloseHistory, Finalise, Malformed
    <2>2. pc' # "returned"
      BY <1>4 DEF BindStatistic, BindNull, TerminateNullBind, ScanObserved, TerminateObservedScan,
         Terminate, Prepare, AdmitBudget, SampleToken, ApplyNull, CloseHistory, Finalise, Malformed,
         Proceed, Raise
    <2> QED
      BY <2>1, <2>2, RaisingIsRefusing, OtherStepsStutter DEF Test!Next
  <1> QED
    BY <1>1, <1>2, <1>3, <1>4 DEF Next, Stopped

\* The calibrator implements the test it is published as, for every family, statistic, null,
\* plan and set of faults, in every run that retains contents: a caller is told the verdict of
\* the states that were drawn, or why nothing was drawn, or that the run was refused, once and
\* for all; of a result that the public hook replaced it is told a verdict of the plan, under
\* the hook's name, since the verifier after the hook sees the result and not the run
\* (calibrate_selected_family, verify_calibration_result).
THEOREM CalibrationImplementsTest ==
    Spec /\ [][Retains]_vars => ImplementsTest
PROOF
  <1>1. Init => Test!Init
    <2> SUFFICES ASSUME Init
                 PROVE  Test!Init
      OBVIOUS
    <2>1. Drawn = <<>>
      BY DEF Init, Drawn
    <2>2. Told = NoValue
      BY DEF Init, Told
    <2> QED
      BY <2>1, <2>2, TestOperators DEF Init, Test!Init, Vectors
  <1>2. IInv /\ Truth /\ Settled /\ [Next]_vars /\ ReturnedSays' => [Test!Next]_Test!testVars
    BY StepsAreTestSteps
  <1>3. Spec /\ [][Retains]_vars => Test!Init /\ [][Test!Next]_Test!testVars
    BY <1>1, <1>2, SpecKeepsIInv, TruthAlways, SettledAlways, ReturnedResultsSay, PTL DEF Spec
  <1> QED
    BY <1>3 DEF ImplementsTest, Test!Spec

-----------------------------------------------------------------------------
\* How long a run takes

\* What a run has yet to do at the most, in segments: three for each replicate still to come.
ReplicatesLeft == 3 * (plan.replicates - Len(history))

\* One for each segment of the code, and those of the replicates.
SegmentsLeft ==
    CASE pc = "bind_statistic" -> 8 + ReplicatesLeft
      [] pc = "bind_null" -> 7 + ReplicatesLeft
      [] pc = "scan_observed" -> 6 + ReplicatesLeft
      [] pc = "prepare" -> 5 + ReplicatesLeft
      [] pc = "admit" -> 4 + ReplicatesLeft
      [] pc = "sample" -> 3 + ReplicatesLeft
      [] pc = "apply" -> 2 + ReplicatesLeft
      [] pc = "evaluate" -> 1 + ReplicatesLeft
      [] pc = "close" -> 3
      [] pc \in {"finalise", "close_null_bind", "close_observed"} -> 2
      [] pc = "verify" -> 1
      [] OTHER -> 0

\* In the loop at least one replicate is to come.
LEMMA ReplicatesAreLeft ==
    ASSUME IInv
    PROVE  /\ plan.replicates \in Nat /\ Len(history) \in Nat
           /\ ReplicatesLeft \in Nat
           /\ pc \in {"sample", "apply", "evaluate"} => ReplicatesLeft >= 3
PROOF
  <1>1. plan.replicates \in Nat /\ Len(history) \in Nat /\ Len(history) <= plan.replicates
    BY CalibrationAssumption DEF IInv, TypeOK
  <1>2. pc \in {"sample", "apply", "evaluate"} => Len(history) < plan.replicates
    BY DEF IInv, ControlInv
  <1> QED
    BY <1>1, <1>2 DEF ReplicatesLeft

\* There is always a number of them.
LEMMA SegmentsAreCounted ==
    ASSUME IInv
    PROVE  SegmentsLeft \in Nat
BY ReplicatesAreLeft DEF SegmentsLeft, IInv, TypeOK

\* A segment outside of the loop hands on to a later one.
LEMMA SegmentsGoForward ==
    ASSUME IInv, UNCHANGED <<plan, history>>, pc' # pc,
           \/ pc' = "raised" /\ pc \notin {"returned", "raised"}
           \/ pc = "bind_statistic" /\ pc' = "bind_null"
           \/ pc = "bind_null" /\ pc' \in {"close_null_bind", "scan_observed"}
           \/ pc = "scan_observed" /\ pc' \in {"prepare", "close_observed"}
           \/ pc \in {"close_null_bind", "close_observed", "finalise"} /\ pc' = "verify"
           \/ pc = "prepare" /\ pc' = "admit"
           \/ pc = "admit" /\ pc' = "sample"
           \/ pc = "sample" /\ pc' = "apply"
           \/ pc = "apply" /\ pc' = "evaluate"
           \/ pc = "close" /\ pc' = "finalise"
           \/ pc = "verify" /\ pc' = "returned"
    PROVE  SegmentsLeft' < SegmentsLeft
PROOF
  <1>1. ReplicatesLeft' = ReplicatesLeft /\ ReplicatesLeft \in Nat
    BY ReplicatesAreLeft DEF ReplicatesLeft
  <1>2. pc \in {"bind_statistic", "bind_null", "close_null_bind", "scan_observed",
                "close_observed", "prepare", "admit", "sample", "apply", "evaluate",
                "close", "finalise", "verify", "returned", "raised"}
    BY DEF IInv, TypeOK
  <1> QED
    BY <1>1, <1>2 DEF SegmentsLeft

\* The replicate that is registered is one less to come.
LEMMA ReplicatesGoDown ==
    ASSUME IInv, EvaluateReplicate
    PROVE  SegmentsLeft' < SegmentsLeft
PROOF
  <1>1. pc = "evaluate" /\ plan' = plan
    BY DEF EvaluateReplicate
  <1>2. SegmentsLeft = 1 + ReplicatesLeft /\ ReplicatesLeft >= 3 /\ ReplicatesLeft \in Nat
        /\ plan.replicates \in Nat /\ Len(history) \in Nat
    BY <1>1, ReplicatesAreLeft DEF SegmentsLeft
  <1>3. CASE pc' = "raised"
    BY <1>2, <1>3 DEF SegmentsLeft
  <1>4. CASE /\ pc' \in {"close", "sample"}
             /\ \E o \in Outcomes : o.token = token /\ history' = Append(history, o)
    <2>1. history \in Seq(Outcomes)
      BY DEF IInv, TypeOK
    <2>2. Len(history') = Len(history) + 1
      BY <1>4, <2>1
    <2>3. ReplicatesLeft' = ReplicatesLeft - 3
      BY <1>1, <1>2, <2>2 DEF ReplicatesLeft
    <2> QED
      BY <1>2, <1>4, <2>3 DEF SegmentsLeft
  <1> QED
    BY <1>3, <1>4, ScansRegister

\* Every action does one of the two, or changes nothing.
LEMMA EveryStepIsForward ==
    ASSUME IInv, [Next]_vars
    PROVE  UNCHANGED vars \/ SegmentsLeft' < SegmentsLeft
PROOF
  <1>1. CASE \/ BindStatistic \/ BindNull \/ TerminateNullBind \/ ScanObserved
             \/ TerminateObservedScan \/ Prepare \/ AdmitBudget \/ SampleToken \/ ApplyNull
             \/ CloseHistory \/ Finalise \/ Malformed
    BY <1>1, SegmentsGoForward
    DEF BindStatistic, BindNull, TerminateNullBind, ScanObserved, TerminateObservedScan,
        Terminate, Prepare, AdmitBudget, SampleToken, ApplyNull, CloseHistory, Finalise,
        Malformed, Proceed, Raise
  <1>2. CASE VerifyAndReturn
    <2>1. pc' \in {"returned", "raised"}
      BY <1>2, ReturnedIsVerified
    <2> QED
      BY <1>2, <2>1, SegmentsGoForward DEF VerifyAndReturn
  <1> QED
    BY <1>1, <1>2, ReplicatesGoDown DEF Next, Stopped

\* A run is over after 3 B + 8 segments at the most, whatever callbacks do and whatever they
\* put back: every step that is one leaves fewer to come (the loops of
\* calibrate_selected_family and _execute_replicates).
THEOREM RunsAreBounded ==
    Spec => /\ SegmentsLeft = 3 * plan.replicates + 8
            /\ [](SegmentsLeft \in Nat)
            /\ [][SegmentsLeft' < SegmentsLeft]_vars
PROOF
  <1>1. Init => SegmentsLeft = 3 * plan.replicates + 8
    BY CalibrationAssumption DEF Init, SegmentsLeft, ReplicatesLeft
  <1>2. IInv => SegmentsLeft \in Nat
    BY SegmentsAreCounted
  <1>3. ASSUME IInv, [Next]_vars, ~UNCHANGED vars
        PROVE  SegmentsLeft' < SegmentsLeft
    BY <1>3, EveryStepIsForward
  <1>4. IInv /\ [Next]_vars => [SegmentsLeft' < SegmentsLeft]_vars
    BY <1>3
  <1> QED
    BY <1>1, <1>2, <1>4, SpecKeepsIInv, PTL DEF Spec
=============================================================================
