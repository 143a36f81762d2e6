------------------------- MODULE ResultExchangeProofs -------------------------
(***************************************************************************)
(* What a decoded document can be; that the verifier accepts exactly what  *)
(* possible runs report; and that an accepted result survives storage: for *)
(* every instance of ResultExchange.                                       *)
(***************************************************************************)
EXTENDS ResultExchange, FiniteSetTheorems, SequenceTheorems, TLAPS

-----------------------------------------------------------------------------
\* Finite sets of integers in their order

\* How many elements of a set are below a value.
Rank(S, x) == Cardinality({y \in S : y < x})

\* Ranks are different for different elements and count from zero.
LEMMA RanksAscend ==
    ASSUME NEW S, IsFiniteSet(S), S \subseteq Int
    PROVE  /\ \A x \in S : Rank(S, x) \in 0 .. Cardinality(S) - 1
           /\ \A x, z \in S : x < z => Rank(S, x) < Rank(S, z)
<1> DEFINE Below(x) == {y \in S : y < x}
<1>1. \A x \in S : IsFiniteSet(Below(x)) /\ Cardinality(Below(x)) \in Nat
    <2>1. \A x \in S : Below(x) \in SUBSET S
        OBVIOUS
    <2> QED
        BY <2>1, FS_Subset, FS_CardinalityType
<1>2. ASSUME NEW x \in S
      PROVE  Cardinality(Below(x)) < Cardinality(S)
    <2>1. x \in Int
        OBVIOUS
    <2>2. Below(x) \in SUBSET S /\ x \in S /\ x \notin Below(x)
        BY <2>1
    <2>3. Cardinality(S) \in Nat /\ Cardinality(Below(x)) \in Nat
        BY <1>1, FS_CardinalityType
    <2> HIDE DEF Below
    <2>4. Cardinality(Below(x)) <= Cardinality(S) /\ Cardinality(Below(x)) # Cardinality(S)
        BY <2>2, FS_Subset
    <2> QED
        BY <2>3, <2>4
<1>3. ASSUME NEW x \in S, NEW z \in S, x < z
      PROVE  Cardinality(Below(x)) < Cardinality(Below(z))
    <2>1. x \in Int /\ z \in Int /\ \A y \in S : y \in Int
        OBVIOUS
    <2>2. Below(x) \in SUBSET Below(z) /\ x \in Below(z) /\ x \notin Below(x)
        <3>1. \A y \in S : y < x => y < z
            BY <1>3, <2>1
        <3>2. x \in Below(z) /\ x \notin Below(x)
            BY <1>3, <2>1
        <3> QED
            BY <3>1, <3>2
    <2>3. IsFiniteSet(Below(z)) /\ Cardinality(Below(x)) \in Nat /\ Cardinality(Below(z)) \in Nat
        BY <1>1
    <2> HIDE DEF Below
    <2>4. Cardinality(Below(x)) <= Cardinality(Below(z)) /\ Cardinality(Below(x)) # Cardinality(Below(z))
        BY <2>2, <2>3, FS_Subset
    <2> QED
        BY <2>3, <2>4
<1>4. Cardinality(S) \in Nat
    BY FS_CardinalityType
<1> QED
    BY <1>1, <1>2, <1>3, <1>4 DEF Rank

\* Every element has its place, and its place is its rank.
LEMMA SortedIsTheOrder ==
    ASSUME NEW S, IsFiniteSet(S), S \subseteq Int
    PROVE  /\ Cardinality(S) \in Nat
           /\ Sorted(S) \in [1 .. Cardinality(S) -> S]
           /\ \A i \in 1 .. Cardinality(S) : Rank(S, Sorted(S)[i]) = i - 1
           /\ \A x \in S : Rank(S, x) + 1 \in 1 .. Cardinality(S) /\ Sorted(S)[Rank(S, x) + 1] = x
           /\ \A i, j \in 1 .. Cardinality(S) : i < j => Sorted(S)[i] < Sorted(S)[j]
<1> DEFINE n == Cardinality(S)
           place == [x \in S |-> Rank(S, x) + 1]
<1>1. n \in Nat
    BY FS_CardinalityType
<1>2. /\ \A x \in S : Rank(S, x) \in 0 .. n - 1
      /\ \A x, z \in S : Rank(S, x) = Rank(S, z) => x = z
    <2>1. /\ \A x \in S : Rank(S, x) \in 0 .. n - 1
          /\ \A x, z \in S : x < z => Rank(S, x) < Rank(S, z)
        BY RanksAscend
    <2>2. \A x \in S : x \in Int
        OBVIOUS
    <2> HIDE DEF n
    <2>3. ASSUME NEW x \in S, NEW z \in S, Rank(S, x) = Rank(S, z)
          PROVE  x = z
        <3>1. ~(x < z) /\ ~(z < x)
            BY <1>1, <2>1, <2>3
        <3> QED
            BY <2>2, <3>1
    <2> QED
        BY <2>1, <2>3
<1>3. \A i \in 1 .. n : \E x \in S : Rank(S, x) = i - 1
    <2>1. place \in [S -> 1 .. n]
        BY <1>1, <1>2
    <2>2. \A x, z \in S : place[x] = place[z] => x = z
        BY <1>2
    <2>3. place \in Injection(S, 1 .. n)
        BY <2>1, <2>2 DEF Injection, IsInjective
    <2>4. IsFiniteSet(1 .. n) /\ Cardinality(1 .. n) = n
        BY <1>1, FS_Interval
    <2>5. place \in Surjection(S, 1 .. n)
        BY <2>3, <2>4, FS_Injection
    <2>6. \A i \in 1 .. n : \E x \in S : place[x] = i
        BY <2>5 DEF Surjection
    <2> QED
        BY <2>6, <1>2
<1>4. \A i \in 1 .. n : Sorted(S)[i] \in S /\ Rank(S, Sorted(S)[i]) = i - 1
    <2>1. \A i \in 1 .. n : Sorted(S)[i] = CHOOSE x \in S : Rank(S, x) = i - 1
        BY DEF Sorted, Rank
    <2> QED
        BY <2>1, <1>3
<1>5. ASSUME NEW x \in S
      PROVE  Rank(S, x) + 1 \in 1 .. n /\ Sorted(S)[Rank(S, x) + 1] = x
    <2> HIDE DEF n
    <2>1. Rank(S, x) + 1 \in 1 .. n /\ Rank(S, x) + 1 - 1 = Rank(S, x)
        BY <1>1, <1>2
    <2>2. PICK k \in 1 .. n : k = Rank(S, x) + 1
        BY <2>1
    <2>3. Sorted(S)[k] \in S /\ Rank(S, Sorted(S)[k]) = k - 1
        BY <1>4
    <2>4. k - 1 = Rank(S, x)
        BY <1>1, <1>2, <2>2
    <2>5. Sorted(S)[k] = x
        BY <1>2, <2>3, <2>4
    <2> QED
        BY <2>2, <2>5
<1>6. \A i, j \in 1 .. n : i < j => Sorted(S)[i] < Sorted(S)[j]
    <2> SUFFICES ASSUME NEW i \in 1 .. n, NEW j \in 1 .. n, i < j
                 PROVE  Sorted(S)[i] < Sorted(S)[j]
        OBVIOUS
    <2>1. /\ Sorted(S)[i] \in S /\ Sorted(S)[j] \in S
          /\ Rank(S, Sorted(S)[i]) = i - 1 /\ Rank(S, Sorted(S)[j]) = j - 1
        BY <1>4
    <2>2. Sorted(S)[i] \in Int /\ Sorted(S)[j] \in Int
        BY <2>1
    <2>3. Sorted(S)[j] # Sorted(S)[i]
        BY <2>1
    <2>4. Sorted(S)[j] < Sorted(S)[i] => j - 1 < i - 1
        BY <2>1, RanksAscend
    <2> HIDE DEF n
    <2> QED
        BY <2>2, <2>3, <2>4
<1>7. Sorted(S) \in [1 .. n -> S]
    <2> DEFINE Place(i) == CHOOSE x \in S : Cardinality({y \in S : y < x}) = i - 1
    <2>1. Sorted(S) = [i \in 1 .. n |-> Place(i)]
        BY DEF Sorted
    <2> HIDE DEF Place, n
    <2>2. \A i \in 1 .. n : Place(i) = Sorted(S)[i]
        BY <2>1
    <2>3. \A i \in 1 .. n : Place(i) \in S
        BY <1>4, <2>2
    <2> QED
        BY <2>1, <2>3
<1> QED
    BY <1>1, <1>4, <1>5, <1>6, <1>7

\* The sorted sequence has every element once; the ends are the extremes.
LEMMA SortedListsAll ==
    ASSUME NEW S, IsFiniteSet(S), S \subseteq Int
    PROVE  /\ Sorted(S) \in Seq(S) /\ Len(Sorted(S)) = Cardinality(S)
           /\ DOMAIN Sorted(S) = 1 .. Cardinality(S)
           /\ ToSet(Sorted(S)) = S /\ IsInjective(Sorted(S))
<1> DEFINE n == Cardinality(S)
<1>1. /\ n \in Nat /\ Sorted(S) \in [1 .. n -> S]
      /\ \A x \in S : Rank(S, x) + 1 \in 1 .. n /\ Sorted(S)[Rank(S, x) + 1] = x
      /\ \A i \in 1 .. n : Rank(S, Sorted(S)[i]) = i - 1
    BY SortedIsTheOrder
<1> HIDE DEF n
<1>2. Sorted(S) \in Seq(S) /\ Len(Sorted(S)) = n /\ DOMAIN Sorted(S) = 1 .. n
    BY <1>1
<1>3. ToSet(Sorted(S)) = S
    BY <1>1 DEF ToSet
<1>4. IsInjective(Sorted(S))
    BY <1>1 DEF IsInjective
<1> QED
    BY <1>2, <1>3, <1>4 DEF n

\* Max and Min of the repository's non-empty finite sets are what their names say.
LEMMA Extremes ==
    ASSUME NEW S, IsFiniteSet(S), S \subseteq Int, S # {}
    PROVE  /\ Max(S) \in S /\ \A y \in S : Max(S) >= y
           /\ Min(S) \in S /\ \A y \in S : Min(S) <= y
<1> DEFINE n == Cardinality(S)
<1>1. /\ n \in Nat /\ Sorted(S) \in [1 .. n -> S]
      /\ \A x \in S : Rank(S, x) + 1 \in 1 .. n /\ Sorted(S)[Rank(S, x) + 1] = x
      /\ \A i, j \in 1 .. n : i < j => Sorted(S)[i] < Sorted(S)[j]
    BY SortedIsTheOrder
<1> HIDE DEF n
<1>2. n >= 1
    <2>1. PICK x : x \in S
        OBVIOUS
    <2>2. Rank(S, x) + 1 \in 1 .. n
        BY <1>1, <2>1
    <2> QED
        BY <1>1, <2>2
<1>3. \A x \in S : \E i \in 1 .. n : Sorted(S)[i] = x
    BY <1>1
<1>4. Sorted(S)[n] \in S /\ \A y \in S : Sorted(S)[n] >= y
    <2>1. n \in 1 .. n /\ Sorted(S)[n] \in S
        BY <1>1, <1>2
    <2>2. ASSUME NEW y \in S
          PROVE  Sorted(S)[n] >= y
        <3>1. PICK i \in 1 .. n : Sorted(S)[i] = y
            BY <1>3
        <3>2. i = n \/ i < n
            BY <1>1
        <3>3. Sorted(S)[n] \in Int /\ y \in Int
            BY <2>1
        <3> QED
            BY <1>1, <2>1, <3>1, <3>2, <3>3
    <2> QED
        BY <2>1, <2>2
<1>5. Sorted(S)[1] \in S /\ \A y \in S : Sorted(S)[1] <= y
    <2>1. 1 \in 1 .. n /\ Sorted(S)[1] \in S
        BY <1>1, <1>2
    <2>2. ASSUME NEW y \in S
          PROVE  Sorted(S)[1] <= y
        <3>1. PICK i \in 1 .. n : Sorted(S)[i] = y
            BY <1>3
        <3>2. i = 1 \/ 1 < i
            BY <1>1
        <3>3. Sorted(S)[1] \in Int /\ y \in Int
            BY <2>1
        <3> QED
            BY <1>1, <2>1, <3>1, <3>2, <3>3
    <2> QED
        BY <2>1, <2>2
<1>6. Max(S) \in S /\ \A y \in S : Max(S) >= y
    BY <1>4 DEF Max
<1>7. Min(S) \in S /\ \A y \in S : Min(S) <= y
    BY <1>5 DEF Min
<1> QED
    BY <1>6, <1>7

-----------------------------------------------------------------------------
\* The verifier and the calibrator have one rule: vectors and their selection

ItemRecords ==
    [candidate : Int, support : Int, identity : {Identity, "foreign"}, valid : BOOLEAN,
     estimate : Estimates \cup {NoValue}, score : Int \cup {NoValue}]

\* The order of the plan is that of the lags; an index is a rank.
LEMMA OrderOfCandidates ==
    /\ Len(CandidateOrder) \in Nat /\ Len(CandidateOrder) >= 1
    /\ DOMAIN CandidateOrder = 1 .. Len(CandidateOrder)
    /\ \A i \in 1 .. Len(CandidateOrder) : CandidateOrder[i] \in Candidates
    /\ \A i, j \in 1 .. Len(CandidateOrder) : i < j => CandidateOrder[i] < CandidateOrder[j]
    /\ \A c \in Candidates : \E i \in 1 .. Len(CandidateOrder) : CandidateOrder[i] = c
    /\ \A i \in 1 .. Len(CandidateOrder) :
        /\ Cardinality({c \in Candidates : c < CandidateOrder[i]}) = i - 1
        /\ Cardinality({d \in Candidates : d <= CandidateOrder[i]}) = i
<1> DEFINE n == Cardinality(Candidates)
<1>1. IsFiniteSet(Candidates) /\ Candidates # {} /\ Candidates \subseteq Int
    BY CandidatesAssumption
<1>2. /\ n \in Nat /\ CandidateOrder \in [1 .. n -> Candidates]
      /\ \A i \in 1 .. n : Rank(Candidates, CandidateOrder[i]) = i - 1
      /\ \A c \in Candidates :
            Rank(Candidates, c) + 1 \in 1 .. n /\ CandidateOrder[Rank(Candidates, c) + 1] = c
      /\ \A i, j \in 1 .. n : i < j => CandidateOrder[i] < CandidateOrder[j]
    BY <1>1, SortedIsTheOrder DEF CandidateOrder
<1>3. DOMAIN CandidateOrder = 1 .. n /\ Len(CandidateOrder) = n
    BY <1>1, SortedListsAll DEF CandidateOrder
<1> HIDE DEF n
<1>4. n >= 1
    <2>1. PICK c \in Candidates : TRUE
        BY <1>1
    <2>2. Rank(Candidates, c) + 1 \in 1 .. n
        BY <1>2
    <2> QED
        BY <1>2, <2>2
<1>5. \A c \in Candidates : \E i \in 1 .. n : CandidateOrder[i] = c
    BY <1>2
<1>6. ASSUME NEW i \in 1 .. n
      PROVE  /\ Cardinality({c \in Candidates : c < CandidateOrder[i]}) = i - 1
             /\ Cardinality({d \in Candidates : d <= CandidateOrder[i]}) = i
    <2> DEFINE x == CandidateOrder[i]
               below == {c \in Candidates : c < x}
               upto == {d \in Candidates : d <= x}
    <2>1. x \in Candidates /\ x \in Int
        BY <1>1, <1>2
    <2>2. Cardinality(below) = i - 1
        BY <1>2 DEF Rank
    <2>3. IsFiniteSet(below)
        <3>1. below \in SUBSET Candidates
            OBVIOUS
        <3> QED
            BY <1>1, <3>1, FS_Subset
    <2>4. upto = below \cup {x} /\ x \notin below
        <3>1. \A d \in Candidates : d <= x <=> (d < x \/ d = x)
            BY <1>1, <2>1
        <3>2. ~(x < x)
            BY <2>1
        <3> QED
            BY <2>1, <3>1, <3>2
    <2> HIDE DEF below, upto, x
    <2>5. Cardinality(below \cup {x}) = Cardinality(below) + 1
        BY <2>3, <2>4, FS_AddElement
    <2>6. Cardinality(upto) = i
        BY <2>2, <2>4, <2>5
    <2> QED
        BY <2>2, <2>6 DEF below, upto, x
<1> QED
    BY <1>2, <1>3, <1>4, <1>5, <1>6

\* A score is an integer.
LEMMA ScoresAreIntegers == ASSUME NEW e \in Int PROVE Score(e) \in Int
BY DEF Score, Magnitude

\* The raw answers of a legible vector.
LEMMA AnswersReadBack ==
    ASSUME NEW items \in Seq(ItemRecords), Legible(items)
    PROVE  /\ VectorOf(items) \in Answers
           /\ DOMAIN items = 1 .. Len(CandidateOrder)
           /\ \A i \in 1 .. Len(CandidateOrder) :
                /\ items[i] \in ItemRecords
                /\ VectorOf(items)[CandidateOrder[i]]
                       = IF items[i].valid THEN items[i].estimate ELSE Failure
<1>1. DOMAIN items = 1 .. Len(CandidateOrder)
    BY DEF Legible
<1>2. \A i \in 1 .. Len(CandidateOrder) : items[i] \in ItemRecords
    BY <1>1
<1>3. ASSUME NEW i \in 1 .. Len(CandidateOrder)
      PROVE  VectorOf(items)[CandidateOrder[i]]
                 = IF items[i].valid THEN items[i].estimate ELSE Failure
    <2>1. Cardinality({d \in Candidates : d <= CandidateOrder[i]}) = i /\ CandidateOrder[i] \in Candidates
        BY OrderOfCandidates
    <2> QED
        BY <2>1 DEF VectorOf
<1>4. \A i \in 1 .. Len(CandidateOrder) :
        (IF items[i].valid THEN items[i].estimate ELSE Failure) \in Estimates \cup {Failure}
    BY <1>1, <1>2 DEF Legible, ItemRecords
<1>5. \A c \in Candidates : VectorOf(items)[c] \in Estimates \cup {Failure}
    BY <1>3, <1>4, OrderOfCandidates
<1>6. VectorOf(items) \in Answers
    <2>1. VectorOf(items) = [c \in Candidates |-> VectorOf(items)[c]]
        BY DEF VectorOf
    <2> QED
        BY <1>5, <2>1 DEF Answers
<1> QED
    BY <1>1, <1>2, <1>3, <1>6

\* The scores of a vector, a finite set of integers, and its tied candidates.
LEMMA ScoresOfAVector ==
    ASSUME NEW v \in Answers, AllValid(v)
    PROVE  /\ \A c \in Candidates : v[c] \in Estimates /\ v[c] \in Int /\ Score(v[c]) \in Int
           /\ IsFiniteSet({Score(v[c]) : c \in Candidates})
           /\ Decision(v) \in Int
           /\ \A c \in Candidates : Decision(v) >= Score(v[c])
           /\ IsFiniteSet(Tied(v)) /\ Tied(v) # {} /\ Tied(v) \subseteq Candidates
<1> DEFINE S == {Score(v[c]) : c \in Candidates}
           f == [c \in Candidates |-> Score(v[c])]
<1>1. \A c \in Candidates : v[c] \in Estimates /\ v[c] \in Int
    BY ContractAssumption DEF Answers, AllValid
<1>2. \A c \in Candidates : Score(v[c]) \in Int
    BY <1>1, ScoresAreIntegers
<1>3. f \in Surjection(Candidates, S)
    BY DEF Surjection
<1>4. IsFiniteSet(Candidates) /\ Candidates # {} /\ Candidates \subseteq Int
    BY CandidatesAssumption
<1>5. IsFiniteSet(S)
    BY <1>3, <1>4, FS_Surjection
<1>6. S \subseteq Int /\ S # {}
    BY <1>2, <1>4
<1>7. Decision(v) \in S /\ \A y \in S : Decision(v) >= y
    BY <1>5, <1>6, Extremes DEF Decision
<1>8. \A c \in Candidates : Decision(v) >= Score(v[c])
    BY <1>7
<1>9. PICK c \in Candidates : Decision(v) = Score(v[c])
    BY <1>7
<1>10. c \in Tied(v)
    <2>1. Decision(v) - Score(v[c]) = 0
        BY <1>2, <1>9
    <2> QED
        BY <2>1, ToleranceAssumption DEF Tied
<1>11. Tied(v) \in SUBSET Candidates
    BY DEF Tied
<1>12. IsFiniteSet(Tied(v))
    BY <1>4, <1>11, FS_Subset
<1> QED
    BY <1>1, <1>2, <1>5, <1>6, <1>7, <1>8, <1>10, <1>11, <1>12

\* The verifier's rule over recomputed scores selects what the central rule selects from the
\* estimates: the same maximum, ties, label and index (verify_selection, select_family_v2).
LEMMA OneRule ==
    ASSUME NEW v \in Answers, AllValid(v), NEW scores,
           scores = [i \in 1 .. Len(CandidateOrder) |-> Score(v[CandidateOrder[i]])]
    PROVE  /\ Selection(v) \in Selections
           /\ \A s \in Selections \cup {NoValue} : SelectionHolds(s, scores) <=> s = Selection(v)
<1> DEFINE n == Len(CandidateOrder)
           S == {Score(v[c]) : c \in Candidates}
           first == Min(Retied(scores))
<1>1. /\ n \in Nat /\ n >= 1
      /\ \A i \in 1 .. n : CandidateOrder[i] \in Candidates
      /\ \A i, j \in 1 .. n : i < j => CandidateOrder[i] < CandidateOrder[j]
      /\ \A c \in Candidates : \E i \in 1 .. n : CandidateOrder[i] = c
      /\ \A i \in 1 .. n : Cardinality({c \in Candidates : c < CandidateOrder[i]}) = i - 1
      /\ \A c \in Candidates : c \in Int
    <2>1. \A c \in Candidates : c \in Int
        BY CandidatesAssumption
    <2> QED
        BY <2>1, OrderOfCandidates
<1>2. DOMAIN scores = 1 .. n /\ \A i \in 1 .. n : scores[i] = Score(v[CandidateOrder[i]])
    OBVIOUS
<1>3. ToSet(scores) = S
    BY <1>1, <1>2 DEF ToSet
<1>4. Max(ToSet(scores)) = Decision(v)
    BY <1>3 DEF Decision
<1>5. Retied(scores) = {i \in 1 .. n : CandidateOrder[i] \in Tied(v)}
    BY <1>1, <1>2, <1>4 DEF Retied, Tied
<1>6. {CandidateOrder[i] : i \in Retied(scores)} = Tied(v)
    <2>1. \A i \in Retied(scores) : CandidateOrder[i] \in Tied(v)
        BY <1>5
    <2>2. \A c \in Tied(v) : c \in Candidates
        BY DEF Tied
    <2>3. \A c \in Tied(v) : \E i \in Retied(scores) : CandidateOrder[i] = c
        BY <1>1, <1>5, <2>2
    <2> QED
        BY <2>1, <2>3
<1>7. /\ IsFiniteSet(Tied(v)) /\ Tied(v) # {} /\ Tied(v) \subseteq Candidates /\ Decision(v) \in Int
    BY ScoresOfAVector
<1> HIDE DEF n, S
<1>8. first \in Retied(scores) /\ \A j \in Retied(scores) : first <= j
    <2>1. Retied(scores) \in SUBSET (1 .. n)
        BY <1>5
    <2>2. IsFiniteSet(1 .. n)
        BY <1>1, FS_Interval
    <2>3. IsFiniteSet(Retied(scores))
        BY <2>1, <2>2, FS_Subset
    <2>4. Retied(scores) # {}
        BY <1>6, <1>7
    <2>5. Retied(scores) \subseteq Int
        BY <1>1, <2>1
    <2> QED
        BY <2>3, <2>4, <2>5, Extremes
<1>9. first \in 1 .. n /\ CandidateOrder[first] \in Tied(v)
    BY <1>5, <1>8
<1> HIDE DEF first
<1>10. CandidateOrder[first] = SelectedCandidate(v)
    <2>1. \A c \in Tied(v) : CandidateOrder[first] <= c
        <3> SUFFICES ASSUME NEW c \in Tied(v) PROVE CandidateOrder[first] <= c
            OBVIOUS
        <3>1. PICK j \in Retied(scores) : CandidateOrder[j] = c
            BY <1>6
        <3>2. j \in 1 .. n /\ first <= j
            BY <1>5, <1>8, <3>1
        <3>3. CandidateOrder[first] \in Int /\ CandidateOrder[j] \in Int
            BY <1>1, <1>9, <3>2
        <3>4. first < j => CandidateOrder[first] < CandidateOrder[j]
            BY <1>1, <1>9, <3>2
        <3>5. first = j \/ first < j
            BY <1>1, <1>9, <3>2
        <3> QED
            BY <3>1, <3>3, <3>4, <3>5
    <2>2. Min(Tied(v)) \in Tied(v) /\ \A y \in Tied(v) : Min(Tied(v)) <= y
        BY <1>1, <1>7, Extremes
    <2>3. Min(Tied(v)) \in Int /\ CandidateOrder[first] \in Int
        BY <1>1, <1>7, <1>9, <2>2
    <2> QED
        BY <1>9, <2>1, <2>2, <2>3 DEF SelectedCandidate
<1>11. Cardinality({c \in Candidates : c < SelectedCandidate(v)}) = first - 1
    BY <1>1, <1>9, <1>10
<1>12. SelectedCandidate(v) \in Int
    BY <1>1, <1>9, <1>10
<1>13. Sorted(Tied(v)) \in Seq(Int)
    <2>1. Sorted(Tied(v)) \in Seq(Tied(v)) /\ Tied(v) \subseteq Int
        BY <1>1, <1>7, SortedListsAll
    <2> QED
        BY <2>1
<1>14. Selection(v) \in Selections
    BY <1>1, <1>7, <1>9, <1>11, <1>12, <1>13 DEF Selection, Selections
<1>15. ASSUME NEW s \in Selections \cup {NoValue}
       PROVE  SelectionHolds(s, scores) <=> s = Selection(v)
    <2>1. SelectionHolds(s, scores) <=>
            /\ s # NoValue
            /\ s.index = first - 1 /\ s.candidate = SelectedCandidate(v)
            /\ s.statistic = Decision(v) /\ s.ties = Sorted(Tied(v))
        BY <1>4, <1>6, <1>10 DEF SelectionHolds, first
    <2>2. /\ Selection(v).index = first - 1 /\ Selection(v).candidate = SelectedCandidate(v)
          /\ Selection(v).statistic = Decision(v) /\ Selection(v).ties = Sorted(Tied(v))
        BY <1>11 DEF Selection
    <2>3. Selection(v) # NoValue
        BY <1>14, ContractAssumption
    <2>4. \A x \in Selections :
            x = [candidate |-> x.candidate, statistic |-> x.statistic, index |-> x.index, ties |-> x.ties]
        BY DEF Selections
    <2>5. CASE s = NoValue
        BY <2>1, <2>3, <2>5
    <2>6. CASE s \in Selections /\ s # NoValue
        <3>1. s = [candidate |-> s.candidate, statistic |-> s.statistic, index |-> s.index, ties |-> s.ties]
            BY <2>4, <2>6
        <3>2. Selection(v) =
                [candidate |-> Selection(v).candidate, statistic |-> Selection(v).statistic,
                 index |-> Selection(v).index, ties |-> Selection(v).ties]
            BY <1>14, <2>4
        <3> QED
            BY <2>1, <2>2, <2>6, <3>1, <3>2
    <2> QED
        BY <2>5, <2>6
<1> QED
    BY <1>14, <1>15

\* When an item is the one a run would report.
LEMMA ItemIs ==
    ASSUME NEW item \in ItemRecords, NEW c, NEW support, NEW e, NEW score
    PROVE  item = Item(c, support, e, score) <=>
            /\ item.candidate = c /\ item.support = support /\ item.identity = Identity
            /\ item.valid = (e # Failure) /\ item.score = score
            /\ item.estimate = (IF e = Failure THEN NoValue ELSE e)
<1>1. item = [candidate |-> item.candidate, support |-> item.support, identity |-> item.identity,
              valid |-> item.valid, score |-> item.score, estimate |-> item.estimate]
    BY DEF ItemRecords
<1> DEFINE reported == Item(c, support, e, score)
<1>2. /\ reported.candidate = c /\ reported.support = support /\ reported.identity = Identity
      /\ reported.valid = (e # Failure) /\ reported.score = score
      /\ reported.estimate = (IF e = Failure THEN NoValue ELSE e)
      /\ reported = [candidate |-> reported.candidate, support |-> reported.support,
                     identity |-> reported.identity, valid |-> reported.valid,
                     score |-> reported.score, estimate |-> reported.estimate]
    BY DEF Item
<1> HIDE DEF reported
<1>3. item = reported <=>
        /\ item.candidate = reported.candidate /\ item.support = reported.support
        /\ item.identity = reported.identity /\ item.valid = reported.valid
        /\ item.score = reported.score /\ item.estimate = reported.estimate
    BY <1>1, <1>2
<1> QED
    BY <1>2, <1>3 DEF reported

\* What read_statistic asks of a vector, item by item.
LEMMA ReadVectors ==
    ASSUME NEW items \in Seq(ItemRecords)
    PROVE  VectorReads(items) <=>
            /\ Legible(items) /\ items[1].support >= 1
            /\ \A i \in 1 .. Len(CandidateOrder) :
                /\ items[i].candidate = CandidateOrder[i]
                /\ items[i].support = items[1].support /\ items[i].identity = Identity
                /\ ~items[i].valid => items[i].estimate = NoValue /\ items[i].score = NoValue
<1>1. Len(CandidateOrder) \in Nat /\ 1 \in 1 .. Len(CandidateOrder)
    BY OrderOfCandidates
<1>2. Len(items) = Len(CandidateOrder) => DOMAIN items = 1 .. Len(CandidateOrder)
    OBVIOUS
<1>3. ASSUME Len(items) = Len(CandidateOrder)
      PROVE  /\ VectorReads(items) <=>
                \A i \in 1 .. Len(CandidateOrder) :
                    /\ ItemReads(items[i], CandidateOrder[i], items[1].support)
                    /\ IF items[i].valid THEN items[i].estimate # NoValue ELSE FailureStaysRaw(items[i])
             /\ Legible(items) <=>
                \A i \in 1 .. Len(CandidateOrder) : items[i].valid => items[i].estimate # NoValue
    BY <1>2, <1>3 DEF VectorReads, Legible
<1> QED
    BY <1>1, <1>3 DEF VectorReads, Legible, ItemReads, FailureStaysRaw

\* The verifier accepts a scored vector exactly when its answers score and select to it.
LEMMA CompleteVectors ==
    ASSUME NEW items \in Seq(ItemRecords), NEW s \in Selections \cup {NoValue}
    PROVE  CompleteVectorHolds(items, s) <=>
            /\ Legible(items) /\ AllValid(VectorOf(items)) /\ items[1].support >= 1
            /\ items = ScoredItems(VectorOf(items), items[1].support)
            /\ s = Selection(VectorOf(items))
<1> DEFINE n == Len(CandidateOrder)
           v == VectorOf(items)
           support == items[1].support
<1>1. CompleteVectorHolds(items, s) => Legible(items)
    BY ReadVectors DEF CompleteVectorHolds
<1> SUFFICES ASSUME Legible(items)
             PROVE  CompleteVectorHolds(items, s) <=>
                        /\ AllValid(v) /\ support >= 1
                        /\ items = ScoredItems(v, support) /\ s = Selection(v)
    BY <1>1
<1>2. /\ v \in Answers /\ DOMAIN items = 1 .. n
      /\ \A i \in 1 .. n : /\ items[i] \in ItemRecords
                           /\ v[CandidateOrder[i]] = IF items[i].valid THEN items[i].estimate ELSE Failure
    BY AnswersReadBack
<1> HIDE DEF v
<1>3. \A i \in 1 .. n : items[i].valid <=> v[CandidateOrder[i]] # Failure
    <2> SUFFICES ASSUME NEW i \in 1 .. n
                 PROVE  items[i].valid <=> v[CandidateOrder[i]] # Failure
        OBVIOUS
    <2>1. items[i].valid \in BOOLEAN /\ items[i].estimate \in Estimates \cup {NoValue}
        BY <1>2 DEF ItemRecords
    <2>2. items[i].estimate # Failure
        BY <2>1, ContractAssumption, FailureAssumption
    <2> QED
        BY <1>2, <2>1, <2>2
<1>4. AllValid(v) <=> \A i \in 1 .. n : items[i].valid
    <2>1. AllValid(v) <=> \A i \in 1 .. n : v[CandidateOrder[i]] # Failure
        BY OrderOfCandidates DEF AllValid
    <2> QED
        BY <1>3, <2>1
<1>5. CASE ~AllValid(v)
    BY <1>2, <1>4, <1>5 DEF CompleteVectorHolds
<1>6. CASE AllValid(v)
    <2>1. \A i \in 1 .. n : items[i].valid = TRUE /\ v[CandidateOrder[i]] = items[i].estimate
        <3>1. \A i \in 1 .. n : items[i].valid \in BOOLEAN
            BY <1>2 DEF ItemRecords
        <3> QED
            BY <1>2, <1>4, <1>6, <3>1
    <2>2. items = ScoredItems(v, support) <=>
            \A i \in 1 .. n :
                items[i] = Item(CandidateOrder[i], support, v[CandidateOrder[i]], Score(v[CandidateOrder[i]]))
        <3>1. ScoredItems(v, support) =
                [i \in 1 .. n |-> Item(CandidateOrder[i], support, v[CandidateOrder[i]], Score(v[CandidateOrder[i]]))]
            BY OrderOfCandidates DEF ScoredItems
        <3>2. items = [i \in 1 .. n |-> items[i]]
            BY <1>2
        <3> QED
            BY <3>1, <3>2
    <2>3. ASSUME NEW i \in 1 .. n
          PROVE  items[i] = Item(CandidateOrder[i], support, v[CandidateOrder[i]], Score(v[CandidateOrder[i]]))
                    <=> /\ items[i].candidate = CandidateOrder[i] /\ items[i].support = support
                        /\ items[i].identity = Identity
                        /\ items[i].score = Score(items[i].estimate)
        <3>1. items[i] \in ItemRecords /\ v[CandidateOrder[i]] # Failure
            BY <1>2, <1>3, <2>1
        <3>2. items[i].valid = (v[CandidateOrder[i]] # Failure)
            BY <2>1, <3>1
        <3> HIDE DEF support
        <3> QED
            BY <2>1, <3>1, <3>2, ItemIs
    <2>4. CompleteVectorHolds(items, s) <=>
            /\ VectorReads(items)
            /\ \A i \in 1 .. n : items[i].score = Score(items[i].estimate)
            /\ SelectionHolds(s, Rescored(items))
        BY <1>2, <2>1 DEF CompleteVectorHolds
    <2>5. VectorReads(items) <=>
            /\ support >= 1
            /\ \A i \in 1 .. n : /\ items[i].candidate = CandidateOrder[i]
                                 /\ items[i].support = support /\ items[i].identity = Identity
        BY <2>1, ReadVectors
    <2>6. SelectionHolds(s, Rescored(items)) <=> s = Selection(v)
        <3>1. Rescored(items) = [i \in 1 .. n |-> Score(v[CandidateOrder[i]])]
            BY <1>2, <2>1 DEF Rescored
        <3> QED
            BY <1>2, <1>6, <3>1, OneRule
    <2> HIDE DEF n, support
    <2> QED
        BY <1>6, <2>2, <2>3, <2>4, <2>5, <2>6
<1> QED
    BY <1>5, <1>6

\* The same of a vector with a failed candidate, which is retained as it was answered.
LEMMA FailedVectors ==
    ASSUME NEW items \in Seq(ItemRecords), NEW s \in Selections \cup {NoValue}
    PROVE  FailureVectorHolds(items, s) <=>
            /\ Legible(items) /\ ~AllValid(VectorOf(items)) /\ items[1].support >= 1
            /\ items = RawItems(VectorOf(items), items[1].support)
            /\ s = NoValue
<1> DEFINE n == Len(CandidateOrder)
           v == VectorOf(items)
           support == items[1].support
<1>1. FailureVectorHolds(items, s) => Legible(items)
    BY ReadVectors DEF FailureVectorHolds
<1> SUFFICES ASSUME Legible(items)
             PROVE  FailureVectorHolds(items, s) <=>
                        /\ ~AllValid(v) /\ support >= 1
                        /\ items = RawItems(v, support) /\ s = NoValue
    BY <1>1
<1>2. /\ v \in Answers /\ DOMAIN items = 1 .. n
      /\ \A i \in 1 .. n : /\ items[i] \in ItemRecords
                           /\ v[CandidateOrder[i]] = IF items[i].valid THEN items[i].estimate ELSE Failure
    BY AnswersReadBack
<1> HIDE DEF v
<1>3. ASSUME NEW i \in 1 .. n
      PROVE  /\ items[i].valid = (v[CandidateOrder[i]] # Failure)
             /\ items[i].valid => items[i].estimate = v[CandidateOrder[i]]
    <2>1. items[i].valid \in BOOLEAN /\ items[i].estimate \in Estimates \cup {NoValue}
        BY <1>2 DEF ItemRecords
    <2>2. items[i].estimate # Failure
        BY <2>1, ContractAssumption, FailureAssumption
    <2>3. CASE items[i].valid
        BY <1>2, <2>1, <2>2, <2>3
    <2>4. CASE ~items[i].valid
        BY <1>2, <2>1, <2>4
    <2> QED
        BY <2>3, <2>4
<1>4. AllValid(v) <=> \A i \in 1 .. n : items[i].valid
    <2>1. AllValid(v) <=> \A i \in 1 .. n : v[CandidateOrder[i]] # Failure
        BY OrderOfCandidates DEF AllValid
    <2> QED
        BY <1>3, <2>1
<1>5. items = RawItems(v, support) <=>
        \A i \in 1 .. n : items[i] = Item(CandidateOrder[i], support, v[CandidateOrder[i]], NoValue)
    <2>1. RawItems(v, support) =
            [i \in 1 .. n |-> Item(CandidateOrder[i], support, v[CandidateOrder[i]], NoValue)]
        BY OrderOfCandidates DEF RawItems
    <2>2. items = [i \in 1 .. n |-> items[i]]
        BY <1>2
    <2> QED
        BY <2>1, <2>2
<1>6. ASSUME NEW i \in 1 .. n
      PROVE  items[i] = Item(CandidateOrder[i], support, v[CandidateOrder[i]], NoValue)
                <=> /\ items[i].candidate = CandidateOrder[i] /\ items[i].support = support
                    /\ items[i].identity = Identity /\ items[i].score = NoValue
                    /\ ~items[i].valid => items[i].estimate = NoValue
    <2>1. items[i] \in ItemRecords
        BY <1>2
    <2> HIDE DEF support
    <2>2. items[i] = Item(CandidateOrder[i], support, v[CandidateOrder[i]], NoValue)
            <=> /\ items[i].candidate = CandidateOrder[i] /\ items[i].support = support
                /\ items[i].identity = Identity /\ items[i].score = NoValue
                /\ items[i].estimate
                       = (IF v[CandidateOrder[i]] = Failure THEN NoValue ELSE v[CandidateOrder[i]])
        BY <1>3, <2>1, ItemIs
    <2>3. items[i].estimate = (IF v[CandidateOrder[i]] = Failure THEN NoValue ELSE v[CandidateOrder[i]])
            <=> (~items[i].valid => items[i].estimate = NoValue)
        BY <1>3
    <2> QED
        BY <2>2, <2>3
<1>7. FailureVectorHolds(items, s) <=>
        /\ VectorReads(items)
        /\ \A i \in 1 .. n : items[i].score = NoValue
        /\ \E i \in 1 .. n : ~items[i].valid
        /\ s = NoValue
    BY <1>2 DEF FailureVectorHolds
<1>8. VectorReads(items) <=>
        /\ support >= 1
        /\ \A i \in 1 .. n :
            /\ items[i].candidate = CandidateOrder[i]
            /\ items[i].support = support /\ items[i].identity = Identity
            /\ ~items[i].valid => items[i].estimate = NoValue /\ items[i].score = NoValue
    BY ReadVectors
<1> HIDE DEF n, support
<1> QED
    BY <1>4, <1>5, <1>6, <1>7, <1>8

-----------------------------------------------------------------------------
\* Tokens

Names == [name : NullNames, parameter : Nat, length : Int]

TokenRecords ==
    [name : NullNames, parameter : Nat, pair : Pairs, plan : Plans,
     owner : [pair : Pairs, plan : Plans, null : Names], identity : BOOLEAN, state : Seq(Nat)]

\* A shift as a record: one number in the shift space.
LEMMA ShiftRecords ==
    ASSUME NEW state \in Seq(Nat), NEW n \in Nat, NEW m \in Nat \ {0}, 2 * m <= n
    PROVE  state \in {<<s>> : s \in Shifts(n, m)} <=>
            Len(state) = 1 /\ (state[1] # 0 => state[1] \in m .. n - m)
<1>1. ASSUME state \in {<<s>> : s \in Shifts(n, m)}
      PROVE  Len(state) = 1 /\ (state[1] # 0 => state[1] \in m .. n - m)
    <2>1. PICK s \in Shifts(n, m) : state = <<s>>
        BY <1>1
    <2> QED
        BY <2>1 DEF Shifts, InShifts
<1>2. ASSUME Len(state) = 1, state[1] # 0 => state[1] \in m .. n - m
      PROVE  state \in {<<s>> : s \in Shifts(n, m)}
    <2>1. state = <<state[1]>> /\ state[1] \in Nat
        BY <1>2
    <2>2. state[1] \in Shifts(n, m)
        BY <1>2, <2>1 DEF Shifts, InShifts
    <2> QED
        BY <2>1, <2>2
<1> QED
    BY <1>1, <1>2

\* An order of blocks as a record: every block once.
LEMMA OrderRecords ==
    ASSUME NEW state \in Seq(Nat), NEW q \in Nat
    PROVE  state \in {[k \in 1 .. q |-> o[k - 1]] : o \in Orders(q)} <=>
            Len(state) = q /\ ToSet(state) = 0 .. q - 1
<1>1. IsFiniteSet(0 .. q - 1) /\ Cardinality(0 .. q - 1) = q
    BY FS_Interval
<1>2. ASSUME state \in {[k \in 1 .. q |-> o[k - 1]] : o \in Orders(q)}
      PROVE  Len(state) = q /\ ToSet(state) = 0 .. q - 1
    <2>1. PICK o \in Orders(q) : state = [k \in 1 .. q |-> o[k - 1]]
        BY <1>2
    <2>2. o \in Injection(0 .. q - 1, 0 .. q - 1)
        BY DEF Orders, Injection, IsInjective
    <2>3. o \in Surjection(0 .. q - 1, 0 .. q - 1)
        BY <1>1, <2>2, FS_Injection
    <2>4. \A b \in 0 .. q - 1 : \E j \in 0 .. q - 1 : o[j] = b
        BY <2>3 DEF Surjection
    <2>5. DOMAIN state = 1 .. q /\ Len(state) = q
        BY <2>1
    <2>6. \A k \in 1 .. q : state[k] \in 0 .. q - 1
        BY <2>1 DEF Orders
    <2>7. ASSUME NEW b \in 0 .. q - 1
          PROVE  \E k \in 1 .. q : state[k] = b
        <3>1. PICK j \in 0 .. q - 1 : o[j] = b
            BY <2>4
        <3>2. j + 1 \in 1 .. q /\ (j + 1) - 1 = j
            OBVIOUS
        <3>3. state[j + 1] = o[(j + 1) - 1]
            BY <2>1, <3>2
        <3> QED
            BY <3>1, <3>2, <3>3
    <2> QED
        BY <2>5, <2>6, <2>7 DEF ToSet
<1>3. ASSUME Len(state) = q, ToSet(state) = 0 .. q - 1
      PROVE  state \in {[k \in 1 .. q |-> o[k - 1]] : o \in Orders(q)}
    <2> DEFINE o == [j \in 0 .. q - 1 |-> state[j + 1]]
    <2>1. DOMAIN state = 1 .. q /\ state = [k \in 1 .. q |-> state[k]]
        BY <1>3
    <2>2. \A k \in 1 .. q : state[k] \in 0 .. q - 1
        BY <1>3, <2>1 DEF ToSet
    <2>3. o \in [0 .. q - 1 -> 0 .. q - 1]
        <3>1. \A j \in 0 .. q - 1 : state[j + 1] \in 0 .. q - 1
            BY <2>2
        <3> QED
            BY <3>1
    <2>4. ASSUME NEW b \in 0 .. q - 1
          PROVE  \E j \in 0 .. q - 1 : o[j] = b
        <3>1. PICK k \in 1 .. q : state[k] = b
            BY <1>3, <2>1 DEF ToSet
        <3>2. k - 1 \in 0 .. q - 1 /\ (k - 1) + 1 = k
            OBVIOUS
        <3>3. o[k - 1] = state[(k - 1) + 1]
            BY <3>2
        <3> QED
            BY <3>1, <3>2, <3>3
    <2> HIDE DEF o
    <2>5. o \in Surjection(0 .. q - 1, 0 .. q - 1)
        BY <2>3, <2>4 DEF Surjection
    <2>6. o \in Injection(0 .. q - 1, 0 .. q - 1)
        BY <1>1, <2>5, FS_SurjSameCardinalityImpliesInj
    <2>7. o \in Orders(q)
        BY <2>3, <2>6 DEF Orders, Injection, IsInjective
    <2>8. [k \in 1 .. q |-> o[k - 1]] = state
        <3>1. ASSUME NEW k \in 1 .. q
              PROVE  o[k - 1] = state[k]
            <4>1. k - 1 \in 0 .. q - 1 /\ (k - 1) + 1 = k
                OBVIOUS
            <4>2. o[k - 1] = state[(k - 1) + 1]
                BY <4>1 DEF o
            <4> QED
                BY <4>1, <4>2
        <3> QED
            BY <2>1, <3>1
    <2> QED
        BY <2>7, <2>8
<1> QED
    BY <1>2, <1>3

\* A null that can be constructed and bound, as the two checks of its token say it.
LEMMA Bindings ==
    ASSUME NEW plan \in Plans, NEW length \in Nat
    PROVE  /\ plan.name # "block_shuffle_v2" =>
                (BindStatus(BoundTo(plan, length)) = "ENABLED" <=> 2 * plan.parameter <= length)
           /\ plan.name = "block_shuffle_v2" =>
                (BindStatus(BoundTo(plan, length)) = "ENABLED" <=>
                    length % plan.parameter = 0 /\ length \div plan.parameter \in 2 .. MaxBlockCount)
<1>1. plan.parameter \in Nat \ {0} /\ MaxBlockCount \in Nat
    BY ContractAssumption, MaxBlockCountAssumption
<1>2. length \div plan.parameter \in Nat
    BY <1>1
<1>3. plan.name # "block_shuffle_v2" =>
        (BindStatus(BoundTo(plan, length)) = "ENABLED" <=> 2 * plan.parameter <= length)
    BY <1>1 DEF BindStatus, BoundTo, Circular, CircularBindStatus
<1>4. plan.name = "block_shuffle_v2" =>
        (BindStatus(BoundTo(plan, length)) = "ENABLED" <=>
            length % plan.parameter = 0 /\ length \div plan.parameter \in 2 .. MaxBlockCount)
    BY <1>1, <1>2 DEF BindStatus, BoundTo, Circular, BlockBindStatus, BlockCount
<1> QED
    BY <1>3, <1>4

\* A token is the one of its state exactly when it is owned and its flag is true.
LEMMA TokenIs ==
    ASSUME NEW t \in TokenRecords, NEW plan, NEW pair, NEW length
    PROVE  t = Token(plan, pair, length, t.state) <=>
            OwnedToken(t, plan, pair, length) /\ t.identity = IsIdentity(t.state)
<1>1. t = [name |-> t.name, parameter |-> t.parameter, pair |-> t.pair, plan |-> t.plan,
           owner |-> t.owner, identity |-> t.identity, state |-> t.state]
    BY DEF TokenRecords
<1> QED
    BY <1>1 DEF Token, OwnedToken

\* The verifier accepts a token exactly when a run of the plan could draw it: its state is of
\* the space of the bound null, in the enumerated place if the null enumerates
\* (verify_token_state of the three nulls).
LEMMA TokensAreOfRuns ==
    ASSUME NEW t \in TokenRecords, NEW plan \in Plans, NEW pair, NEW length \in Nat, NEW i \in Nat \ {0}
    PROVE  TokenHolds(t, plan, pair, length, i - 1) <=>
            /\ Constructible(plan)
            /\ BindStatus(BoundTo(plan, length)) = "ENABLED"
            /\ t.state \in StateRecords(BoundTo(plan, length))
            /\ plan.name = "circular_shift_exact_v1" => t.state = <<i>> /\ plan.replicates = length - 1
            /\ t = Token(plan, pair, length, t.state)
<1> DEFINE state == t.state
           m == plan.parameter
<1>1. /\ plan.name \in NullNames /\ m \in Nat \ {0} /\ plan.replicates \in Nat \ {0}
      /\ state \in Seq(Nat) /\ t.identity \in BOOLEAN
    BY ContractAssumption DEF TokenRecords
<1>2. Len(state) = 1 => (IsIdentity(state) <=> state[1] = 0)
    <2>1. Len(state) = 1 => DOMAIN state = 1 .. 1
        BY <1>1
    <2>2. Len(state) = 1 => state[1] \in Nat
        BY <1>1
    <2> QED
        BY <2>1, <2>2 DEF IsIdentity
<1>3. IsIdentity(state) \in BOOLEAN
    BY DEF IsIdentity
<1>4. CASE plan.name # "block_shuffle_v2"
    <2>1. BindStatus(BoundTo(plan, length)) = "ENABLED" <=> 2 * m <= length
        BY <1>4, Bindings
    <2>2. StateRecords(BoundTo(plan, length)) = {<<s>> : s \in Shifts(length, m)}
        BY <1>4 DEF StateRecords, BoundTo, Circular
    <2>3. 2 * m <= length =>
            (state \in StateRecords(BoundTo(plan, length)) <=>
                Len(state) = 1 /\ (state[1] # 0 => state[1] \in m .. length - m))
        <3>1. ASSUME 2 * m <= length
              PROVE  state \in {<<s>> : s \in Shifts(length, m)} <=>
                        Len(state) = 1 /\ (state[1] # 0 => state[1] \in m .. length - m)
            BY <1>1, <3>1, ShiftRecords
        <3> QED
            BY <2>2, <3>1
    <2>4. Len(state) = 1 => ((t.identity = (state[1] = 0)) <=> (t.identity = IsIdentity(state)))
        BY <1>1, <1>2, <1>3
    <2>5. CASE plan.name = "circular_shift_v2"
        <3>1. CircularTokenHolds(t, plan, length) <=>
                /\ 2 * m <= length
                /\ Len(state) = 1 /\ t.identity = (state[1] = 0)
                /\ state[1] # 0 => state[1] \in m .. length - m
            BY DEF CircularTokenHolds
        <3>2. TokenHolds(t, plan, pair, length, i - 1) <=>
                /\ Constructible(plan) /\ OwnedToken(t, plan, pair, length)
                /\ CircularTokenHolds(t, plan, length)
            BY <2>5 DEF TokenHolds, AdapterHolds
        <3> HIDE DEF state, m
        <3> QED
            BY <2>1, <2>3, <2>4, <2>5, <3>1, <3>2, TokenIs DEF state
    <2>6. CASE plan.name = "circular_shift_exact_v1"
        <3>1. ExactTokenHolds(t, plan, length, i - 1) <=>
                /\ length >= 2
                /\ Len(state) = 1 /\ t.identity = (state[1] = 0)
                /\ state[1] \in 0 .. length - 1
                /\ plan.replicates = length - 1 /\ state[1] = i - 1 + 1
            BY DEF ExactTokenHolds
        <3>2. TokenHolds(t, plan, pair, length, i - 1) <=>
                /\ Constructible(plan) /\ OwnedToken(t, plan, pair, length)
                /\ ExactTokenHolds(t, plan, length, i - 1)
            BY <2>6 DEF TokenHolds, AdapterHolds
        <3>3. Constructible(plan) => m = 1
            BY <2>6 DEF Constructible
        <3>4. state = <<i>> <=> Len(state) = 1 /\ state[1] = i
            <4>1. state \in Seq(Nat)
                BY <1>1
            <4> HIDE DEF state
            <4>2. Len(state) = 1 => state = <<state[1]>>
                BY <4>1
            <4>3. Len(<<i>>) = 1 /\ <<i>>[1] = i
                OBVIOUS
            <4> QED
                BY <4>2, <4>3
        <3>5. i - 1 + 1 = i
            OBVIOUS
        <3> HIDE DEF state, m
        <3>6. ASSUME Constructible(plan), OwnedToken(t, plan, pair, length)
              PROVE  ExactTokenHolds(t, plan, length, i - 1) <=>
                        /\ 2 * m <= length
                        /\ Len(state) = 1 /\ (state[1] # 0 => state[1] \in m .. length - m)
                        /\ state = <<i>> /\ plan.replicates = length - 1
                        /\ t.identity = (state[1] = 0)
            BY <1>1, <3>1, <3>3, <3>4, <3>5, <3>6
        <3> QED
            BY <2>1, <2>3, <2>4, <2>6, <3>2, <3>6, TokenIs DEF state
    <2> QED
        BY <1>1, <1>4, <2>5, <2>6 DEF NullNames
<1>5. CASE plan.name = "block_shuffle_v2"
    <2> DEFINE q == length \div m
    <2>1. BindStatus(BoundTo(plan, length)) = "ENABLED" <=> length % m = 0 /\ q \in 2 .. MaxBlockCount
        BY <1>5, Bindings
    <2>2. q \in Nat
        <3>1. m \in Nat \ {0}
            BY <1>1
        <3> HIDE DEF m
        <3> QED
            BY <3>1
    <2>3. StateRecords(BoundTo(plan, length)) = {[k \in 1 .. q |-> o[k - 1]] : o \in Orders(q)}
        BY <1>5 DEF StateRecords, BoundTo, Circular, BlockCount
    <2> HIDE DEF q
    <2>4. state \in StateRecords(BoundTo(plan, length)) <=> Len(state) = q /\ ToSet(state) = 0 .. q - 1
        BY <1>1, <2>2, <2>3, OrderRecords
    <2>5. BlockTokenHolds(t, plan, length) <=>
            /\ length % m = 0 /\ q \in 2 .. MaxBlockCount
            /\ Len(state) = q /\ ToSet(state) = 0 .. q - 1
            /\ t.identity = IsIdentity(state)
        BY DEF BlockTokenHolds, q
    <2>6. TokenHolds(t, plan, pair, length, i - 1) <=>
            /\ Constructible(plan) /\ OwnedToken(t, plan, pair, length)
            /\ BlockTokenHolds(t, plan, length)
        BY <1>5 DEF TokenHolds, AdapterHolds
    <2> HIDE DEF state, m
    <2> QED
        BY <1>5, <2>1, <2>4, <2>5, <2>6, TokenIs DEF state
<1> QED
    BY <1>4, <1>5

-----------------------------------------------------------------------------
\* Results

OutcomeRecords ==
    [id : Int, seed : [plan : Plans, id : Int], status : {"COMPLETE", "ANALYTIC_FAILURE"},
     stage : {"NONE", "STATISTIC_SCAN"}, token : TokenRecords, items : Seq(ItemRecords),
     selection : Selections \cup {NoValue}]

\* What a diagnostic of the calibrator says, or another one written over it.
Codes ==
    {"SHIFT_SPACE_EMPTY", "NON_DIVISIBLE_TAIL", "FEWER_THAN_TWO_BLOCKS", "TOO_MANY_BLOCKS", "ENABLED",
     "ORBIT_RESOLUTION", "ENUMERATION_COUNT_MISMATCH", "OBSERVED_SCAN_FAILURE",
     "REPLICATE_EXECUTION_FAILURE", "OTHER"}

\* Sequences of codes are built of codes.
LEMMA CodeSequences ==
    /\ <<>> \in Seq(Codes)
    /\ \A x \in Codes : <<x>> \in Seq(Codes)
    /\ \A q \in Seq(Codes), x \in Codes : Append(q, x) \in Seq(Codes)
OBVIOUS

ResultRecords ==
    [status : {"COMPLETE", "NOT_EVALUABLE"}, stage : Stages, pair : Pairs, plan : Plans,
     planned : Nat, alpha : (Nat \ {0}) \X (Nat \ {0}), observed : Seq(ItemRecords),
     selection : Selections \cup {NoValue}, replicates : Seq(OutcomeRecords),
     exceedances : Int, failures : Int, p : Int \cup {NoValue}, low : Int \cup {NoValue},
     high : Int \cup {NoValue}, reject : BOOLEAN \cup {NoValue},
     diagnostics : Seq(Codes), inexact : SUBSET Leaves, negative : SUBSET Floats]

LEMMA MaxLag == Max(Candidates) \in Nat
<1>1. IsFiniteSet(Candidates) /\ Candidates # {} /\ Candidates \subseteq Int
    BY CandidatesAssumption
<1>2. Max(Candidates) \in Candidates
    BY <1>1, Extremes
<1> QED
    BY <1>2, CandidatesAssumption

\* A reported vector names its support.
LEMMA ReportedSupport ==
    ASSUME NEW v, NEW support
    PROVE  ScoredItems(v, support)[1].support = support /\ RawItems(v, support)[1].support = support
<1>1. 1 \in DOMAIN CandidateOrder
    BY OrderOfCandidates
<1> QED
    BY <1>1 DEF ScoredItems, RawItems, Item

\* The states of a run and their places.
Drawn(plan, length, state, i) ==
    /\ Starts(plan, length)
    /\ state \in StateRecords(BoundTo(plan, length))
    /\ plan.name = "circular_shift_exact_v1" => state = <<i>>

\* The verifier accepts an outcome in its place exactly when the calibrator would have
\* registered it for its state and its answers (the replicate loop of both).
LEMMA OutcomesAreOfRuns ==
    ASSUME NEW o \in OutcomeRecords, NEW plan \in Plans, NEW support \in Int, support >= 1,
           NEW run, NEW i \in Nat \ {0}, run.length = support + Max(Candidates),
           run.replies[i] = [state |-> o.token.state, vector |-> VectorOf(o.items)]
    PROVE  OutcomeHolds(o, i - 1, plan, run.pair, support) <=>
            /\ Legible(o.items) /\ Drawn(plan, run.length, o.token.state, i)
            /\ o = Outcome(plan, run, i)
<1> DEFINE v == VectorOf(o.items)
           token == Token(plan, run.pair, run.length, o.token.state)
<1>1. /\ o.items \in Seq(ItemRecords) /\ o.token \in TokenRecords /\ o.selection \in Selections \cup {NoValue}
      /\ o.status \in {"COMPLETE", "ANALYTIC_FAILURE"}
      /\ o = [id |-> o.id, seed |-> o.seed, status |-> o.status, stage |-> o.stage, token |-> o.token,
              items |-> o.items, selection |-> o.selection]
    BY DEF OutcomeRecords
<1>2. run.length \in Nat /\ Support(run.length) = support
    BY MaxLag DEF Support
<1>3. run.replies[i].state = o.token.state /\ run.replies[i].vector = v
    OBVIOUS
<1>4. AllValid(v) \in BOOLEAN
    BY DEF AllValid
<1>5. Outcome(plan, run, i) =
        [id |-> i - 1, seed |-> Seed(plan, i - 1),
         status |-> IF AllValid(v) THEN "COMPLETE" ELSE "ANALYTIC_FAILURE",
         stage |-> IF AllValid(v) THEN "NONE" ELSE "STATISTIC_SCAN",
         token |-> token,
         items |-> IF AllValid(v) THEN ScoredItems(v, support) ELSE RawItems(v, support),
         selection |-> IF AllValid(v) THEN Selection(v) ELSE NoValue]
    BY <1>2, <1>3 DEF Outcome
<1>6. TokenHolds(o.token, plan, run.pair, run.length, i - 1) <=>
        Drawn(plan, run.length, o.token.state, i) /\ o.token = token
    <2>1. o.token \in TokenRecords /\ run.length \in Nat
        BY <1>1, <1>2
    <2>2. TokenHolds(o.token, plan, run.pair, run.length, i - 1) <=>
            /\ Constructible(plan)
            /\ BindStatus(BoundTo(plan, run.length)) = "ENABLED"
            /\ o.token.state \in StateRecords(BoundTo(plan, run.length))
            /\ plan.name = "circular_shift_exact_v1" =>
                  o.token.state = <<i>> /\ plan.replicates = run.length - 1
            /\ o.token = Token(plan, run.pair, run.length, o.token.state)
        BY <2>1, TokensAreOfRuns
    <2>3. Constructible(plan)
        BY ContractAssumption
    <2> QED
        BY <2>2, <2>3 DEF Drawn, Starts
<1>7. /\ CompleteVectorHolds(o.items, o.selection) /\ o.items[1].support = support <=>
            /\ Legible(o.items) /\ AllValid(v)
            /\ o.items = ScoredItems(v, support) /\ o.selection = Selection(v)
      /\ FailureVectorHolds(o.items, o.selection) /\ o.items[1].support = support <=>
            /\ Legible(o.items) /\ ~AllValid(v)
            /\ o.items = RawItems(v, support) /\ o.selection = NoValue
    BY <1>1, CompleteVectors, FailedVectors, ReportedSupport
<1>8. o = Outcome(plan, run, i) <=>
        /\ o.id = i - 1 /\ o.seed = Seed(plan, i - 1)
        /\ o.status = IF AllValid(v) THEN "COMPLETE" ELSE "ANALYTIC_FAILURE"
        /\ o.stage = IF AllValid(v) THEN "NONE" ELSE "STATISTIC_SCAN"
        /\ o.token = token
        /\ o.items = IF AllValid(v) THEN ScoredItems(v, support) ELSE RawItems(v, support)
        /\ o.selection = IF AllValid(v) THEN Selection(v) ELSE NoValue
    <2> HIDE DEF token, v
    <2> QED
        BY <1>1, <1>5
<1>9. OutcomeHolds(o, i - 1, plan, run.pair, support) <=>
        /\ o.id = i - 1 /\ o.seed = Seed(plan, i - 1)
        /\ IF o.status = "ANALYTIC_FAILURE"
           THEN FailureVectorHolds(o.items, o.selection) /\ o.stage = "STATISTIC_SCAN"
           ELSE CompleteVectorHolds(o.items, o.selection) /\ o.stage = "NONE"
        /\ o.items[1].support = support
        /\ TokenHolds(o.token, plan, run.pair, run.length, i - 1)
    BY DEF OutcomeHolds
<1> HIDE DEF v, token
<1>10. CASE AllValid(v)
    BY <1>1, <1>6, <1>7, <1>8, <1>9, <1>10
<1>11. CASE ~AllValid(v)
    BY <1>1, <1>6, <1>7, <1>8, <1>9, <1>11
<1> QED
    BY <1>10, <1>11

\* Facts keeps every field but three.
LEMMA FactsOf ==
    ASSUME NEW a, NEW b, NEW c, NEW d, NEW e, NEW f, NEW g, NEW h, NEW i, NEW j, NEW k, NEW l,
           NEW m, NEW n, NEW o, NEW p, NEW q, NEW t
    PROVE  Facts([status |-> a, stage |-> b, pair |-> c, plan |-> d, planned |-> e, alpha |-> f,
             observed |-> g, selection |-> h, replicates |-> i, exceedances |-> j, failures |-> k,
             p |-> l, low |-> m, high |-> n, reject |-> o, diagnostics |-> q, inexact |-> p, negative |-> t])
         = [status |-> a, stage |-> b, pair |-> c, plan |-> d, planned |-> e, alpha |-> f,
             observed |-> g, selection |-> h, replicates |-> i, exceedances |-> j, failures |-> k,
             p |-> l, low |-> m, high |-> n, reject |-> o, diagnostics |-> <<>>, inexact |-> {}, negative |-> {}]
<1> DEFINE nothing == <<>>
           With(x, y, z) ==
               [status |-> a, stage |-> b, pair |-> c, plan |-> d, planned |-> e, alpha |-> f,
                observed |-> g, selection |-> h, replicates |-> i, exceedances |-> j, failures |-> k,
                p |-> l, low |-> m, high |-> n, reject |-> o, diagnostics |-> x, inexact |-> y, negative |-> z]
<1> HIDE DEF nothing
<1>1. [With(q, p, t) EXCEPT !.inexact = {}] = With(q, {}, t)
    OBVIOUS
<1>2. [With(q, {}, t) EXCEPT !.negative = {}] = With(q, {}, {})
    OBVIOUS
<1>3. [With(q, {}, {}) EXCEPT !.diagnostics = nothing] = With(nothing, {}, {})
    OBVIOUS
<1> HIDE DEF With
<1>4. [With(q, p, t) EXCEPT !.inexact = {}, !.negative = {}, !.diagnostics = nothing] = With(nothing, {}, {})
    BY <1>1, <1>2, <1>3
<1> QED
    BY <1>4 DEF Facts, With, nothing

\* The facts of a result are its fields.
LEMMA ResultIsItsFields ==
    ASSUME NEW r \in ResultRecords
    PROVE  Facts(r) =
            [status |-> r.status, stage |-> r.stage, pair |-> r.pair, plan |-> r.plan,
             planned |-> r.planned, alpha |-> r.alpha, observed |-> r.observed,
             selection |-> r.selection, replicates |-> r.replicates, exceedances |-> r.exceedances,
             failures |-> r.failures, p |-> r.p, low |-> r.low, high |-> r.high, reject |-> r.reject,
             diagnostics |-> <<>>, inexact |-> {}, negative |-> {}]
<1> DEFINE a == r.status  b == r.stage  c == r.pair  d == r.plan
           e == r.planned  f == r.alpha  g == r.observed  h == r.selection
           i == r.replicates  j == r.exceedances  k == r.failures  l == r.p
           m == r.low  n == r.high  o == r.reject  p == r.inexact  q == r.diagnostics  t == r.negative
<1>1. r = [status |-> a, stage |-> b, pair |-> c, plan |-> d, planned |-> e, alpha |-> f,
       observed |-> g, selection |-> h, replicates |-> i, exceedances |-> j, failures |-> k, p |-> l,
       low |-> m, high |-> n, reject |-> o, diagnostics |-> q, inexact |-> p, negative |-> t]
    BY DEF ResultRecords
<1> HIDE DEF a, b, c, d, e, f, g, h, i, j, k, l, m, n, o, p, q, t
<1>2. Facts(r) =
      [status |-> a, stage |-> b, pair |-> c, plan |-> d, planned |-> e, alpha |-> f,
       observed |-> g, selection |-> h, replicates |-> i, exceedances |-> j, failures |-> k, p |-> l,
       low |-> m, high |-> n, reject |-> o, diagnostics |-> <<>>, inexact |-> {}, negative |-> {}]
    BY <1>1, FactsOf
<1> QED
    BY <1>2 DEF a, b, c, d, e, f, g, h, i, j, k, l, m, n, o, p, q, t

\* When a result has the facts of an early report of a run.
LEMMA UnfinishedIs ==
    ASSUME NEW r \in ResultRecords, NEW plan, NEW stage, NEW items, NEW notes
    PROVE  Facts(r) = Facts(Unfinished(plan, r.pair, stage, items, notes)) <=>
            /\ r.status = "NOT_EVALUABLE" /\ r.stage = stage
            /\ PrefixHolds(r, plan) /\ r.observed = items /\ EmptyTerminalHolds(r)
<1> DEFINE early == Facts(Unfinished(plan, r.pair, stage, items, notes))
<1>1. early = [status |-> "NOT_EVALUABLE", stage |-> stage, pair |-> r.pair, plan |-> plan,
               planned |-> plan.replicates, alpha |-> plan.alpha, observed |-> items,
               selection |-> NoValue, replicates |-> <<>>, exceedances |-> 0, failures |-> 0,
               p |-> NoValue, low |-> NoValue, high |-> NoValue, reject |-> NoValue,
               diagnostics |-> <<>>, inexact |-> {}, negative |-> {}]
    BY FactsOf DEF Unfinished
<1>2. EmptyTerminalHolds(r) <=>
        /\ r.selection = NoValue /\ r.replicates = <<>> /\ r.exceedances = 0 /\ r.failures = 0
        /\ r.p = NoValue /\ r.low = NoValue /\ r.high = NoValue /\ r.reject = NoValue
    BY DEF EmptyTerminalHolds
<1> HIDE DEF early
<1>3. Facts(r) = early <=>
        /\ r.status = "NOT_EVALUABLE" /\ r.stage = stage /\ r.plan = plan
        /\ r.planned = plan.replicates /\ r.alpha = plan.alpha /\ r.observed = items
        /\ r.selection = NoValue /\ r.replicates = <<>> /\ r.exceedances = 0 /\ r.failures = 0
        /\ r.p = NoValue /\ r.low = NoValue /\ r.high = NoValue /\ r.reject = NoValue
    BY <1>1, ResultIsItsFields
<1> QED
    BY <1>2, <1>3 DEF PrefixHolds, early

\* The facts of an early report show where it ended.
LEMMA UnfinishedEnds ==
    ASSUME NEW r \in ResultRecords, NEW plan, NEW stage, r.stage # stage
    PROVE  \A items, notes : Facts(r) # Facts(Unfinished(plan, r.pair, stage, items, notes))
<1> TAKE items, notes
<1>1. Facts(r) = Facts(Unfinished(plan, r.pair, stage, items, notes)) => r.stage = stage
    BY UnfinishedIs
<1> QED
    BY <1>1

\* When a result has the facts of the finished report of a run.
LEMMA FinishedIs ==
    ASSUME NEW r \in ResultRecords, NEW plan, NEW run, run.pair = r.pair,
           NEW outcomes, outcomes = [i \in Replicates(plan) |-> Outcome(plan, run, i)],
           NEW e, e = Cardinality(Exceeding(outcomes, Decision(run.observed))),
           NEW f, f = Cardinality(Failing(outcomes))
    PROVE  Facts(r) = Facts(Finished(plan, run)) <=>
            /\ PrefixHolds(r, plan)
            /\ r.observed = ScoredItems(run.observed, Support(run.length))
            /\ r.selection = Selection(run.observed)
            /\ r.replicates = outcomes /\ r.exceedances = e /\ r.failures = f
            /\ IF f = 0
               THEN /\ r.status = "COMPLETE" /\ r.stage = "NONE" /\ r.p = 1 + e
                    /\ r.low = NoValue /\ r.high = NoValue
                    /\ r.reject = Rejects(1 + e, plan.replicates, plan.alpha)
               ELSE /\ r.status = "NOT_EVALUABLE" /\ r.stage = "REPLICATE_EXECUTION"
                    /\ r.p = NoValue /\ r.low = 1 + e /\ r.high = 1 + e + f /\ r.reject = NoValue
<1> DEFINE full == Finished(plan, run)
           late == Facts(full)
           observed == ScoredItems(run.observed, Support(run.length))
           selection == Selection(run.observed)
           reject == Rejects(1 + e, plan.replicates, plan.alpha)
           low == 1 + e
           high == 1 + e + f
           notes == BindDiagnostics(BoundTo(plan, run.length))
           said == IF f = 0 THEN notes ELSE Append(notes, "REPLICATE_EXECUTION_FAILURE")
<1>1. full = [status |-> IF f = 0 THEN "COMPLETE" ELSE "NOT_EVALUABLE",
              stage |-> IF f = 0 THEN "NONE" ELSE "REPLICATE_EXECUTION",
              pair |-> r.pair, plan |-> plan, planned |-> plan.replicates, alpha |-> plan.alpha,
              observed |-> observed, selection |-> selection, replicates |-> outcomes,
              exceedances |-> e, failures |-> f,
              p |-> IF f = 0 THEN low ELSE NoValue, low |-> IF f = 0 THEN NoValue ELSE low,
              high |-> IF f = 0 THEN NoValue ELSE high,
              reject |-> IF f = 0 THEN reject ELSE NoValue, diagnostics |-> said,
              inexact |-> {}, negative |-> {}]
    BY DEF Finished
<1> HIDE DEF full, observed, selection, reject, low, high, said
<1>2. CASE f = 0
    <2>1. late = [status |-> "COMPLETE", stage |-> "NONE",
              pair |-> r.pair, plan |-> plan, planned |-> plan.replicates, alpha |-> plan.alpha,
              observed |-> observed, selection |-> selection, replicates |-> outcomes,
              exceedances |-> e, failures |-> f, p |-> low, low |-> NoValue, high |-> NoValue,
              reject |-> reject, diagnostics |-> <<>>, inexact |-> {}, negative |-> {}]
        BY <1>1, <1>2, FactsOf
    <2> HIDE DEF late
    <2>2. Facts(r) = late <=>
            /\ r.status = "COMPLETE" /\ r.stage = "NONE" /\ r.plan = plan
            /\ r.planned = plan.replicates /\ r.alpha = plan.alpha /\ r.observed = observed
            /\ r.selection = selection /\ r.replicates = outcomes /\ r.exceedances = e /\ r.failures = f
            /\ r.p = low /\ r.low = NoValue /\ r.high = NoValue /\ r.reject = reject
        BY <2>1, ResultIsItsFields
    <2> QED
        BY <1>2, <2>2 DEF PrefixHolds, late, full, observed, selection, reject, low
<1>3. CASE f # 0
    <2>1. late = [status |-> "NOT_EVALUABLE", stage |-> "REPLICATE_EXECUTION",
              pair |-> r.pair, plan |-> plan, planned |-> plan.replicates, alpha |-> plan.alpha,
              observed |-> observed, selection |-> selection, replicates |-> outcomes,
              exceedances |-> e, failures |-> f, p |-> NoValue, low |-> low, high |-> high,
              reject |-> NoValue, diagnostics |-> <<>>, inexact |-> {}, negative |-> {}]
        BY <1>1, <1>3, FactsOf
    <2> HIDE DEF late
    <2>2. Facts(r) = late <=>
            /\ r.status = "NOT_EVALUABLE" /\ r.stage = "REPLICATE_EXECUTION" /\ r.plan = plan
            /\ r.planned = plan.replicates /\ r.alpha = plan.alpha /\ r.observed = observed
            /\ r.selection = selection /\ r.replicates = outcomes /\ r.exceedances = e /\ r.failures = f
            /\ r.p = NoValue /\ r.low = low /\ r.high = high /\ r.reject = NoValue
        BY <2>1, ResultIsItsFields
    <2> QED
        BY <1>3, <2>2 DEF PrefixHolds, late, full, observed, selection, low, high
<1> QED
    BY <1>2, <1>3

\* The facts of a finished report show that it is one.
LEMMA FinishedEnds ==
    ASSUME NEW r \in ResultRecords, NEW plan, NEW run, run.pair = r.pair,
           Facts(r) = Facts(Finished(plan, run))
    PROVE  r.stage \in {"NONE", "REPLICATE_EXECUTION"}
<1> DEFINE outcomes == [i \in Replicates(plan) |-> Outcome(plan, run, i)]
           e == Cardinality(Exceeding(outcomes, Decision(run.observed)))
           f == Cardinality(Failing(outcomes))
<1>1. /\ outcomes = [i \in Replicates(plan) |-> Outcome(plan, run, i)]
      /\ e = Cardinality(Exceeding(outcomes, Decision(run.observed)))
      /\ f = Cardinality(Failing(outcomes))
    OBVIOUS
<1> HIDE DEF outcomes, e, f
<1> QED
    BY <1>1, FinishedIs

\* The fields of the run a result is about.
LEMMA RunFields ==
    ASSUME NEW r \in ResultRecords, NEW length
    PROVE  /\ RunOf(r, length).pair = r.pair /\ RunOf(r, length).length = length
           /\ r.observed # <<>> =>
                /\ RunOf(r, length).observed = VectorOf(r.observed)
                /\ r.observed[1] \in ItemRecords /\ r.observed[1].support \in Int
           /\ Len(RunOf(r, length).replies) = Len(r.replicates)
           /\ \A i \in DOMAIN r.replicates :
                RunOf(r, length).replies[i] = [state |-> r.replicates[i].token.state,
                                               vector |-> VectorOf(r.replicates[i].items)]
<1> DEFINE run == RunOf(r, length)
<1>1. r.observed \in Seq(ItemRecords) /\ r.replicates \in Seq(OutcomeRecords)
    BY DEF ResultRecords
<1>2. r.observed # <<>> => r.observed[1] \in ItemRecords
    BY <1>1
<1>3. r.observed # <<>> => r.observed[1].support \in Int
    BY <1>2 DEF ItemRecords
<1>4. DOMAIN run.replies = 1 .. Len(r.replicates) /\ Len(r.replicates) \in Nat
    BY <1>1 DEF RunOf
<1>5. run.replies = [i \in 1 .. Len(r.replicates) |->
                        [state  |-> r.replicates[i].token.state,
                         vector |-> VectorOf(r.replicates[i].items)]]
    BY <1>1 DEF RunOf
<1>6. Len(run.replies) = Len(r.replicates)
    BY <1>4, <1>5
<1>7. run.pair = r.pair /\ run.length = length
      /\ (r.observed # <<>> => run.observed = VectorOf(r.observed))
    BY DEF RunOf
<1> QED
    BY <1>1, <1>2, <1>3, <1>5, <1>6, <1>7

\* A run that is ended by its null has the facts of a refusal.
LEMMA RefusalIs ==
    ASSUME NEW r \in ResultRecords, NEW plan, NEW length, ~Starts(plan, length)
    PROVE  Facts(r) = Facts(Report(plan, RunOf(r, length))) <=>
            /\ r.status = "NOT_EVALUABLE" /\ r.stage = "NULL_BIND"
            /\ PrefixHolds(r, plan) /\ r.observed = <<>> /\ EmptyTerminalHolds(r)
<1> DEFINE run == RunOf(r, length)
           notes == RefusalDiagnostics(BoundTo(plan, length))
           stage == "NULL_BIND"
           items == <<>>
<1>1. run.pair = r.pair /\ run.length = length
    BY RunFields
<1> HIDE DEF run
<1>2. Report(plan, run) = Unfinished(plan, r.pair, "NULL_BIND", <<>>, notes)
    BY <1>1 DEF Report
<1> HIDE DEF notes, stage, items
<1>3. Facts(r) = Facts(Unfinished(plan, r.pair, stage, items, notes)) <=>
            /\ r.status = "NOT_EVALUABLE" /\ r.stage = stage
            /\ PrefixHolds(r, plan) /\ r.observed = items /\ EmptyTerminalHolds(r)
    BY UnfinishedIs
<1> QED
    BY <1>2, <1>3 DEF run, stage, items

\* A result without a vector reports nothing but a refusal.
LEMMA ReportsWithoutVector ==
    ASSUME NEW r \in ResultRecords, NEW plan, r.observed = <<>>
    PROVE  IsReport(r, plan) <=>
                /\ \A i \in DOMAIN r.replicates : Legible(r.replicates[i].items)
                /\ r.status = "NOT_EVALUABLE" /\ r.stage = "NULL_BIND"
                /\ PrefixHolds(r, plan) /\ EmptyTerminalHolds(r)
                /\ \E length \in Lengths : ~Starts(plan, length) /\ Support(length) >= LeastSupport
<1>1. LengthsOf(r, plan) = {length \in Lengths : ~Starts(plan, length)}
    BY DEF LengthsOf
<1>2. ASSUME NEW length \in Lengths, ~Starts(plan, length)
      PROVE  RunIsPossible(plan, RunOf(r, length)) <=> Support(length) >= LeastSupport
    <2>1. RunOf(r, length).length = length
        BY RunFields
    <2> QED
        BY <1>2, <2>1 DEF RunIsPossible
<1>3. ASSUME NEW length \in Lengths, ~Starts(plan, length)
      PROVE  Facts(r) = Facts(Report(plan, RunOf(r, length))) <=>
                /\ r.status = "NOT_EVALUABLE" /\ r.stage = "NULL_BIND"
                /\ PrefixHolds(r, plan) /\ EmptyTerminalHolds(r)
    BY <1>3, RefusalIs
<1>4. IsReport(r, plan) <=>
        /\ \A i \in DOMAIN r.replicates : Legible(r.replicates[i].items)
        /\ \E length \in Lengths :
            /\ ~Starts(plan, length)
            /\ RunIsPossible(plan, RunOf(r, length))
            /\ Facts(r) = Facts(Report(plan, RunOf(r, length)))
    BY <1>1 DEF IsReport
<1> QED
    BY <1>2, <1>3, <1>4

\* One with a vector reports no refusal, at the length its support gives.
LEMMA ReportsOfVector ==
    ASSUME NEW r \in ResultRecords, NEW plan, r.observed # <<>>,
           NEW length, length = r.observed[1].support + Max(Candidates)
    PROVE  IsReport(r, plan) <=>
                /\ Legible(r.observed)
                /\ \A i \in DOMAIN r.replicates : Legible(r.replicates[i].items)
                /\ Starts(plan, length) /\ RunIsPossible(plan, RunOf(r, length))
                /\ Facts(r) = Facts(Report(plan, RunOf(r, length)))
<1>1. LengthsOf(r, plan) = {length}
    BY DEF LengthsOf
<1>2. IsReport(r, plan) <=>
        /\ Legible(r.observed)
        /\ \A i \in DOMAIN r.replicates : Legible(r.replicates[i].items)
        /\ RunIsPossible(plan, RunOf(r, length))
        /\ Facts(r) = Facts(Report(plan, RunOf(r, length)))
    BY <1>1 DEF IsReport
<1>3. ~Starts(plan, length) => Facts(r) # Facts(Report(plan, RunOf(r, length)))
    BY RefusalIs
<1> QED
    BY <1>2, <1>3

\* The two early ends.
LEMMA BindFailures ==
    ASSUME NEW r \in ResultRecords, NEW plan \in Plans, r.stage = "NULL_BIND"
    PROVE  IsReport(r, plan) <=> VerifierAccepts(r, plan) /\ ~Unlooked(r, plan)
<1>1. VerifierAccepts(r, plan) <=>
        /\ r.status = "NOT_EVALUABLE" /\ PrefixHolds(r, plan) /\ r.observed = <<>> /\ EmptyTerminalHolds(r)
    BY DEF VerifierAccepts
<1>2. EmptyTerminalHolds(r) => DOMAIN r.replicates = {}
    BY DEF EmptyTerminalHolds
<1>3. CASE r.observed = <<>>
    <2>1. EmptyTerminalHolds(r) => ~IdentityDiffers(r)
        BY <1>2 DEF IdentityDiffers
    <2>2. ~SupportIsShort(r)
        BY <1>3 DEF SupportIsShort
    <2>3. EndContradictsNull(r, plan) <=>
            ~\E length \in Lengths : ~Starts(plan, length) /\ Support(length) >= LeastSupport
        BY DEF EndContradictsNull
    <2> QED
        BY <1>1, <1>2, <1>3, <2>1, <2>2, <2>3, ReportsWithoutVector DEF Unlooked
<1>4. CASE r.observed # <<>>
    <2> DEFINE length == r.observed[1].support + Max(Candidates)
               run == RunOf(r, length)
               notes == Append(BindDiagnostics(BoundTo(plan, length)), "OBSERVED_SCAN_FAILURE")
               items == RawItems(run.observed, Support(length))
               stage == "OBSERVED_STATISTIC_SCAN"
    <2>1. IsReport(r, plan) => Starts(plan, length) /\ Facts(r) = Facts(Report(plan, run))
        BY <1>4, ReportsOfVector
    <2>2. run.pair = r.pair /\ run.length = length
        BY RunFields
    <2> HIDE DEF run, length
    <2>3. CASE AllValid(run.observed)
        <3>1. Starts(plan, length) => Report(plan, run) = Finished(plan, run)
            BY <2>2, <2>3 DEF Report
        <3>2. Facts(r) # Facts(Finished(plan, run))
            BY <2>2, FinishedEnds
        <3> QED
            BY <1>1, <1>4, <2>1, <3>1, <3>2
    <2>4. CASE ~AllValid(run.observed)
        <3>1. Starts(plan, length) =>
                Report(plan, run) = Unfinished(plan, r.pair, "OBSERVED_STATISTIC_SCAN", items, notes)
            BY <2>2, <2>4 DEF Report
        <3>2. r.stage # stage
            OBVIOUS
        <3> HIDE DEF items, notes, stage
        <3>3. \A x, y : Facts(r) # Facts(Unfinished(plan, r.pair, stage, x, y))
            BY <3>2, UnfinishedEnds
        <3> QED
            BY <1>1, <1>4, <2>1, <3>1, <3>2, <3>3 DEF stage
    <2> QED
        BY <2>3, <2>4
<1> QED
    BY <1>3, <1>4

LEMMA ScanFailures ==
    ASSUME NEW r \in ResultRecords, NEW plan \in Plans, r.stage = "OBSERVED_STATISTIC_SCAN"
    PROVE  IsReport(r, plan) <=> VerifierAccepts(r, plan) /\ ~Unlooked(r, plan)
<1> DEFINE v == VectorOf(r.observed)
           support == r.observed[1].support
           length == support + Max(Candidates)
           run == RunOf(r, length)
           notes == Append(BindDiagnostics(BoundTo(plan, length)), "OBSERVED_SCAN_FAILURE")
<1>1. run.pair = r.pair /\ run.length = length
    BY RunFields
<1>2. r.observed \in Seq(ItemRecords) /\ r.selection \in Selections \cup {NoValue}
    BY DEF ResultRecords
<1>3. FailureVectorHolds(r.observed, r.selection) <=>
        /\ Legible(r.observed) /\ ~AllValid(v) /\ support >= 1
        /\ r.observed = RawItems(v, support) /\ r.selection = NoValue
    BY <1>2, FailedVectors
<1>4. Legible(r.observed) => r.observed # <<>>
    BY OrderOfCandidates DEF Legible
<1>5. VerifierAccepts(r, plan) <=>
        /\ r.status = "NOT_EVALUABLE" /\ PrefixHolds(r, plan)
        /\ FailureVectorHolds(r.observed, r.selection) /\ EmptyTerminalHolds(r)
    BY DEF VerifierAccepts
<1>6. EmptyTerminalHolds(r) => DOMAIN r.replicates = {} /\ r.selection = NoValue
    BY DEF EmptyTerminalHolds
<1>7. CASE r.observed = <<>>
    BY <1>3, <1>4, <1>5, <1>7, ReportsWithoutVector
<1>8. CASE r.observed # <<>>
    <2>1. run.observed = v /\ support \in Int
        BY <1>8, RunFields
    <2>2. Support(length) = support
        BY <2>1, MaxLag DEF Support
    <2>3. IsReport(r, plan) <=>
            /\ Legible(r.observed)
            /\ \A i \in DOMAIN r.replicates : Legible(r.replicates[i].items)
            /\ Starts(plan, length) /\ RunIsPossible(plan, run)
            /\ Facts(r) = Facts(Report(plan, run))
        BY <1>8, ReportsOfVector
    <2>4. Unlooked(r, plan) <=>
            ~Starts(plan, length) \/ support < LeastSupport \/ IdentityDiffers(r)
        BY <1>8 DEF Unlooked, EndContradictsNull, SupportIsShort
    <2> HIDE DEF run, v, length, support
    <2>5. CASE AllValid(v)
        <3>1. Starts(plan, length) => Report(plan, run) = Finished(plan, run)
            BY <1>1, <2>1, <2>5 DEF Report
        <3>2. Facts(r) # Facts(Finished(plan, run))
            BY <1>1, FinishedEnds
        <3> QED
            BY <1>3, <1>5, <2>3, <2>5, <3>1, <3>2
    <2>6. CASE ~AllValid(v)
        <3>1. Starts(plan, length) =>
                Report(plan, run)
                    = Unfinished(plan, r.pair, "OBSERVED_STATISTIC_SCAN", RawItems(v, support), notes)
            BY <1>1, <2>1, <2>2, <2>6 DEF Report
        <3>2. RunIsPossible(plan, run) <=> support >= LeastSupport
            BY <1>1, <2>1, <2>2, <2>6 DEF RunIsPossible
        <3>3. Starts(plan, length) =>
                (Facts(r) = Facts(Report(plan, run)) <=>
                    /\ r.status = "NOT_EVALUABLE" /\ PrefixHolds(r, plan)
                    /\ r.observed = RawItems(v, support) /\ EmptyTerminalHolds(r))
            <4> DEFINE stage == "OBSERVED_STATISTIC_SCAN"
                       items == RawItems(v, support)
            <4>1. r.stage = stage
                OBVIOUS
            <4> HIDE DEF notes, stage, items
            <4>2. Facts(r) = Facts(Unfinished(plan, r.pair, stage, items, notes)) <=>
                    /\ r.status = "NOT_EVALUABLE" /\ PrefixHolds(r, plan)
                    /\ r.observed = items /\ EmptyTerminalHolds(r)
                BY <4>1, UnfinishedIs
            <4> QED
                BY <3>1, <4>2 DEF stage, items
        <3>4. /\ support >= LeastSupport => support >= 1
              /\ support < LeastSupport <=> ~(support >= LeastSupport)
            BY <2>1, ExchangeAssumption
        <3>5. EmptyTerminalHolds(r) => ~IdentityDiffers(r)
            BY <1>6 DEF IdentityDiffers
        <3> QED
            BY <1>3, <1>5, <1>6, <2>3, <2>4, <2>6, <3>2, <3>3, <3>4, <3>5
    <2> QED
        BY <2>5, <2>6
<1> QED
    BY <1>7, <1>8

\* Identity replicates reproduce the observed maximum as far as their outcomes say.
LEMMA IdentitiesReproduce ==
    ASSUME NEW r \in ResultRecords, NEW plan, NEW run, NEW v \in Answers, AllValid(v),
           run.observed = v, r.selection = Selection(v),
           r.replicates = [i \in Replicates(plan) |-> Outcome(plan, run, i)],
           \A i \in Replicates(plan) : run.replies[i].vector \in Answers
    PROVE  ~IdentityDiffers(r) <=>
                \A i \in Replicates(plan) : Reproduces(run.replies[i], run.observed)
<1>1. r.selection.statistic = Decision(v)
    BY DEF Selection
<1>2. ASSUME NEW i \in Replicates(plan)
      PROVE  /\ r.replicates[i].token.identity = IsIdentity(run.replies[i].state)
             /\ r.replicates[i].selection =
                    IF AllValid(run.replies[i].vector) THEN Selection(run.replies[i].vector) ELSE NoValue
    <2>1. r.replicates[i] = Outcome(plan, run, i)
        OBVIOUS
    <2> QED
        BY <2>1 DEF Outcome, Token
<1>3. ASSUME NEW w \in Answers, AllValid(w)
      PROVE  Selection(w) # NoValue /\ Selection(w).statistic = Decision(w)
    <2> DEFINE scores == [k \in 1 .. Len(CandidateOrder) |-> Score(w[CandidateOrder[k]])]
    <2>1. Selection(w) \in Selections
        BY <1>3, OneRule
    <2>2. Selection(w) # NoValue
        BY <2>1, ContractAssumption
    <2>3. Selection(w).statistic = Decision(w)
        BY DEF Selection
    <2> QED
        BY <2>2, <2>3
<1>4. ASSUME NEW i \in Replicates(plan)
      PROVE  (r.replicates[i].selection = NoValue
                \/ r.replicates[i].selection.statistic # r.selection.statistic)
             <=> ~(AllValid(run.replies[i].vector) /\ Decision(run.replies[i].vector) = Decision(v))
    <2> DEFINE w == run.replies[i].vector
    <2>1. w \in Answers
        OBVIOUS
    <2>2. r.replicates[i].selection = IF AllValid(w) THEN Selection(w) ELSE NoValue
        BY <1>2
    <2> HIDE DEF w
    <2>3. (r.replicates[i].selection = NoValue
                \/ r.replicates[i].selection.statistic # r.selection.statistic)
             <=> ~(AllValid(w) /\ Decision(w) = Decision(v))
        BY <1>1, <1>3, <2>1, <2>2
    <2> QED
        BY <2>3 DEF w
<1>5. DOMAIN r.replicates = Replicates(plan)
    OBVIOUS
<1>6. \A i \in Replicates(plan) :
        Reproduces(run.replies[i], run.observed) <=>
            ~(/\ r.replicates[i].token.identity
              /\ \/ r.replicates[i].selection = NoValue
                 \/ r.replicates[i].selection.statistic # r.selection.statistic)
    BY <1>2, <1>4 DEF Reproduces
<1> QED
    BY <1>5, <1>6 DEF IdentityDiffers

\* A result that reached its replicates.
LEMMA Executions ==
    ASSUME NEW r \in ResultRecords, NEW plan \in Plans, r.stage \in {"NONE", "REPLICATE_EXECUTION"}
    PROVE  IsReport(r, plan) <=> VerifierAccepts(r, plan) /\ ~Unlooked(r, plan)
<1> DEFINE v == VectorOf(r.observed)
           support == r.observed[1].support
           length == support + Max(Candidates)
           run == RunOf(r, length)
           count == plan.replicates
           outcomes == [i \in Replicates(plan) |-> Outcome(plan, run, i)]
           e == Cardinality(Exceeding(outcomes, Decision(v)))
           f == Cardinality(Failing(outcomes))
           notes == Append(BindDiagnostics(BoundTo(plan, length)), "OBSERVED_SCAN_FAILURE")
           EndHolds == IF r.status = "COMPLETE"
                       THEN CompleteTerminalHolds(r)
                       ELSE r.stage = "REPLICATE_EXECUTION" /\ ExecutionTerminalHolds(r)
<1>1. run.pair = r.pair /\ run.length = length
    BY RunFields
<1>2. /\ r.observed \in Seq(ItemRecords) /\ r.selection \in Selections \cup {NoValue}
      /\ r.replicates \in Seq(OutcomeRecords) /\ r.status \in {"COMPLETE", "NOT_EVALUABLE"}
    BY DEF ResultRecords
<1>3. /\ plan.replicates \in Nat \ {0} /\ plan.parameter \in Nat \ {0} /\ plan.name \in NullNames
    BY ContractAssumption
<1>4. CompleteVectorHolds(r.observed, r.selection) <=>
        /\ Legible(r.observed) /\ AllValid(v) /\ support >= 1
        /\ r.observed = ScoredItems(v, support) /\ r.selection = Selection(v)
    BY <1>2, CompleteVectors
<1>5. Legible(r.observed) => r.observed # <<>>
    BY OrderOfCandidates DEF Legible
<1>6. VerifierAccepts(r, plan) <=>
        /\ PrefixHolds(r, plan)
        /\ CompleteVectorHolds(r.observed, r.selection)
        /\ ReplicatesHold(r, plan) /\ EndHolds
    BY DEF VerifierAccepts
<1>7. CASE r.observed = <<>>
    BY <1>4, <1>5, <1>6, <1>7, ReportsWithoutVector
<1>8. CASE r.observed # <<>> /\ ~Legible(r.observed)
    BY <1>4, <1>6, <1>8, ReportsOfVector
<1>9. CASE r.observed # <<>> /\ Legible(r.observed)
    <2>1. /\ run.observed = v /\ support \in Int
          /\ Len(run.replies) = Len(r.replicates)
          /\ \A i \in DOMAIN r.replicates :
                run.replies[i] = [state |-> r.replicates[i].token.state,
                                  vector |-> VectorOf(r.replicates[i].items)]
        BY <1>9, RunFields
    <2>2. Support(length) = support
        BY <2>1, MaxLag DEF Support
    <2>3. IsReport(r, plan) <=>
            /\ \A i \in DOMAIN r.replicates : Legible(r.replicates[i].items)
            /\ Starts(plan, length) /\ RunIsPossible(plan, run)
            /\ Facts(r) = Facts(Report(plan, run))
        BY <1>9, ReportsOfVector
    <2>4. Unlooked(r, plan) <=> support < LeastSupport \/ IdentityDiffers(r)
        BY <1>9 DEF Unlooked, EndContradictsNull, SupportIsShort
    <2>5. /\ support >= LeastSupport => support >= 1
          /\ support < LeastSupport <=> ~(support >= LeastSupport)
        BY <2>1, ExchangeAssumption
    <2>6. v \in Answers
        BY <1>2, <1>9, AnswersReadBack
    <2> HIDE DEF run, v, length, support, EndHolds
    <2>7. CASE ~(AllValid(v) /\ support >= 1)
        <3>1. ASSUME ~AllValid(v), Starts(plan, length)
              PROVE  Facts(r) # Facts(Report(plan, run))
            <4>1. Report(plan, run)
                    = Unfinished(plan, r.pair, "OBSERVED_STATISTIC_SCAN", RawItems(v, support), notes)
                BY <1>1, <2>1, <2>2, <3>1 DEF Report
            <4> DEFINE stage == "OBSERVED_STATISTIC_SCAN"
                       items == RawItems(v, support)
            <4>2. r.stage # stage
                OBVIOUS
            <4> HIDE DEF notes, stage, items
            <4>3. \A x, y : Facts(r) # Facts(Unfinished(plan, r.pair, stage, x, y))
                BY <4>2, UnfinishedEnds
            <4> QED
                BY <4>1, <4>3 DEF stage, items
        <3>2. ~(support >= 1) => ~RunIsPossible(plan, run)
            BY <1>1, <2>2, <2>5 DEF RunIsPossible
        <3> QED
            BY <1>4, <1>6, <2>3, <2>7, <3>1, <3>2
    <2>8. CASE AllValid(v) /\ support >= 1
        <3> DEFINE PlacesHold == \A i \in Replicates(plan) : Drawn(plan, length, run.replies[i].state, i)
                   Agree == \A i \in Replicates(plan) : Reproduces(run.replies[i], run.observed)
        <3>1. Starts(plan, length) => Report(plan, run) = Finished(plan, run)
            BY <1>1, <2>1, <2>8 DEF Report
        <3>2. Starts(plan, length) /\ RunIsPossible(plan, run) <=>
                support >= LeastSupport /\ Len(run.replies) = count /\ PlacesHold /\ Agree
            <4>1. Starts(plan, length) =>
                    (RunIsPossible(plan, run) <=>
                        /\ support >= LeastSupport /\ Len(run.replies) = count
                        /\ \A i \in Replicates(plan) :
                            /\ run.replies[i].state \in StateRecords(BoundTo(plan, length))
                            /\ plan.name = "circular_shift_exact_v1" => run.replies[i].state = <<i>>
                            /\ Reproduces(run.replies[i], run.observed))
                BY <1>1, <2>1, <2>2, <2>8 DEF RunIsPossible
            <4>2. 1 \in Replicates(plan)
                BY <1>3 DEF Replicates
            <4>3. PlacesHold <=>
                    /\ Starts(plan, length)
                    /\ \A i \in Replicates(plan) :
                        /\ run.replies[i].state \in StateRecords(BoundTo(plan, length))
                        /\ plan.name = "circular_shift_exact_v1" => run.replies[i].state = <<i>>
                BY <4>2 DEF Drawn
            <4> QED
                BY <4>1, <4>3
        <3>3. ASSUME Len(r.replicates) = count, NEW i \in Replicates(plan)
              PROVE  OutcomeHolds(r.replicates[i], i - 1, plan, r.pair, support) <=>
                        /\ Legible(r.replicates[i].items)
                        /\ Drawn(plan, length, run.replies[i].state, i)
                        /\ r.replicates[i] = Outcome(plan, run, i)
            <4>1. /\ i \in Nat \ {0} /\ i \in DOMAIN r.replicates /\ r.replicates[i] \in OutcomeRecords
                BY <1>2, <1>3, <3>3 DEF Replicates
            <4>2. /\ run.replies[i] = [state |-> r.replicates[i].token.state,
                                       vector |-> VectorOf(r.replicates[i].items)]
                  /\ run.replies[i].state = r.replicates[i].token.state
                <5>1. run.replies[i] = [state |-> r.replicates[i].token.state,
                                        vector |-> VectorOf(r.replicates[i].items)]
                    BY <2>1, <4>1
                <5> QED
                    BY <5>1
            <4>3. run.length = support + Max(Candidates)
                BY <1>1 DEF length
            <4>4. OutcomeHolds(r.replicates[i], i - 1, plan, run.pair, support) <=>
                        /\ Legible(r.replicates[i].items)
                        /\ Drawn(plan, run.length, r.replicates[i].token.state, i)
                        /\ r.replicates[i] = Outcome(plan, run, i)
                BY <2>1, <2>8, <4>1, <4>2, <4>3, OutcomesAreOfRuns
            <4> QED
                BY <1>1, <4>2, <4>4
        <3>4. ASSUME PrefixHolds(r, plan)
              PROVE  ReplicatesHold(r, plan) <=>
                        /\ Len(run.replies) = count /\ PlacesHold
                        /\ \A i \in DOMAIN r.replicates : Legible(r.replicates[i].items)
                        /\ r.replicates = outcomes
            <4>1. r.planned = count
                BY <3>4 DEF PrefixHolds
            <4>2. ReplicatesHold(r, plan) <=>
                    /\ Len(r.replicates) = count
                    /\ \A i \in DOMAIN r.replicates :
                        OutcomeHolds(r.replicates[i], i - 1, plan, r.pair, support)
                BY <4>1 DEF ReplicatesHold, support
            <4>3. Len(r.replicates) = count =>
                    /\ DOMAIN r.replicates = Replicates(plan)
                    /\ r.replicates = outcomes <=>
                        \A i \in Replicates(plan) : r.replicates[i] = Outcome(plan, run, i)
                <5>1. Len(r.replicates) = count =>
                        /\ DOMAIN r.replicates = Replicates(plan)
                        /\ r.replicates = [i \in Replicates(plan) |-> r.replicates[i]]
                    BY <1>2, <1>3 DEF Replicates
                <5> QED
                    BY <5>1
            <4> HIDE DEF outcomes
            <4> QED
                BY <2>1, <3>3, <4>2, <4>3
        <3>5. Facts(r) = Facts(Finished(plan, run)) <=>
                /\ PrefixHolds(r, plan)
                /\ r.observed = ScoredItems(v, support)
                /\ r.selection = Selection(v)
                /\ r.replicates = outcomes /\ r.exceedances = e /\ r.failures = f
                /\ IF f = 0
                   THEN /\ r.status = "COMPLETE" /\ r.stage = "NONE" /\ r.p = 1 + e
                        /\ r.low = NoValue /\ r.high = NoValue
                        /\ r.reject = Rejects(1 + e, plan.replicates, plan.alpha)
                   ELSE /\ r.status = "NOT_EVALUABLE" /\ r.stage = "REPLICATE_EXECUTION"
                        /\ r.p = NoValue /\ r.low = 1 + e /\ r.high = 1 + e + f /\ r.reject = NoValue
            BY <1>1, <2>1, <2>2, FinishedIs
        <3>6. ASSUME PrefixHolds(r, plan), r.selection = Selection(v), r.replicates = outcomes
              PROVE  EndHolds <=>
                /\ r.exceedances = e /\ r.failures = f
                /\ IF f = 0
                   THEN /\ r.status = "COMPLETE" /\ r.stage = "NONE" /\ r.p = 1 + e
                        /\ r.low = NoValue /\ r.high = NoValue
                        /\ r.reject = Rejects(1 + e, plan.replicates, plan.alpha)
                   ELSE /\ r.status = "NOT_EVALUABLE" /\ r.stage = "REPLICATE_EXECUTION"
                        /\ r.p = NoValue /\ r.low = 1 + e /\ r.high = 1 + e + f /\ r.reject = NoValue
            <4>1. r.selection.statistic = Decision(v)
                BY <3>6 DEF Selection
            <4>2. DerivedExceedances(r) = e /\ DerivedFailures(r) = f
                BY <3>6, <4>1 DEF DerivedExceedances, DerivedFailures, Exceeding, Failing
            <4>3. f \in Nat
                <5>1. Failing(outcomes) \in SUBSET (1 .. count)
                    BY DEF Failing, Replicates
                <5>2. IsFiniteSet(1 .. count)
                    BY <1>3, FS_Interval
                <5> QED
                    BY <5>1, <5>2, FS_Subset, FS_CardinalityType
            <4>4. r.planned = plan.replicates /\ r.alpha = plan.alpha
                BY <3>6 DEF PrefixHolds
            <4>5. CompleteTerminalHolds(r) <=>
                    /\ r.stage = "NONE" /\ f = 0 /\ r.failures = 0 /\ r.exceedances = e /\ r.p = 1 + e
                    /\ r.low = NoValue /\ r.high = NoValue
                    /\ r.reject = Rejects(r.p, plan.replicates, plan.alpha)
                BY <4>2, <4>4 DEF CompleteTerminalHolds
            <4>6. ExecutionTerminalHolds(r) <=>
                    /\ f >= 1 /\ r.failures = f /\ r.exceedances = e
                    /\ r.p = NoValue /\ r.reject = NoValue /\ r.low = 1 + e /\ r.high = 1 + e + f
                BY <4>2 DEF ExecutionTerminalHolds
            <4> HIDE DEF e, f
            <4>7. CASE f = 0
                BY <1>2, <4>5, <4>6, <4>7 DEF EndHolds
            <4>8. CASE f >= 1
                BY <1>2, <4>5, <4>6, <4>8 DEF EndHolds
            <4> QED
                BY <4>3, <4>7, <4>8
        <3>7. ASSUME r.selection = Selection(v), r.replicates = outcomes,
                     \A i \in DOMAIN r.replicates : Legible(r.replicates[i].items)
              PROVE  Agree <=> ~IdentityDiffers(r)
            <4>1. ASSUME NEW i \in Replicates(plan)
                  PROVE  run.replies[i].vector \in Answers
                <5>1. i \in DOMAIN r.replicates
                    BY <3>7
                <5>2. r.replicates[i] \in OutcomeRecords
                    BY <1>2, <5>1, ElementOfSeq
                <5>3. r.replicates[i].items \in Seq(ItemRecords) /\ Legible(r.replicates[i].items)
                    BY <3>7, <5>1, <5>2 DEF OutcomeRecords
                <5>4. run.replies[i].vector = VectorOf(r.replicates[i].items)
                    <6> DEFINE w == VectorOf(r.replicates[i].items)
                    <6>1. run.replies[i] = [state |-> r.replicates[i].token.state, vector |-> w]
                        BY <2>1, <5>1
                    <6> HIDE DEF w
                    <6>2. run.replies[i].vector = w
                        BY <6>1
                    <6> QED
                        BY <6>2 DEF w
                <5> QED
                    BY <5>3, <5>4, AnswersReadBack
            <4> QED
                BY <2>1, <2>6, <2>8, <3>7, <4>1, IdentitiesReproduce
        <3> HIDE DEF outcomes, e, f, PlacesHold, Agree, count
        <3>8. VerifierAccepts(r, plan) <=>
                /\ Len(run.replies) = count /\ PlacesHold
                /\ \A i \in DOMAIN r.replicates : Legible(r.replicates[i].items)
                /\ Facts(r) = Facts(Finished(plan, run))
            BY <1>4, <1>6, <1>9, <2>8, <3>4, <3>5, <3>6
        <3>9. VerifierAccepts(r, plan) => (Agree <=> ~IdentityDiffers(r))
            BY <3>5, <3>7, <3>8
        <3>10. IsReport(r, plan) <=>
                /\ VerifierAccepts(r, plan) /\ support >= LeastSupport /\ Agree
            BY <2>3, <3>1, <3>2, <3>8
        <3> QED
            BY <2>4, <2>5, <3>9, <3>10
    <2> QED
        BY <2>7, <2>8
<1> QED
    BY <1>7, <1>8, <1>9

\* Runs of a plan report exactly what the verifier accepts of a result against the plan when
\* what it does not look at is right.
LEMMA VerifierIsExact ==
    ASSUME NEW r \in ResultRecords, NEW plan \in Plans
    PROVE  IsReport(r, plan) <=> VerifierAccepts(r, plan) /\ ~Unlooked(r, plan)
<1>1. r.stage \in Stages
    BY DEF ResultRecords
<1> QED
    BY <1>1, BindFailures, ScanFailures, Executions DEF Stages

-----------------------------------------------------------------------------
\* Types of what runs report and of what is written into it

LEMMA ItemTypes ==
    ASSUME NEW c \in Int, NEW support \in Int, NEW e \in Estimates \cup {Failure},
           NEW score \in Int \cup {NoValue}
    PROVE  Item(c, support, e, score) \in ItemRecords
<1>1. (e # Failure) \in BOOLEAN
    OBVIOUS
<1>2. (IF e = Failure THEN NoValue ELSE e) \in Estimates \cup {NoValue}
    OBVIOUS
<1> QED
    BY <1>1, <1>2 DEF Item, ItemRecords

LEMMA VectorTypes ==
    ASSUME NEW v \in Answers, NEW support \in Int
    PROVE  /\ RawItems(v, support) \in Seq(ItemRecords)
           /\ AllValid(v) => ScoredItems(v, support) \in Seq(ItemRecords)
<1> DEFINE n == Len(CandidateOrder)
<1>1. /\ n \in Nat /\ DOMAIN CandidateOrder = 1 .. n
      /\ \A i \in 1 .. n : CandidateOrder[i] \in Candidates /\ CandidateOrder[i] \in Int
    <2>1. \A c \in Candidates : c \in Int
        BY CandidatesAssumption
    <2> QED
        BY <2>1, OrderOfCandidates
<1>2. \A c \in Candidates : v[c] \in Estimates \cup {Failure}
    BY DEF Answers
<1> HIDE DEF n
<1>3. \A i \in 1 .. n : Item(CandidateOrder[i], support, v[CandidateOrder[i]], NoValue) \in ItemRecords
    BY <1>1, <1>2, ItemTypes
<1>4. RawItems(v, support) \in Seq(ItemRecords)
    <2>1. RawItems(v, support) =
            [i \in 1 .. n |-> Item(CandidateOrder[i], support, v[CandidateOrder[i]], NoValue)]
        BY <1>1 DEF RawItems
    <2> QED
        BY <1>1, <1>3, <2>1
<1>5. ASSUME AllValid(v)
      PROVE  ScoredItems(v, support) \in Seq(ItemRecords)
    <2>1. \A c \in Candidates : Score(v[c]) \in Int
        BY <1>5, ScoresOfAVector
    <2>2. \A i \in 1 .. n :
            Item(CandidateOrder[i], support, v[CandidateOrder[i]], Score(v[CandidateOrder[i]])) \in ItemRecords
        BY <1>1, <1>2, <2>1, ItemTypes
    <2>3. ScoredItems(v, support) =
            [i \in 1 .. n |-> Item(CandidateOrder[i], support, v[CandidateOrder[i]],
                                   Score(v[CandidateOrder[i]]))]
        BY <1>1 DEF ScoredItems
    <2> QED
        BY <1>1, <2>2, <2>3
<1> QED
    BY <1>4, <1>5

LEMMA TokenTypes ==
    ASSUME NEW plan \in Plans, NEW pair \in Pairs, NEW length \in Int, NEW state \in Seq(Nat)
    PROVE  /\ Owner(plan, pair, length) \in [pair : Pairs, plan : Plans, null : Names]
           /\ Token(plan, pair, length, state) \in TokenRecords
<1>1. plan.name \in NullNames /\ plan.parameter \in Nat
    BY ContractAssumption
<1>2. Owner(plan, pair, length) \in [pair : Pairs, plan : Plans, null : Names]
    BY <1>1 DEF Owner, BoundTo, Names
<1>3. IsIdentity(state) \in BOOLEAN
    BY DEF IsIdentity
<1> QED
    BY <1>1, <1>2, <1>3 DEF Token, TokenRecords

LEMMA OutcomeTypes ==
    ASSUME NEW run \in RunRecords, NEW i \in 1 .. Len(run.replies)
    PROVE  Outcome(run.plan, run, i) \in OutcomeRecords
<1> DEFINE reply == run.replies[i]
           v == reply.vector
           support == Support(run.length)
           token == Token(run.plan, run.pair, run.length, reply.state)
           items == IF AllValid(v) THEN ScoredItems(v, support) ELSE RawItems(v, support)
           selection == IF AllValid(v) THEN Selection(v) ELSE NoValue
           status == IF AllValid(v) THEN "COMPLETE" ELSE "ANALYTIC_FAILURE"
           stage == IF AllValid(v) THEN "NONE" ELSE "STATISTIC_SCAN"
           seed == Seed(run.plan, i - 1)
<1>1. /\ run.plan \in Plans /\ run.pair \in Pairs /\ run.length \in Nat
      /\ run.replies \in Seq([state : Seq(Nat), vector : Answers])
    BY ExchangeAssumption DEF RunRecords
<1>2. reply \in [state : Seq(Nat), vector : Answers]
    <2> DEFINE replies == run.replies
               Replies == [state : Seq(Nat), vector : Answers]
    <2>1. replies \in Seq(Replies) /\ i \in 1 .. Len(replies)
        BY <1>1
    <2> HIDE DEF replies, Replies
    <2>2. replies[i] \in Replies
        BY <2>1, ElementOfSeq
    <2> QED
        BY <2>2 DEF replies, Replies
<1>3. v \in Answers /\ reply.state \in Seq(Nat) /\ support \in Int
    BY <1>1, <1>2, MaxLag DEF Support
<1>4. token \in TokenRecords
    BY <1>1, <1>3, TokenTypes
<1> HIDE DEF v, support
<1>5. items \in Seq(ItemRecords)
    BY <1>3, VectorTypes
<1>6. selection \in Selections \cup {NoValue}
    <2> DEFINE scores == [k \in 1 .. Len(CandidateOrder) |-> Score(v[CandidateOrder[k]])]
    <2>1. AllValid(v) => Selection(v) \in Selections
        BY <1>3, OneRule
    <2> QED
        BY <2>1
<1>7. /\ status \in {"COMPLETE", "ANALYTIC_FAILURE"} /\ stage \in {"NONE", "STATISTIC_SCAN"}
      /\ seed \in [plan : Plans, id : Int] /\ i - 1 \in Int
    BY <1>1 DEF Seed
<1>8. Outcome(run.plan, run, i) =
        [id |-> i - 1, seed |-> seed, status |-> status, stage |-> stage, token |-> token,
         items |-> items, selection |-> selection]
    BY DEF Outcome, v, support
<1> HIDE DEF reply, token, items, selection, status, stage, seed
<1> QED
    BY <1>4, <1>5, <1>6, <1>7, <1>8 DEF OutcomeRecords

LEMMA UnfinishedTypes ==
    ASSUME NEW plan \in Plans, NEW pair \in Pairs, NEW stage \in Stages, NEW items \in Seq(ItemRecords),
           NEW notes \in Seq(Codes)
    PROVE  Unfinished(plan, pair, stage, items, notes) \in ResultRecords
<1>1. plan.replicates \in Nat /\ plan.alpha \in (Nat \ {0}) \X (Nat \ {0})
    BY ContractAssumption
<1> QED
    BY <1>1 DEF Unfinished, ResultRecords

\* Diagnostics are strings.
LEMMA DiagnosticsTypes ==
    ASSUME NEW null
    PROVE  BindDiagnostics(null) \in Seq(Codes) /\ RefusalDiagnostics(null) \in Seq(Codes)
<1> DEFINE status == BindStatus(null)
           orbit == "ORBIT_RESOLUTION"
           mismatch == "ENUMERATION_COUNT_MISMATCH"
<1>1. status \in Codes /\ orbit \in Codes /\ mismatch \in Codes
    BY DEF BindStatus, CircularBindStatus, BlockBindStatus, Codes
<1>2. BindDiagnostics(null) \in {<<>>, <<status>>, <<orbit>>}
    BY DEF BindDiagnostics
<1>3. RefusalDiagnostics(null) \in {BindDiagnostics(null), Append(BindDiagnostics(null), mismatch)}
    BY DEF RefusalDiagnostics
<1> HIDE DEF status, orbit, mismatch
<1>4. BindDiagnostics(null) \in Seq(Codes)
    BY <1>1, <1>2, CodeSequences
<1> QED
    BY <1>1, <1>3, <1>4, CodeSequences

\* What a possible run reports is a result.
LEMMA ReportTypes ==
    ASSUME NEW run \in Runs
    PROVE  Report(run.plan, run) \in ResultRecords
<1> DEFINE plan == run.plan
           v == run.observed
           support == Support(run.length)
           null == BoundTo(plan, run.length)
           notes == BindDiagnostics(null)
           scan == "OBSERVED_SCAN_FAILURE"
           execution == "REPLICATE_EXECUTION_FAILURE"
           scanned == Append(notes, scan)
           executed == Append(notes, execution)
           refused == RefusalDiagnostics(null)
<1>1. run \in RunRecords /\ RunIsPossible(plan, run)
    BY ExchangeAssumption
<1>2. /\ plan \in Plans /\ run.pair \in Pairs /\ run.length \in Nat
      /\ v \in Answers /\ run.replies \in Seq([state : Seq(Nat), vector : Answers])
    BY <1>1, ExchangeAssumption DEF RunRecords
<1>3. support \in Int
    BY <1>2, MaxLag DEF Support
<1>4. plan.replicates \in Nat \ {0} /\ plan.alpha \in (Nat \ {0}) \X (Nat \ {0})
    BY <1>2, ContractAssumption
<1>5. /\ notes \in Seq(Codes) /\ refused \in Seq(Codes)
      /\ scanned \in Seq(Codes) /\ executed \in Seq(Codes)
    <2>1. notes \in Seq(Codes) /\ refused \in Seq(Codes)
        BY DiagnosticsTypes
    <2>2. scan \in Codes /\ execution \in Codes
        BY DEF Codes
    <2> HIDE DEF notes, refused, scan, execution
    <2> QED
        BY <2>1, <2>2, CodeSequences
<1> HIDE DEF null
<1>6. CASE ~Starts(plan, run.length)
    <2>1. Report(plan, run) = Unfinished(plan, run.pair, "NULL_BIND", <<>>, refused)
        BY <1>6 DEF Report, null
    <2>2. <<>> \in Seq(ItemRecords) /\ "NULL_BIND" \in Stages
        BY DEF Stages
    <2> HIDE DEF refused
    <2> QED
        BY <1>2, <1>5, <2>1, <2>2, UnfinishedTypes
<1>7. CASE Starts(plan, run.length) /\ ~AllValid(v)
    <2>1. Report(plan, run)
            = Unfinished(plan, run.pair, "OBSERVED_STATISTIC_SCAN", RawItems(v, support), scanned)
        BY <1>7 DEF Report, null
    <2>2. RawItems(v, support) \in Seq(ItemRecords) /\ "OBSERVED_STATISTIC_SCAN" \in Stages
        BY <1>2, <1>3, VectorTypes DEF Stages
    <2> HIDE DEF scanned
    <2> QED
        BY <1>2, <1>5, <2>1, <2>2, UnfinishedTypes
<1>8. CASE Starts(plan, run.length) /\ AllValid(v)
    <2> DEFINE outcomes == [i \in Replicates(plan) |-> Outcome(plan, run, i)]
               e == Cardinality(Exceeding(outcomes, Decision(v)))
               f == Cardinality(Failing(outcomes))
               observed == ScoredItems(v, support)
               selection == Selection(v)
               reject == Rejects(1 + e, plan.replicates, plan.alpha)
    <2>1. Report(plan, run) = Finished(plan, run)
        BY <1>8 DEF Report
    <2>2. Len(run.replies) = plan.replicates
        BY <1>1, <1>8 DEF RunIsPossible
    <2>3. outcomes \in Seq(OutcomeRecords)
        <3>1. \A i \in Replicates(plan) : Outcome(plan, run, i) \in OutcomeRecords
            BY <1>1, <2>2, OutcomeTypes DEF Replicates
        <3> QED
            BY <1>4, <3>1 DEF Replicates
    <2>4. e \in Nat /\ f \in Nat
        <3>1. /\ Exceeding(outcomes, Decision(v)) \in SUBSET (1 .. plan.replicates)
              /\ Failing(outcomes) \in SUBSET (1 .. plan.replicates)
            BY DEF Exceeding, Failing, Replicates
        <3>2. IsFiniteSet(1 .. plan.replicates)
            <4>1. plan.replicates \in Int
                BY <1>4
            <4> HIDE DEF plan
            <4> QED
                BY <4>1, FS_Interval
        <3> QED
            BY <3>1, <3>2, FS_Subset, FS_CardinalityType
    <2>5. observed \in Seq(ItemRecords)
        BY <1>2, <1>3, <1>8, VectorTypes
    <2>6. selection \in Selections
        <3> DEFINE scores == [k \in 1 .. Len(CandidateOrder) |-> Score(v[CandidateOrder[k]])]
        <3> QED
            BY <1>2, <1>8, OneRule
    <2>7. reject \in BOOLEAN
        BY DEF Rejects
    <2>8. Finished(plan, run) =
            [status |-> IF f = 0 THEN "COMPLETE" ELSE "NOT_EVALUABLE",
             stage |-> IF f = 0 THEN "NONE" ELSE "REPLICATE_EXECUTION",
             pair |-> run.pair, plan |-> plan, planned |-> plan.replicates, alpha |-> plan.alpha,
             observed |-> observed, selection |-> selection, replicates |-> outcomes,
             exceedances |-> e, failures |-> f,
             p |-> IF f = 0 THEN 1 + e ELSE NoValue, low |-> IF f = 0 THEN NoValue ELSE 1 + e,
             high |-> IF f = 0 THEN NoValue ELSE 1 + e + f,
             reject |-> IF f = 0 THEN reject ELSE NoValue,
             diagnostics |-> IF f = 0 THEN notes ELSE executed, inexact |-> {}, negative |-> {}]
        BY DEF Finished, null
    <2> HIDE DEF outcomes, e, f, observed, selection, reject, notes, executed
    <2> QED
        BY <1>2, <1>4, <1>5, <2>1, <2>3, <2>4, <2>5, <2>6, <2>7, <2>8 DEF ResultRecords, Stages
<1> QED
    BY <1>6, <1>7, <1>8

LEMMA ItemChangesTyped ==
    ASSUME NEW item \in ItemRecords
    PROVE  ItemChanges(item) \subseteq ItemRecords
<1> DEFINE C1 == {[item EXCEPT !.candidate = c] : c \in Candidates \cup {Max(Candidates) + 1}}
           C2 == {[item EXCEPT !.support = s] : s \in {item.support - 1, item.support + 1}}
           C3 == {[item EXCEPT !.identity = "foreign"], [item EXCEPT !.valid = ~item.valid]}
           C4 == {[item EXCEPT !.estimate = e] : e \in Estimates \cup {NoValue}}
           C5 == {[item EXCEPT !.score = e] : e \in Estimates \cup {NoValue}}
           C6 == {Item(item.candidate, item.support, e, NoValue) : e \in Estimates \cup {Failure}}
           C7 == {Item(item.candidate, item.support, e, Score(e)) : e \in Estimates}
<1>1. ItemChanges(item) = C1 \cup C2 \cup C3 \cup C4 \cup C5 \cup C6 \cup C7
    BY DEF ItemChanges
<1>2. /\ item = [candidate |-> item.candidate, support |-> item.support, identity |-> item.identity,
                 valid |-> item.valid, estimate |-> item.estimate, score |-> item.score]
      /\ item.candidate \in Int /\ item.support \in Int /\ item.identity \in {Identity, "foreign"}
      /\ item.valid \in BOOLEAN /\ item.estimate \in Estimates \cup {NoValue}
      /\ item.score \in Int \cup {NoValue}
    BY DEF ItemRecords
<1>3. C1 \subseteq ItemRecords
    BY <1>2, CandidatesAssumption, MaxLag DEF ItemRecords
<1>4. C2 \subseteq ItemRecords
    BY <1>2 DEF ItemRecords
<1>5. C3 \subseteq ItemRecords
    BY <1>2 DEF ItemRecords
<1>6. C4 \subseteq ItemRecords
    BY <1>2 DEF ItemRecords
<1>7. C5 \subseteq ItemRecords
    BY <1>2, ContractAssumption DEF ItemRecords
<1>8. C6 \subseteq ItemRecords
    BY <1>2, ItemTypes
<1>9. C7 \subseteq ItemRecords
    BY <1>2, ItemTypes, ScoresAreIntegers, ContractAssumption
<1> HIDE DEF C1, C2, C3, C4, C5, C6, C7
<1> QED
    BY <1>1, <1>3, <1>4, <1>5, <1>6, <1>7, <1>8, <1>9


\* Tuples of ties are sequences of lags.
LEMMA TieTuplesTyped == TieTuples \subseteq Seq(Int)
<1>1. ASSUME NEW T \in SUBSET Candidates
      PROVE  Sorted(T) \in Seq(Int)
    <2>1. IsFiniteSet(Candidates) /\ Candidates \subseteq Int
        BY CandidatesAssumption
    <2>2. IsFiniteSet(T)
        BY <2>1, FS_Subset
    <2>3. T \subseteq Int
        BY <2>1
    <2>4. Cardinality(T) \in Nat /\ Sorted(T) \in [1 .. Cardinality(T) -> T]
        BY <2>2, <2>3, SortedIsTheOrder
    <2>5. Sorted(T) \in [1 .. Cardinality(T) -> Int]
        BY <2>3, <2>4
    <2> QED
        BY <2>4, <2>5
<1>2. Reverse(CandidateOrder) \in Seq(Int)
    <2>1. CandidateOrder \in Seq(Int)
        BY <1>1 DEF CandidateOrder
    <2> QED
        BY <2>1 DEF Reverse
<1> QED
    BY <1>1, <1>2 DEF TieTuples

LEMMA SelectionChangesTyped ==
    ASSUME NEW s \in Selections \cup {NoValue}
    PROVE  SelectionChanges(s) \subseteq Selections \cup {NoValue}
<1>1. CASE s = NoValue
    <2>1. \A c \in Candidates : c \in Int
        BY CandidatesAssumption
    <2>2. \A c \in Candidates, e \in Estimates :
            [candidate |-> c, statistic |-> e, index |-> 0, ties |-> <<c>>] \in Selections
        BY <2>1, ContractAssumption DEF Selections
    <2> QED
        BY <1>1, <2>2 DEF SelectionChanges
<1>2. CASE s # NoValue
    <2> DEFINE C1 == {[s EXCEPT !.candidate = c] : c \in Candidates}
               C2 == {[s EXCEPT !.index = i] : i \in 0 .. Len(CandidateOrder)}
               C3 == {[s EXCEPT !.statistic = e] : e \in Estimates}
               C4 == {[s EXCEPT !.ties = q] : q \in TieTuples}
    <2>1. SelectionChanges(s) = {NoValue} \cup C1 \cup C2 \cup C3 \cup C4
        BY <1>2 DEF SelectionChanges
    <2>2. s \in Selections
        BY <1>2
    <2>3. C1 \subseteq Selections
        BY <2>2, CandidatesAssumption DEF Selections
    <2>4. C2 \subseteq Selections
        <3>1. \A i \in 0 .. Len(CandidateOrder) : i \in Int
            OBVIOUS
        <3>2. \A i \in Int : [s EXCEPT !.index = i] \in Selections
            BY <2>2 DEF Selections
        <3> QED
            BY <3>1, <3>2
    <2>5. C3 \subseteq Selections
        BY <2>2, ContractAssumption DEF Selections
    <2>6. C4 \subseteq Selections
        BY <2>2, TieTuplesTyped DEF Selections
    <2> HIDE DEF C1, C2, C3, C4
    <2> QED
        BY <2>1, <2>3, <2>4, <2>5, <2>6
<1> QED
    BY <1>1, <1>2

LEMMA OwnersTyped ==
    ASSUME NEW plan \in Plans, NEW pair \in Pairs
    PROVE  \A length \in 3 .. 5 : Owner(plan, pair, length) \in [pair : Pairs, plan : Plans, null : Names]
<1>1. \A length \in Int : Owner(plan, pair, length) \in [pair : Pairs, plan : Plans, null : Names]
    <2>1. <<0>> \in Seq(Nat)
        OBVIOUS
    <2> QED
        BY <2>1, TokenTypes
<1> QED
    BY <1>1

LEMMA TokenChangesTyped ==
    ASSUME NEW t \in TokenRecords
    PROVE  TokenChanges(t) \subseteq TokenRecords
<1> DEFINE C1 == {[t EXCEPT !.state = s] : s \in AnyStates}
           C2 == {[t EXCEPT !.state = s, !.identity = IsIdentity(s)] : s \in AnyStates}
           C3 == {[t EXCEPT !.identity = ~t.identity], [t EXCEPT !.parameter = t.parameter + 1]}
           C4 == {[t EXCEPT !.pair = pair] : pair \in Pairs}
           C5 == {[t EXCEPT !.plan = plan] : plan \in Plans}
           C6 == {[t EXCEPT !.name = name] : name \in NullNames}
           C7 == {[t EXCEPT !.owner = Owner(t.plan, t.pair, length)] : length \in 3 .. 5}
<1>1. TokenChanges(t) = C1 \cup C2 \cup C3 \cup C4 \cup C5 \cup C6 \cup C7
    BY DEF TokenChanges
<1>2. /\ t = [name |-> t.name, parameter |-> t.parameter, pair |-> t.pair, plan |-> t.plan,
              owner |-> t.owner, identity |-> t.identity, state |-> t.state]
      /\ t.name \in NullNames /\ t.parameter \in Nat /\ t.pair \in Pairs /\ t.plan \in Plans
      /\ t.owner \in [pair : Pairs, plan : Plans, null : Names]
      /\ t.identity \in BOOLEAN /\ t.state \in Seq(Nat)
    BY DEF TokenRecords
<1> DEFINE S == AnyStates
<1>20. \A s \in S : s \in Seq(Nat) /\ IsIdentity(s) \in BOOLEAN
    <2>1. \A k \in 0 .. 4 : <<k>> \in Seq(Nat)
        OBVIOUS
    <2>2. /\ <<0, 1>> \in Seq(Nat) /\ <<1, 0>> \in Seq(Nat)
          /\ <<0, 0>> \in Seq(Nat) /\ <<1, 2, 0>> \in Seq(Nat)
        OBVIOUS
    <2>3. \A s \in S : s \in Seq(Nat)
        BY <2>1, <2>2 DEF AnyStates
    <2>4. \A s \in S : IsIdentity(s) \in BOOLEAN
        BY DEF IsIdentity
    <2> QED
        BY <2>3, <2>4
<1> HIDE DEF S
<1>3. C1 \subseteq TokenRecords
    BY <1>2, <1>20 DEF TokenRecords, S
<1>4. C2 \subseteq TokenRecords
    <2>1. \A s \in Seq(Nat), b \in BOOLEAN : [t EXCEPT !.state = s, !.identity = b] \in TokenRecords
        BY <1>2 DEF TokenRecords
    <2> QED
        BY <1>20, <2>1 DEF S
<1>5. C3 \subseteq TokenRecords
    <2>1. (~t.identity) \in BOOLEAN
        OBVIOUS
    <2>4. t.parameter + 1 \in Nat
        BY <1>2
    <2>2. \A b \in BOOLEAN : [t EXCEPT !.identity = b] \in TokenRecords
        BY <1>2 DEF TokenRecords
    <2>3. \A k \in Nat : [t EXCEPT !.parameter = k] \in TokenRecords
        BY <1>2 DEF TokenRecords
    <2> QED
        BY <2>1, <2>2, <2>3, <2>4
<1>6. C4 \subseteq TokenRecords
    BY <1>2, <1>20 DEF TokenRecords
<1>7. C5 \subseteq TokenRecords
    BY <1>2, <1>20 DEF TokenRecords
<1>8. C6 \subseteq TokenRecords
    BY <1>2, <1>20 DEF TokenRecords
<1>9. C7 \subseteq TokenRecords
    <2>1. \A length \in 3 .. 5 : Owner(t.plan, t.pair, length) \in [pair : Pairs, plan : Plans, null : Names]
        BY <1>2, OwnersTyped
    <2>2. \A o \in [pair : Pairs, plan : Plans, null : Names] : [t EXCEPT !.owner = o] \in TokenRecords
        BY <1>2 DEF TokenRecords
    <2> QED
        BY <2>1, <2>2
<1> HIDE DEF C1, C2, C3, C4, C5, C6, C7
<1> QED
    BY <1>1, <1>3, <1>4, <1>5, <1>6, <1>7, <1>8, <1>9

LEMMA ReversedTyped ==
    ASSUME NEW S, NEW q \in Seq(S)
    PROVE  Reverse(q) \in Seq(S)
<1>1. Len(q) \in Nat /\ \A i \in 1 .. Len(q) : q[i] \in S
    BY ElementOfSeq
<1>2. \A i \in 1 .. Len(q) : q[Len(q) - i + 1] \in S
    <2>1. \A i \in 1 .. Len(q) : Len(q) - i + 1 \in 1 .. Len(q)
        BY <1>1
    <2> QED
        BY <1>1, <2>1
<1> QED
    BY <1>1, <1>2 DEF Reverse

LEMMA VectorChangesTyped ==
    ASSUME NEW items \in Seq(ItemRecords)
    PROVE  VectorChanges(items) \subseteq Seq(ItemRecords)
<1>1. Reverse(items) \in Seq(ItemRecords) /\ <<>> \in Seq(ItemRecords)
    BY ReversedTyped
<1>2. ASSUME NEW i \in DOMAIN items, NEW x \in ItemChanges(items[i])
      PROVE  [items EXCEPT ![i] = x] \in Seq(ItemRecords)
    <2>1. x \in ItemRecords
        BY ElementOfSeq, ItemChangesTyped
    <2> QED
        BY <2>1
<1>3. VectorChanges(items) = {<<>>, Reverse(items)}
            \cup UNION {{[items EXCEPT ![i] = x] : x \in ItemChanges(items[i])} : i \in DOMAIN items}
    BY DEF VectorChanges
<1>4. \A i \in DOMAIN items :
        {[items EXCEPT ![i] = x] : x \in ItemChanges(items[i])} \subseteq Seq(ItemRecords)
    BY <1>2
<1> DEFINE Replaced(i) == {[items EXCEPT ![i] = x] : x \in ItemChanges(items[i])}
<1>5. \A i \in DOMAIN items : Replaced(i) \subseteq Seq(ItemRecords)
    BY <1>4
<1>6. VectorChanges(items) = {<<>>, Reverse(items)} \cup UNION {Replaced(i) : i \in DOMAIN items}
    BY <1>3
<1> HIDE DEF Replaced
<1> QED
    BY <1>1, <1>5, <1>6

LEMMA OutcomeChangesTyped ==
    ASSUME NEW o \in OutcomeRecords
    PROVE  OutcomeChanges(o) \subseteq OutcomeRecords
<1> DEFINE C1 == {[o EXCEPT !.id = k] : k \in 0 .. 2}
           C2 == {[o EXCEPT !.seed = Seed(o.seed.plan, k)] : k \in 0 .. 2}
           C3 == {[o EXCEPT !.status = x] : x \in {"COMPLETE", "ANALYTIC_FAILURE"}}
           C4 == {[o EXCEPT !.stage = x] : x \in {"NONE", "STATISTIC_SCAN"}}
           C5 == {[o EXCEPT !.token = t] : t \in TokenChanges(o.token)}
           C6 == {[o EXCEPT !.items = v] : v \in VectorChanges(o.items)}
           C7 == {[o EXCEPT !.selection = s] : s \in SelectionChanges(o.selection)}
<1>1. OutcomeChanges(o) = C1 \cup C2 \cup C3 \cup C4 \cup C5 \cup C6 \cup C7
    BY DEF OutcomeChanges
<1>2. /\ o = [id |-> o.id, seed |-> o.seed, status |-> o.status, stage |-> o.stage, token |-> o.token,
              items |-> o.items, selection |-> o.selection]
      /\ o.id \in Int /\ o.seed \in [plan : Plans, id : Int]
      /\ o.status \in {"COMPLETE", "ANALYTIC_FAILURE"} /\ o.stage \in {"NONE", "STATISTIC_SCAN"}
      /\ o.token \in TokenRecords /\ o.items \in Seq(ItemRecords)
      /\ o.selection \in Selections \cup {NoValue}
    BY DEF OutcomeRecords
<1>3. C1 \subseteq OutcomeRecords
    BY <1>2 DEF OutcomeRecords
<1>4. C2 \subseteq OutcomeRecords
    BY <1>2 DEF OutcomeRecords, Seed
<1>5. C3 \subseteq OutcomeRecords
    BY <1>2 DEF OutcomeRecords
<1>6. C4 \subseteq OutcomeRecords
    BY <1>2 DEF OutcomeRecords
<1>7. C5 \subseteq OutcomeRecords
    BY <1>2, TokenChangesTyped DEF OutcomeRecords
<1>8. C6 \subseteq OutcomeRecords
    BY <1>2, VectorChangesTyped DEF OutcomeRecords
<1>9. C7 \subseteq OutcomeRecords
    BY <1>2, SelectionChangesTyped DEF OutcomeRecords
<1> HIDE DEF C1, C2, C3, C4, C5, C6, C7
<1> QED
    BY <1>1, <1>3, <1>4, <1>5, <1>6, <1>7, <1>8, <1>9

\* One field of a result replaced by a value of its type leaves a result.
LEMMA FieldsTyped ==
    ASSUME NEW r \in ResultRecords
    PROVE  /\ \A x \in {"COMPLETE", "NOT_EVALUABLE"} : [r EXCEPT !.status = x] \in ResultRecords
           /\ \A x \in Stages : [r EXCEPT !.stage = x] \in ResultRecords
           /\ \A x \in Pairs : [r EXCEPT !.pair = x] \in ResultRecords
           /\ \A x \in Plans : [r EXCEPT !.plan = x] \in ResultRecords
           /\ \A x \in Nat : [r EXCEPT !.planned = x] \in ResultRecords
           /\ \A x \in (Nat \ {0}) \X (Nat \ {0}) : [r EXCEPT !.alpha = x] \in ResultRecords
           /\ \A x \in Seq(ItemRecords) : [r EXCEPT !.observed = x] \in ResultRecords
           /\ \A x \in Selections \cup {NoValue} : [r EXCEPT !.selection = x] \in ResultRecords
           /\ \A x \in Seq(OutcomeRecords) : [r EXCEPT !.replicates = x] \in ResultRecords
           /\ \A x \in Int : [r EXCEPT !.exceedances = x] \in ResultRecords
           /\ \A x \in Int : [r EXCEPT !.failures = x] \in ResultRecords
           /\ \A x \in Int \cup {NoValue} : [r EXCEPT !.p = x] \in ResultRecords
           /\ \A x \in Int \cup {NoValue} : [r EXCEPT !.low = x] \in ResultRecords
           /\ \A x \in Int \cup {NoValue} : [r EXCEPT !.high = x] \in ResultRecords
           /\ \A x \in BOOLEAN \cup {NoValue} : [r EXCEPT !.reject = x] \in ResultRecords
           /\ \A x \in Seq(Codes) : [r EXCEPT !.diagnostics = x] \in ResultRecords
           /\ \A x \in SUBSET Leaves : [r EXCEPT !.inexact = x] \in ResultRecords
           /\ \A x \in SUBSET Floats : [r EXCEPT !.negative = x] \in ResultRecords
<1> DEFINE T1 == (Nat \ {0}) \X (Nat \ {0})  T2 == Seq(ItemRecords)  T3 == Selections \cup {NoValue}
           T4 == Seq(OutcomeRecords)  T5 == SUBSET Leaves  T6 == BOOLEAN \cup {NoValue}
           T7 == Int \cup {NoValue}  T8 == Seq(Codes)  T9 == SUBSET Floats
<1>1. ResultRecords =
        [status : {"COMPLETE", "NOT_EVALUABLE"}, stage : Stages, pair : Pairs, plan : Plans,
         planned : Nat, alpha : T1, observed : T2, selection : T3, replicates : T4,
         exceedances : Int, failures : Int, p : T7, low : T7, high : T7, reject : T6,
         diagnostics : T8, inexact : T5, negative : T9]
    BY DEF ResultRecords
<1> HIDE DEF T1, T2, T3, T4, T5, T6, T7, T8, T9
<1>2. \A x \in {"COMPLETE", "NOT_EVALUABLE"} : [r EXCEPT !.status = x] \in ResultRecords
    BY <1>1
<1>3. \A x \in Stages : [r EXCEPT !.stage = x] \in ResultRecords
    BY <1>1
<1>4. \A x \in Pairs : [r EXCEPT !.pair = x] \in ResultRecords
    BY <1>1
<1>5. \A x \in Plans : [r EXCEPT !.plan = x] \in ResultRecords
    BY <1>1
<1>6. \A x \in Nat : [r EXCEPT !.planned = x] \in ResultRecords
    BY <1>1
<1>7. \A x \in T1 : [r EXCEPT !.alpha = x] \in ResultRecords
    BY <1>1
<1>8. \A x \in T2 : [r EXCEPT !.observed = x] \in ResultRecords
    BY <1>1
<1>9. \A x \in T3 : [r EXCEPT !.selection = x] \in ResultRecords
    BY <1>1
<1>10. \A x \in T4 : [r EXCEPT !.replicates = x] \in ResultRecords
    BY <1>1
<1>11. \A x \in Int : [r EXCEPT !.exceedances = x] \in ResultRecords
    BY <1>1
<1>12. \A x \in Int : [r EXCEPT !.failures = x] \in ResultRecords
    BY <1>1
<1>13. \A x \in T7 : [r EXCEPT !.p = x] \in ResultRecords
    BY <1>1
<1>14. \A x \in T7 : [r EXCEPT !.low = x] \in ResultRecords
    BY <1>1
<1>15. \A x \in T7 : [r EXCEPT !.high = x] \in ResultRecords
    BY <1>1
<1>16. \A x \in T6 : [r EXCEPT !.reject = x] \in ResultRecords
    BY <1>1
<1>17. \A x \in T5 : [r EXCEPT !.inexact = x] \in ResultRecords
    BY <1>1
<1>18. \A x \in T8 : [r EXCEPT !.diagnostics = x] \in ResultRecords
    BY <1>1
<1>19. \A x \in T9 : [r EXCEPT !.negative = x] \in ResultRecords
    BY <1>1
<1> QED
    BY <1>2, <1>3, <1>4, <1>5, <1>6, <1>7, <1>8, <1>9, <1>10, <1>11, <1>12, <1>13, <1>14, <1>15, <1>16, <1>17,
       <1>18, <1>19 DEF T1, T2, T3, T4, T5, T6, T7, T8, T9

LEMMA RehashedTyped ==
    ASSUME NEW r \in ResultRecords, NEW pair \in Pairs
    PROVE  Rehashed(r, pair) \in ResultRecords
<1> DEFINE q == r.replicates
           Renamed(o) == [o EXCEPT !.token.pair = pair, !.token.owner.pair = pair]
           renamed == [i \in DOMAIN q |-> Renamed(q[i])]
<1>1. q \in Seq(OutcomeRecords)
    BY DEF ResultRecords
<1>2. ASSUME NEW o \in OutcomeRecords
      PROVE  Renamed(o) \in OutcomeRecords
    <2> DEFINE t == o.token
               named == [t EXCEPT !.pair = pair, !.owner.pair = pair]
    <2>1. t \in TokenRecords
        BY DEF OutcomeRecords
    <2>2. \A x \in TokenRecords :
            /\ x.owner \in [pair : Pairs, plan : Plans, null : Names]
            /\ [x EXCEPT !.pair = pair] \in TokenRecords
            /\ \A w \in [pair : Pairs, plan : Plans, null : Names] : [x EXCEPT !.owner = w] \in TokenRecords
        BY DEF TokenRecords
    <2>3. \A w \in [pair : Pairs, plan : Plans, null : Names] :
            [w EXCEPT !.pair = pair] \in [pair : Pairs, plan : Plans, null : Names]
        OBVIOUS
    <2> DEFINE u == [t EXCEPT !.pair = pair]
    <2>4. named = [u EXCEPT !.owner = [u.owner EXCEPT !.pair = pair]]
        OBVIOUS
    <2>5. u \in TokenRecords
        BY <2>1, <2>2
    <2> HIDE DEF u
    <2>6. [u.owner EXCEPT !.pair = pair] \in [pair : Pairs, plan : Plans, null : Names]
        BY <2>2, <2>3, <2>5
    <2>7. [u EXCEPT !.owner = [u.owner EXCEPT !.pair = pair]] \in TokenRecords
        <3> DEFINE w == [u.owner EXCEPT !.pair = pair]
        <3> HIDE DEF w
        <3>1. w \in [pair : Pairs, plan : Plans, null : Names] => [u EXCEPT !.owner = w] \in TokenRecords
            BY <2>2, <2>5
        <3> QED
            BY <2>6, <3>1 DEF w
    <2>8. named \in TokenRecords
        BY <2>4, <2>7
    <2> HIDE DEF named
    <2>9. [o EXCEPT !.token = named] \in OutcomeRecords
        BY <2>8 DEF OutcomeRecords
    <2>10. Renamed(o) = [o EXCEPT !.token = named]
        BY DEF named
    <2> QED
        BY <2>9, <2>10
<1>3. renamed \in Seq(OutcomeRecords)
    <2> HIDE DEF Renamed
    <2>1. Len(q) \in Nat /\ DOMAIN q = 1 .. Len(q) /\ \A i \in 1 .. Len(q) : q[i] \in OutcomeRecords
        BY <1>1, ElementOfSeq
    <2>2. \A i \in 1 .. Len(q) : Renamed(q[i]) \in OutcomeRecords
        BY <1>2, <2>1
    <2>3. renamed = [i \in 1 .. Len(q) |-> Renamed(q[i])]
        BY <2>1
    <2> QED
        BY <2>1, <2>2, <2>3
<1>4. Rehashed(r, pair) = [r EXCEPT !.pair = pair, !.replicates = renamed]
    BY DEF Rehashed
<1> DEFINE s == [r EXCEPT !.pair = pair]
<1>5. [r EXCEPT !.pair = pair, !.replicates = renamed] = [s EXCEPT !.replicates = renamed]
    OBVIOUS
<1>6. s \in ResultRecords
    BY FieldsTyped
<1> HIDE DEF s, renamed
<1>7. [s EXCEPT !.replicates = renamed] \in ResultRecords
    BY <1>3, <1>6, FieldsTyped
<1> QED
    BY <1>4, <1>5, <1>7

LEMMA DecisionChangesTyped ==
    ASSUME NEW r \in ResultRecords
    PROVE  DecisionChanges(r) \subseteq ResultRecords
<1> DEFINE C1 == {[r EXCEPT !.exceedances = k] : k \in 0 .. 2}
           C2 == {[r EXCEPT !.failures = k] : k \in 0 .. 2}
           C3 == {[r EXCEPT !.p = k] : k \in Numerators \cup {NoValue}}
           C4 == {[r EXCEPT !.low = k] : k \in Numerators \cup {NoValue}}
           C5 == {[r EXCEPT !.high = k] : k \in Numerators \cup {NoValue}}
           C6 == {[r EXCEPT !.reject = b] : b \in BOOLEAN \cup {NoValue}}
           C7 == {[r EXCEPT !.diagnostics = <<"OTHER">>]}
<1>1. DecisionChanges(r) = C1 \cup C2 \cup C3 \cup C4 \cup C5 \cup C6 \cup C7
    BY DEF DecisionChanges
<1>2. (\A k \in 0 .. 2 : k \in Int) /\ \A k \in Numerators : k \in Int
    BY DEF Numerators
<1>3. C1 \subseteq ResultRecords
    BY <1>2, FieldsTyped
<1>4. C2 \subseteq ResultRecords
    BY <1>2, FieldsTyped
<1>5. C3 \subseteq ResultRecords
    BY <1>2, FieldsTyped
<1>6. C4 \subseteq ResultRecords
    BY <1>2, FieldsTyped
<1>7. C5 \subseteq ResultRecords
    BY <1>2, FieldsTyped
<1>8. C6 \subseteq ResultRecords
    BY FieldsTyped
<1>9. C7 \subseteq ResultRecords
    <2>1. <<"OTHER">> \in Seq(Codes)
        BY CodeSequences DEF Codes
    <2> QED
        BY <2>1, FieldsTyped
<1> HIDE DEF C1, C2, C3, C4, C5, C6, C7
<1> QED
    BY <1>1, <1>3, <1>4, <1>5, <1>6, <1>7, <1>8, <1>9

LEMMA HeadChangesTyped ==
    ASSUME NEW r \in ResultRecords
    PROVE  HeadChanges(r) \subseteq ResultRecords
<1> DEFINE C1 == {[r EXCEPT !.status = x] : x \in {"COMPLETE", "NOT_EVALUABLE"}}
           C2 == {[r EXCEPT !.stage = x] : x \in Stages}
           C3 == {[r EXCEPT !.pair = pair] : pair \in Pairs}
           C4 == {Rehashed(r, pair) : pair \in Pairs}
           C5 == {[r EXCEPT !.plan = plan] : plan \in Plans}
           C6 == {[r EXCEPT !.planned = r.planned + 1]}
           C7 == {[r EXCEPT !.alpha = a] : a \in Alphas}
<1>1. HeadChanges(r) = C1 \cup C2 \cup C3 \cup C4 \cup C5 \cup C6 \cup C7
    BY DEF HeadChanges
<1>2. r.planned \in Nat
    BY DEF ResultRecords
<1>3. C1 \subseteq ResultRecords
    BY FieldsTyped
<1>4. C2 \subseteq ResultRecords
    BY FieldsTyped
<1>5. C3 \subseteq ResultRecords
    BY FieldsTyped
<1>6. C4 \subseteq ResultRecords
    BY RehashedTyped
<1>7. C5 \subseteq ResultRecords
    BY FieldsTyped
<1>8. C6 \subseteq ResultRecords
    <2>1. r.planned + 1 \in Nat
        BY <1>2
    <2> QED
        BY <2>1, FieldsTyped
<1>9. C7 \subseteq ResultRecords
    <2>1. \A plan \in Plans : plan.alpha \in (Nat \ {0}) \X (Nat \ {0})
        BY ContractAssumption
    <2>2. \A a \in Alphas : a \in (Nat \ {0}) \X (Nat \ {0})
        BY <2>1 DEF Alphas
    <2>3. \A a \in (Nat \ {0}) \X (Nat \ {0}) : [r EXCEPT !.alpha = a] \in ResultRecords
        BY FieldsTyped
    <2> QED
        BY <2>2, <2>3
<1> HIDE DEF C1, C2, C3, C4, C5, C6, C7
<1> QED
    BY <1>1, <1>3, <1>4, <1>5, <1>6, <1>7, <1>8, <1>9

LEMMA HistoryChangesTyped ==
    ASSUME NEW r \in ResultRecords
    PROVE  HistoryChanges(r) \subseteq ResultRecords
<1> DEFINE C1 == {[r EXCEPT !.replicates = q] : q \in {<<>>, Reverse(r.replicates)}}
           C2 == UNION {{[r EXCEPT !.replicates[i] = o] : o \in OutcomeChanges(r.replicates[i])} : i \in DOMAIN r.replicates}
<1>1. HistoryChanges(r) = C1 \cup C2
    BY DEF HistoryChanges
<1>2. r.replicates \in Seq(OutcomeRecords)
    BY DEF ResultRecords
<1>3. C1 \subseteq ResultRecords
    <2>1. <<>> \in Seq(OutcomeRecords) /\ Reverse(r.replicates) \in Seq(OutcomeRecords)
        BY <1>2, ReversedTyped
    <2> QED
        BY <2>1, FieldsTyped
<1>4. C2 \subseteq ResultRecords
    <2> DEFINE Replaced(i) == {[r EXCEPT !.replicates[i] = o] : o \in OutcomeChanges(r.replicates[i])}
    <2>1. ASSUME NEW i \in DOMAIN r.replicates, NEW o \in OutcomeChanges(r.replicates[i])
          PROVE  [r EXCEPT !.replicates[i] = o] \in ResultRecords
        <3>1. o \in OutcomeRecords
            BY <1>2, ElementOfSeq, OutcomeChangesTyped
        <3>2. [r.replicates EXCEPT ![i] = o] \in Seq(OutcomeRecords)
            BY <1>2, <3>1
        <3> DEFINE q == [r.replicates EXCEPT ![i] = o]
        <3>3. [r EXCEPT !.replicates[i] = o] = [r EXCEPT !.replicates = q]
            OBVIOUS
        <3> HIDE DEF q
        <3> QED
            BY <3>2, <3>3, FieldsTyped DEF q
    <2>2. \A i \in DOMAIN r.replicates : Replaced(i) \subseteq ResultRecords
        BY <2>1
    <2>3. C2 = UNION {Replaced(i) : i \in DOMAIN r.replicates}
        OBVIOUS
    <2> HIDE DEF Replaced, C2
    <2> QED
        BY <2>2, <2>3
<1> HIDE DEF C1, C2
<1> QED
    BY <1>1, <1>3, <1>4

\* Whatever a step writes into a result, or an edit into the body of a document, is a result.
LEMMA ChangesTyped ==
    ASSUME NEW r \in ResultRecords
    PROVE  Changes(r) \subseteq ResultRecords
<1> DEFINE C1 == HeadChanges(r)
           C2 == {[r EXCEPT !.observed = v] : v \in VectorChanges(r.observed)}
           C3 == {[r EXCEPT !.selection = s] : s \in SelectionChanges(r.selection)}
           C4 == HistoryChanges(r)
           C5 == DecisionChanges(r)
<1>1. Changes(r) = C1 \cup C2 \cup C3 \cup C4 \cup C5
    BY DEF Changes
<1>2. r.observed \in Seq(ItemRecords) /\ r.selection \in Selections \cup {NoValue}
    BY DEF ResultRecords
<1>3. C1 \subseteq ResultRecords
    BY HeadChangesTyped
<1>4. C2 \subseteq ResultRecords
    BY <1>2, VectorChangesTyped, FieldsTyped
<1>5. C3 \subseteq ResultRecords
    BY <1>2, SelectionChangesTyped, FieldsTyped
<1>6. C4 \subseteq ResultRecords
    BY HistoryChangesTyped
<1>7. C5 \subseteq ResultRecords
    BY DecisionChangesTyped
<1> HIDE DEF C1, C2, C3, C4, C5
<1> QED
    BY <1>1, <1>3, <1>4, <1>5, <1>6, <1>7

LEMMA AlterationsTyped ==
    ASSUME NEW r \in ResultRecords
    PROVE  Alterations(r) \subseteq ResultRecords
<1> DEFINE Settled(x) == [x EXCEPT !.inexact = @ \cap Inexact(x), !.negative = @ \cap Zeros(x)]
<1>1. ASSUME NEW x \in ResultRecords
      PROVE  Settled(x) \in ResultRecords
    <2> DEFINE inexact == x.inexact \cap Inexact(x)
               negative == x.negative \cap Zeros(x)
               y == [x EXCEPT !.inexact = inexact]
    <2>1. inexact \in SUBSET Leaves /\ negative \in SUBSET Floats
        BY DEF ResultRecords
    <2>2. y \in ResultRecords
        <3> HIDE DEF inexact
        <3> QED
            BY <2>1, FieldsTyped
    <2>3. Settled(x) = [y EXCEPT !.negative = negative]
        OBVIOUS
    <2> HIDE DEF y, negative
    <2> QED
        BY <2>1, <2>2, <2>3, FieldsTyped
<1>2. \A leaf \in Inexact(r) : {leaf} \in SUBSET Leaves
    BY DEF Inexact, Leaves
<1>3. \A float \in Zeros(r) : {float} \in SUBSET Floats
    BY DEF Zeros, Floats
<1>4. {Settled(x) : x \in Changes(r)} \subseteq ResultRecords
    <2> HIDE DEF Settled
    <2> QED
        BY <1>1, ChangesTyped
<1>5. {[r EXCEPT !.inexact = {leaf}] : leaf \in Inexact(r)} \subseteq ResultRecords
    BY <1>2, FieldsTyped
<1>6. {[r EXCEPT !.negative = {float}] : float \in Zeros(r)} \subseteq ResultRecords
    BY <1>3, FieldsTyped
<1> QED
    BY <1>4, <1>5, <1>6 DEF Alterations

-----------------------------------------------------------------------------
\* Decoded documents

\* What was restored is the body of a canonical document, admitted by the constructors.
RestoredInv ==
    pc = "restored" =>
        /\ restored = document.body
        /\ document = Canonical(restored)
        /\ Admitted(restored)

LEMMA RestoredInitially == Init => RestoredInv
BY DEF Init, RestoredInv

LEMMA RestoredStays == RestoredInv /\ [Next]_vars => RestoredInv'
<1> SUFFICES ASSUME RestoredInv, [Next]_vars PROVE RestoredInv'
    OBVIOUS
<1>1. CASE Decode
    <2>1. CASE Decodable(document, limit)
        <3>1. /\ restored' = Constructed(document.body)
              /\ document' = document
            BY <1>1, <2>1 DEF Decode
        <3>2. /\ Admitted(document.body)
              /\ Canonical(Constructed(document.body)) = document
            BY <2>1 DEF Decodable, Reads, IsCanonical
        <3>3. document.body = Constructed(document.body)
            BY <3>2 DEF Canonical
        <3> QED
            BY <3>1, <3>2, <3>3 DEF RestoredInv
    <2>2. CASE ~Decodable(document, limit)
        BY <1>1, <2>2 DEF Decode, RestoredInv
    <2> QED
        BY <2>1, <2>2
<1>2. CASE Write
    BY <1>2 DEF Write, RestoredInv
<1>3. CASE Verify
    BY <1>3 DEF Verify, RestoredInv
<1>4. CASE Encode
    BY <1>4 DEF Encode, RestoredInv
<1>5. CASE Edit
    BY <1>5 DEF Edit, RestoredInv
<1>6. CASE Done \/ UNCHANGED vars
    BY <1>6 DEF Done, vars, RestoredInv
<1> QED
    BY <1>1, <1>2, <1>3, <1>4, <1>5, <1>6 DEF Next

\* The decision of an admitted complete result follows from its retained scores
\* (_validate_complete with the constructors of its outcomes).
LEMMA AdmittedIsConsistent ==
    ASSUME NEW r, Admitted(r), r.status = "COMPLETE"
    PROVE  LET over == {i \in DOMAIN r.replicates : Top(r.replicates[i].items) >= Top(r.observed)}
           IN  /\ Len(r.replicates) = r.planned
               /\ r.p = 1 + Cardinality(over)
               /\ r.reject = (r.p * r.alpha[2] <= r.alpha[1] * (r.planned + 1))
               /\ \A i \in DOMAIN r.replicates :
                   /\ r.replicates[i].token.pair = r.pair
                   /\ r.replicates[i].token.owner = r.replicates[1].token.owner
<1> DEFINE over == {i \in DOMAIN r.replicates : Top(r.replicates[i].items) >= Top(r.observed)}
<1>1. CompleteAdmitted(r)
    BY DEF Admitted
<1>2. \A i \in DOMAIN r.replicates :
        ScoredVectorAdmitted(r.replicates[i].items, r.replicates[i].selection)
    BY <1>1 DEF Admitted, CompleteAdmitted, OutcomeAdmitted
<1>3. \A i \in DOMAIN r.replicates :
        r.replicates[i].selection.statistic = Top(r.replicates[i].items)
    BY <1>2 DEF ScoredVectorAdmitted, Maximum, Top
<1>4. r.selection.statistic = Top(r.observed)
    BY <1>1 DEF CompleteAdmitted, ScoredVectorAdmitted, Maximum, Top
<1>5. Exceeding(r.replicates, r.selection.statistic) = over
    BY <1>1, <1>3, <1>4 DEF Exceeding, CompleteAdmitted
<1>6. r.p = 1 + Cardinality(over)
    BY <1>1, <1>5 DEF CompleteAdmitted
<1>7. r.reject = (r.p * r.alpha[2] <= r.alpha[1] * (r.planned + 1))
    BY <1>1 DEF CompleteAdmitted, Rejects
<1>8. /\ Len(r.replicates) = r.planned
      /\ \A i \in DOMAIN r.replicates :
          /\ r.replicates[i].token.pair = r.pair
          /\ r.replicates[i].token.owner = r.replicates[1].token.owner
    BY <1>1 DEF CompleteAdmitted, HistoryAdmitted
<1> QED
    BY <1>6, <1>7, <1>8

LEMMA RestoredAlways == Spec => []RestoredInv
<1>1. Init => RestoredInv
    BY RestoredInitially
<1>2. RestoredInv /\ [Next]_vars => RestoredInv'
    BY RestoredStays
<1> QED
    BY <1>1, <1>2, PTL DEF Spec

\* Whatever was written into a result or edited in its document, a decoded COMPLETE result
\* decides by the plus-one rule over the scores it retains (decode_calibration_result).
THEOREM DecodedDecisionFollowsScores == Spec => []DecodedIsConsistent
<1>1. RestoredInv => DecodedIsConsistent
    BY AdmittedIsConsistent DEF RestoredInv, DecodedIsConsistent
<1> QED
    BY <1>1, RestoredAlways, PTL

\* No document but the canonical one of a result decodes to it (canonical != data).
THEOREM OneDocumentPerResult == Spec => []EditsShow
<1>1. RestoredInv => EditsShow
    BY DEF RestoredInv, EditsShow
<1> QED
    BY <1>1, RestoredAlways, PTL

-----------------------------------------------------------------------------
\* Verdicts and documents along a life

Documents == [body : ResultRecords, deviations : SUBSET Deviations]

Kept == pc \in {"stored", "restored", "refused"}

\* Whatever is verified, stored or edited is a result, the verdicts are the verifier's, what is
\* refused cannot be decoded, and nothing with a -0.0 is stored.
VerdictsOK ==
    /\ pc \in {"made", "judged", "stored", "unstorable", "restored", "refused"}
    /\ result \in ResultRecords /\ sealed \in Plans
    /\ Kept => document \in Documents /\ result.negative = {}
    /\ pc = "made" => accepted = FALSE
    /\ pc # "made" => accepted = VerifierAccepts(result, sealed)
    /\ pc = "unstorable" => ~(Projects(result) /\ Decodable(Canonical(result), limit))
    /\ pc = "refused" => ~Decodable(document, limit)
    /\ pc = "restored" => restored = document.body /\ again = VerifierAccepts(restored, sealed)

LEMMA VerdictsInitially == Init => VerdictsOK
<1> SUFFICES ASSUME Init PROVE VerdictsOK
    OBVIOUS
<1>1. result \in ResultRecords
    BY ReportTypes DEF Init
<1>2. pc = "made" /\ sealed \in Plans /\ accepted = FALSE
    BY DEF Init
<1> QED
    BY <1>1, <1>2 DEF VerdictsOK, Kept

LEMMA WriteKeepsVerdicts ==
    ASSUME VerdictsOK, Write
    PROVE  VerdictsOK'
<1>1. /\ pc = "made" /\ pc' = pc /\ sealed' = sealed /\ accepted' = accepted
      /\ result \in ResultRecords /\ sealed \in Plans /\ accepted = FALSE
    BY DEF Write, VerdictsOK
<1>2. result' \in Alterations(result)
    BY DEF Write
<1>3. result' \in ResultRecords
    BY <1>1, <1>2, AlterationsTyped
<1> QED
    BY <1>1, <1>3 DEF VerdictsOK, Kept

\* The constructors turn every -0.0 into 0.0.
LEMMA ConstructedHasNoNegativeZero ==
    ASSUME NEW r \in ResultRecords
    PROVE  Constructed(r).negative = {}
BY DEF Constructed, ResultRecords

LEMMA EncodeKeepsVerdicts ==
    ASSUME VerdictsOK, Encode
    PROVE  VerdictsOK'
<1>1. /\ pc = "judged" /\ sealed' = sealed /\ accepted' = accepted /\ result' = result /\ limit' = limit
      /\ result \in ResultRecords /\ sealed \in Plans /\ accepted = VerifierAccepts(result, sealed)
    BY DEF Encode, VerdictsOK
<1>2. Canonical(result) \in Documents
    BY <1>1 DEF Canonical, Documents
<1>3. CASE Projects(result) /\ Decodable(Canonical(result), limit)
    <2>1. pc' = "stored" /\ document' = Canonical(result)
        BY <1>3 DEF Encode
    <2>2. Constructed(result) = result
        BY <1>3 DEF Decodable, IsCanonical, Canonical
    <2>3. result.negative = {}
        BY <1>1, <2>2, ConstructedHasNoNegativeZero
    <2> QED
        BY <1>1, <1>2, <2>1, <2>3 DEF VerdictsOK, Kept
<1>4. CASE ~(Projects(result) /\ Decodable(Canonical(result), limit))
    <2>1. pc' = "unstorable"
        BY <1>4 DEF Encode
    <2>2. ~(Projects(result) /\ Decodable(Canonical(result), limit))'
        BY <1>1, <1>4
    <2> QED
        BY <1>1, <2>1, <2>2 DEF VerdictsOK, Kept
<1> QED
    BY <1>3, <1>4

LEMMA EditKeepsVerdicts ==
    ASSUME VerdictsOK, Edit
    PROVE  VerdictsOK'
<1>1. /\ pc = "stored" /\ pc' = pc /\ sealed' = sealed /\ accepted' = accepted /\ result' = result
      /\ result \in ResultRecords /\ sealed \in Plans /\ accepted = VerifierAccepts(result, sealed)
      /\ document \in Documents /\ result.negative = {}
    BY DEF Edit, VerdictsOK, Kept
<1>2. \/ \E b \in Alterations(document.body) : document' = [document EXCEPT !.body = b]
      \/ \E d \in Deviations : document' = [document EXCEPT !.deviations = @ \cup {d}]
    BY DEF Edit
<1>3. document.body \in ResultRecords
    BY <1>1 DEF Documents
<1>4. \A b \in ResultRecords : [document EXCEPT !.body = b] \in Documents
    BY <1>1 DEF Documents
<1>5. \A d \in Deviations : [document EXCEPT !.deviations = @ \cup {d}] \in Documents
    BY <1>1 DEF Documents
<1>6. document' \in Documents
    BY <1>2, <1>3, <1>4, <1>5, AlterationsTyped
<1> QED
    BY <1>1, <1>6 DEF VerdictsOK, Kept

LEMMA DecodeKeepsVerdicts ==
    ASSUME VerdictsOK, Decode
    PROVE  VerdictsOK'
<1>1. /\ pc = "stored" /\ sealed' = sealed /\ accepted' = accepted /\ result' = result
      /\ limit' = limit /\ document' = document
      /\ result \in ResultRecords /\ sealed \in Plans /\ accepted = VerifierAccepts(result, sealed)
      /\ document \in Documents /\ result.negative = {}
    BY DEF Decode, VerdictsOK, Kept
<1>2. CASE Decodable(document, limit)
    <2>1. /\ pc' = "restored" /\ restored' = Constructed(document.body)
          /\ again' = VerifierAccepts(Constructed(document.body), sealed)
        BY <1>2 DEF Decode
    <2>2. Constructed(document.body) = document.body
        BY <1>2 DEF Decodable, IsCanonical, Canonical
    <2> QED
        BY <1>1, <2>1, <2>2 DEF VerdictsOK, Kept
<1>3. CASE ~Decodable(document, limit)
    <2>1. pc' = "refused"
        BY <1>3 DEF Decode
    <2>2. ~Decodable(document', limit')
        BY <1>1, <1>3
    <2> QED
        BY <1>1, <2>1, <2>2 DEF VerdictsOK, Kept
<1> QED
    BY <1>2, <1>3

LEMMA VerdictsStay == VerdictsOK /\ [Next]_vars => VerdictsOK'
<1> SUFFICES ASSUME VerdictsOK, [Next]_vars PROVE VerdictsOK'
    OBVIOUS
<1>1. CASE Write
    BY <1>1, WriteKeepsVerdicts
<1>2. CASE Verify
    <2>1. /\ pc' = "judged" /\ sealed' = sealed /\ result' = result
          /\ accepted' = VerifierAccepts(result, sealed)
        BY <1>2 DEF Verify
    <2> QED
        BY <2>1 DEF VerdictsOK, Kept
<1>3. CASE Encode
    BY <1>3, EncodeKeepsVerdicts
<1>4. CASE Edit
    BY <1>4, EditKeepsVerdicts
<1>5. CASE Decode
    BY <1>5, DecodeKeepsVerdicts
<1>6. CASE Done \/ UNCHANGED vars
    <2>1. UNCHANGED vars
        BY <1>6 DEF Done
    <2> QED
        BY <2>1 DEF vars, VerdictsOK, Kept
<1> QED
    BY <1>1, <1>2, <1>3, <1>4, <1>5, <1>6 DEF Next

LEMMA VerdictsAlways == Spec => []VerdictsOK
<1>1. Init => VerdictsOK
    BY VerdictsInitially
<1>2. VerdictsOK /\ [Next]_vars => VerdictsOK'
    BY VerdictsStay
<1> QED
    BY <1>1, <1>2, PTL DEF Spec

\* Whatever was written into a result or into its document, runs of the sealed plan report its
\* facts exactly when the verifier accepts it and the three things it does not look at are right
\* (verify_calibration_result).
THEOREM AcceptedResultsAreReports == Spec => []AcceptedIsWhatRunsReport
<1>1. ASSUME VerdictsOK
      PROVE  AcceptedIsWhatRunsReport
    <2>1. result \in ResultRecords /\ sealed \in Plans
        BY <1>1 DEF VerdictsOK
    <2>2. ASSUME pc = "judged"
          PROVE  IsReport(result, sealed) <=> accepted /\ ~Unlooked(result, sealed)
        <3>1. accepted = VerifierAccepts(result, sealed)
            BY <1>1, <2>2 DEF VerdictsOK
        <3> QED
            BY <2>1, <3>1, VerifierIsExact
    <2>3. ASSUME pc = "restored"
          PROVE  IsReport(restored, sealed) <=> again /\ ~Unlooked(restored, sealed)
        <3>1. again = VerifierAccepts(restored, sealed)
            BY <1>1, <2>3 DEF VerdictsOK
        <3>2. restored = document.body /\ document \in Documents
            BY <1>1, <2>3 DEF VerdictsOK, Kept
        <3>3. restored \in ResultRecords
            BY <3>2 DEF Documents
        <3> QED
            BY <2>1, <3>1, <3>3, VerifierIsExact
    <2> QED
        BY <2>2, <2>3 DEF AcceptedIsWhatRunsReport
<1> QED
    BY <1>1, VerdictsAlways, PTL

-----------------------------------------------------------------------------
\* What the verifier accepts, the constructors admit as it is

\* Sorting the ties again changes nothing.
LEMMA TiesAreSorted ==
    ASSUME NEW v \in Answers, AllValid(v)
    PROVE  SortedTies(Selection(v)) = Selection(v)
<1> DEFINE s == Selection(v)
<1>1. s \in Selections /\ s.ties = Sorted(Tied(v))
    BY OneRule DEF Selection
<1>2. ToSet(s.ties) = Tied(v)
    <2>1. IsFiniteSet(Tied(v)) /\ Tied(v) \subseteq Candidates
        BY ScoresOfAVector
    <2>2. Tied(v) \subseteq Int
        <3>1. \A c \in Candidates : c \in Int
            BY CandidatesAssumption
        <3> QED
            BY <2>1, <3>1
    <2> QED
        BY <1>1, <2>1, <2>2, SortedListsAll
<1>3. s # NoValue
    BY <1>1, ContractAssumption
<1> HIDE DEF s
<1>4. [s EXCEPT !.ties = s.ties] = s
    BY <1>1 DEF Selections
<1> QED
    BY <1>1, <1>2, <1>3, <1>4 DEF SortedTies, s

LEMMA ScoredVectorsAreAdmitted ==
    ASSUME NEW v \in Answers, AllValid(v), NEW support \in Int, support >= 1
    PROVE  /\ ItemsAdmitted(ScoredItems(v, support))
           /\ ScoredVectorAdmitted(ScoredItems(v, support), Selection(v))
<1> DEFINE n == Len(CandidateOrder)
           items == ScoredItems(v, support)
           s == Selection(v)
<1>1. /\ n \in Nat /\ n >= 1
      /\ \A i \in 1 .. n : CandidateOrder[i] \in Candidates
      /\ \A i, j \in 1 .. n : i < j => CandidateOrder[i] < CandidateOrder[j]
      /\ \A c \in Candidates : \E i \in 1 .. n : CandidateOrder[i] = c
      /\ \A i \in 1 .. n : Cardinality({c \in Candidates : c < CandidateOrder[i]}) = i - 1
      /\ \A c \in Candidates : c \in Int /\ c >= 1
    <2>1. \A c \in Candidates : c \in Int /\ c >= 1
        BY CandidatesAssumption
    <2> QED
        BY <2>1, OrderOfCandidates
<1>2. items = [i \in 1 .. n |-> Item(CandidateOrder[i], support, v[CandidateOrder[i]], Score(v[CandidateOrder[i]]))]
    BY OrderOfCandidates DEF ScoredItems
<1>3. /\ \A c \in Candidates : v[c] \in Int /\ Score(v[c]) \in Int /\ v[c] # Failure
      /\ IsFiniteSet(Tied(v)) /\ Tied(v) # {} /\ Tied(v) \subseteq Candidates /\ Decision(v) \in Int
    BY ScoresOfAVector DEF AllValid
<1>4. \A i \in 1 .. n :
        /\ items[i].candidate = CandidateOrder[i] /\ items[i].support = support
        /\ items[i].valid = TRUE /\ items[i].estimate = v[CandidateOrder[i]]
        /\ items[i].score = Score(v[CandidateOrder[i]])
    <2> SUFFICES ASSUME NEW i \in 1 .. n
                 PROVE  /\ items[i].candidate = CandidateOrder[i] /\ items[i].support = support
                        /\ items[i].valid = TRUE /\ items[i].estimate = v[CandidateOrder[i]]
                        /\ items[i].score = Score(v[CandidateOrder[i]])
        OBVIOUS
    <2> DEFINE c == CandidateOrder[i]  e == v[c]  score == Score(e)
    <2>1. e # Failure
        BY <1>1, <1>3
    <2>2. items[i] = Item(c, support, e, score)
        BY <1>2
    <2> HIDE DEF e, score, items
    <2>3. /\ items[i].candidate = c /\ items[i].support = support
          /\ items[i].valid = TRUE /\ items[i].estimate = e /\ items[i].score = score
        <3>1. Item(c, support, e, score) =
                [candidate |-> c, support |-> support, identity |-> Identity, valid |-> TRUE,
                 score |-> score, estimate |-> e]
            BY <2>1 DEF Item
        <3> HIDE DEF c
        <3> QED
            BY <2>2, <3>1
    <2> QED
        BY <2>3 DEF e, score
<1>5. DOMAIN items = 1 .. n /\ Len(items) = n
    BY <1>1, <1>2
<1> HIDE DEF items, n
<1>6. ItemsAdmitted(items)
    <2>1. ASSUME NEW i \in 1 .. n
          PROVE  ItemAdmitted(items[i])
        <3>1. CandidateOrder[i] \in Candidates
            BY <1>1
        <3>2. v[CandidateOrder[i]] \in Int /\ v[CandidateOrder[i]] # NoValue
            BY <1>3, <3>1, ContractAssumption
        <3> QED
            BY <1>1, <1>4, <3>1, <3>2 DEF ItemAdmitted
    <2>2. Ascends([i \in DOMAIN items |-> items[i].candidate])
        BY <1>1, <1>4, <1>5 DEF Ascends
    <2> QED
        BY <1>5, <2>1, <2>2 DEF ItemsAdmitted
<1>7. s.candidate = SelectedCandidate(v) /\ s.statistic = Decision(v) /\ s.ties = Sorted(Tied(v))
      /\ s.index = Cardinality({c \in Candidates : c < SelectedCandidate(v)}) /\ s # NoValue
    <2>1. s # NoValue
        BY OneRule, ContractAssumption
    <2> QED
        BY <2>1 DEF Selection
<1> HIDE DEF s
<1>8. ToSet(s.ties) = Tied(v) /\ IsInjective(s.ties)
    <2>1. Tied(v) \subseteq Int
        BY <1>1, <1>3
    <2> QED
        BY <1>3, <1>7, <2>1, SortedListsAll
<1>9. SelectedCandidate(v) \in Tied(v)
    <2>1. Tied(v) \subseteq Int
        BY <1>1, <1>3
    <2> QED
        BY <1>3, <2>1, Extremes DEF SelectedCandidate
<1>10. PICK k \in 1 .. n : CandidateOrder[k] = SelectedCandidate(v)
    BY <1>1, <1>3, <1>9
<1>11. s.index = k - 1
    BY <1>1, <1>7, <1>10
<1>12. s.index < n /\ items[s.index + 1].candidate = s.candidate
    <2>1. k - 1 + 1 = k /\ k - 1 < n
        BY <1>1, <1>10
    <2> QED
        BY <1>4, <1>7, <1>10, <1>11, <2>1
<1>13. Tied(v) \subseteq {items[i].candidate : i \in DOMAIN items}
    <2>1. \A c \in Tied(v) : \E i \in 1 .. n : items[i].candidate = c
        BY <1>1, <1>3, <1>4
    <2> QED
        BY <1>5, <2>1
<1>14. Maximum(items) = Decision(v)
    <2>1. {items[i].score : i \in DOMAIN items} = {Score(v[c]) : c \in Candidates}
        <3>1. \A i \in 1 .. n : items[i].score = Score(v[CandidateOrder[i]]) /\ CandidateOrder[i] \in Candidates
            BY <1>1, <1>4
        <3>2. \A c \in Candidates : \E i \in 1 .. n : items[i].score = Score(v[c])
            BY <1>1, <1>4
        <3> QED
            BY <1>5, <3>1, <3>2
    <2> QED
        BY <2>1 DEF Maximum, Decision
<1>15. \A i \in DOMAIN items : items[i].valid /\ items[i].score # NoValue
    <2>1. \A i \in 1 .. n : Score(v[CandidateOrder[i]]) \in Int
        BY <1>1, <1>3
    <2> QED
        BY <1>4, <1>5, <2>1, ContractAssumption
<1>16. SelectionAdmitted(s)
    BY <1>7, <1>8, <1>9 DEF SelectionAdmitted
<1>17. items # <<>>
    BY <1>1, <1>5
<1>18. s.candidate = Min(ToSet(s.ties))
    BY <1>7, <1>8 DEF SelectedCandidate
<1>19. ScoredVectorAdmitted(items, s)
    BY <1>5, <1>7, <1>8, <1>12, <1>13, <1>14, <1>15, <1>16, <1>17, <1>18 DEF ScoredVectorAdmitted
<1> QED
    BY <1>6, <1>19 DEF items, s

LEMMA RawVectorsAreAdmitted ==
    ASSUME NEW v \in Answers, ~AllValid(v), NEW support \in Int, support >= 1
    PROVE  /\ ItemsAdmitted(RawItems(v, support)) /\ RawVectorAdmitted(RawItems(v, support))
           /\ RawItems(v, support) # <<>>
<1> DEFINE n == Len(CandidateOrder)
           items == RawItems(v, support)
<1>1. /\ n \in Nat /\ n >= 1
      /\ \A i \in 1 .. n : CandidateOrder[i] \in Candidates
      /\ \A i, j \in 1 .. n : i < j => CandidateOrder[i] < CandidateOrder[j]
      /\ \A c \in Candidates : \E i \in 1 .. n : CandidateOrder[i] = c
      /\ \A c \in Candidates : c \in Int /\ c >= 1
    <2>1. \A c \in Candidates : c \in Int /\ c >= 1
        BY CandidatesAssumption
    <2> QED
        BY <2>1, OrderOfCandidates
<1>2. items = [i \in 1 .. n |-> Item(CandidateOrder[i], support, v[CandidateOrder[i]], NoValue)]
    BY OrderOfCandidates DEF RawItems
<1>3. \A i \in 1 .. n :
        /\ items[i].candidate = CandidateOrder[i] /\ items[i].support = support
        /\ items[i].valid = (v[CandidateOrder[i]] # Failure) /\ items[i].score = NoValue
        /\ items[i].estimate = IF v[CandidateOrder[i]] = Failure THEN NoValue ELSE v[CandidateOrder[i]]
    BY <1>1, <1>2 DEF Item
<1>4. DOMAIN items = 1 .. n /\ Len(items) = n
    BY <1>1, <1>2
<1> HIDE DEF items, n
<1>5. ASSUME NEW i \in 1 .. n
      PROVE  ItemAdmitted(items[i])
    <2>1. CandidateOrder[i] \in Candidates
        BY <1>1
    <2>2. v[CandidateOrder[i]] \in Estimates \cup {Failure}
        BY <2>1 DEF Answers
    <2>3. v[CandidateOrder[i]] # Failure => v[CandidateOrder[i]] # NoValue
        BY <2>2, ContractAssumption
    <2> DEFINE item == items[i]  e == v[CandidateOrder[i]]
    <2>4. /\ item.candidate >= 1 /\ item.support >= 1 /\ item.score = NoValue
          /\ item.valid = (e # Failure) /\ item.estimate = IF e = Failure THEN NoValue ELSE e
        BY <1>1, <1>3, <2>1
    <2>5. e # Failure => e # NoValue
        BY <2>3
    <2> HIDE DEF item, e
    <2>6. ItemAdmitted(item)
        <3>1. item.valid => item.estimate # NoValue
            BY <2>4, <2>5
        <3>2. ~item.valid => item.estimate = NoValue
            BY <2>4
        <3> QED
            BY <2>4, <3>1, <3>2 DEF ItemAdmitted
    <2> QED
        BY <2>6 DEF item
<1>6. Ascends([i \in DOMAIN items |-> items[i].candidate])
    BY <1>1, <1>3, <1>4 DEF Ascends
<1>7. ItemsAdmitted(items)
    BY <1>4, <1>5, <1>6 DEF ItemsAdmitted
<1>8. \E i \in 1 .. n : v[CandidateOrder[i]] = Failure
    BY <1>1 DEF AllValid
<1>9. RawVectorAdmitted(items)
    BY <1>3, <1>4, <1>8 DEF RawVectorAdmitted
<1>10. items # <<>>
    BY <1>1, <1>4
<1> QED
    BY <1>7, <1>9, <1>10 DEF items

LEMMA OrderIsItsEntries == CandidateOrder = [i \in 1 .. Len(CandidateOrder) |-> CandidateOrder[i]]
<1>1. IsFiniteSet(Candidates) /\ Candidates \subseteq Int
    BY CandidatesAssumption
<1>2. Sorted(Candidates) \in Seq(Candidates)
    BY <1>1, SortedListsAll
<1> QED
    BY <1>2 DEF CandidateOrder

\* What the verifier accepts of a vector has the shape its constructors want.
LEMMA CompleteVectorsAreAdmitted ==
    ASSUME NEW items \in Seq(ItemRecords), NEW s \in Selections \cup {NoValue},
           CompleteVectorHolds(items, s)
    PROVE  /\ ItemsAdmitted(items) /\ ScoredVectorAdmitted(items, s) /\ SortedTies(s) = s
           /\ [k \in DOMAIN items |-> items[k].candidate] = CandidateOrder
           /\ items[1].support \in Int
<1> DEFINE v == VectorOf(items)
           support == items[1].support
<1>1. /\ Legible(items) /\ AllValid(v) /\ support >= 1
      /\ items = ScoredItems(v, support) /\ s = Selection(v)
    BY CompleteVectors
<1>2. v \in Answers /\ DOMAIN items = 1 .. Len(CandidateOrder)
    BY <1>1, AnswersReadBack
<1>3. support \in Int
    <2>1. 1 \in DOMAIN items
        BY <1>2, OrderOfCandidates
    <2>2. items[1] \in ItemRecords
        BY <2>1
    <2> QED
        BY <2>2 DEF ItemRecords
<1>4. [k \in DOMAIN items |-> items[k].candidate] = CandidateOrder
    <2>1. \A i \in 1 .. Len(CandidateOrder) : items[i].candidate = CandidateOrder[i]
        BY ReadVectors DEF CompleteVectorHolds
    <2> QED
        BY <1>2, <2>1, OrderIsItsEntries
<1> HIDE DEF v, support
<1>5. ItemsAdmitted(items) /\ ScoredVectorAdmitted(items, s) /\ SortedTies(s) = s
    BY <1>1, <1>2, <1>3, ScoredVectorsAreAdmitted, TiesAreSorted
<1> QED
    BY <1>3, <1>4, <1>5 DEF support

LEMMA FailureVectorsAreAdmitted ==
    ASSUME NEW items \in Seq(ItemRecords), NEW s \in Selections \cup {NoValue},
           FailureVectorHolds(items, s)
    PROVE  /\ ItemsAdmitted(items) /\ RawVectorAdmitted(items) /\ s = NoValue /\ items # <<>>
           /\ [k \in DOMAIN items |-> items[k].candidate] = CandidateOrder
           /\ items[1].support \in Int
<1> DEFINE v == VectorOf(items)
           support == items[1].support
<1>1. /\ Legible(items) /\ ~AllValid(v) /\ support >= 1
      /\ items = RawItems(v, support) /\ s = NoValue
    BY FailedVectors
<1>2. v \in Answers /\ DOMAIN items = 1 .. Len(CandidateOrder)
    BY <1>1, AnswersReadBack
<1>3. support \in Int
    <2>1. 1 \in DOMAIN items
        BY <1>2, OrderOfCandidates
    <2>2. items[1] \in ItemRecords
        BY <2>1
    <2> QED
        BY <2>2 DEF ItemRecords
<1>4. [k \in DOMAIN items |-> items[k].candidate] = CandidateOrder
    <2>1. \A i \in 1 .. Len(CandidateOrder) : items[i].candidate = CandidateOrder[i]
        BY ReadVectors DEF FailureVectorHolds
    <2> QED
        BY <1>2, <2>1, OrderIsItsEntries
<1> HIDE DEF v, support
<1>5. ItemsAdmitted(items) /\ RawVectorAdmitted(items) /\ items # <<>>
    BY <1>1, <1>2, <1>3, RawVectorsAreAdmitted
<1> QED
    BY <1>1, <1>3, <1>4, <1>5 DEF support

\* A token of a run is one its constructor admits.
LEMMA TokensAreAdmitted ==
    ASSUME NEW t \in TokenRecords, NEW plan \in Plans, NEW pair, NEW length \in Nat,
           NEW i \in Nat \ {0}, TokenHolds(t, plan, pair, length, i - 1)
    PROVE  TokenAdmitted(t)
<1> DEFINE state == t.state
           count == length \div plan.parameter
<1>1. t = Token(plan, pair, length, state)
    BY TokensAreOfRuns
<1>2. t.identity = IsIdentity(state) /\ t.name = plan.name
    BY <1>1 DEF Token
<1>3. state \in Seq(Nat) /\ plan.name \in NullNames /\ plan.parameter \in Nat \ {0}
    BY ContractAssumption DEF TokenRecords
<1>4. CASE plan.name = "block_shuffle_v2"
    <2>1. BlockTokenHolds(t, plan, length)
        BY <1>4 DEF TokenHolds
    <2>2. count \in 2 .. MaxBlockCount /\ Len(state) = count /\ ToSet(state) = 0 .. count - 1
        BY <2>1 DEF BlockTokenHolds
    <2>3. count >= 2 /\ Len(state) >= 2
        BY <2>2, MaxBlockCountAssumption
    <2> HIDE DEF state, count
    <2>4. StateAdmitted(state) /\ Len(state) >= 2
        BY <2>2, <2>3 DEF StateAdmitted
    <2> QED
        BY <1>2, <1>4, <2>4 DEF TokenAdmitted, state
<1>5. CASE plan.name # "block_shuffle_v2"
    <2>1. CircularTokenHolds(t, plan, length) \/ ExactTokenHolds(t, plan, length, i - 1)
        BY <1>3, <1>5 DEF TokenHolds, NullNames
    <2>2. Len(state) = 1
        BY <2>1 DEF CircularTokenHolds, ExactTokenHolds
    <2>3. ~(Len(state) >= 2)
        BY <2>2
    <2> QED
        BY <1>2, <1>5, <2>3 DEF TokenAdmitted, StateAdmitted
<1> QED
    BY <1>4, <1>5

LEMMA OutcomesAreAdmitted ==
    ASSUME NEW o \in OutcomeRecords, NEW plan \in Plans, NEW pair, NEW support \in Int, support >= 1,
           NEW i \in Nat \ {0}, OutcomeHolds(o, i - 1, plan, pair, support)
    PROVE  /\ OutcomeAdmitted(o) /\ SortedTies(o.selection) = o.selection
           /\ o.id = i - 1 /\ OwnedToken(o.token, plan, pair, support + Max(Candidates))
           /\ [k \in DOMAIN o.items |-> o.items[k].candidate] = CandidateOrder
<1>1. /\ o.id = i - 1 /\ TokenHolds(o.token, plan, pair, support + Max(Candidates), i - 1)
      /\ IF o.status = "ANALYTIC_FAILURE"
         THEN FailureVectorHolds(o.items, o.selection) /\ o.stage = "STATISTIC_SCAN"
         ELSE CompleteVectorHolds(o.items, o.selection) /\ o.stage = "NONE"
    BY DEF OutcomeHolds
<1>2. /\ o.token \in TokenRecords /\ o.items \in Seq(ItemRecords)
      /\ o.selection \in Selections \cup {NoValue} /\ o.status \in {"COMPLETE", "ANALYTIC_FAILURE"}
    BY DEF OutcomeRecords
<1>3. support + Max(Candidates) \in Nat
    BY MaxLag
<1>4. TokenAdmitted(o.token)
    BY <1>1, <1>2, <1>3, TokensAreAdmitted
<1>5. OwnedToken(o.token, plan, pair, support + Max(Candidates))
    BY <1>1 DEF TokenHolds
<1>6. o.id >= 0
    BY <1>1
<1>7. CASE o.status = "ANALYTIC_FAILURE"
    <2>1. FailureVectorHolds(o.items, o.selection) /\ o.stage = "STATISTIC_SCAN"
        BY <1>1, <1>7
    <2>2. /\ ItemsAdmitted(o.items) /\ RawVectorAdmitted(o.items) /\ o.selection = NoValue
          /\ [k \in DOMAIN o.items |-> o.items[k].candidate] = CandidateOrder
        BY <1>2, <2>1, FailureVectorsAreAdmitted
    <2>3. SortedTies(o.selection) = o.selection
        BY <2>2 DEF SortedTies
    <2> QED
        BY <1>1, <1>4, <1>5, <1>6, <1>7, <2>1, <2>2, <2>3 DEF OutcomeAdmitted
<1>8. CASE o.status = "COMPLETE"
    <2>1. CompleteVectorHolds(o.items, o.selection) /\ o.stage = "NONE"
        BY <1>1, <1>8
    <2>2. /\ ItemsAdmitted(o.items) /\ ScoredVectorAdmitted(o.items, o.selection)
          /\ SortedTies(o.selection) = o.selection
          /\ [k \in DOMAIN o.items |-> o.items[k].candidate] = CandidateOrder
        BY <1>2, <2>1, CompleteVectorsAreAdmitted
    <2> QED
        BY <1>1, <1>4, <1>5, <1>6, <1>8, <2>1, <2>2 DEF OutcomeAdmitted
<1> QED
    BY <1>2, <1>7, <1>8

\* A result whose ties are in order and no zero negative comes out of its constructors as it
\* went in.
LEMMA ConstructedAsItIs ==
    ASSUME NEW r \in ResultRecords, r.negative = {}, SortedTies(r.selection) = r.selection,
           \A i \in DOMAIN r.replicates :
               SortedTies(r.replicates[i].selection) = r.replicates[i].selection
    PROVE  Constructed(r) = r
<1> DEFINE q == r.replicates
           Sort(o) == [o EXCEPT !.selection = SortedTies(o.selection)]
           sorted == [i \in DOMAIN q |-> Sort(q[i])]
<1>1. q \in Seq(OutcomeRecords)
    BY DEF ResultRecords
<1>2. \A o \in OutcomeRecords : [o EXCEPT !.selection = o.selection] = o
    BY DEF OutcomeRecords
<1>3. \A i \in DOMAIN q : Sort(q[i]) = q[i]
    <2> SUFFICES ASSUME NEW i \in DOMAIN q PROVE Sort(q[i]) = q[i]
        OBVIOUS
    <2>1. q[i] \in OutcomeRecords
        BY <1>1, ElementOfSeq
    <2> DEFINE o == q[i]
    <2>2. o \in OutcomeRecords /\ SortedTies(o.selection) = o.selection
        BY <2>1
    <2> HIDE DEF o
    <2>3. Sort(o) = o
        BY <1>2, <2>2
    <2> QED
        BY <2>3 DEF o
<1>4. sorted = q
    <2>1. q = [i \in DOMAIN q |-> q[i]]
        BY <1>1
    <2> HIDE DEF Sort
    <2> QED
        BY <1>3, <2>1
<1>5. Constructed(r)
        = [r EXCEPT !.negative = {}, !.selection = SortedTies(r.selection), !.replicates = sorted]
    BY DEF Constructed
<1> HIDE DEF sorted
<1>6. Constructed(r) = [r EXCEPT !.negative = r.negative, !.selection = r.selection, !.replicates = r.replicates]
    BY <1>4, <1>5
<1>7. r = [x \in DOMAIN r |-> r[x]]
    BY DEF ResultRecords
<1>8. [r EXCEPT !.negative = r.negative] = r
    BY <1>7
<1>9. [r EXCEPT !.selection = r.selection] = r
    BY <1>7
<1>10. [r EXCEPT !.replicates = r.replicates] = r
    BY <1>7
<1>11. [r EXCEPT !.negative = r.negative, !.selection = r.selection, !.replicates = r.replicates]
        = [[[r EXCEPT !.negative = r.negative] EXCEPT !.selection = r.selection]
            EXCEPT !.replicates = r.replicates]
    OBVIOUS
<1> QED
    BY <1>6, <1>8, <1>9, <1>10, <1>11

\* The verifier asks of a result whatever its constructors ask of it.
LEMMA AcceptedIsAdmitted ==
    ASSUME NEW r \in ResultRecords, NEW plan \in Plans, VerifierAccepts(r, plan)
    PROVE  Admitted(r) /\ (r.negative = {} => Constructed(r) = r)
<1>1. /\ r.observed \in Seq(ItemRecords) /\ r.selection \in Selections \cup {NoValue}
      /\ r.replicates \in Seq(OutcomeRecords) /\ r.status \in {"COMPLETE", "NOT_EVALUABLE"}
      /\ r.stage \in Stages
    BY DEF ResultRecords
<1>2. PrefixHolds(r, plan) /\ r.planned >= 1
    <2>1. plan.replicates \in Nat \ {0}
        BY ContractAssumption
    <2> QED
        BY <2>1 DEF VerifierAccepts, PrefixHolds
<1>3. ASSUME EmptyTerminalHolds(r)
      PROVE  /\ NothingRun(r) /\ Undecided(r)
             /\ \A i \in DOMAIN r.replicates : OutcomeAdmitted(r.replicates[i])
             /\ r.negative = {} => Constructed(r) = r
    <2>1. r.selection = NoValue /\ r.replicates = <<>>
        BY <1>3 DEF EmptyTerminalHolds
    <2>2. DOMAIN r.replicates = {}
        BY <2>1
    <2>3. SortedTies(r.selection) = r.selection
        BY <2>1 DEF SortedTies
    <2>4. r.negative = {} => Constructed(r) = r
        BY <2>2, <2>3, ConstructedAsItIs
    <2> QED
        BY <1>3, <2>2, <2>4 DEF EmptyTerminalHolds, NothingRun, Undecided
<1>4. CASE r.stage = "NULL_BIND"
    <2>1. r.status = "NOT_EVALUABLE" /\ r.observed = <<>> /\ EmptyTerminalHolds(r)
        BY <1>4 DEF VerifierAccepts
    <2>2. ItemsAdmitted(r.observed)
        BY <2>1 DEF ItemsAdmitted, Ascends
    <2> QED
        BY <1>2, <1>3, <1>4, <2>1, <2>2 DEF Admitted
<1>5. CASE r.stage = "OBSERVED_STATISTIC_SCAN"
    <2>1. r.status = "NOT_EVALUABLE" /\ FailureVectorHolds(r.observed, r.selection) /\ EmptyTerminalHolds(r)
        BY <1>5 DEF VerifierAccepts
    <2>2. ItemsAdmitted(r.observed) /\ RawVectorAdmitted(r.observed) /\ r.observed # <<>>
        BY <1>1, <2>1, FailureVectorsAreAdmitted
    <2> QED
        BY <1>2, <1>3, <1>5, <2>1, <2>2 DEF Admitted
<1>6. CASE r.stage \in {"NONE", "REPLICATE_EXECUTION"}
    <2> DEFINE support == r.observed[1].support
    <2>1. /\ CompleteVectorHolds(r.observed, r.selection) /\ ReplicatesHold(r, plan)
          /\ IF r.status = "COMPLETE"
             THEN CompleteTerminalHolds(r)
             ELSE r.stage = "REPLICATE_EXECUTION" /\ ExecutionTerminalHolds(r)
        BY <1>6 DEF VerifierAccepts
    <2>2. /\ ItemsAdmitted(r.observed) /\ ScoredVectorAdmitted(r.observed, r.selection)
          /\ SortedTies(r.selection) = r.selection
          /\ [k \in DOMAIN r.observed |-> r.observed[k].candidate] = CandidateOrder
          /\ support \in Int
        BY <1>1, <2>1, CompleteVectorsAreAdmitted
    <2>3. support >= 1
        BY <1>1, <2>1, CompleteVectors
    <2> HIDE DEF support
    <2>4. ASSUME NEW i \in DOMAIN r.replicates
          PROVE  /\ OutcomeAdmitted(r.replicates[i])
                 /\ SortedTies(r.replicates[i].selection) = r.replicates[i].selection
                 /\ r.replicates[i].id = i - 1
                 /\ OwnedToken(r.replicates[i].token, plan, r.pair, support + Max(Candidates))
                 /\ [k \in DOMAIN r.replicates[i].items |-> r.replicates[i].items[k].candidate]
                        = CandidateOrder
                 /\ r.replicates[i].status \in {"COMPLETE", "ANALYTIC_FAILURE"}
        <3>1. i \in Nat \ {0} /\ r.replicates[i] \in OutcomeRecords
            BY <1>1, ElementOfSeq
        <3>2. OutcomeHolds(r.replicates[i], i - 1, plan, r.pair, support)
            BY <2>1 DEF ReplicatesHold, support
        <3>3. r.replicates[i].status \in {"COMPLETE", "ANALYTIC_FAILURE"}
            BY <3>1 DEF OutcomeRecords
        <3> QED
            BY <2>2, <2>3, <3>1, <3>2, <3>3, OutcomesAreAdmitted
    <2>5. r.negative = {} => Constructed(r) = r
        BY <2>2, <2>4, ConstructedAsItIs
    <2>6. HistoryAdmitted(r)
        <3>1. Len(r.replicates) = r.planned
            BY <2>1 DEF ReplicatesHold
        <3>2. 1 \in DOMAIN r.replicates
            BY <1>1, <1>2, <3>1
        <3>3. ASSUME NEW i \in DOMAIN r.replicates
              PROVE  LET t == r.replicates[i].token
                         first == r.replicates[1].token
                     IN  /\ t.pair = r.pair /\ t.plan = r.plan
                         /\ <<t.name, t.parameter, t.owner>> = <<first.name, first.parameter, first.owner>>
            <4>1. r.plan = plan
                BY <1>2 DEF PrefixHolds
            <4> QED
                BY <2>4, <3>2, <4>1 DEF OwnedToken
        <3> QED
            BY <2>2, <2>4, <3>1, <3>3 DEF HistoryAdmitted
    <2>7. /\ DerivedExceedances(r) = Cardinality(Exceeding(r.replicates, r.selection.statistic))
          /\ DerivedFailures(r) = Cardinality(Failing(r.replicates))
        BY DEF DerivedExceedances, DerivedFailures, Exceeding, Failing
    <2>8. CASE r.status = "COMPLETE"
        <3>1. CompleteTerminalHolds(r)
            BY <2>1, <2>8
        <3>2. Failing(r.replicates) = {}
            <4>1. Failing(r.replicates) \in SUBSET (1 .. Len(r.replicates))
                BY <1>1 DEF Failing
            <4>2. IsFiniteSet(Failing(r.replicates))
                <5>1. Len(r.replicates) \in Nat
                    BY <1>1
                <5>2. IsFiniteSet(1 .. Len(r.replicates))
                    BY <5>1, FS_Interval
                <5> QED
                    BY <4>1, <5>2, FS_Subset
            <4>3. Cardinality(Failing(r.replicates)) = 0
                BY <2>7, <3>1 DEF CompleteTerminalHolds
            <4> QED
                BY <4>2, <4>3, FS_EmptySet
        <3>3. \A i \in DOMAIN r.replicates : r.replicates[i].status = "COMPLETE"
            BY <2>4, <3>2 DEF Failing
        <3>4. CompleteAdmitted(r)
            BY <2>2, <2>6, <2>7, <3>1, <3>3 DEF CompleteAdmitted, CompleteTerminalHolds
        <3> QED
            BY <1>2, <2>2, <2>4, <2>5, <2>8, <3>4 DEF Admitted
    <2>9. CASE r.status # "COMPLETE"
        <3>1. r.stage = "REPLICATE_EXECUTION" /\ ExecutionTerminalHolds(r)
            BY <2>1, <2>9
        <3>2. BoundsAdmitted(r)
            BY <2>2, <2>6, <2>7, <3>1 DEF BoundsAdmitted, ExecutionTerminalHolds
        <3> QED
            BY <1>2, <2>2, <2>4, <2>5, <2>9, <3>1, <3>2 DEF Admitted
    <2> QED
        BY <2>8, <2>9
<1> QED
    BY <1>1, <1>4, <1>5, <1>6 DEF Stages

\* So nothing but its size or a -0.0 can keep an accepted result of exact types from its
\* document.
LEMMA AcceptedIsStorable ==
    ASSUME NEW r \in ResultRecords, NEW plan \in Plans, VerifierAccepts(r, plan),
           r.negative = {}, NEW max, Rows(r) <= max
    PROVE  Decodable(Canonical(r), max)
<1> DEFINE doc == Canonical(r)
<1>1. doc.body = r /\ doc.deviations = {}
    BY DEF Canonical
<1>2. Admitted(r) /\ Constructed(r) = r
    BY AcceptedIsAdmitted
<1> HIDE DEF doc
<1>3. Size(doc) <= max
    <2>1. Rows(r) \in Int
        BY DEF Rows, ResultRecords
    <2>2. doc.deviations \cap {"layout", "extra_key"} = {}
        BY <1>1
    <2>3. Size(doc) = Rows(r) + 0
        BY <1>1, <2>2 DEF Size
    <2> QED
        BY <2>1, <2>3
<1>4. DepthHolds(doc)
    BY <1>1 DEF DepthHolds, Depth
<1>5. Parses(doc)
    BY <1>1 DEF Parses
<1>6. Reads(doc)
    BY <1>1, <1>2 DEF Reads
<1>7. IsCanonical(doc)
    BY <1>1, <1>2 DEF IsCanonical, doc
<1> QED
    BY <1>3, <1>4, <1>5, <1>6, <1>7 DEF Decodable, doc

\* What the verifier accepts, with exact types and within the limit, is stored, and its
\* document decodes to it and is accepted again; with a -0.0 it is not stored at all
\* (encode_calibration_result, decode_calibration_result).
THEOREM AcceptedResultsSurvive == Spec => []AcceptedResultSurvivesStorage
<1>1. ASSUME VerdictsOK
      PROVE  AcceptedResultSurvivesStorage
    <2> SUFFICES ASSUME accepted, result.inexact = {}, Rows(result) <= limit
                 PROVE  /\ pc = "unstorable" => result.negative # {}
                        /\ pc \in {"stored", "restored", "refused"} => result.negative = {}
                        /\ document = Canonical(result) =>
                            pc # "refused" /\ (pc = "restored" => restored = result /\ again)
        BY DEF AcceptedResultSurvivesStorage
    <2>1. result \in ResultRecords /\ sealed \in Plans
        BY <1>1 DEF VerdictsOK
    <2>2. VerifierAccepts(result, sealed)
        <3>1. accepted = VerifierAccepts(result, sealed)
            BY <1>1 DEF VerdictsOK
        <3> QED
            BY <3>1
    <2>3. result.negative = {} => Projects(result) /\ Decodable(Canonical(result), limit)
        BY <2>1, <2>2, AcceptedIsStorable DEF Projects
    <2>4. pc = "unstorable" => result.negative # {}
        BY <1>1, <2>3 DEF VerdictsOK
    <2>5. pc \in {"stored", "restored", "refused"} => result.negative = {}
        BY <1>1 DEF VerdictsOK, Kept
    <2>6. ASSUME document = Canonical(result)
          PROVE  pc # "refused" /\ (pc = "restored" => restored = result /\ again)
        <3>1. pc # "refused"
            BY <1>1, <2>3, <2>5, <2>6 DEF VerdictsOK
        <3>2. ASSUME pc = "restored"
              PROVE  restored = result /\ again
            <4>1. restored = document.body /\ again = VerifierAccepts(restored, sealed)
                BY <1>1, <3>2 DEF VerdictsOK
            <4>2. document.body = result
                BY <2>6 DEF Canonical
            <4> QED
                BY <2>2, <4>1, <4>2
        <3> QED
            BY <3>1, <3>2
    <2> QED
        BY <2>4, <2>5, <2>6
<1> QED
    BY <1>1, VerdictsAlways, PTL
=============================================================================
