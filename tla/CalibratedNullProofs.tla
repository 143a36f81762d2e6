------------------------- MODULE CalibratedNullProofs -------------------------
(***************************************************************************)
(* The null states, apply and the calibrator's use of them, for every      *)
(* length, parameter, number of replicates and observed pair: the states   *)
(* handed out are those accepted, a run nobody interferes with is never    *)
(* refused, and a write in one slot changes no transform that is returned. *)
(***************************************************************************)
EXTENDS CalibratedNull, FiniteSetTheorems, TLAPS

-----------------------------------------------------------------------------
\* The circular state space, for every length and min_shift

\* A difference of two positions of the circle wraps at most once.
LEMMA WrapDown ==
    ASSUME NEW n \in Nat \ {0}, NEW i \in 0 .. n - 1, NEW s \in 0 .. n - 1
    PROVE  (i - s) % n = IF s <= i THEN i - s ELSE i - s + n
PROOF
  <1>1. CASE s <= i
    BY <1>1, Z3
  <1>2. CASE ~(s <= i)
    BY <1>2, Z3
  <1> QED
    BY <1>1, <1>2

\* A sum of two positions of the circle wraps at most once.
LEMMA WrapUp ==
    ASSUME NEW n \in Nat \ {0}, NEW i \in 0 .. n - 1, NEW s \in 0 .. n - 1
    PROVE  (i + s) % n = IF i + s < n THEN i + s ELSE i + s - n
PROOF
  <1>1. CASE i + s < n
    BY <1>1, Z3
  <1>2. CASE ~(i + s < n)
    BY <1>2, Z3
  <1> QED
    BY <1>1, <1>2

-----------------------------------------------------------------------------
\* Every index randbelow can return for the circular null is turned into a shift that
\* apply accepts (sample_token and _validate_token_before_data_access).
THEOREM DrawnShiftIsAccepted ==
    ASSUME NEW n \in Nat \ {0}, NEW m \in Nat \ {0}, 2 * m <= n,
           NEW index \in 0 .. ShiftCount(n, m) - 1
    PROVE  ShiftAt(m, index) \in Shifts(n, m)
PROOF
  BY DEF ShiftAt, ShiftCount, Shifts, InShifts

\* Every accepted shift is the shift of one index and of no other, so a uniform index is
\* a uniform shift of the whole state space (sample_token).
THEOREM EveryShiftIsDrawnOnce ==
    ASSUME NEW n \in Nat \ {0}, NEW m \in Nat \ {0}, 2 * m <= n,
           NEW shift \in Shifts(n, m)
    PROVE  \E index \in 0 .. ShiftCount(n, m) - 1 :
               \A k \in 0 .. ShiftCount(n, m) - 1 : ShiftAt(m, k) = shift <=> k = index
PROOF
  <1> DEFINE Index == IF shift = 0 THEN 0 ELSE shift - m + 1
  <1>1. /\ shift \in 0 .. n - 1
        /\ shift = 0 \/ (m <= shift /\ shift <= n - m)
    BY DEF Shifts, InShifts
  <1>2. Index \in 0 .. ShiftCount(n, m) - 1
    BY <1>1 DEF ShiftCount
  <1>3. ASSUME NEW k \in 0 .. ShiftCount(n, m) - 1
        PROVE  ShiftAt(m, k) = shift <=> k = Index
    BY <1>1 DEF ShiftAt, ShiftCount
  <1> HIDE DEF Index
  <1> QED
    BY <1>2, <1>3

\* With a shift its inverse is in the space, whatever min_shift excludes.
THEOREM ShiftsAreClosedUnderInverse ==
    ASSUME NEW n \in Nat \ {0}, NEW m \in Nat \ {0}, 2 * m <= n,
           NEW shift \in Shifts(n, m)
    PROVE  (0 - shift) % n \in Shifts(n, m)
PROOF
  <1>1. shift \in 0 .. n - 1 /\ 0 \in 0 .. n - 1
    BY DEF Shifts
  <1>2. (0 - shift) % n = IF shift <= 0 THEN 0 - shift ELSE 0 - shift + n
    BY <1>1, WrapDown
  <1> QED
    BY <1>1, <1>2 DEF Shifts, InShifts

\* The null keeps a group of shifts exactly when it excludes none or all but the half turn:
\* closure under composition is what the exchangeability argument of an enumerated test
\* needs (attainability).
THEOREM ShiftsAreAGroupExactlyWhen ==
    ASSUME NEW n \in Nat \ {0}, NEW m \in Nat \ {0}, 2 * m <= n
    PROVE  (\A s, t \in Shifts(n, m) : (s + t) % n \in Shifts(n, m))
               <=> (m = 1 \/ 2 * m = n)
PROOF
  <1>1. ASSUME m = 1, NEW s \in Shifts(n, m), NEW t \in Shifts(n, m)
        PROVE  (s + t) % n \in Shifts(n, m)
    <2>1. s \in 0 .. n - 1 /\ t \in 0 .. n - 1
      BY DEF Shifts
    <2>2. (s + t) % n \in 0 .. n - 1
      BY <2>1, WrapUp
    <2> QED
      BY <1>1, <2>2 DEF Shifts, InShifts
  <1>2. ASSUME 2 * m = n, NEW s \in Shifts(n, m), NEW t \in Shifts(n, m)
        PROVE  (s + t) % n \in Shifts(n, m)
    <2>1. s \in {0, m} /\ t \in {0, m} /\ s \in 0 .. n - 1 /\ t \in 0 .. n - 1
      BY <1>2 DEF Shifts, InShifts
    <2>2. (s + t) % n = IF s + t < n THEN s + t ELSE s + t - n
      BY <2>1, WrapUp
    <2>3. s + t \in {0, m, n}
      BY <1>2, <2>1
    <2>4. (s + t) % n \in {0, m}
      BY <1>2, <2>2, <2>3
    <2> QED
      BY <1>2, <2>4 DEF Shifts, InShifts
  <1>3. ASSUME m # 1, 2 * m # n
        PROVE  \E s, t \in Shifts(n, m) : (s + t) % n \notin Shifts(n, m)
    <2> DEFINE u == n - m
    <2>1. m + 1 \in Shifts(n, m) /\ u \in Shifts(n, m)
      BY <1>3 DEF Shifts, InShifts
    <2>2. (m + 1 + u) % n = 1
      <3>1. m + 1 \in 0 .. n - 1 /\ u \in 0 .. n - 1
        BY <1>3
      <3>2. (m + 1 + u) % n = IF m + 1 + u < n THEN m + 1 + u ELSE m + 1 + u - n
        BY <3>1, WrapUp
      <3> QED
        BY <3>2
    <2>3. 1 \notin Shifts(n, m)
      BY <1>3 DEF Shifts, InShifts
    <2> HIDE DEF u
    <2> QED
      BY <2>1, <2>2, <2>3
  <1> QED
    BY <1>1, <1>2, <1>3

\* Shifting by s and then by its inverse gives the series back (_apply_state).
THEOREM ShiftIsUndoneByItsInverse ==
    ASSUME NEW n \in Nat \ {0}, NEW s \in 0 .. n - 1, NEW V, NEW x \in [0 .. n - 1 -> V]
    PROVE  Shifted(Shifted(x, n, s), n, (0 - s) % n) = x
PROOF
  <1> DEFINE r == (0 - s) % n
             y == Shifted(x, n, s)
  <1>1. 0 \in 0 .. n - 1
    OBVIOUS
  <1>2. r = (IF s = 0 THEN 0 ELSE n - s) /\ r \in 0 .. n - 1
    BY <1>1, WrapDown
  <1> HIDE DEF r
  <1>3. ASSUME NEW i \in 0 .. n - 1
        PROVE  (((i - r) % n) - s) % n = i /\ (i - r) % n \in 0 .. n - 1
    <2>1. (i - r) % n = (IF r <= i THEN i - r ELSE i - r + n) /\ (i - r) % n \in 0 .. n - 1
      BY <1>2, WrapDown
    <2> DEFINE j == (i - r) % n
    <2> HIDE DEF j
    <2>2. j \in 0 .. n - 1 /\ j = (IF r <= i THEN i - r ELSE i - r + n)
      BY <2>1 DEF j
    <2>3. (j - s) % n = IF s <= j THEN j - s ELSE j - s + n
      BY <2>2, WrapDown
    <2>4. (j - s) % n = i
      BY <1>2, <2>2, <2>3
    <2> QED
      BY <2>2, <2>4 DEF j
  <1>4. \A i \in 0 .. n - 1 : Shifted(y, n, r)[i] = x[i]
    BY <1>3 DEF Shifted
  <1>5. Shifted(y, n, r) \in [0 .. n - 1 -> V]
    BY <1>3 DEF Shifted
  <1> QED
    BY <1>4, <1>5 DEF r

-----------------------------------------------------------------------------
\* Positions and blocks

LEMMA WholeBlocks ==
    ASSUME NEW b \in Nat \ {0}, NEW n \in Nat, n % b = 0
    PROVE  n = (n \div b) * b /\ n \div b \in Nat
PROOF
  <1>1. n = b * (n \div b) + (n % b) /\ n \div b \in Int
    BY Z3
  <1> QED
    BY <1>1, Z3

\* The position of an index in its block, and the block, give the index back.
LEMMA BlockOfPosition ==
    ASSUME NEW b \in Nat \ {0}, NEW n \in Nat \ {0}, n % b = 0, NEW i \in 0 .. n - 1
    PROVE  /\ (i \div b) \in 0 .. (n \div b) - 1
           /\ (i \div b) * b + (i % b) = i
PROOF
  <1> DEFINE q == n \div b
  <1>1. n = q * b /\ q \in Nat
    BY WholeBlocks
  <1> HIDE DEF q
  <1>2. i = b * (i \div b) + (i % b) /\ i % b \in 0 .. b - 1 /\ i \div b \in Int
    BY Z3
  <1>3. (i \div b) \in 0 .. q - 1 /\ (i \div b) * b + (i % b) = i
    BY <1>1, <1>2, Z3
  <1> QED
    BY <1>3 DEF q

-----------------------------------------------------------------------------
\* An enabled null

\* What BindStatus promises of the parameters, by kind.
LEMMA EnabledShape ==
    ASSUME NEW nl \in Nulls, BindStatus(nl) = "ENABLED"
    PROVE  /\ nl \in [name : NullNames, length : Nat \ {0}, parameter : Nat \ {0}]
           /\ nl.name = "circular_shift_exact_v1" => nl.parameter = 1
           /\ Circular(nl) => 2 * nl.parameter <= nl.length
           /\ ~Circular(nl) => /\ nl.length % nl.parameter = 0
                               /\ BlockCount(nl) \in 2 .. MaxBlockCount
PROOF
  <1>1. nl \in [name : NullNames, length : Nat \ {0}, parameter : Nat \ {0}] /\ Constructible(nl)
    BY BoundNullAssumption
  <1>2. nl.name = "circular_shift_exact_v1" => nl.parameter = 1
    BY <1>1 DEF Constructible
  <1>3. Circular(nl) => 2 * nl.parameter <= nl.length
    BY <1>1 DEF BindStatus, CircularBindStatus
  <1>4. ASSUME ~Circular(nl)
        PROVE  nl.length % nl.parameter = 0 /\ BlockCount(nl) \in 2 .. MaxBlockCount
    <2>1. BlockBindStatus(nl) = "ENABLED"
      BY <1>4 DEF BindStatus
    <2>2. nl.length % nl.parameter = 0 /\ ~(BlockCount(nl) < 2) /\ ~(BlockCount(nl) > MaxBlockCount)
      BY <2>1 DEF BlockBindStatus
    <2>3. BlockCount(nl) \in Nat
      BY <1>1, <2>2, WholeBlocks DEF BlockCount
    <2> QED
      BY <2>2, <2>3, MaxBlockCountAssumption
  <1> QED
    BY <1>1, <1>2, <1>3, <1>4

\* The state count of a circular null is positive, so index 0 can be drawn.
LEMMA IdentityIsAnOrder ==
    ASSUME NEW q \in Nat
    PROVE  Ascending(q) \in Orders(q)
PROOF
  BY DEF Ascending, Orders

\* The zero shift changes no series.
LEMMA ZeroShiftChangesNothing ==
    ASSUME NEW n \in Nat \ {0}, NEW V, NEW x \in [0 .. n - 1 -> V]
    PROVE  Shifted(x, n, 0) = x
PROOF
  <1>1. ASSUME NEW i \in 0 .. n - 1
        PROVE  (i - 0) % n = i
    <2>1. 0 \in 0 .. n - 1
      OBVIOUS
    <2> QED
      BY <2>1, WrapDown
  <1> QED
    BY <1>1 DEF Shifted

\* Nor do blocks in their own order.
LEMMA OwnOrderChangesNothing ==
    ASSUME NEW b \in Nat \ {0}, NEW n \in Nat \ {0}, n % b = 0,
           NEW V, NEW x \in [0 .. n - 1 -> V]
    PROVE  Reordered(x, n, b, Ascending(n \div b)) = x
PROOF
  <1>1. ASSUME NEW i \in 0 .. n - 1
        PROVE  Ascending(n \div b)[i \div b] * b + (i % b) = i
    <2>1. /\ (i \div b) \in 0 .. (n \div b) - 1
          /\ (i \div b) * b + (i % b) = i
      BY BlockOfPosition
    <2>2. Ascending(n \div b)[i \div b] = i \div b
      BY <2>1 DEF Ascending
    <2> QED
      BY <2>1, <2>2
  <1> QED
    BY <1>1 DEF Reordered

-----------------------------------------------------------------------------
\* The null as bind made it

\* The null of the run is enabled and the pair is one of its length.
Good == null \in Calibrated /\ BindStatus(null) = "ENABLED" /\ born \in Pairs

LEMMA GoodNull ==
    ASSUME Good
    PROVE  /\ null \in Nulls /\ null \notin Disturbed
           /\ null \in [name : NullNames, length : Nat \ {0}, parameter : Nat \ {0}]
           /\ null.name = "circular_shift_exact_v1" => null.parameter = 1
           /\ Circular(null) => 2 * null.parameter <= null.length
           /\ ~Circular(null) => /\ null.length % null.parameter = 0
                                 /\ BlockCount(null) \in 2 .. MaxBlockCount
           /\ born.source \in [0 .. null.length - 1 -> Values]
PROOF
  <1>1. null \in Nulls /\ null \notin Disturbed
    BY CalibratedNullAssumption DEF Good
  <1>2. born.source \in [0 .. null.length - 1 -> Values]
    BY DEF Good, Pairs, Series
  <1> QED
    BY <1>1, <1>2, EnabledShape DEF Good

\* Every snapshot of it succeeds.
LEMMA OwnedSnapshotHolds ==
    ASSUME Good
    PROVE  SnapshotHolds(Owned)
PROOF
  <1>1. IdentityHolds(Owned) /\ ContentsHold(Owned)
    BY DEF IdentityHolds, ContentsHold, Owned, Slots
  <1>2. CASE Circular(null)
    BY <1>1, <1>2 DEF SnapshotHolds, ShiftSlotsHold, Owned, Slots, TotalStates
  <1>3. CASE ~Circular(null)
    BY <1>1, <1>3, GoodNull DEF SnapshotHolds, BlockSlotsHold, Owned, Slots, TotalStates,
       StatesOf, BlockCount
  <1> QED
    BY <1>2, <1>3

\* A replicate remains, whatever the kind of null, before the first is scored.
LEMMA ReplicatesAreMany ==
    ASSUME Good
    PROVE  Replicates \in Nat \ {0}
PROOF
  <1>1. CASE Enumerated
    BY <1>1, GoodNull DEF Enumerated, Replicates, Circular
  <1>2. CASE ~Enumerated
    BY <1>2, CalibratedNullAssumption DEF Good, Replicates
  <1> QED
    BY <1>1, <1>2

\* What is handed out of it is a state of the null, and there is something to hand out.
LEMMA HandedOutAreStates ==
    ASSUME Good, bound = Owned, Len(scored) \in Nat, Len(scored) < Replicates
    PROVE  /\ Drawable(null, bound) \subseteq StatesOf(null)
           /\ HandedOut # {} /\ HandedOut \subseteq StatesOf(null)
PROOF
  <1> DEFINE n == null.length
             m == null.parameter
  <1>0. n \in Nat \ {0} /\ m \in Nat \ {0} /\ null.name \in NullNames
    BY GoodNull
  <1>1. CASE null.name = "circular_shift_v2"
    <2>1. Circular(null) /\ 2 * m <= n
      BY <1>1, GoodNull DEF Circular
    <2>2. bound.parameter = m /\ bound.states = ShiftCount(n, m)
      BY <2>1 DEF Owned, Slots, TotalStates
    <2>3. Drawable(null, bound) = {ShiftAt(m, k) : k \in 0 .. ShiftCount(n, m) - 1}
      BY <1>1, <2>2 DEF Drawable, SampledShifts
    <2>4. Drawable(null, bound) \subseteq StatesOf(null)
      BY <1>0, <2>1, <2>3, DrawnShiftIsAccepted DEF StatesOf
    <2>5. 0 \in 0 .. ShiftCount(n, m) - 1
      BY <1>0, <2>1 DEF ShiftCount
    <2>6. HandedOut = Drawable(null, bound)
      BY <1>1 DEF HandedOut, Enumerated
    <2> QED
      BY <2>3, <2>4, <2>5, <2>6
  <1>2. CASE null.name = "circular_shift_exact_v1"
    <2>1. Circular(null) /\ 2 * m <= n /\ m = 1
      BY <1>2, GoodNull DEF Circular
    <2>2. bound.states = n
      BY <1>0, <2>1 DEF Owned, Slots, TotalStates, ShiftCount
    <2>3. Drawable(null, bound) = {0} \cup {k + 1 : k \in 0 .. n - 2}
      BY <1>2, <2>2 DEF Drawable, EnumeratedShifts
    <2>4. StatesOf(null) = 0 .. n - 1
      BY <1>0, <2>1 DEF StatesOf, Shifts, InShifts
    <2>5. Drawable(null, bound) \subseteq StatesOf(null)
      BY <1>0, <2>3, <2>4
    <2>6. Len(scored) < n - 1 /\ Enumerated
      BY <1>2 DEF Replicates, Enumerated
    <2>7. Len(scored) + 1 \in HandedOut
      BY <1>0, <2>3, <2>6 DEF HandedOut
    <2>8. HandedOut \subseteq Drawable(null, bound)
      BY DEF HandedOut
    <2> QED
      BY <2>5, <2>7, <2>8
  <1>3. CASE null.name = "block_shuffle_v2"
    <2>1. ~Circular(null) /\ BlockCount(null) \in 2 .. MaxBlockCount
      BY <1>3, GoodNull DEF Circular
    <2>2. bound.count = BlockCount(null)
      BY <2>1 DEF Owned, Slots
    <2>3. Drawable(null, bound) = Orders(BlockCount(null)) /\ ~Enumerated
      BY <1>3, <2>1, <2>2, MaxBlockCountAssumption DEF Drawable, SampledOrders, Enumerated
    <2>4. Ascending(BlockCount(null)) \in Orders(BlockCount(null))
      BY <2>1, MaxBlockCountAssumption, IdentityIsAnOrder
    <2> QED
      BY <2>1, <2>3, <2>4 DEF HandedOut, StatesOf
  <1> QED
    BY <1>0, <1>1, <1>2, <1>3 DEF NullNames

\* A token of the run for one of its states passes every check of apply.
LEMMA OwnTokenIsAccepted ==
    ASSUME Good, NEW s \in StatesOf(null)
    PROVE  /\ TokenIsSound(OwnToken(s)) /\ TokenIsOwned(OwnToken(s), Owned)
           /\ Accepts(OwnToken(s), Owned) /\ GuardHolds(Owned) /\ LengthHolds(Owned)
PROOF
  <1> DEFINE n == null.length
             t == OwnToken(s)
  <1>0. n \in Nat \ {0} /\ null.parameter \in Nat \ {0} /\ null.name \in NullNames
    BY GoodNull
  <1>1. TokenIsSound(t) /\ TokenIsOwned(t, Owned) /\ t.state = s
    BY DEF OwnToken, TokenFor, TokenIsSound, TokenIsOwned, Owned, Slots
  <1>2. DigestsHold(Owned) /\ GuardHolds(Owned)
    BY DEF DigestsHold, GuardHolds, Owned, Slots
  <1>3. PairLength(Owned) = n /\ Owned.length = n
    <2>1. DOMAIN Owned.pair.source = 0 .. n - 1
      BY GoodNull DEF Owned, Slots
    <2>2. Cardinality(0 .. n - 1) = n
      <3>1. 0 \in Int /\ n - 1 \in Int /\ ~(0 > n - 1) /\ (n - 1) - 0 + 1 = n
        BY <1>0
      <3> QED
        BY <3>1, FS_Interval
    <2> QED
      BY <2>1, <2>2 DEF PairLength, Owned, Slots
  <1>4. LengthHolds(Owned)
    BY <1>3 DEF LengthHolds
  <1>5. CASE null.name = "circular_shift_v2"
    <2>1. Circular(null) /\ 2 * null.parameter <= n
      BY <1>5, GoodNull DEF Circular
    <2>2. InShifts(s, n, null.parameter)
      BY <2>1 DEF StatesOf, Shifts
    <2>3. SampledShiftAccepts(t, Owned)
      BY <1>1, <1>2, <1>3, <2>1, <2>2 DEF SampledShiftAccepts, Owned, Slots
    <2> QED
      BY <1>1, <1>2, <1>4, <1>5, <2>3 DEF Accepts
  <1>6. CASE null.name = "circular_shift_exact_v1"
    <2>1. Circular(null) /\ null.parameter = 1
      BY <1>6, GoodNull DEF Circular
    <2>2. 0 <= s /\ s < n
      BY <1>0, <2>1 DEF StatesOf, Shifts
    <2>3. ExactShiftAccepts(t, Owned)
      BY <1>1, <1>3, <2>1, <2>2 DEF ExactShiftAccepts, Owned, Slots
    <2> QED
      BY <1>1, <1>2, <1>4, <1>6, <2>3 DEF Accepts
  <1>7. CASE null.name = "block_shuffle_v2"
    <2>1. /\ ~Circular(null) /\ n % null.parameter = 0
          /\ BlockCount(null) \in 2 .. MaxBlockCount
      BY <1>7, GoodNull DEF Circular
    <2>2. /\ Owned.count = n \div null.parameter /\ Owned.parameter = null.parameter
          /\ Owned.count \in 2 .. MaxBlockCount /\ s \in Orders(Owned.count)
      BY <2>1 DEF Owned, Slots, BlockCount, StatesOf
    <2>3. BlockOrderAccepts(t, Owned)
      BY <1>1, <1>2, <1>3, <2>1, <2>2 DEF BlockOrderAccepts
    <2> QED
      BY <1>1, <1>2, <1>4, <1>7, <2>3 DEF Accepts
  <1> QED
    BY <1>0, <1>5, <1>6, <1>7 DEF NullNames

\* The state flagged as the identity leaves the observed source as it is.
LEMMA IdentityChangesNothing ==
    ASSUME Good, NEW s \in StatesOf(null), IsIdentity(null, s)
    PROVE  Transform(null, born.source, s) = born.source
PROOF
  <1> DEFINE n == null.length
  <1>0. n \in Nat \ {0} /\ null.parameter \in Nat \ {0}
    BY GoodNull
  <1>1. CASE Circular(null)
    <2>1. s = 0
      BY <1>1 DEF IsIdentity
    <2> QED
      BY <1>0, <1>1, <2>1, GoodNull, ZeroShiftChangesNothing DEF Transform
  <1>2. CASE ~Circular(null)
    <2>1. n % null.parameter = 0 /\ BlockCount(null) \in 2 .. MaxBlockCount
      BY <1>2, GoodNull
    <2> DEFINE q == BlockCount(null)
    <2>2. q \in Nat /\ q = n \div null.parameter
      BY <2>1, MaxBlockCountAssumption DEF BlockCount
    <2> HIDE DEF q
    <2>3. DOMAIN s = 0 .. q - 1
      BY <1>2 DEF StatesOf, Orders, q
    <2>4. Cardinality(0 .. q - 1) = q
      BY <2>2, FS_Interval
    <2>5. s = Ascending(n \div null.parameter)
      BY <1>2, <2>2, <2>3, <2>4 DEF IsIdentity
    <2> QED
      BY <1>0, <1>2, <2>1, <2>5, GoodNull, OwnOrderChangesNothing DEF Transform
  <1> QED
    BY <1>1, <1>2

\* The mapping works with the parameter of the null of the run.
LEMMA OwnTokenTakesTheNull ==
    ASSUME Good, NEW s, snapshot = OwnToken(s)
    PROVE  Taken = null
PROOF
  <1>1. snapshot.digest[2] = null.parameter
    BY DEF OwnToken, TokenFor, Owned, Slots, ParameterDigest
  <1> QED
    BY <1>1, GoodNull DEF Taken

-----------------------------------------------------------------------------
\* Every step of an undisturbed run

LEMMA UndisturbedStart == CInit => UndisturbedInv
PROOF
  BY DEF CInit, Init, UndisturbedInv, Undisturbed, NullIsIntact, TokenIsIntact, Running, Looping

\* In the loop and just before it the null is the one bound, seen as such by the checkpoints.
LEMMA RunningIsGood ==
    ASSUME Undisturbed, step \in Running
    PROVE  /\ Good /\ bound = Owned /\ SnapshotHolds(bound)
           /\ Replicates \in Nat \ {0} /\ Len(scored) \in Nat
           /\ step # "snapshot" => Unchanged
           /\ step \in Looping => LightHolds
PROOF
  <1>1. Good /\ bound = Owned /\ scored \in Seq(ExactScores)
    BY DEF Undisturbed, NullIsIntact, Good
  <1>2. SnapshotHolds(bound) /\ Replicates \in Nat \ {0} /\ Len(scored) \in Nat
    BY <1>1, OwnedSnapshotHolds, ReplicatesAreMany
  <1>3. step # "snapshot" => Unchanged
    BY <1>2 DEF Undisturbed, NullIsIntact, Unchanged
  <1>4. step \in Looping => LightHolds
    BY DEF Undisturbed, NullIsIntact, LightHolds
  <1> QED
    BY <1>1, <1>2, <1>3, <1>4

LEMMA BindStep ==
    ASSUME Undisturbed, BindForRun
    PROVE  Undisturbed'
PROOF
  <1>1. /\ null' = null /\ born' = born /\ scored' = scored /\ scored = <<>>
        /\ aside' = None /\ operations' = "registered"
    BY DEF Undisturbed, BindForRun, Bind
  <1>2. CASE BindStatus(null) = "ENABLED"
    <2>1. step' = "snapshot" /\ pc' = "bound" /\ bound' = Owned /\ Owned' = Owned
      BY <1>1, <1>2 DEF BindForRun, Bind, Owned
    <2>2. Good /\ Good'
      BY <1>1, <1>2 DEF Undisturbed, Good, Pairs, Series, Targets
    <2>3. Replicates \in Nat \ {0} /\ Replicates' = Replicates
      BY <1>1, <2>2, ReplicatesAreMany DEF Replicates, Enumerated
    <2>4. scored' \in Seq(ExactScores') /\ Len(scored') = 0
      BY <1>1
    <2>5. NullIsIntact'
      BY <1>1, <1>2, <2>1, <2>3, <2>4 DEF NullIsIntact, Running, Looping
    <2>6. TokenIsIntact'
      BY <2>1 DEF TokenIsIntact
    <2> QED
      BY <1>1, <2>1, <2>2, <2>5, <2>6 DEF Undisturbed, Good, Running
  <1>3. CASE BindStatus(null) # "ENABLED"
    <2>1. step' = "terminal" /\ pc' = "disabled"
      BY <1>3 DEF BindForRun, Bind
    <2>2. NullIsIntact' /\ TokenIsIntact'
      BY <2>1 DEF NullIsIntact, TokenIsIntact, Running, Looping
    <2> QED
      BY <1>1, <2>1, <2>2 DEF Undisturbed, Pairs, Series, Targets
  <1> QED
    BY <1>2, <1>3

\* What a step that leaves the null alone owes to the first part of the invariant.
LEMMA NullStaysIntact ==
    ASSUME Undisturbed, step \in Running,
           UNCHANGED <<null, born, bound, aside, operations>>,
           step' \in Running \ {"snapshot"}, entry' = Live,
           step' \in Looping => fingerprint' = LightView(Live),
           scored' \in Seq(ExactScores),
           step' # "recapture" => Len(scored') < Replicates,
           step' \in {"admit", "draw", "drawn"} => pc' = "bound",
           TokenIsIntact'
    PROVE  Undisturbed'
PROOF
  <1>1. /\ null \in Calibrated /\ born \in Pairs /\ BindStatus(null) = "ENABLED"
        /\ bound = Owned /\ aside = None /\ operations = "registered"
    BY DEF Undisturbed, NullIsIntact
  <1>2. Live' = Live /\ Owned' = Owned /\ ExactScores' = ExactScores /\ Replicates' = Replicates
    BY DEF Live, Owned, ExactScores, Replicates, Enumerated
  <1>3. LightView(Live)' = LightView(Live)
    BY <1>2 DEF LightView
  <1>4. Pairs' = Pairs
    BY DEF Pairs, Series, Targets
  <1>5. NullIsIntact'
    BY <1>1, <1>2, <1>3 DEF NullIsIntact
  <1> QED
    BY <1>1, <1>4, <1>5 DEF Undisturbed, Running, Looping

LEMMA SnapshotStep ==
    ASSUME Undisturbed, TakeSnapshot
    PROVE  Undisturbed'
PROOF
  <1>1. step = "snapshot" /\ step \in Running
    BY DEF TakeSnapshot, Running
  <1>2. SnapshotHolds(bound)
    BY <1>1, RunningIsGood
  <1>3. step' = "admit"
    BY <1>2 DEF TakeSnapshot, Check
  <1>4. TokenIsIntact'
    BY <1>3 DEF TokenIsIntact
  <1>5. /\ UNCHANGED <<null, born, bound, aside, operations, scored, pc>>
        /\ entry' = Live
    BY DEF TakeSnapshot, vars
  <1>6. scored \in Seq(ExactScores) /\ Len(scored) < Replicates /\ pc = "bound"
    BY <1>1 DEF Undisturbed, NullIsIntact
  <1> QED
    BY <1>1, <1>3, <1>4, <1>5, <1>6, NullStaysIntact DEF Running, Looping

LEMMA AdmitStep ==
    ASSUME Undisturbed, Admit
    PROVE  Undisturbed'
PROOF
  <1>1. step = "admit" /\ step \in Running
    BY DEF Admit, Running
  <1>2. Unchanged
    BY <1>1, RunningIsGood
  <1>3. step' = "draw"
    BY <1>2 DEF Admit, Check
  <1>4. TokenIsIntact'
    BY <1>3 DEF TokenIsIntact
  <1>5. /\ UNCHANGED <<null, born, bound, aside, operations, scored, entry, pc>>
        /\ fingerprint' = LightView(Live)
    BY DEF Admit, vars
  <1>6. scored \in Seq(ExactScores) /\ Len(scored) < Replicates /\ pc = "bound" /\ entry = Live
    BY <1>1 DEF Undisturbed, NullIsIntact
  <1> QED
    BY <1>1, <1>3, <1>4, <1>5, <1>6, NullStaysIntact DEF Running, Looping

\* In the loop the checkpoints have the null as it is and scores are exact so far.
LEMMA LoopingFacts ==
    ASSUME Undisturbed, step \in Looping
    PROVE  /\ step \in Running /\ entry = Live /\ fingerprint = LightView(Live)
           /\ scored \in Seq(ExactScores)
           /\ step # "recapture" => Len(scored) < Replicates
           /\ step \in {"draw", "drawn"} => pc = "bound"
PROOF
  BY DEF Undisturbed, NullIsIntact, Looping, Running

LEMMA DrawStep ==
    ASSUME Undisturbed, DrawToken
    PROVE  Undisturbed'
PROOF
  <1>1. step = "draw" /\ step \in Looping /\ step \in Running
    BY DEF DrawToken, Looping, Running
  <1>2. HandedOut # {} /\ Drawable(null, bound) \subseteq StatesOf(null)
    BY <1>1, RunningIsGood, LoopingFacts, HandedOutAreStates
  <1>3. step' = "drawn" /\ Draw
    BY <1>2 DEF DrawToken, Check
  <1>4. UNCHANGED <<null, born, bound, aside, operations, scored, entry, fingerprint, pc>>
    BY <1>3 DEF DrawToken, Draw
  <1>5. PICK s \in Drawable(null, bound) :
            token' = TokenFor(null, bound.semantic, bound.plan, bound.digest, bound.owner, s)
    BY <1>3 DEF Draw
  <1>6. bound = Owned /\ Owned.semantic = "here" /\ Owned.plan = "here"
    BY <1>1, RunningIsGood DEF Owned, Slots
  <1>7. s \in StatesOf(null) /\ token' = OwnToken(s)
    BY <1>2, <1>5, <1>6 DEF OwnToken
  <1>8. s \in StatesOf(null') /\ token' = OwnToken(s)'
    BY <1>4, <1>7 DEF OwnToken, Owned
  <1>9. TokenIsIntact'
    BY <1>3, <1>8 DEF TokenIsIntact, Carries
  <1> QED
    BY <1>1, <1>3, <1>4, <1>9, LoopingFacts, NullStaysIntact DEF Running, Looping

\* A token in flight is that of a state, and passes the checks of apply and the calibrator.
LEMMA InFlight ==
    ASSUME Undisturbed, step \in {"drawn", "apply", "applied", "evaluate"}
    PROVE  /\ step \in Looping /\ step \in Running /\ Good /\ bound = Owned
           /\ \E s \in StatesOf(null) : Carries(s)
           /\ TokenHolds(token) /\ LightHolds
           /\ Accepts(token, bound) /\ GuardHolds(bound) /\ LengthHolds(bound)
PROOF
  <1>1. step \in Looping /\ step \in Running
    BY DEF Looping, Running
  <1>2. Good /\ bound = Owned /\ LightHolds /\ entry = Live
    BY <1>1, RunningIsGood, LoopingFacts
  <1>3. PICK s \in StatesOf(null) : Carries(s)
    BY DEF Undisturbed, TokenIsIntact
  <1>4. token = OwnToken(s) /\ entry.slots = Owned
    BY <1>2, <1>3 DEF Carries, Live
  <1>5. TokenHolds(token)
    BY <1>2, <1>4, OwnTokenIsAccepted DEF TokenHolds
  <1>6. Accepts(token, bound) /\ GuardHolds(bound) /\ LengthHolds(bound)
    BY <1>2, <1>4, OwnTokenIsAccepted
  <1> QED
    BY <1>1, <1>2, <1>3, <1>5, <1>6

LEMMA CheckTokenStep ==
    ASSUME Undisturbed, CheckToken
    PROVE  Undisturbed'
PROOF
  <1>1. step = "drawn"
    BY DEF CheckToken
  <1>2. TokenHolds(token) /\ LightHolds /\ step \in Looping /\ step \in Running
    BY <1>1, InFlight
  <1>3. step' = "apply"
    BY <1>2 DEF CheckToken, Check
  <1>4. /\ UNCHANGED <<null, born, bound, aside, operations, scored, entry, fingerprint, token, pc>>
        /\ sampled' = token
    BY DEF CheckToken, vars
  <1>5. PICK s \in StatesOf(null) : Carries(s)
    BY <1>1, InFlight
  <1>6. token' = OwnToken(s)' /\ s \in StatesOf(null') /\ pc' = "bound"
    BY <1>1, <1>2, <1>4, <1>5, LoopingFacts DEF Carries, OwnToken, Owned
  <1>7. TokenIsIntact'
    BY <1>3, <1>4, <1>6 DEF TokenIsIntact, Carries
  <1> QED
    BY <1>1, <1>2, <1>3, <1>4, <1>7, LoopingFacts, NullStaysIntact DEF Running, Looping

LEMMA ApplyStep ==
    ASSUME Undisturbed, Apply
    PROVE  Undisturbed'
PROOF
  <1>1. step = "apply"
    BY DEF Apply
  <1>2. /\ Good /\ bound = Owned /\ step \in Looping /\ step \in Running
        /\ Accepts(token, bound) /\ GuardHolds(bound) /\ LengthHolds(bound)
    BY <1>1, InFlight
  <1>3. PICK s \in StatesOf(null) : Carries(s)
    BY <1>1, InFlight
  <1>4. /\ token = OwnToken(s) /\ sampled = token
        /\ pc \in {"mapping", "mapped"} => golden = born /\ snapshot = token
        /\ pc = "mapped" => mapped = Moved(s)
    BY <1>1, <1>3 DEF Carries
  <1>5. UNCHANGED <<null, born, bound, aside, operations, scored, entry, fingerprint, token, sampled>>
    BY DEF Apply, Prepare, Map, Finalize
  <1>6. token' = OwnToken(s)' /\ s \in StatesOf(null') /\ Moved(s)' = Moved(s)
    BY <1>4, <1>5 DEF OwnToken, Owned, Moved
  <1>7. CASE Prepare
    <2>1. pc' = "mapping" /\ golden' = born /\ snapshot' = token
      BY <1>2, <1>7 DEF Prepare, Owned, Slots
    <2>2. step' = "apply"
      BY <2>1 DEF Apply
    <2>3. TokenIsIntact'
      BY <1>4, <1>5, <1>6, <2>1, <2>2 DEF TokenIsIntact, Carries
    <2> QED
      BY <1>2, <1>1, <1>5, <2>2, <2>3, LoopingFacts, NullStaysIntact DEF Running, Looping
  <1>8. CASE Map
    <2>1. golden = born /\ snapshot = token /\ null \notin Disturbed /\ Taken = null
      BY <1>2, <1>4, <1>8, GoodNull, OwnTokenTakesTheNull DEF Map
    <2>2. token.state = s
      BY <1>4 DEF OwnToken, TokenFor
    <2>3. pc' = "mapped" /\ mapped' = Moved(s) /\ golden' = golden /\ snapshot' = snapshot
      BY <1>8, <2>1, <2>2 DEF Map, Moved
    <2>4. step' = "apply"
      BY <2>3 DEF Apply
    <2>5. TokenIsIntact'
      BY <1>4, <1>5, <1>6, <2>1, <2>3, <2>4 DEF TokenIsIntact, Carries
    <2> QED
      BY <1>2, <1>1, <1>5, <2>4, <2>5, LoopingFacts, NullStaysIntact DEF Running, Looping
  <1>9. CASE Finalize
    <2>1. golden = born /\ snapshot = token /\ mapped = Moved(s) /\ Taken = null
      BY <1>2, <1>4, <1>9, OwnTokenTakesTheNull DEF Finalize
    <2>2. token.state = s /\ token.identity = IsIdentity(null, s)
      BY <1>4 DEF OwnToken, TokenFor
    <2>3. MappingHolds(mapped)
      BY <2>1, <2>2 DEF MappingHolds, Moved
    <2>4. token.identity => Moved(s).source = born.source
      BY <1>2, <2>2, IdentityChangesNothing DEF Moved
    <2>5. /\ pc' = "applied"
          /\ result' = [pair |-> mapped, token |-> snapshot,
                        changed |-> mapped.source # golden.source,
                        equivalent |-> ~snapshot.identity /\ ~(mapped.source # golden.source)]
      BY <1>9, <2>1, <2>3, <2>4 DEF Finalize
    <2>6. step' = "applied"
      BY <2>5 DEF Apply
    <2>7. result' = [pair |-> Moved(s), token |-> token,
                     changed |-> Moved(s).source # born.source,
                     equivalent |-> ~token.identity /\ Moved(s).source = born.source]
      BY <2>1, <2>5, Zenon
    <2>8. TokenIsIntact'
      BY <1>4, <1>5, <1>6, <2>6, <2>7 DEF TokenIsIntact, Carries
    <2> QED
      BY <1>2, <1>1, <1>5, <2>6, <2>8, LoopingFacts, NullStaysIntact DEF Running, Looping
  <1> QED
    BY <1>7, <1>8, <1>9 DEF Apply

LEMMA TransformStep ==
    ASSUME Undisturbed, CheckTransform
    PROVE  Undisturbed'
PROOF
  <1>1. step = "applied"
    BY DEF CheckTransform
  <1>2. TokenHolds(token) /\ LightHolds /\ step \in Looping /\ step \in Running
    BY <1>1, InFlight
  <1>3. PICK s \in StatesOf(null) : Carries(s)
    BY <1>1, InFlight
  <1>4. /\ token = OwnToken(s) /\ sampled = token
        /\ result = [pair |-> Moved(s), token |-> token,
                     changed |-> Moved(s).source # born.source,
                     equivalent |-> ~token.identity /\ Moved(s).source = born.source]
    BY <1>1, <1>3 DEF Carries
  <1>5. result.token = token /\ result.pair = Moved(s) /\ Moved(s).target = born.target
    BY <1>4 DEF Moved
  <1>6. result.changed = (Moved(s).source # born.source)
    BY <1>4
  <1>7. TransformHolds(result)
    BY <1>2, <1>4, <1>5, <1>6 DEF TransformHolds
  <1>8. step' = "evaluate"
    BY <1>2, <1>7 DEF CheckTransform, Check
  <1>9. UNCHANGED <<null, born, bound, aside, operations, scored, entry, fingerprint, token,
                    sampled, result>>
    BY DEF CheckTransform, vars
  <1>10. token' = OwnToken(s)' /\ s \in StatesOf(null') /\ Moved(s)' = Moved(s)
    BY <1>4, <1>9 DEF OwnToken, Owned, Moved
  <1>11. TokenIsIntact'
    BY <1>4, <1>8, <1>9, <1>10 DEF TokenIsIntact, Carries
  <1> QED
    BY <1>2, <1>1, <1>8, <1>9, <1>11, LoopingFacts, NullStaysIntact DEF Running, Looping

LEMMA EvaluateStep ==
    ASSUME Undisturbed, Evaluate
    PROVE  Undisturbed'
PROOF
  <1>1. step = "evaluate"
    BY DEF Evaluate
  <1>2. TokenHolds(token) /\ LightHolds /\ step \in Looping /\ step \in Running
    BY <1>1, InFlight
  <1>3. PICK s \in StatesOf(null) : Carries(s)
    BY <1>1, InFlight
  <1>4. sampled = token /\ token.state = s /\ result.pair.source = Transform(null, born.source, s)
    BY <1>1, <1>3 DEF Carries, OwnToken, TokenFor, Moved
  <1>5. step' = IF Len(scored) + 1 = Replicates THEN "recapture" ELSE "draw"
    BY <1>2, <1>4 DEF Evaluate, Check
  <1>6. /\ UNCHANGED <<null, born, bound, aside, operations, entry, fingerprint>>
        /\ pc' = "bound"
        /\ scored' = Append(scored, [state |-> s, source |-> Transform(null, born.source, s)])
    BY <1>4 DEF Evaluate
  <1>7. [state |-> s, source |-> Transform(null, born.source, s)] \in ExactScores
    BY DEF ExactScores
  <1>8. scored \in Seq(ExactScores) /\ Len(scored) < Replicates /\ Replicates \in Nat
    BY <1>1, <1>2, RunningIsGood, LoopingFacts
  <1>9. scored' \in Seq(ExactScores) /\ Len(scored') = Len(scored) + 1
    BY <1>6, <1>7, <1>8
  <1>10. step' # "recapture" => Len(scored') < Replicates
    BY <1>5, <1>8, <1>9
  <1>11. TokenIsIntact'
    BY <1>5 DEF TokenIsIntact
  <1> QED
    BY <1>2, <1>5, <1>6, <1>9, <1>10, <1>11, LoopingFacts, NullStaysIntact DEF Running, Looping

LEMMA RecaptureStep ==
    ASSUME Undisturbed, Recapture
    PROVE  Undisturbed'
PROOF
  <1>1. step = "recapture" /\ step \in Looping /\ step \in Running
    BY DEF Recapture, Looping, Running
  <1>2. Unchanged /\ LightHolds
    BY <1>1, RunningIsGood
  <1>3. step' = "closed" /\ UNCHANGED <<null, born>>
    BY <1>2 DEF Recapture, Check, vars
  <1> QED
    BY <1>3 DEF Undisturbed, NullIsIntact, TokenIsIntact, Running, Looping, Pairs, Series, Targets

-----------------------------------------------------------------------------
\* Every step

LEMMA CalibratorStep ==
    ASSUME UndisturbedInv,
           \/ BindForRun \/ TakeSnapshot \/ Admit \/ DrawToken \/ CheckToken \/ Apply
           \/ CheckTransform \/ Evaluate \/ Recapture
    PROVE  UndisturbedInv'
PROOF
  <1>1. drifts' = drifts /\ step # "direct"
    BY DEF BindForRun, Bind, TakeSnapshot, Admit, DrawToken, Draw, CheckToken, Apply, Prepare,
       Map, Finalize, CheckTransform, Evaluate, Recapture, vars
  <1>2. CASE drifts = 0
    <2>1. Undisturbed
      BY <1>1, <1>2 DEF UndisturbedInv
    <2>2. Undisturbed'
      BY <2>1, BindStep, SnapshotStep, AdmitStep, DrawStep, CheckTokenStep, ApplyStep,
         TransformStep, EvaluateStep, RecaptureStep
    <2> QED
      BY <1>1, <2>2 DEF UndisturbedInv
  <1>3. CASE drifts # 0
    BY <1>1, <1>3 DEF UndisturbedInv
  <1> QED
    BY <1>2, <1>3

LEMMA UndisturbedStep == UndisturbedInv /\ [CNext]_cvars => UndisturbedInv'
PROOF
  <1> SUFFICES ASSUME UndisturbedInv, [CNext]_cvars
               PROVE  UndisturbedInv'
    OBVIOUS
  <1>1. CASE step = "direct" /\ Next /\ UNCHANGED watch
    <2>1. step' = "direct"
      BY <1>1 DEF watch
    <2>2. drifts' \in Nat
      BY <1>1 DEF UndisturbedInv, Next, Bind, Draw, Receive, Drift, Prepare, Map, Finalize,
         Finished, vars
    <2> QED
      BY <2>1, <2>2 DEF UndisturbedInv
  <1>2. CASE Write
    <2>1. drifts \in Nat /\ drifts' = drifts + 1
      BY <1>2 DEF UndisturbedInv, Write
    <2> QED
      BY <2>1 DEF UndisturbedInv
  <1>3. CASE Over \/ UNCHANGED cvars
    <2>1. UNCHANGED cvars
      BY <1>3 DEF Over
    <2>2. Undisturbed => Undisturbed'
      BY <2>1 DEF cvars, vars, watch, Undisturbed, NullIsIntact, TokenIsIntact, Carries, Running,
         Looping, Live, LightView, Owned, OwnToken, Moved, ExactScores, Replicates, Enumerated,
         Pairs, Series, Targets
    <2> QED
      BY <2>1, <2>2 DEF UndisturbedInv, cvars, vars, watch
  <1> QED
    BY <1>1, <1>2, <1>3, CalibratorStep DEF CNext

\* A run nobody interferes with passes every snapshot and every checkpoint, for every null,
\* pair and number of replicates: bind, the drawing of tokens and apply on one side and the
\* calibrator's own arithmetic of slots and digests on the other agree at every length
\* (calibrate_selected_family).
THEOREM UndisturbedRunEndsWell == CSpec => []UndisturbedRunIsNotRefused
PROOF
  <1>1. UndisturbedInv => UndisturbedRunIsNotRefused
    BY DEF UndisturbedInv, Undisturbed, Running, Looping, UndisturbedRunIsNotRefused
  <1> QED
    BY <1>1, UndisturbedStart, UndisturbedStep, PTL DEF CSpec

\* Its scores are those of the exact transforms of the observed pair, each under a state of
\* the null (_execute_replicates).
THEOREM UndisturbedScoresAreExact ==
    CSpec => [](drifts = 0 /\ step \in Looping => scored \in Seq(ExactScores))
PROOF
  <1>1. UndisturbedInv => (drifts = 0 /\ step \in Looping => scored \in Seq(ExactScores))
    BY DEF UndisturbedInv, Undisturbed, NullIsIntact, Running, Looping
  <1> QED
    BY <1>1, UndisturbedStart, UndisturbedStep, PTL DEF CSpec

-----------------------------------------------------------------------------
\* What apply and the checkpoints leave of the writes

\* The four slots that say whose a bound null or a token is.
Identity(r) == <<r.semantic, r.plan, r.digest, r.owner>>

OwnIdentity == Identity(Owned)

\* The owner digest is one of the other three: a single write to the four never keeps it so.
Coherent(r) == \E length : r.owner = OwnerDigest(r.semantic, r.plan, r.digest, length)

IsSlots(b) ==
    /\ b = [pair |-> b.pair, parameter |-> b.parameter, length |-> b.length, count |-> b.count,
            states |-> b.states, semantic |-> b.semantic, plan |-> b.plan, digest |-> b.digest,
            owner |-> b.owner, guard |-> b.guard]
    /\ b.pair \in Pairs
    /\ b.parameter \in Nat

IsToken(t) ==
    /\ t = [name |-> t.name, semantic |-> t.semantic, plan |-> t.plan, digest |-> t.digest,
            owner |-> t.owner, identity |-> t.identity, state |-> t.state]
    /\ t.name = null.name /\ Circular(null) => t.state \in Int

\* How many of the pair and its guard differ from the observed pair.
Distance ==
    (IF bound.pair = born THEN 0 ELSE 1) + (IF bound.guard = ContentGuard(born) THEN 0 ELSE 1)

\* Enough was written to mislead apply, and to put back what is put back by now.
Misled == drifts + Distance >= 4

IsBound == pc \notin {"unbound", "disabled"}

BoundOK ==
    /\ null \in Nulls /\ born \in Pairs /\ drifts \in Nat
    /\ ~IsBound => token = None /\ scored = <<>> /\ drifts = 0 /\ aside = None
    /\ IsBound =>
           /\ BindStatus(null) = "ENABLED"
           /\ IsSlots(bound)
           /\ aside # None => aside \in Pairs
           /\ Distance <= drifts
           /\ drifts = 0 => bound = Owned

\* With one write at most, an accepted token is one of this null and run.
Clear ==
    \/ Identity(bound) = OwnIdentity
    \/ Identity(token) = OwnIdentity
    \/ Coherent(token) /\ ~Coherent(bound)

TokenOK ==
    /\ token # None => IsToken(token)
    /\ step = "direct" /\ IsBound /\ token = None /\ drifts <= 1 => Identity(bound) = OwnIdentity
    /\ step = "direct" /\ token # None /\ drifts = 0 => Coherent(token)
    /\ step = "apply" /\ pc = "bound" /\ drifts = 0 => Identity(token) = OwnIdentity
    /\ step \in {"direct", "apply"} /\ pc = "bound" /\ token # None /\ drifts <= 1 => Clear

CheckpointOK ==
    /\ step \in {"direct", "bind", "terminal", "closed", "refused"} \cup Running
    /\ step \in {"admit"} \cup Looping => Identity(entry.slots) = OwnIdentity
    /\ step \in {"apply", "applied", "evaluate"} => Identity(sampled) = OwnIdentity
    /\ step = "bind" => ~IsBound
    /\ step \in Running \cup {"closed"} => IsBound
    /\ step \in {"applied", "evaluate"} => pc = "applied"
    /\ step = "evaluate" => result.token = sampled
    /\ step = "closed" => Distance = 0

TransformOK ==
    pc \in {"mapping", "mapped", "applied"} =>
        /\ golden = born \/ Misled
        /\ Identity(snapshot) = OwnIdentity =>
               snapshot.state \in StatesOf(null) /\ snapshot = OwnToken(snapshot.state)
        /\ drifts <= 1 => Identity(snapshot) = OwnIdentity
        /\ pc = "applied" =>
               /\ result.token = snapshot
               /\ result.pair.source = Transform(Taken, golden.source, snapshot.state)
               /\ result.pair.target = golden.target

ScoresOK == IsBound => scored \in Seq(ExactScores) \/ Misled

Traced == BoundOK /\ TokenOK /\ CheckpointOK /\ TransformOK /\ ScoresOK

-----------------------------------------------------------------------------
\* Writes

\* Another value in one slot of a bound null leaves it one, with at most one of the pair and
\* its guard written.
LEMMA DriftedSlots ==
    ASSUME null \in Nulls, IsSlots(bound), NEW b \in BoundDrifts
    PROVE  /\ IsSlots(b)
           /\ b.pair = bound.pair \/ b.guard = bound.guard
PROOF
  <1>1. null.length \in Nat \ {0}
    BY BoundNullAssumption
  <1>2. CASE \E p \in Pairs : b = [bound EXCEPT !.pair = p]
    BY <1>2 DEF IsSlots
  <1>3. CASE \E k \in 1 .. null.length : b = [bound EXCEPT !.parameter = k]
    BY <1>1, <1>3 DEF IsSlots
  <1>4. CASE \E k : b = [bound EXCEPT !.length = k]
    BY <1>4 DEF IsSlots
  <1>5. CASE \E k : b = [bound EXCEPT !.count = k]
    BY <1>5 DEF IsSlots
  <1>6. CASE \E k : b = [bound EXCEPT !.states = k]
    BY <1>6 DEF IsSlots
  <1>7. CASE b = [bound EXCEPT !.semantic = "elsewhere"]
    BY <1>7 DEF IsSlots
  <1>8. CASE b = [bound EXCEPT !.plan = "elsewhere"]
    BY <1>8 DEF IsSlots
  <1>9. CASE b = [bound EXCEPT !.digest = OtherDigest]
    BY <1>9 DEF IsSlots
  <1>10. CASE \E o : b = [bound EXCEPT !.owner = o]
    BY <1>10 DEF IsSlots
  <1>11. CASE \E p \in Pairs : b = [bound EXCEPT !.guard = ContentGuard(p)]
    BY <1>11 DEF IsSlots
  <1> QED
    BY <1>2, <1>3, <1>4, <1>5, <1>6, <1>7, <1>8, <1>9, <1>10, <1>11 DEF BoundDrifts

\* What bind stores belongs together, and no single write to it leaves another identity that
\* does.
LEMMA OwnedIsCoherent ==
    /\ Coherent(Owned)
    /\ OwnIdentity = <<"here", "here", Owned.digest, Owned.owner>>
    /\ Owned.digest = ParameterDigest(null.name, null.parameter)
    /\ Owned.owner = OwnerDigest("here", "here", Owned.digest, null.length)
PROOF
  BY DEF Coherent, Owned, Slots, OwnIdentity, Identity

LEMMA DriftedOwned ==
    ASSUME null \in Nulls, bound = Owned, IsSlots(bound), NEW b \in BoundDrifts
    PROVE  Identity(b) = OwnIdentity \/ ~Coherent(b)
PROOF
  <1>1. /\ bound.semantic = "here" /\ bound.plan = "here"
        /\ bound.digest = ParameterDigest(null.name, null.parameter)
        /\ bound.owner = OwnerDigest("here", "here", bound.digest, null.length)
        /\ OwnIdentity = Identity(bound)
    BY DEF Owned, Slots, OwnIdentity, Identity
  <1>2. null.parameter \in Nat
    BY BoundNullAssumption
  <1>3. CASE \E p : b = [bound EXCEPT !.pair = p]
    BY <1>1, <1>3 DEF IsSlots, Identity
  <1>4. CASE \E k : b = [bound EXCEPT !.parameter = k]
    BY <1>1, <1>4 DEF IsSlots, Identity
  <1>5. CASE \E k : b = [bound EXCEPT !.length = k]
    BY <1>1, <1>5 DEF IsSlots, Identity
  <1>6. CASE \E k : b = [bound EXCEPT !.count = k]
    BY <1>1, <1>6 DEF IsSlots, Identity
  <1>7. CASE \E k : b = [bound EXCEPT !.states = k]
    BY <1>1, <1>7 DEF IsSlots, Identity
  <1>8. CASE \E g : b = [bound EXCEPT !.guard = g]
    BY <1>1, <1>8 DEF IsSlots, Identity
  <1>9. CASE b = [bound EXCEPT !.semantic = "elsewhere"]
    <2>1. b.semantic = "elsewhere" /\ b.owner = bound.owner
      BY <1>9 DEF IsSlots
    <2> QED
      BY <1>1, <2>1 DEF Coherent, OwnerDigest
  <1>10. CASE b = [bound EXCEPT !.plan = "elsewhere"]
    <2>1. b.plan = "elsewhere" /\ b.owner = bound.owner
      BY <1>10 DEF IsSlots
    <2> QED
      BY <1>1, <2>1 DEF Coherent, OwnerDigest
  <1>11. CASE b = [bound EXCEPT !.digest = OtherDigest]
    <2>1. b.digest = OtherDigest /\ b.owner = bound.owner
      BY <1>11 DEF IsSlots
    <2>2. OtherDigest # bound.digest
      BY <1>1, <1>2 DEF OtherDigest, ParameterDigest
    <2> QED
      BY <1>1, <2>1, <2>2 DEF Coherent, OwnerDigest
  <1>12. CASE b = [bound EXCEPT !.owner =
                       OwnerDigest("elsewhere", bound.plan, bound.digest, bound.length)]
    <2>1. /\ b.owner = OwnerDigest("elsewhere", bound.plan, bound.digest, bound.length)
          /\ b.semantic = bound.semantic
      BY <1>12 DEF IsSlots
    <2> QED
      BY <1>1, <2>1 DEF Coherent, OwnerDigest
  <1> QED
    BY <1>3, <1>4, <1>5, <1>6, <1>7, <1>8, <1>9, <1>10, <1>11, <1>12 DEF BoundDrifts

LEMMA DriftedToken ==
    ASSUME null \in Nulls, IsToken(token), NEW t \in TokenDrifts
    PROVE  IsToken(t)
PROOF
  <1>1. null.length \in Nat \ {0}
    BY BoundNullAssumption
  <1>2. CASE \E s \in AnyState : t = [token EXCEPT !.state = s]
    <2>1. PICK s \in AnyState : t = [token EXCEPT !.state = s]
      BY <1>2
    <2>2. Circular(null) => s \in Int
      BY <1>1 DEF AnyState
    <2> QED
      BY <2>1, <2>2 DEF IsToken
  <1>3. CASE t = [token EXCEPT !.identity = ~token.identity]
    BY <1>3 DEF IsToken
  <1>4. CASE t = [token EXCEPT !.semantic = "elsewhere"]
    BY <1>4 DEF IsToken
  <1>5. CASE t = [token EXCEPT !.plan = "elsewhere"]
    BY <1>5 DEF IsToken
  <1>6. CASE t = [token EXCEPT !.digest = OtherDigest]
    BY <1>6 DEF IsToken
  <1>7. CASE \E o : t = [token EXCEPT !.owner = o]
    BY <1>7 DEF IsToken
  <1> QED
    BY <1>2, <1>3, <1>4, <1>5, <1>6, <1>7 DEF TokenDrifts

\* What stands in the slots of a bound null after another write, and where its pair is.
LEMMA WrittenNull ==
    ASSUME Traced, Write
    PROVE  /\ IsBound /\ drifts' = drifts + 1
           /\ IsSlots(bound')
           /\ aside' # None => aside' \in Pairs
           /\ bound'.pair = bound.pair \/ bound'.guard = bound.guard
           /\ token' # None => IsToken(token')
           /\ bound = Owned => Identity(bound') = OwnIdentity \/ ~Coherent(bound')
           /\ bound' = bound \/ token' = token
           /\ UNCHANGED <<null, born, pc, own, golden, snapshot, mapped, result>>
           /\ UNCHANGED <<step, entry, fingerprint, sampled, scored>>
PROOF
  <1>1. step \in Running
    BY DEF Write, Traced, CheckpointOK
  <1>2. IsBound
    BY <1>1 DEF Traced, CheckpointOK
  <1>3. null \in Nulls /\ IsSlots(bound) /\ (aside # None => aside \in Pairs)
    BY <1>2 DEF Traced, BoundOK
  <1>4. token # None => IsToken(token)
    BY DEF Traced, TokenOK
  <1>5. /\ drifts' = drifts + 1
        /\ UNCHANGED <<null, born, pc, own, golden, snapshot, mapped, result>>
        /\ UNCHANGED <<step, entry, fingerprint, sampled, scored>>
    BY DEF Write
  <1>6. CASE WriteSlot
    <2>1. bound' \in BoundDrifts /\ token' = token /\ aside' = aside
      BY <1>6 DEF WriteSlot
    <2> QED
      BY <1>2, <1>3, <1>4, <1>5, <2>1, DriftedSlots, DriftedOwned
  <1>7. CASE SwapPair
    <2>1. PICK p \in Pairs : bound' = [bound EXCEPT !.pair = p]
      BY <1>3, <1>7 DEF SwapPair
    <2>2. token' = token
      BY <1>7 DEF SwapPair
    <2>3. aside' # None => aside' \in Pairs
      BY <1>3, <1>7 DEF SwapPair, IsSlots
    <2>4. IsSlots(bound') /\ bound'.guard = bound.guard /\ Identity(bound') = Identity(bound)
      BY <1>3, <2>1 DEF IsSlots, Identity
    <2> QED
      BY <1>2, <1>4, <1>5, <2>2, <2>3, <2>4 DEF OwnIdentity
  <1>8. CASE ReplaceOperation
    <2>1. bound' = bound /\ token' = token /\ aside' = aside
      BY <1>8 DEF ReplaceOperation
    <2> QED
      BY <1>2, <1>3, <1>4, <1>5, <2>1 DEF OwnIdentity
  <1>9. CASE WriteToken
    <2>1. bound' = bound /\ aside' = aside /\ token # None /\ token' \in TokenDrifts
      BY <1>9 DEF WriteToken
    <2>2. IsToken(token')
      BY <1>3, <1>4, <2>1, DriftedToken
    <2> QED
      BY <1>2, <1>3, <1>5, <2>1, <2>2 DEF OwnIdentity
  <1> QED
    BY <1>6, <1>7, <1>8, <1>9 DEF Write

\* The same for the one kind of write that befalls a null without a calibrator.
LEMMA DriftedNull ==
    ASSUME Traced, Drift
    PROVE  /\ IsBound /\ drifts' = drifts + 1
           /\ IsSlots(bound')
           /\ bound'.pair = bound.pair \/ bound'.guard = bound.guard
           /\ token # None /\ IsToken(token')
           /\ bound = Owned => Identity(bound') = OwnIdentity \/ ~Coherent(bound')
           /\ bound' = bound \/ token' = token
           /\ UNCHANGED <<null, born, pc, own, golden, snapshot, mapped, result>>
PROOF
  <1>1. /\ pc \in {"bound", "mapping"} /\ token # None /\ drifts' = drifts + 1
        /\ UNCHANGED <<null, born, pc, own, golden, snapshot, mapped, result>>
        /\ \/ bound' \in BoundDrifts /\ UNCHANGED token
           \/ token' \in TokenDrifts /\ UNCHANGED bound
    BY DEF Drift
  <1>2. IsBound
    BY <1>1 DEF IsBound
  <1>3. null \in Nulls /\ IsSlots(bound) /\ IsToken(token)
    BY <1>1, <1>2 DEF Traced, BoundOK, TokenOK
  <1>4. CASE bound' \in BoundDrifts /\ UNCHANGED token
    BY <1>1, <1>2, <1>3, <1>4, DriftedSlots, DriftedOwned
  <1>5. CASE token' \in TokenDrifts /\ UNCHANGED bound
    BY <1>1, <1>2, <1>3, <1>5, DriftedToken DEF OwnIdentity
  <1> QED
    BY <1>1, <1>4, <1>5

\* A write moves the pair and its guard together by one at most.
LEMMA DistanceMovesByOne ==
    ASSUME IsSlots(bound), bound'.pair = bound.pair \/ bound'.guard = bound.guard,
           born' = born, drifts \in Nat, drifts' = drifts + 1
    PROVE  /\ Distance \in 0 .. 2 /\ Distance' \in 0 .. 2
           /\ Distance' <= Distance + 1 /\ Distance <= Distance' + 1
           /\ Misled => Misled'
PROOF
  <1>1. /\ Distance \in 0 .. 2 /\ Distance' \in 0 .. 2
        /\ Distance' <= Distance + 1 /\ Distance <= Distance' + 1
    BY DEF Distance, ContentGuard
  <1>2. PICK x \in 0 .. 2, y \in 0 .. 2 : x = Distance /\ y = Distance'
    BY <1>1
  <1>3. (Misled <=> drifts + x >= 4) /\ (Misled' <=> drifts' + y >= 4)
    BY <1>2 DEF Misled
  <1>4. x <= y + 1
    BY <1>1, <1>2
  <1>5. drifts + x >= 4 => drifts' + y >= 4
    BY <1>4
  <1> QED
    BY <1>1, <1>3, <1>5

-----------------------------------------------------------------------------
\* Tokens

\* What any bound null of the kind hands out is a token with the ownership of its slots.
LEMMA TokensAreTokens ==
    ASSUME NEW nl, NEW semantic, NEW plan, NEW digest, NEW owner, NEW state,
           nl.name = null.name /\ Circular(null) => state \in Int
    PROVE  LET t == TokenFor(nl, semantic, plan, digest, owner, state)
           IN  IsToken(t) /\ Identity(t) = <<semantic, plan, digest, owner>>
PROOF
  BY DEF TokenFor, IsToken, Identity

LEMMA DrawableAreIntegers ==
    ASSUME NEW nl, nl.name \in NullNames, nl.name = null.name, Circular(null),
           NEW b, b.parameter \in Nat, NEW s \in Drawable(nl, b)
    PROVE  s \in Int
PROOF
  <1>1. nl.name # "block_shuffle_v2"
    BY DEF Circular
  <1>2. CASE nl.name = "circular_shift_v2"
    <2>1. PICK k \in 0 .. b.states - 1 : s = ShiftAt(b.parameter, k)
      BY <1>2 DEF Drawable, SampledShifts
    <2> QED
      BY <2>1 DEF ShiftAt
  <1>3. CASE nl.name = "circular_shift_exact_v1"
    <2>1. s = 0 \/ \E k \in 0 .. b.states - 2 : s = k + 1
      BY <1>3 DEF Drawable, EnumeratedShifts
    <2> QED
      BY <2>1
  <1> QED
    BY <1>1, <1>2, <1>3 DEF NullNames

LEMMA DrawnToken ==
    ASSUME Traced, Draw
    PROVE  /\ IsBound /\ IsToken(token') /\ Identity(token') = Identity(bound)
           /\ UNCHANGED <<null, born, pc, bound, golden, snapshot, mapped, result, drifts>>
PROOF
  <1>1. IsBound /\ UNCHANGED <<null, born, pc, bound, golden, snapshot, mapped, result, drifts>>
    BY DEF Draw, IsBound
  <1>2. null.name \in NullNames /\ bound.parameter \in Nat
    BY <1>1, BoundNullAssumption DEF Traced, BoundOK, IsSlots
  <1>3. PICK s \in Drawable(null, bound) :
            token' = TokenFor(null, bound.semantic, bound.plan, bound.digest, bound.owner, s)
    BY DEF Draw
  <1>4. Circular(null) => s \in Int
    BY <1>2, DrawableAreIntegers
  <1> DEFINE t == TokenFor(null, bound.semantic, bound.plan, bound.digest, bound.owner, s)
  <1>5. IsToken(t) /\ Identity(t) = Identity(bound)
    <2>1. IsToken(t) /\ Identity(t) = <<bound.semantic, bound.plan, bound.digest, bound.owner>>
      BY <1>4, TokensAreTokens
    <2> QED
      BY <2>1 DEF Identity
  <1> HIDE DEF t
  <1>6. token' = t
    BY <1>3 DEF t
  <1> QED
    BY <1>1, <1>5, <1>6

LEMMA ReceivedToken ==
    ASSUME Traced, Receive
    PROVE  /\ IsBound /\ IsToken(token') /\ Coherent(token')
           /\ UNCHANGED <<null, born, pc, bound, golden, snapshot, mapped, result, drifts>>
PROOF
  <1>1. IsBound /\ UNCHANGED <<null, born, pc, bound, golden, snapshot, mapped, result, drifts>>
    BY DEF Receive, IsBound
  <1>2. PICK nl \in Strangers, run \in {"here", "elsewhere"} :
          \E s \in Drawable(nl, Slots(nl, born, run)) :
            LET d == ParameterDigest(nl.name, nl.parameter)
            IN  token' = TokenFor(nl, run, run, d, OwnerDigest(run, run, d, nl.length), s)
    BY DEF Receive
  <1> DEFINE d == ParameterDigest(nl.name, nl.parameter)
             o == OwnerDigest(run, run, d, nl.length)
  <1>3. PICK s \in Drawable(nl, Slots(nl, born, run)) : token' = TokenFor(nl, run, run, d, o, s)
    BY <1>2
  <1>4. nl.name \in NullNames /\ nl.parameter \in Nat
    BY BoundNullAssumption
  <1>5. nl.name = null.name /\ Circular(null) => s \in Int
    <2>1. Slots(nl, born, run).parameter \in Nat
      BY <1>4 DEF Slots
    <2> QED
      BY <1>4, <2>1, DrawableAreIntegers
  <1> DEFINE t == TokenFor(nl, run, run, d, o, s)
  <1>6. IsToken(t)
    BY <1>5, TokensAreTokens
  <1>7. Coherent(t)
    <2>1. t.semantic = run /\ t.plan = run /\ t.digest = d /\ t.owner = o
      BY DEF TokenFor
    <2> QED
      BY <2>1 DEF Coherent
  <1> HIDE DEF t
  <1>8. token' = t
    BY <1>3 DEF t
  <1> QED
    BY <1>1, <1>6, <1>7, <1>8

-----------------------------------------------------------------------------
\* What apply accepts

LEMMA EqualIdentities ==
    ASSUME NEW t, NEW b
    PROVE  TokenIsOwned(t, b) <=> Identity(t) = Identity(b)
PROOF
  BY DEF TokenIsOwned, Identity

\* An accepted token with the ownership of this null and run is its token for a state of it.
LEMMA AcceptedIsOwn ==
    ASSUME null \in Nulls, BindStatus(null) = "ENABLED", IsSlots(bound), IsToken(token),
           Accepts(token, bound), Identity(token) = OwnIdentity
    PROVE  token.state \in StatesOf(null) /\ token = OwnToken(token.state)
PROOF
  <1> DEFINE n == null.length
             s == token.state
  <1>1. /\ null \in [name : NullNames, length : Nat \ {0}, parameter : Nat \ {0}]
        /\ null.name = "circular_shift_exact_v1" => null.parameter = 1
        /\ ~Circular(null) => BlockCount(null) \in 2 .. MaxBlockCount
    BY EnabledShape
  <1>2. n \in Nat \ {0} /\ null.parameter \in Nat \ {0} /\ null.name \in NullNames
    BY <1>1
  <1>3. /\ token.semantic = "here" /\ token.plan = "here"
        /\ token.digest = Owned.digest /\ token.owner = Owned.owner
    BY OwnedIsCoherent DEF Identity
  <1>4. TokenIsSound(token)
    BY DEF Accepts
  <1>5. token = OwnToken(s)
    BY <1>3, <1>4 DEF IsToken, TokenIsSound, OwnToken, TokenFor
  <1>6. ASSUME DigestsHold(bound), TokenIsOwned(token, bound)
        PROVE  bound.parameter = null.parameter /\ bound.length = n
    <2>1. bound.digest = Owned.digest /\ bound.owner = Owned.owner
      BY <1>3, <1>6 DEF TokenIsOwned
    <2>2. ParameterDigest(null.name, bound.parameter) = ParameterDigest(null.name, null.parameter)
      BY <1>6, <2>1, OwnedIsCoherent DEF DigestsHold
    <2>3. OwnerDigest(bound.semantic, bound.plan, bound.digest, bound.length)
              = OwnerDigest("here", "here", Owned.digest, n)
      BY <1>6, <2>1, OwnedIsCoherent DEF DigestsHold
    <2> QED
      BY <2>2, <2>3 DEF ParameterDigest, OwnerDigest
  <1>7. CASE null.name = "circular_shift_v2"
    <2>1. SampledShiftAccepts(token, bound) /\ Circular(null)
      BY <1>7 DEF Accepts, Circular
    <2>2. bound.parameter = null.parameter /\ bound.length = n /\ s \in Int
      BY <1>4, <1>6, <2>1 DEF SampledShiftAccepts, IsToken, TokenIsSound
    <2>3. InShifts(s, n, null.parameter)
      BY <2>1, <2>2 DEF SampledShiftAccepts
    <2>4. s \in Shifts(n, null.parameter)
      BY <1>2, <2>2, <2>3 DEF Shifts, InShifts
    <2> QED
      BY <1>5, <2>1, <2>4 DEF StatesOf
  <1>8. CASE null.name = "circular_shift_exact_v1"
    <2>1. ExactShiftAccepts(token, bound) /\ Circular(null) /\ null.parameter = 1
      BY <1>1, <1>8 DEF Accepts, Circular
    <2>2. s \in Int
      BY <1>4, <2>1 DEF IsToken, TokenIsSound
    <2>3. PairLength(bound) = n
      <3>1. DOMAIN bound.pair.source = 0 .. n - 1
        BY DEF IsSlots, Pairs, Series
      <3>2. Cardinality(0 .. n - 1) = n
        <4>1. 0 \in Int /\ n - 1 \in Int /\ ~(0 > n - 1) /\ (n - 1) - 0 + 1 = n
          BY <1>2
        <4> QED
          BY <4>1, FS_Interval
      <3> QED
        BY <3>1, <3>2 DEF PairLength
    <2>4. 0 <= s /\ s < n
      BY <2>1, <2>3 DEF ExactShiftAccepts
    <2>5. s \in Shifts(n, null.parameter)
      BY <1>2, <2>1, <2>2, <2>4 DEF Shifts, InShifts
    <2> QED
      BY <1>5, <2>1, <2>5 DEF StatesOf
  <1>9. CASE null.name = "block_shuffle_v2"
    <2>1. BlockOrderAccepts(token, bound) /\ ~Circular(null)
      BY <1>9 DEF Accepts, Circular
    <2>2. bound.parameter = null.parameter /\ bound.length = n
      BY <1>6, <2>1 DEF BlockOrderAccepts
    <2>3. bound.count = BlockCount(null) /\ s \in Orders(bound.count)
      BY <2>1, <2>2 DEF BlockOrderAccepts, BlockCount
    <2> QED
      BY <1>5, <2>1, <2>3 DEF StatesOf
  <1> QED
    BY <1>2, <1>7, <1>8, <1>9 DEF NullNames

\* A pair that passes the content guard is the observed one, unless two writes at least have
\* been made to get it past.
LEMMA GuardedIsObserved ==
    ASSUME Traced, IsBound, GuardHolds(bound)
    PROVE  bound.pair = born \/ Misled
PROOF
  <1>1. Distance <= drifts /\ drifts \in Nat
    BY DEF Traced, BoundOK
  <1>2. CASE bound.pair # born
    <2>1. bound.guard # ContentGuard(born)
      BY <1>2 DEF GuardHolds, ContentGuard
    <2>2. Distance = 2
      BY <1>2, <2>1 DEF Distance
    <2> QED
      BY <1>1, <2>2 DEF Misled
  <1> QED
    BY <1>2

-----------------------------------------------------------------------------
\* Steps

LEMMA TracedStart == CInit => Traced
PROOF
  <1> SUFFICES ASSUME CInit
               PROVE  Traced
    OBVIOUS
  <1>1. null \in Nulls /\ born \in Pairs /\ drifts = 0 /\ pc = "unbound" /\ ~IsBound
        /\ token = None /\ scored = <<>> /\ aside = None
    BY DEF CInit, Init, IsBound
  <1>2. step \in {"bind", "direct"}
    BY DEF CInit
  <1>3. BoundOK /\ TokenOK
    BY <1>1, <1>2 DEF BoundOK, TokenOK
  <1>4. CheckpointOK
    BY <1>1, <1>2 DEF CheckpointOK, Looping, Running
  <1>5. TransformOK /\ ScoresOK
    BY <1>1 DEF TransformOK, ScoresOK
  <1> QED
    BY <1>3, <1>4, <1>5 DEF Traced

\* The null of the run and the observed pair never change.
LEMMA RunStays ==
    ASSUME [CNext]_cvars
    PROVE  null' = null /\ born' = born
PROOF
  <1>1. CASE Next
    BY <1>1 DEF Next, Bind, Draw, Receive, Drift, Prepare, Map, Finalize, Finished, vars
  <1>2. CASE BindForRun \/ DrawToken \/ Apply
    BY <1>2 DEF BindForRun, DrawToken, Apply, Bind, Draw, Prepare, Map, Finalize, vars
  <1>3. CASE TakeSnapshot \/ Admit \/ CheckToken \/ CheckTransform \/ Evaluate \/ Recapture \/ Write
    BY <1>3 DEF TakeSnapshot, Admit, CheckToken, CheckTransform, Evaluate, Recapture, Write, vars
  <1>4. CASE UNCHANGED cvars
    BY <1>4 DEF cvars, vars
  <1> QED
    BY <1>1, <1>2, <1>3, <1>4 DEF CNext, Over

LEMMA DerivedStay ==
    ASSUME null' = null, born' = born
    PROVE  /\ Owned' = Owned /\ OwnIdentity' = OwnIdentity /\ Pairs' = Pairs
           /\ StatesOf(null)' = StatesOf(null) /\ ExactScores' = ExactScores
           /\ IsSlots(bound)' <=> IsSlots(bound')
           /\ IsToken(token)' <=> IsToken(token')
           /\ Identity(bound)' = Identity(bound') /\ Identity(token)' = Identity(token')
           /\ Coherent(bound)' <=> Coherent(bound')
           /\ Coherent(token)' <=> Coherent(token')
PROOF
  BY DEF Owned, OwnIdentity, Identity, Pairs, Series, Targets, ExactScores, IsSlots, IsToken,
     Coherent

\* A step binds the null, writes to it, or leaves its slots alone.
LEMMA StepKinds ==
    ASSUME Traced, [CNext]_cvars
    PROVE  \/ Bind /\ UNCHANGED <<aside, scored>> /\ step' \in {"direct", "terminal", "snapshot"}
           \/ Write
           \/ step = "direct" /\ Drift /\ UNCHANGED watch
           \/ IsBound /\ IsBound' /\ UNCHANGED <<bound, aside, drifts>>
           \/ UNCHANGED cvars
PROOF
  <1>1. CASE step = "direct" /\ Next /\ UNCHANGED watch
    <2>1. UNCHANGED <<step, aside, scored>>
      BY <1>1 DEF watch
    <2>2. CASE Draw \/ Receive \/ Prepare \/ Map \/ Finalize
      BY <2>1, <2>2 DEF Draw, Receive, Prepare, Map, Finalize, Raise, IsBound
    <2> QED
      BY <1>1, <2>1, <2>2 DEF Next, Finished, cvars
  <1>2. CASE BindForRun
    BY <1>2 DEF BindForRun
  <1>3. CASE TakeSnapshot \/ Admit \/ CheckToken \/ CheckTransform \/ Recapture
    <2>1. step \in Running
      BY <1>3 DEF TakeSnapshot, Admit, CheckToken, CheckTransform, Recapture, Running, Looping
    <2>2. UNCHANGED <<pc, bound, aside, drifts>>
      BY <1>3 DEF TakeSnapshot, Admit, CheckToken, CheckTransform, Recapture, vars
    <2> QED
      BY <2>1, <2>2 DEF Traced, CheckpointOK, IsBound
  <1>4. CASE DrawToken
    <2>1. step \in Running
      BY <1>4 DEF DrawToken, Running, Looping
    <2>2. UNCHANGED <<pc, bound, aside, drifts>>
      BY <1>4 DEF DrawToken, Draw, vars
    <2> QED
      BY <2>1, <2>2 DEF Traced, CheckpointOK, IsBound
  <1>5. CASE Apply
    BY <1>5 DEF Apply, Prepare, Map, Finalize, Raise, IsBound
  <1>6. CASE Evaluate
    <2>1. step \in Running
      BY <1>6 DEF Evaluate, Running, Looping
    <2>2. UNCHANGED <<bound, aside, drifts>> /\ pc' = "bound"
      BY <1>6 DEF Evaluate
    <2> QED
      BY <2>1, <2>2 DEF Traced, CheckpointOK, IsBound
  <1> QED
    BY <1>1, <1>2, <1>3, <1>4, <1>5, <1>6 DEF CNext, Over

LEMMA OwnedIsSlots ==
    ASSUME null \in Nulls, born \in Pairs
    PROVE  IsSlots(Owned)
PROOF
  <1>1. null.parameter \in Nat
    BY BoundNullAssumption
  <1> QED
    BY <1>1 DEF IsSlots, Owned, Slots

LEMMA BoundOKStays == Traced /\ [CNext]_cvars => BoundOK'
PROOF
  <1> SUFFICES ASSUME Traced, [CNext]_cvars
               PROVE  BoundOK'
    OBVIOUS
  <1>1. null' = null /\ born' = born /\ Pairs' = Pairs /\ Owned' = Owned
        /\ (IsSlots(bound)' <=> IsSlots(bound'))
    BY RunStays, DerivedStay
  <1>2. BoundOK
    BY DEF Traced
  <1>3. CASE Bind /\ UNCHANGED <<aside, scored>>
    <2>1. /\ ~IsBound /\ drifts = 0 /\ drifts' = 0 /\ aside' = None
          /\ token' = None /\ scored' = <<>>
      BY <1>2, <1>3 DEF Bind, BoundOK, IsBound
    <2>2. CASE BindStatus(null) = "ENABLED"
      <3>1. pc' = "bound" /\ bound' = Owned
        BY <1>3, <2>2 DEF Bind, Owned
      <3>2. IsSlots(Owned) /\ Owned.pair = born /\ Owned.guard = ContentGuard(born)
        BY <1>2, OwnedIsSlots DEF BoundOK, Owned, Slots
      <3>3. Distance' = 0
        BY <1>1, <3>1, <3>2 DEF Distance, ContentGuard
      <3> QED
        BY <1>1, <1>2, <2>1, <2>2, <3>1, <3>2, <3>3 DEF BoundOK, IsBound
    <2>3. CASE BindStatus(null) # "ENABLED"
      <3>1. pc' = "disabled"
        BY <1>3, <2>3 DEF Bind
      <3> QED
        BY <1>1, <1>2, <2>1, <3>1 DEF BoundOK, IsBound
    <2> QED
      BY <2>2, <2>3
  <1>4. CASE Write \/ (step = "direct" /\ Drift /\ UNCHANGED watch)
    <2>1. /\ IsBound /\ drifts' = drifts + 1 /\ IsSlots(bound')
          /\ aside' # None => aside' \in Pairs
          /\ bound'.pair = bound.pair \/ bound'.guard = bound.guard
          /\ pc' = pc
      <3>1. CASE Write
        BY <3>1, WrittenNull
      <3>2. CASE step = "direct" /\ Drift /\ UNCHANGED watch
        <4>1. aside' = aside
          BY <3>2 DEF watch
        <4>2. IsBound
          BY <3>2, DriftedNull
        <4>3. aside' # None => aside' \in Pairs
          BY <1>2, <4>1, <4>2 DEF BoundOK
        <4> QED
          BY <3>2, <4>3, DriftedNull
      <3> QED
        BY <1>4, <3>1, <3>2
    <2>2. IsSlots(bound) /\ drifts \in Nat /\ Distance <= drifts /\ BindStatus(null) = "ENABLED"
      BY <1>2, <2>1 DEF BoundOK
    <2>3. Distance \in 0 .. 2 /\ Distance' \in 0 .. 2 /\ Distance' <= Distance + 1
      BY <1>1, <2>1, <2>2, DistanceMovesByOne
    <2>4. PICK x \in 0 .. 2, y \in 0 .. 2 : x = Distance /\ y = Distance'
      BY <2>3
    <2>5. y <= drifts' /\ drifts' \in Nat /\ drifts' # 0
      BY <2>1, <2>2, <2>3, <2>4
    <2>6. IsBound'
      BY <2>1 DEF IsBound
    <2> QED
      BY <1>1, <1>2, <2>1, <2>2, <2>4, <2>5, <2>6 DEF BoundOK
  <1>5. CASE IsBound /\ IsBound' /\ UNCHANGED <<bound, aside, drifts>>
    <2>1. Distance' = Distance
      BY <1>1, <1>5 DEF Distance, ContentGuard
    <2> QED
      BY <1>1, <1>2, <1>5, <2>1 DEF BoundOK
  <1>6. CASE UNCHANGED cvars
    <2>1. Distance' = Distance /\ (IsBound' <=> IsBound)
          /\ UNCHANGED <<bound, aside, drifts, token, scored>>
      BY <1>6 DEF cvars, vars, watch, Distance, IsBound, ContentGuard
    <2> QED
      BY <1>1, <1>2, <2>1 DEF BoundOK
  <1> QED
    BY <1>3, <1>4, <1>5, <1>6, StepKinds

\* Unbound, or with its slots as bind stored them when nothing has been written.
LEMMA UnwrittenIsOwned ==
    ASSUME Traced, IsBound, drifts = 0
    PROVE  bound = Owned /\ Identity(bound) = OwnIdentity /\ Coherent(bound)
PROOF
  BY OwnedIsCoherent DEF Traced, BoundOK, OwnIdentity

LEMMA TokenOKStays == Traced /\ [CNext]_cvars => TokenOK'
PROOF
  <1> SUFFICES ASSUME Traced, [CNext]_cvars
               PROVE  TokenOK'
    OBVIOUS
  <1>1. /\ OwnIdentity' = OwnIdentity
        /\ IsToken(token)' <=> IsToken(token')
        /\ Identity(bound)' = Identity(bound') /\ Identity(token)' = Identity(token')
        /\ Coherent(bound)' <=> Coherent(bound')
        /\ Coherent(token)' <=> Coherent(token')
    BY RunStays, DerivedStay
  <1>2. TokenOK /\ drifts \in Nat /\ (~IsBound => token = None /\ drifts = 0)
    BY DEF Traced, BoundOK
  <1>3. CASE step = "direct" /\ Next /\ UNCHANGED watch
    <2>1. step' = "direct" /\ step = "direct"
      BY <1>3 DEF watch
    <2>2. CASE Bind
      <3>1. token = None /\ token' = None /\ drifts' = 0
        BY <1>2, <2>2 DEF Bind, IsBound
      <3>2. IsBound' => bound' = Owned
        BY <2>2 DEF Bind, IsBound, Owned
      <3>3. IsBound' => Identity(bound') = OwnIdentity
        BY <3>2 DEF OwnIdentity
      <3> QED
        BY <1>1, <2>1, <3>1, <3>3 DEF TokenOK
    <2>3. CASE Draw
      <3>1. token = None
        BY <2>3 DEF Draw
      <3>2. /\ IsToken(token') /\ Identity(token') = Identity(bound) /\ bound' = bound
            /\ IsBound /\ drifts' = drifts
        BY <2>3, DrawnToken
      <3>3. drifts <= 1 => Identity(bound) = OwnIdentity
        BY <1>2, <2>1, <3>1, <3>2 DEF TokenOK
      <3>4. drifts = 0 => Coherent(token')
        BY <3>2, UnwrittenIsOwned DEF Coherent, Identity
      <3> QED
        BY <1>1, <2>1, <3>2, <3>3, <3>4 DEF TokenOK, Clear
    <2>4. CASE Receive
      <3>1. token = None
        BY <2>4 DEF Receive
      <3>2. /\ IsToken(token') /\ Coherent(token') /\ bound' = bound
            /\ IsBound /\ drifts' = drifts
        BY <2>4, ReceivedToken
      <3>3. drifts <= 1 => Identity(bound) = OwnIdentity
        BY <1>2, <2>1, <3>1, <3>2 DEF TokenOK
      <3> QED
        BY <1>1, <2>1, <3>2, <3>3 DEF TokenOK, Clear
    <2>5. CASE Drift
      <3>1. /\ IsBound /\ drifts' = drifts + 1 /\ token # None /\ IsToken(token')
            /\ bound = Owned => Identity(bound') = OwnIdentity \/ ~Coherent(bound')
            /\ bound' = bound \/ token' = token
        BY <2>5, DriftedNull
      <3>2. drifts' # 0
        BY <1>2, <3>1
      <3>3. ASSUME drifts' <= 1, token' = None
            PROVE  Identity(bound') = OwnIdentity
        <4>1. drifts = 0 /\ bound' = bound
          BY <1>2, <3>1, <3>3
        <4> QED
          BY <3>1, <4>1, UnwrittenIsOwned
      <3>4. ASSUME drifts' <= 1
            PROVE  Clear'
        <4>1. drifts = 0
          BY <1>2, <3>1, <3>4
        <4>2. bound = Owned /\ Identity(bound) = OwnIdentity /\ Coherent(token)
          BY <1>2, <2>1, <3>1, <4>1, UnwrittenIsOwned DEF TokenOK
        <4> QED
          BY <1>1, <3>1, <4>2 DEF Clear
      <3> QED
        BY <1>1, <2>1, <3>1, <3>2, <3>3, <3>4 DEF TokenOK
    <2>6. CASE Prepare \/ Map \/ Finalize
      <3>1. pc' # "bound" /\ UNCHANGED <<token, drifts, bound>> /\ IsBound
        BY <2>6 DEF Prepare, Map, Finalize, Raise, IsBound
      <3> QED
        BY <1>1, <1>2, <2>1, <3>1 DEF TokenOK
    <2>7. CASE Finished
      <3>1. UNCHANGED <<token, drifts, bound, pc, step>>
        BY <2>1, <2>7 DEF Finished, vars
      <3> QED
        BY <1>1, <1>2, <3>1 DEF TokenOK, Clear, IsBound
    <2> QED
      BY <1>3, <2>2, <2>3, <2>4, <2>5, <2>6, <2>7 DEF Next
  <1>4. CASE BindForRun
    <2>1. step' \in {"terminal", "snapshot"} /\ token' = token
      BY <1>4 DEF BindForRun, Bind
    <2> QED
      BY <1>1, <1>2, <2>1 DEF TokenOK
  <1>5. CASE TakeSnapshot \/ Admit \/ CheckTransform \/ Recapture
    <2>1. /\ step' \in {"admit", "refused", "draw", "evaluate", "closed"}
          /\ token' = token
      BY <1>5 DEF TakeSnapshot, Admit, CheckTransform, Recapture, Check, vars
    <2> QED
      BY <1>1, <1>2, <2>1 DEF TokenOK
  <1>6. CASE DrawToken
    <2>1. step' \in {"drawn", "refused"}
      BY <1>6 DEF DrawToken, Check
    <2>2. token' = token \/ IsToken(token')
      BY <1>6, DrawnToken DEF DrawToken, vars
    <2> QED
      BY <1>1, <1>2, <2>1, <2>2 DEF TokenOK
  <1>7. CASE CheckToken
    <2>1. step' \in {"apply", "refused"} /\ token' = token /\ bound' = bound
      BY <1>7 DEF CheckToken, Check, vars
    <2>2. CASE step' = "apply"
      <3>1. TokenHolds(token)
        BY <1>7, <2>2 DEF CheckToken, Check
      <3>2. Identity(entry.slots) = OwnIdentity
        BY <1>7 DEF CheckToken, Traced, CheckpointOK, Looping
      <3>3. Identity(token) = OwnIdentity
        BY <3>1, <3>2, EqualIdentities DEF TokenHolds
      <3> QED
        BY <1>1, <1>2, <2>1, <2>2, <3>3 DEF TokenOK, Clear
    <2>3. CASE step' = "refused"
      BY <1>1, <1>2, <2>1, <2>3 DEF TokenOK
    <2> QED
      BY <2>1, <2>2, <2>3
  <1>8. CASE Apply
    <2>1. step = "apply" /\ step' \in {"apply", "applied", "refused"}
      BY <1>8 DEF Apply
    <2>2. pc' # "bound" /\ token' = token
      BY <1>8 DEF Apply, Prepare, Map, Finalize, Raise
    <2> QED
      BY <1>1, <1>2, <2>1, <2>2 DEF TokenOK
  <1>9. CASE Evaluate
    <2>1. step' \in {"recapture", "draw", "refused"} /\ token' = None
      BY <1>9 DEF Evaluate, Check
    <2> QED
      BY <2>1 DEF TokenOK
  <1>10. CASE Write
    <2>1. /\ IsBound /\ drifts' = drifts + 1 /\ (token' # None => IsToken(token'))
          /\ bound = Owned => Identity(bound') = OwnIdentity \/ ~Coherent(bound')
          /\ bound' = bound \/ token' = token
          /\ pc' = pc /\ step' = step
      BY <1>10, WrittenNull
    <2>2. step # "direct"
      BY <1>10 DEF Write
    <2>3. drifts' # 0
      BY <1>2, <2>1
    <2>4. ASSUME drifts' <= 1, step = "apply", pc = "bound"
          PROVE  Clear'
      <3>1. drifts = 0
        BY <1>2, <2>1, <2>4
      <3>2. Identity(bound) = OwnIdentity /\ Identity(token) = OwnIdentity
        BY <1>2, <2>1, <2>4, <3>1, UnwrittenIsOwned DEF TokenOK
      <3> QED
        BY <1>1, <2>1, <3>2 DEF Clear
    <2> QED
      BY <1>1, <2>1, <2>2, <2>3, <2>4 DEF TokenOK
  <1>11. CASE UNCHANGED cvars
    <2>1. UNCHANGED <<token, drifts, bound, pc, step>>
      BY <1>11 DEF cvars, vars, watch
    <2> QED
      BY <1>1, <1>2, <2>1 DEF TokenOK, Clear, IsBound
  <1> QED
    BY <1>3, <1>4, <1>5, <1>6, <1>7, <1>8, <1>9, <1>10, <1>11 DEF CNext, Over

LEMMA CheckpointOKStays == Traced /\ [CNext]_cvars => CheckpointOK'
PROOF
  <1> SUFFICES ASSUME Traced, [CNext]_cvars
               PROVE  CheckpointOK'
    OBVIOUS
  <1>1. OwnIdentity' = OwnIdentity
    BY RunStays, DerivedStay
  <1>2. CheckpointOK
    BY DEF Traced
  <1> USE DEF Looping, Running
  <1>3. CASE step = "direct" /\ Next /\ UNCHANGED watch
    <2>1. step' = "direct"
      BY <1>3 DEF watch
    <2> QED
      BY <2>1 DEF CheckpointOK
  <1>4. CASE BindForRun
    <2>1. step' = (IF pc' = "disabled" THEN "terminal" ELSE "snapshot") /\ pc' \in {"bound", "disabled"}
      BY <1>4 DEF BindForRun, Bind
    <2> QED
      BY <2>1 DEF CheckpointOK, IsBound
  <1>5. CASE TakeSnapshot
    <2>1. step = "snapshot" /\ entry' = Live /\ pc' = pc
      BY <1>5 DEF TakeSnapshot, vars
    <2>2. CASE SnapshotHolds(bound)
      <3>1. step' = "admit"
        BY <1>5, <2>2 DEF TakeSnapshot, Check
      <3>2. Identity(bound) = OwnIdentity
        BY <2>2 DEF SnapshotHolds, IdentityHolds, Identity, OwnIdentity, Owned, Slots
      <3>3. Identity(entry.slots)' = OwnIdentity
        BY <2>1, <3>2 DEF Live, Identity
      <3> QED
        BY <1>1, <1>2, <2>1, <3>1, <3>3 DEF CheckpointOK, IsBound
    <2>3. CASE ~SnapshotHolds(bound)
      <3>1. step' = "refused"
        BY <1>5, <2>3 DEF TakeSnapshot, Check
      <3> QED
        BY <3>1 DEF CheckpointOK
    <2> QED
      BY <2>2, <2>3
  <1>6. CASE Admit \/ DrawToken
    <2>1. step \in {"admit", "draw"} /\ step' \in {"draw", "drawn", "refused"}
          /\ UNCHANGED <<pc, entry>>
      BY <1>6 DEF Admit, DrawToken, Draw, Check, vars
    <2>2. Identity(entry.slots)' = Identity(entry.slots)
      BY <2>1 DEF Identity
    <2> QED
      BY <1>1, <1>2, <2>1, <2>2 DEF CheckpointOK, IsBound
  <1>7. CASE CheckToken
    <2>1. step = "drawn" /\ step' \in {"apply", "refused"}
          /\ UNCHANGED <<pc, entry, token>> /\ sampled' = token
      BY <1>7 DEF CheckToken, Check, vars
    <2>2. Identity(entry.slots)' = Identity(entry.slots) /\ Identity(sampled)' = Identity(token)
      BY <2>1 DEF Identity
    <2>3. step' = "apply" => TokenHolds(token)
      BY <1>7 DEF CheckToken, Check
    <2>4. step' = "apply" => Identity(token) = OwnIdentity
      BY <1>2, <2>1, <2>3, EqualIdentities DEF TokenHolds, CheckpointOK
    <2> QED
      BY <1>1, <1>2, <2>1, <2>2, <2>4 DEF CheckpointOK, IsBound
  <1>8. CASE Apply
    <2>1. step = "apply" /\ UNCHANGED <<entry, sampled>>
          /\ step' \in {"apply", "applied", "refused"} /\ (step' = "applied" => pc' = "applied")
      BY <1>8 DEF Apply
    <2>2. Identity(entry.slots)' = Identity(entry.slots) /\ Identity(sampled)' = Identity(sampled)
      BY <2>1 DEF Identity
    <2>3. IsBound'
      BY <1>8 DEF Apply, Prepare, Map, Finalize, Raise, IsBound
    <2> QED
      BY <1>1, <1>2, <2>1, <2>2, <2>3 DEF CheckpointOK
  <1>9. CASE CheckTransform
    <2>1. step = "applied" /\ UNCHANGED <<entry, sampled, pc, result>>
          /\ step' \in {"evaluate", "refused"}
      BY <1>9 DEF CheckTransform, Check, vars
    <2>2. Identity(entry.slots)' = Identity(entry.slots) /\ Identity(sampled)' = Identity(sampled)
      BY <2>1 DEF Identity
    <2>3. step' = "evaluate" => result.token = sampled
      BY <1>9 DEF CheckTransform, Check, TransformHolds
    <2> QED
      BY <1>1, <1>2, <2>1, <2>2, <2>3 DEF CheckpointOK, IsBound
  <1>10. CASE Evaluate
    <2>1. step = "evaluate" /\ UNCHANGED <<entry>> /\ pc' = "bound"
          /\ step' \in {"recapture", "draw", "refused"}
      BY <1>10 DEF Evaluate, Check
    <2>2. Identity(entry.slots)' = Identity(entry.slots)
      BY <2>1 DEF Identity
    <2> QED
      BY <1>1, <1>2, <2>1, <2>2 DEF CheckpointOK, IsBound
  <1>11. CASE Recapture
    <2>1. step = "recapture" /\ UNCHANGED <<pc, bound, born>> /\ step' \in {"closed", "refused"}
      BY <1>11 DEF Recapture, Check, vars
    <2>2. step' = "closed" => ContentsHold(bound)
      BY <1>11 DEF Recapture, Check, Unchanged, SnapshotHolds
    <2>3. step' = "closed" => Distance' = 0
      BY <2>1, <2>2 DEF ContentsHold, Distance, ContentGuard
    <2> QED
      BY <1>2, <2>1, <2>3 DEF CheckpointOK, IsBound
  <1>12. CASE Write
    <2>1. /\ step' = step /\ step \notin {"direct", "bind", "terminal", "closed", "refused"}
          /\ UNCHANGED <<pc, entry, sampled, result>>
      BY <1>12, WrittenNull DEF Write
    <2>2. Identity(entry.slots)' = Identity(entry.slots) /\ Identity(sampled)' = Identity(sampled)
      BY <2>1 DEF Identity
    <2> QED
      BY <1>1, <1>2, <2>1, <2>2 DEF CheckpointOK, IsBound
  <1>13. CASE UNCHANGED cvars
    <2>1. UNCHANGED <<step, pc, entry, sampled, result, bound, born>>
      BY <1>13 DEF cvars, vars, watch
    <2>2. Identity(entry.slots)' = Identity(entry.slots) /\ Identity(sampled)' = Identity(sampled)
          /\ Distance' = Distance /\ (IsBound' <=> IsBound)
      BY <2>1 DEF Identity, Distance, IsBound, ContentGuard
    <2> QED
      BY <1>1, <1>2, <2>1, <2>2 DEF CheckpointOK
  <1> QED
    BY <1>3, <1>4, <1>5, <1>6, <1>7, <1>8, <1>9, <1>10, <1>11, <1>12, <1>13 DEF CNext, Over

\* What was enough to mislead apply stays enough.
LEMMA MisledStays ==
    ASSUME Traced, [CNext]_cvars, IsBound
    PROVE  Misled => Misled'
PROOF
  <1>1. born' = born
    BY RunStays
  <1>2. IsSlots(bound) /\ drifts \in Nat
    BY DEF Traced, BoundOK
  <1>3. CASE Bind
    BY <1>3 DEF Bind, IsBound
  <1>4. CASE Write
    BY <1>1, <1>2, <1>4, WrittenNull, DistanceMovesByOne
  <1>5. CASE Drift
    BY <1>1, <1>2, <1>5, DriftedNull, DistanceMovesByOne
  <1>6. CASE UNCHANGED <<bound, drifts>>
    BY <1>1, <1>6 DEF Misled, Distance, ContentGuard
  <1>7. UNCHANGED cvars => UNCHANGED <<bound, drifts>>
    BY DEF cvars, vars
  <1> QED
    BY <1>3, <1>4, <1>5, <1>6, <1>7, StepKinds

\* The mapping works with the parameter that the digest of the token names.
LEMMA OwnTokenTakesItsNull ==
    ASSUME null \in Nulls, NEW s, snapshot = OwnToken(s)
    PROVE  Taken = null
PROOF
  <1>1. snapshot.digest = ParameterDigest(null.name, null.parameter)
    BY DEF OwnToken, TokenFor, Owned, Slots
  <1>2. snapshot.digest[2] = null.parameter
    BY <1>1 DEF ParameterDigest
  <1>3. null \in [name : NullNames, length : Nat \ {0}, parameter : Nat \ {0}]
    BY BoundNullAssumption
  <1> QED
    BY <1>2, <1>3 DEF Taken

\* apply is called in its own right or for the calibrator.
LEMMA SteppedByApply ==
    ASSUME [CNext]_cvars, Prepare
    PROVE  step \in {"direct", "apply"}
PROOF
  <1>1. pc = "bound" /\ pc' \in {"mapping", "raised"} /\ UNCHANGED token
    BY DEF Prepare, Raise
  <1>2. CASE BindForRun \/ DrawToken \/ Evaluate \/ Write
    <2>1. pc' \in {"bound", "disabled"} \/ pc' = pc
      BY <1>2 DEF BindForRun, DrawToken, Evaluate, Write, Bind, Draw, vars
    <2> QED
      BY <1>1, <2>1
  <1>3. CASE TakeSnapshot \/ Admit \/ CheckToken \/ CheckTransform \/ Recapture \/ Over
    BY <1>1, <1>3 DEF TakeSnapshot, Admit, CheckToken, CheckTransform, Recapture, Over, cvars, vars
  <1>4. ~UNCHANGED cvars
    BY <1>1 DEF cvars, vars
  <1> QED
    BY <1>2, <1>3, <1>4 DEF CNext, Apply

LEMMA TransformOKStays == Traced /\ [CNext]_cvars => TransformOK'
PROOF
  <1> SUFFICES ASSUME Traced, [CNext]_cvars, pc' \in {"mapping", "mapped", "applied"}
               PROVE  TransformOK'
    BY DEF TransformOK
  <1>1. /\ null' = null /\ born' = born /\ OwnIdentity' = OwnIdentity /\ Owned' = Owned
        /\ StatesOf(null)' = StatesOf(null)
    BY RunStays, DerivedStay
  <1>2. TransformOK /\ TokenOK /\ BoundOK
    BY DEF Traced
  <1>3. drifts \in Nat
    BY <1>2 DEF BoundOK
  <1>4. CASE /\ UNCHANGED <<pc, golden, snapshot, result>>
             /\ drifts' = drifts \/ drifts' = drifts + 1
    <2>1. IsBound /\ pc \in {"mapping", "mapped", "applied"}
      BY <1>4 DEF IsBound
    <2>2. Misled => Misled'
      BY <2>1, MisledStays
    <2>3. /\ Identity(snapshot)' = Identity(snapshot) /\ Taken' = Taken
          /\ \A s : OwnToken(s)' = OwnToken(s)
      BY <1>1, <1>4 DEF Identity, Taken, OwnToken
    <2>4. drifts' <= 1 => drifts <= 1
      BY <1>3, <1>4
    <2>5. golden' = born' \/ Misled'
      BY <1>1, <1>2, <1>4, <2>1, <2>2 DEF TransformOK
    <2>6. Identity(snapshot)' = OwnIdentity' =>
              snapshot'.state \in StatesOf(null)' /\ snapshot' = OwnToken(snapshot.state)'
      BY <1>1, <1>2, <1>4, <2>1, <2>3 DEF TransformOK
    <2>7. drifts' <= 1 => Identity(snapshot)' = OwnIdentity'
      BY <1>1, <1>2, <2>1, <2>3, <2>4 DEF TransformOK
    <2>8. pc' = "applied" => /\ result'.token = snapshot'
                             /\ result'.pair.source = Transform(Taken, golden.source, snapshot.state)'
                             /\ result'.pair.target = golden'.target
      BY <1>1, <1>2, <1>4, <2>1, <2>3 DEF TransformOK, Transform, Shifted, Reordered, Circular
    <2> QED
      BY <2>5, <2>6, <2>7, <2>8 DEF TransformOK
  <1>5. CASE Prepare
    <2>1. /\ pc = "bound" /\ token # None /\ UNCHANGED drifts
          /\ pc' = "mapping" /\ golden' = bound.pair /\ snapshot' = token
          /\ Accepts(token, bound) /\ GuardHolds(bound)
      BY <1>5 DEF Prepare, Raise
    <2>2. IsBound
      BY <2>1 DEF IsBound
    <2>3. null \in Nulls /\ BindStatus(null) = "ENABLED" /\ IsSlots(bound) /\ IsToken(token)
      BY <1>2, <2>1, <2>2 DEF BoundOK, TokenOK
    <2>4. golden' = born' \/ Misled'
      BY <1>1, <2>1, <2>2, GuardedIsObserved, MisledStays
    <2>5. Identity(snapshot)' = Identity(token) /\ OwnToken(snapshot.state)' = OwnToken(token.state)
      BY <1>1, <2>1 DEF Identity, OwnToken
    <2>6. Identity(token) = OwnIdentity =>
              token.state \in StatesOf(null) /\ token = OwnToken(token.state)
      BY <2>1, <2>3, AcceptedIsOwn
    <2>7. ASSUME drifts <= 1
          PROVE  Identity(token) = OwnIdentity
      <3>1. step \in {"direct", "apply"}
        BY <1>5, SteppedByApply
      <3>2. Clear
        BY <1>2, <2>1, <2>7, <3>1 DEF TokenOK
      <3>3. TokenIsOwned(token, bound)
        BY <2>1, <2>3 DEF Accepts, SampledShiftAccepts, ExactShiftAccepts, BlockOrderAccepts
      <3>4. Identity(token) = Identity(bound)
        BY <3>3, EqualIdentities
      <3>5. Coherent(token) <=> Coherent(bound)
        BY <3>4 DEF Coherent, Identity
      <3> QED
        BY <3>2, <3>4, <3>5 DEF Clear
    <2> QED
      BY <1>1, <2>1, <2>4, <2>5, <2>6, <2>7 DEF TransformOK
  <1>6. CASE Map
    <2>1. pc = "mapping" /\ pc' = "mapped" /\ UNCHANGED <<golden, snapshot, result, bound, drifts>>
      BY <1>6 DEF Map
    <2>2. IsBound
      BY <2>1 DEF IsBound
    <2>3. Identity(snapshot)' = Identity(snapshot) /\ OwnToken(snapshot.state)' = OwnToken(snapshot.state)
      BY <1>1, <2>1 DEF Identity, OwnToken
    <2>4. golden' = born' \/ Misled'
      BY <1>1, <1>2, <2>1, <2>2, MisledStays DEF TransformOK
    <2> QED
      BY <1>1, <1>2, <2>1, <2>3, <2>4 DEF TransformOK
  <1>7. CASE Finalize
    <2>1. /\ pc = "mapped" /\ pc' = "applied" /\ UNCHANGED <<golden, snapshot, bound, drifts>>
          /\ MappingHolds(mapped)
          /\ result'.pair = mapped /\ result'.token = snapshot
      BY <1>7 DEF Finalize, Raise
    <2>2. IsBound
      BY <2>1 DEF IsBound
    <2>3. /\ Identity(snapshot)' = Identity(snapshot) /\ Taken' = Taken
          /\ OwnToken(snapshot.state)' = OwnToken(snapshot.state)
      BY <1>1, <2>1 DEF Identity, Taken, OwnToken
    <2>4. golden' = born' \/ Misled'
      BY <1>1, <1>2, <2>1, <2>2, MisledStays DEF TransformOK
    <2>5. /\ result'.pair.source = Transform(Taken, golden.source, snapshot.state)'
          /\ result'.pair.target = golden'.target
      BY <1>1, <2>1, <2>3 DEF MappingHolds, Transform, Shifted, Reordered, Circular
    <2> QED
      BY <1>1, <1>2, <2>1, <2>3, <2>4, <2>5 DEF TransformOK
  <1>8. CASE Bind \/ Evaluate \/ Draw \/ Receive
    BY <1>8 DEF Bind, Evaluate, Draw, Receive
  <1>9. UNCHANGED vars => UNCHANGED <<pc, golden, snapshot, result, drifts>>
    BY DEF vars
  <1>10. CASE Write \/ Drift
    BY <1>4, <1>10, WrittenNull, DriftedNull
  <1>11. CASE TakeSnapshot \/ Admit \/ CheckToken \/ CheckTransform \/ Recapture
    <2>1. UNCHANGED vars
      BY <1>11 DEF TakeSnapshot, Admit, CheckToken, CheckTransform, Recapture
    <2> QED
      BY <1>4, <1>9, <2>1
  <1>12. CASE UNCHANGED cvars
    BY <1>4, <1>9, <1>12 DEF cvars
  <1> QED
    BY <1>4, <1>5, <1>6, <1>7, <1>8, <1>9, <1>10, <1>11, <1>12
       DEF CNext, Next, BindForRun, DrawToken, Apply, Finished, Over

\* The scan of a replicate is of an exact transform, or of one that apply was misled into.
LEMMA EvaluateScores ==
    ASSUME Traced, Evaluate
    PROVE  scored' \in Seq(ExactScores) \/ Misled
PROOF
  <1>1. step = "evaluate"
    BY DEF Evaluate
  <1>2. /\ pc = "applied" /\ IsBound /\ result.token = sampled
        /\ Identity(sampled) = OwnIdentity
    BY <1>1 DEF Traced, CheckpointOK, Running, Looping
  <1>3. /\ golden = born \/ Misled
        /\ Identity(snapshot) = OwnIdentity =>
               snapshot.state \in StatesOf(null) /\ snapshot = OwnToken(snapshot.state)
        /\ result.token = snapshot
        /\ result.pair.source = Transform(Taken, golden.source, snapshot.state)
    BY <1>2 DEF Traced, TransformOK
  <1>4. snapshot = sampled /\ null \in Nulls
    BY <1>2, <1>3 DEF Traced, BoundOK
  <1>5. sampled.state \in StatesOf(null) /\ snapshot = OwnToken(sampled.state)
    BY <1>2, <1>3, <1>4
  <1>6. Taken = null
    BY <1>4, <1>5, OwnTokenTakesItsNull
  <1>7. CASE golden = born
    <2>1. result.pair.source = Transform(null, born.source, sampled.state)
      BY <1>3, <1>4, <1>6, <1>7
    <2>2. [state |-> sampled.state, source |-> result.pair.source] \in ExactScores
      BY <1>5, <2>1 DEF ExactScores
    <2>3. scored' = Append(scored, [state |-> sampled.state, source |-> result.pair.source])
      BY DEF Evaluate
    <2>4. scored \in Seq(ExactScores) \/ Misled
      BY <1>2 DEF Traced, ScoresOK
    <2> QED
      BY <2>2, <2>3, <2>4
  <1> QED
    BY <1>3, <1>7

\* Nothing but the scan adds to what has been scored.
LEMMA ScoredByEvaluate ==
    ASSUME [CNext]_cvars
    PROVE  Evaluate \/ scored' = scored
PROOF
  BY DEF CNext, BindForRun, TakeSnapshot, Admit, DrawToken, CheckToken, Apply, CheckTransform,
     Recapture, Write, Over, cvars, watch

LEMMA ScoresOKStays == Traced /\ [CNext]_cvars => ScoresOK'
PROOF
  <1> SUFFICES ASSUME Traced, [CNext]_cvars
               PROVE  ScoresOK'
    OBVIOUS
  <1>1. ExactScores' = ExactScores
    BY RunStays, DerivedStay
  <1>2. CASE ~IsBound
    <2>1. scored = <<>>
      BY <1>2 DEF Traced, BoundOK
    <2>2. ~Evaluate
      BY <1>2 DEF Evaluate, Traced, CheckpointOK, Running, Looping
    <2>3. scored' = scored
      BY <2>2, ScoredByEvaluate
    <2> QED
      BY <2>1, <2>3 DEF ScoresOK
  <1>3. CASE IsBound
    <2>1. Misled => Misled'
      BY <1>3, MisledStays
    <2>2. scored \in Seq(ExactScores) \/ Misled
      BY <1>3 DEF Traced, ScoresOK
    <2>3. scored' \in Seq(ExactScores) \/ Misled
      BY <2>2, EvaluateScores, ScoredByEvaluate
    <2> QED
      BY <1>1, <2>1, <2>3 DEF ScoresOK
  <1> QED
    BY <1>2, <1>3

LEMMA Invariance == CSpec => []Traced
PROOF
  <1>1. Traced /\ [CNext]_cvars => Traced'
    BY BoundOKStays, TokenOKStays, CheckpointOKStays, TransformOKStays, ScoresOKStays
       DEF Traced
  <1> QED
    BY <1>1, TracedStart, PTL DEF CSpec

\* With one write at most apply has worked on the observed pair, with the null of the run.
LEMMA OneWriteIsTold ==
    ASSUME Traced, pc = "applied", drifts <= 1
    PROVE  /\ golden = born /\ Taken = null /\ result.token = snapshot
           /\ snapshot.state \in StatesOf(null) /\ snapshot = OwnToken(snapshot.state)
PROOF
  <1>1. TransformOK /\ BoundOK /\ IsBound
    BY DEF Traced, IsBound
  <1>2. Distance \in 0 .. 2
    BY DEF Distance
  <1>3. PICK x \in 0 .. 2 : x = Distance
    BY <1>2
  <1>4. drifts \in Nat /\ null \in Nulls
    BY <1>1 DEF BoundOK
  <1>5. ~Misled
    BY <1>3, <1>4 DEF Misled
  <1>6. /\ golden = born /\ result.token = snapshot
        /\ snapshot.state \in StatesOf(null) /\ snapshot = OwnToken(snapshot.state)
    BY <1>1, <1>5 DEF TransformOK
  <1> QED
    BY <1>4, <1>6, OwnTokenTakesItsNull

\* apply returns the exact mapping of the pair that was bound under the state its own token
\* names, for every null, pair and token: no single write to a slot and no function in the
\* place of the mapping gets another transform past the guard, the digests and the byte
\* comparison (prepare_owned_transform, finalize_transform_result).
THEOREM AppliedTransformsAreExact == CSpec => []AppliedIsExact
PROOF
  <1>1. Traced => AppliedIsExact
    <2> SUFFICES ASSUME Traced, pc = "applied", drifts <= 1
                 PROVE  /\ result.pair.source = Transform(null, born.source, result.token.state)
                        /\ result.pair.target = born.target
      BY DEF AppliedIsExact
    <2>1. golden = born /\ Taken = null /\ result.token = snapshot
      BY OneWriteIsTold
    <2>2. /\ result.pair.source = Transform(Taken, golden.source, snapshot.state)
          /\ result.pair.target = golden.target
      BY DEF Traced, TransformOK
    <2> QED
      BY <2>1, <2>2
  <1> QED
    BY <1>1, Invariance, PTL

\* The token of a result is the token of this null and run for a state of its space, whatever
\* other runs, nulls and lengths there are: four digests compared slot by slot and an owner
\* digest of the other three are enough against a foreign token and one write
\* (_validate_token_before_data_access).
THEOREM AppliedTokensAreOwned == CSpec => []AppliedTokenIsOwned
PROOF
  <1>1. Traced => AppliedTokenIsOwned
    <2> SUFFICES ASSUME Traced, pc = "applied", drifts <= 1
                 PROVE  AppliedTokenIsOwned
      BY DEF AppliedTokenIsOwned
    <2>1. /\ result.token.state \in StatesOf(null)
          /\ result.token = OwnToken(result.token.state)
      BY OneWriteIsTold
    <2>2. /\ Owned.digest = ParameterDigest(null.name, null.parameter)
          /\ Owned.owner = OwnerDigest("here", "here", Owned.digest, null.length)
      BY OwnedIsCoherent
    <2> QED
      BY <2>1, <2>2 DEF AppliedTokenIsOwned, OwnToken
  <1> QED
    BY <1>1, Invariance, PTL

\* A run that ends well scored exact transforms only, each under a state of the null, after
\* any three writes to the null, its class or a token at any moments, for every null, length
\* and number of replicates: misleading apply takes a write to the pair and one to its guard,
\* and the last recapture passes only once both have been put back (_execute_replicates,
\* _require_preparer_owned_prepared).
THEOREM ScoresAreExact == CSpec => []ScoredIsExact
PROOF
  <1>1. Traced => ScoredIsExact
    <2> SUFFICES ASSUME Traced, step = "closed", drifts <= 3, NEW i \in DOMAIN scored
                 PROVE  /\ scored[i].state \in StatesOf(null)
                        /\ scored[i].source = Transform(null, born.source, scored[i].state)
      BY DEF ScoredIsExact
    <2>1. Distance = 0 /\ IsBound
      BY DEF Traced, CheckpointOK
    <2>2. drifts \in Nat
      BY DEF Traced, BoundOK
    <2>3. ~Misled
      BY <2>1, <2>2 DEF Misled
    <2>4. scored \in Seq(ExactScores)
      BY <2>1, <2>3 DEF Traced, ScoresOK
    <2>5. scored[i] \in ExactScores
      BY <2>4
    <2> QED
      BY <2>5 DEF ExactScores
  <1> QED
    BY <1>1, Invariance, PTL
=============================================================================
