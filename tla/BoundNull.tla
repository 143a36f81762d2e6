------------------------------ MODULE BoundNull ------------------------------
(***************************************************************************)
(* One bound null and one token, from bind to apply (nulls/*_v2.py and     *)
(* circular_shift_exact_v1.py over owned_transform_v2.py).                 *)
(*                                                                         *)
(* Records are frozen but their slots can be written, so between any two   *)
(* calls one slot of the bound null or of the token may change; the        *)
(* mapping is a module function that may be replaced.  apply validates     *)
(* the slots and the token, copies the observed pair behind its content    *)
(* guard, maps the copy and compares the bytes with an equation of its     *)
(* own.  A digest is an injective constructor of what it digests.          *)
(***************************************************************************)
EXTENDS NullStates

CONSTANTS
    Nulls,      \* the nulls that may be bound
    Values,     \* values of a series
    Strangers,  \* nulls of other runs, whose tokens may come by
    Disturbed,  \* the nulls whose slots may be written and whose mapping may be replaced
    MaxDrifts,  \* how many slots may be written
    None        \* absent, equal to nothing else

ASSUME BoundNullAssumption ==
    /\ Nulls \cup Strangers \subseteq
           [name : NullNames, length : Nat \ {0}, parameter : Nat \ {0}]
    /\ \A null \in Nulls \cup Strangers : Constructible(null)
    /\ \A null \in Strangers : BindStatus(null) = "ENABLED"
    /\ Disturbed \subseteq Nulls
    /\ MaxDrifts \in Nat

VARIABLES
    null,       \* the null of this run
    born,       \* the observed pair given to bind
    pc,         \* "unbound", "disabled", "bound", "mapping", "mapped", "applied", "raised"
    bound,      \* the slots of the bound null
    token,      \* the token to apply
    own,        \* the token came from this bound null
    golden,     \* the guarded copy of the observed pair
    snapshot,   \* the validated copy of the token
    mapped,     \* what the mapping function returned
    result,     \* the transform result
    drifts      \* slots changed so far

vars == <<null, born, pc, bound, token, own, golden, snapshot, mapped, result, drifts>>

Series == [0 .. null.length - 1 -> Values]

\* Two targets suffice to tell a changed target from the observed one.
Targets == {[i \in 0 .. null.length - 1 |-> v] : v \in Values}

Pairs == [source : Series, target : Targets]

-----------------------------------------------------------------------------
\* Digests and slots

ParameterDigest(name, value) == <<name, value>>

OwnerDigest(semantic, plan, parameter, length) == <<semantic, plan, parameter, length>>

ContentGuard(pair) == pair

\* _total_state_count, the identity included.
TotalStates(nl) ==
    IF Circular(nl) THEN ShiftCount(nl.length, nl.parameter) ELSE Cardinality(StatesOf(nl))

\* What bind stores for a null of a run.
Slots(nl, pair, run) ==
    [pair      |-> pair,
     parameter |-> nl.parameter,
     length    |-> nl.length,
     count     |-> IF Circular(nl) THEN 0 ELSE BlockCount(nl),
     states    |-> TotalStates(nl),
     semantic  |-> run,
     plan      |-> run,
     digest    |-> ParameterDigest(nl.name, nl.parameter),
     owner     |-> OwnerDigest(run, run, ParameterDigest(nl.name, nl.parameter), nl.length),
     guard     |-> ContentGuard(pair)]

\* The zero shift, or the blocks in their own order.
IsIdentity(nl, state) ==
    state = IF Circular(nl) THEN 0 ELSE Ascending(Cardinality(DOMAIN state))

\* _token_for_shift and _token_for_order: ownership is copied from the slots.
TokenFor(nl, semantic, plan, digest, owner, state) ==
    [name |-> nl.name, semantic |-> semantic, plan |-> plan, digest |-> digest, owner |-> owner,
     identity |-> IsIdentity(nl, state), state |-> state]

\* identity_token and enumerate_token of the exact null, which refuses to sample.
EnumeratedShifts(b) == {0} \cup {k + 1 : k \in 0 .. b.states - 2}

SampledShifts(b) == {ShiftAt(b.parameter, k) : k \in 0 .. b.states - 1}

\* An order of fewer than two blocks is no state.
SampledOrders(b) == IF b.count < 2 THEN {} ELSE Orders(b.count)

\* The states a bound null with these slots hands out.
Drawable(nl, b) ==
    CASE nl.name = "circular_shift_v2" -> SampledShifts(b)
      [] nl.name = "circular_shift_exact_v1" -> EnumeratedShifts(b)
      [] OTHER -> SampledOrders(b)

-----------------------------------------------------------------------------
\* Bind and tokens

Init ==
    /\ null \in Nulls
    /\ born \in Pairs
    /\ pc = "unbound"
    /\ bound = None /\ token = None /\ own = FALSE
    /\ golden = None /\ snapshot = None /\ mapped = None /\ result = None
    /\ drifts = 0

Bind ==
    /\ pc = "unbound"
    /\ IF BindStatus(null) = "ENABLED"
       THEN pc' = "bound" /\ bound' = Slots(null, born, "here")
       ELSE pc' = "disabled" /\ UNCHANGED bound
    /\ UNCHANGED <<null, born, token, own, golden, snapshot, mapped, result, drifts>>

\* identity_token, sample_token or enumerate_token of this null.
Draw ==
    /\ pc = "bound" /\ token = None
    /\ \E s \in Drawable(null, bound) :
        token' = TokenFor(null, bound.semantic, bound.plan, bound.digest, bound.owner, s)
    /\ own' = TRUE
    /\ UNCHANGED <<null, born, pc, bound, golden, snapshot, mapped, result, drifts>>

\* A token of a null bound for another run, parameter, length or kind.
Receive ==
    /\ pc = "bound" /\ token = None
    /\ \E nl \in Strangers, run \in {"here", "elsewhere"} :
       \E s \in Drawable(nl, Slots(nl, born, run)) :
        /\ <<nl, run>> # <<null, "here">>
        /\ LET d == ParameterDigest(nl.name, nl.parameter)
           IN  token' = TokenFor(nl, run, run, d, OwnerDigest(run, run, d, nl.length), s)
    /\ UNCHANGED <<null, born, pc, bound, own, golden, snapshot, mapped, result, drifts>>

-----------------------------------------------------------------------------
\* Slots written from outside

OtherDigest == ParameterDigest(null.name, null.parameter + 1)

BoundDrifts ==
    {[bound EXCEPT !.pair = p] : p \in Pairs}
    \cup {[bound EXCEPT !.parameter = k] : k \in 1 .. null.length}
    \cup {[bound EXCEPT !.length = k] : k \in 1 .. null.length + 1}
    \cup {[bound EXCEPT !.count = k] : k \in 0 .. MaxBlockCount + 1}
    \cup {[bound EXCEPT !.states = k] : k \in 0 .. TotalStates(null) + 1}
    \cup {[bound EXCEPT !.semantic = "elsewhere"], [bound EXCEPT !.plan = "elsewhere"]}
    \cup {[bound EXCEPT !.digest = OtherDigest]}
    \cup {[bound EXCEPT !.owner = OwnerDigest("elsewhere", bound.plan, bound.digest, bound.length)]}
    \cup {[bound EXCEPT !.guard = ContentGuard(p)] : p \in Pairs}

\* Shifts and orders a slot may be set to, valid here or not.
AnyState == IF Circular(null) THEN 0 .. null.length ELSE Orders(BlockCount(null)) \cup Orders(3)

TokenDrifts ==
    {[token EXCEPT !.state = s] : s \in AnyState}
    \cup {[token EXCEPT !.identity = ~token.identity]}
    \cup {[token EXCEPT !.semantic = "elsewhere"], [token EXCEPT !.plan = "elsewhere"]}
    \cup {[token EXCEPT !.digest = OtherDigest]}
    \cup {[token EXCEPT !.owner = OwnerDigest("elsewhere", token.plan, token.digest, null.length)]}

Drift ==
    /\ pc \in {"bound", "mapping"} /\ token # None /\ token.name = null.name
    /\ null \in Disturbed /\ drifts < MaxDrifts
    /\ \/ bound' \in BoundDrifts \ {bound} /\ UNCHANGED token
       \/ token' \in TokenDrifts \ {token} /\ UNCHANGED bound
    /\ drifts' = drifts + 1
    /\ UNCHANGED <<null, born, pc, own, golden, snapshot, mapped, result>>

-----------------------------------------------------------------------------
\* apply

Raise(name) ==
    /\ pc' = "raised"
    /\ UNCHANGED name

\* A token of this kind whose identity flag is the one of its state.
TokenIsSound(t) ==
    /\ t.name = null.name
    /\ t.identity = IsIdentity(null, t.state)

\* Both digests of the slots, recomputed.
DigestsHold(b) ==
    /\ b.digest = ParameterDigest(null.name, b.parameter)
    /\ b.owner = OwnerDigest(b.semantic, b.plan, b.digest, b.length)

\* Mutant of TokenIsOwned: the plan and input digests only, as if they named the null.
TokenIsOwnedByRun(t, b) == t.semantic = b.semantic /\ t.plan = b.plan

TokenIsOwned(t, b) ==
    /\ t.digest = b.digest
    /\ t.semantic = b.semantic
    /\ t.plan = b.plan
    /\ t.owner = b.owner

PairLength(b) == Cardinality(DOMAIN b.pair.source)

\* _validate_token_before_data_access of each null.
SampledShiftAccepts(t, b) ==
    /\ 2 * b.parameter <= b.length
    /\ DigestsHold(b)
    /\ TokenIsOwned(t, b)
    /\ InShifts(t.state, b.length, b.parameter)

\* The exact null recomputes no digest and takes the length from the pair it holds now.
ExactShiftAccepts(t, b) ==
    /\ b.parameter = 1
    /\ TokenIsOwned(t, b)
    /\ 0 <= t.state /\ t.state < PairLength(b)

BlockOrderAccepts(t, b) ==
    /\ b.count \in 2 .. MaxBlockCount
    /\ b.length % b.parameter = 0
    /\ b.length \div b.parameter = b.count
    /\ DigestsHold(b)
    /\ TokenIsOwned(t, b)
    /\ t.state \in Orders(b.count)

Accepts(t, b) ==
    /\ TokenIsSound(t)
    /\ CASE null.name = "circular_shift_v2" -> SampledShiftAccepts(t, b)
         [] null.name = "circular_shift_exact_v1" -> ExactShiftAccepts(t, b)
         [] OTHER -> BlockOrderAccepts(t, b)

\* Mutant of GuardHolds: the pair is trusted.
GuardIgnored(b) == TRUE

\* prepare_owned_transform: the pair held now has the digest taken at bind.
GuardHolds(b) == ContentGuard(b.pair) = b.guard

\* The golden copy has the length the slots say.
LengthHolds(b) == null.name # "circular_shift_exact_v1" => b.length = PairLength(b)

\* apply up to the mapping: nothing of the caller runs in between.
Prepare ==
    /\ pc = "bound" /\ token # None
    /\ IF Accepts(token, bound) /\ GuardHolds(bound) /\ LengthHolds(bound)
       THEN pc' = "mapping" /\ golden' = bound.pair /\ snapshot' = token
       ELSE Raise(<<golden, snapshot>>)
    /\ UNCHANGED <<null, born, bound, token, own, mapped, result, drifts>>

\* The null with the parameter whose digest apply has just checked.
Taken == [null EXCEPT !.parameter = snapshot.digest[2]]

\* _apply_state, or what stands in its place.
Map ==
    /\ pc = "mapping"
    /\ pc' = "mapped"
    /\ mapped' \in {[source |-> Transform(Taken, golden.source, snapshot.state),
                     target |-> golden.target]}
                   \cup (IF null \in Disturbed THEN Pairs ELSE {})
    /\ UNCHANGED <<null, born, bound, token, own, golden, snapshot, result, drifts>>

\* The bytes of the mapped pair against the mapping equation on the golden copy.
MappingHolds(pair) ==
    /\ pair.target = golden.target
    /\ pair.source = Transform(Taken, golden.source, snapshot.state)

\* finalize_transform_result and the constructor of its result.
Finalize ==
    /\ pc = "mapped"
    /\ LET changed == mapped.source # golden.source
       IN  IF MappingHolds(mapped) /\ ~(snapshot.identity /\ changed)
           THEN /\ pc' = "applied"
                /\ result' = [pair |-> mapped, token |-> snapshot, changed |-> changed,
                              equivalent |-> ~snapshot.identity /\ ~changed]
           ELSE Raise(result)
    /\ UNCHANGED <<null, born, bound, token, own, golden, snapshot, mapped, drifts>>

Finished ==
    /\ pc \in {"disabled", "applied", "raised"}
    /\ UNCHANGED vars

Next == Bind \/ Draw \/ Receive \/ Drift \/ Prepare \/ Map \/ Finalize \/ Finished

Spec == Init /\ [][Next]_vars

-----------------------------------------------------------------------------
\* Properties

\* A transform that is returned is the exact mapping of the pair that was bound, under the
\* state its own token names, whatever single slot was written and whatever stood in for
\* the mapping (apply, prepare_owned_transform, finalize_transform_result).
AppliedIsExact ==
    pc = "applied" /\ drifts <= 1 =>
        /\ result.pair.source = Transform(null, born.source, result.token.state)
        /\ result.pair.target = born.target

\* The token of a result belongs to this null of this run and names a state of its space
\* truly flagged: no token of another run, parameter, length or kind is ever applied.
AppliedTokenIsOwned ==
    pc = "applied" /\ drifts <= 1 =>
        LET digest == ParameterDigest(null.name, null.parameter)
        IN  /\ result.token.state \in StatesOf(null)
            /\ result.token =
                   TokenFor(null, "here", "here", digest,
                            OwnerDigest("here", "here", digest, null.length), result.token.state)
=============================================================================
