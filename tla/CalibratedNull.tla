---------------------------- MODULE CalibratedNull ----------------------------
(***************************************************************************)
(* The bound null in the hands of the calibrator (calibration_v2.py over   *)
(* the snapshotters of resolution_v2.py).                                  *)
(*                                                                         *)
(* What apply checks by itself is enough against one write (BoundNull).    *)
(* The calibrator calls it B times and adds two checkpoints: a light one   *)
(* after every call, which reads slots by value, the pair by its identity  *)
(* and no contents, and a full recapture before and after the loop, which  *)
(* recomputes the digests and compares the contents with the observed      *)
(* pair.  Between any two steps anything the null is made of may be        *)
(* written, and written back.                                              *)
(***************************************************************************)
EXTENDS BoundNull, Sequences

CONSTANTS
    Calibrated,   \* the nulls whose owner is the calibrator
    Planned(_),   \* replicates of the plan of a sampling null
    MaxWrites(_)  \* how much may be written during a run of a null

ASSUME CalibratedNullAssumption ==
    /\ Calibrated \subseteq Nulls \ Disturbed
    /\ \A nl \in Calibrated : Planned(nl) \in Nat \ {0} /\ MaxWrites(nl) \in Nat

VARIABLES
    step,        \* "direct" if the caller is not the calibrator, or its next segment
    aside,       \* the null's own pair while another object is in its slot, or None
    operations,  \* the descriptors its class has: "registered" or "replaced"
    entry,       \* the snapshot taken by the preparation
    fingerprint, \* what the first light checkpoint saw
    sampled,     \* the snapshot of the token of this replicate
    scored       \* what was evaluated: the state and the source it came with

watch == <<step, aside, operations, entry, fingerprint, sampled, scored>>

cvars == <<vars, watch>>

Enumerated == null.name = "circular_shift_exact_v1"

\* An enumerating null runs with every state but the identity, or not at all.
Replicates == IF Enumerated THEN null.length - 1 ELSE Planned(null)

-----------------------------------------------------------------------------
\* Checkpoints

\* The null as it is: its slots, which object its pair is, and its class.
Live == [slots |-> bound, aside |-> aside, operations |-> operations]

\* light_slots_signature: a pair is seen by its identity, so its contents are not.
LightView(image) ==
    [slots |-> [image.slots EXCEPT !.pair = None], own |-> image.aside = None,
     operations |-> image.operations]

LightHolds == LightView(Live) = fingerprint

\* Mutant of ShiftSlotsHold: the state count leaves the identity out.
ShiftSlotsHoldShort(b) ==
    /\ b.parameter = null.parameter
    /\ b.length = null.length
    /\ b.states = b.length - 2 * b.parameter + 1

\* The slots of each kind against the parameters of the plan and the input.
ShiftSlotsHold(b) ==
    /\ b.parameter = null.parameter
    /\ b.length = null.length
    /\ b.states = ShiftCount(b.length, b.parameter)

BlockSlotsHold(b) ==
    /\ b.parameter = null.parameter
    /\ b.count \in 2 .. MaxBlockCount
    /\ b.length = null.length
    /\ b.length % b.parameter = 0
    /\ b.count = b.length \div b.parameter
    /\ b.states = Cardinality(Orders(b.count))

\* The digests of this run, recomputed from the plan and the input.
IdentityHolds(b) ==
    /\ b.digest = ParameterDigest(null.name, null.parameter)
    /\ b.semantic = "here" /\ b.plan = "here"
    /\ b.owner = OwnerDigest("here", "here", ParameterDigest(null.name, null.parameter), null.length)

\* Mutant of ContentsHold: the guard stands for the contents it was taken of.
ContentsAsGuarded(b) == b.guard = ContentGuard(b.pair)

\* The guard is the digest of the contents and these are the observed pair.
ContentsHold(b) == b.guard = ContentGuard(b.pair) /\ b.pair = born

\* _snapshot_bound_null and the snapshotter registered for the kind of null.
SnapshotHolds(b) ==
    /\ IdentityHolds(b)
    /\ IF Circular(null) THEN ShiftSlotsHold(b) ELSE BlockSlotsHold(b)
    /\ ContentsHold(b)

\* _verify_bound_null_unchanged: a snapshot as good as the first one, and equal to it.
Unchanged ==
    /\ SnapshotHolds(bound)
    /\ Live = entry

\* _snapshot_replicate_token: a sound token with the digests of the prepared null.
TokenHolds(t) == TokenIsSound(t) /\ TokenIsOwned(t, entry.slots)

\* _validate_transform_result: the same token, and a pair that differs from the
\* calibrator's own copy of the observed one as reported.
TransformHolds(r) ==
    /\ TokenHolds(r.token) /\ r.token = sampled
    /\ r.pair.target = born.target
    /\ r.changed = (r.pair.source # born.source)

-----------------------------------------------------------------------------
\* The calibrator

CInit ==
    /\ Init
    /\ step = IF null \in Calibrated THEN "bind" ELSE "direct"
    /\ aside = None /\ operations = "registered"
    /\ entry = None /\ fingerprint = None /\ sampled = None
    /\ scored = <<>>

\* A checkpoint: go on, or raise.
Check(holds, next) == step' = IF holds THEN next ELSE "refused"

\* A disabled null ends the run before its first snapshot.
BindForRun ==
    /\ step = "bind"
    /\ Bind
    /\ step' = IF pc' = "disabled" THEN "terminal" ELSE "snapshot"
    /\ UNCHANGED <<aside, operations, entry, fingerprint, sampled, scored>>

TakeSnapshot ==
    /\ step = "snapshot"
    /\ Check(SnapshotHolds(bound), "admit")
    /\ entry' = Live
    /\ UNCHANGED <<vars, aside, operations, fingerprint, sampled, scored>>

\* _require_preparer_owned_prepared before the loop, and the first light fingerprint.
Admit ==
    /\ step = "admit"
    /\ Check(Unchanged, "draw")
    /\ fingerprint' = LightView(Live)
    /\ UNCHANGED <<vars, aside, operations, entry, sampled, scored>>

\* Of an enumerating null the replicate names the state.
HandedOut ==
    IF Enumerated
    THEN (Drawable(null, bound) \ {0}) \cap {Len(scored) + 1}
    ELSE Drawable(null, bound)

DrawToken ==
    /\ step = "draw"
    /\ Check(HandedOut # {}, "drawn")
    /\ IF HandedOut # {} THEN Draw /\ token'.state \in HandedOut ELSE UNCHANGED vars
    /\ UNCHANGED <<aside, operations, entry, fingerprint, sampled, scored>>

CheckToken ==
    /\ step = "drawn"
    /\ Check(TokenHolds(token) /\ LightHolds, "apply")
    /\ sampled' = token
    /\ UNCHANGED <<vars, aside, operations, entry, fingerprint, scored>>

Apply ==
    /\ step = "apply"
    /\ Prepare \/ Map \/ Finalize
    /\ step' = CASE pc' = "raised"  -> "refused"
                 [] pc' = "applied" -> "applied"
                 [] OTHER           -> "apply"
    /\ UNCHANGED <<aside, operations, entry, fingerprint, sampled, scored>>

CheckTransform ==
    /\ step = "applied"
    /\ Check(TransformHolds(result) /\ LightHolds, "evaluate")
    /\ UNCHANGED <<vars, aside, operations, entry, fingerprint, sampled, scored>>

\* The scan of the transformed pair, and what is compared after it.
Evaluate ==
    /\ step = "evaluate"
    /\ Check(TokenHolds(token) /\ token = sampled /\ LightHolds,
             IF Len(scored) + 1 = Replicates THEN "recapture" ELSE "draw")
    /\ scored' = Append(scored, [state |-> sampled.state, source |-> result.pair.source])
    /\ pc' = "bound" /\ own' = FALSE
    /\ token' = None /\ golden' = None /\ snapshot' = None /\ mapped' = None /\ result' = None
    /\ UNCHANGED <<null, born, bound, drifts, aside, operations, entry, fingerprint, sampled>>

\* _require_preparer_owned_prepared after the last replicate.
Recapture ==
    /\ step = "recapture"
    /\ Check(Unchanged /\ LightHolds, "closed")
    /\ UNCHANGED <<vars, aside, operations, entry, fingerprint, sampled, scored>>

-----------------------------------------------------------------------------
\* Writes between the steps

\* A slot, the contents of the pair included.
WriteSlot ==
    /\ bound' \in BoundDrifts \ {bound}
    /\ UNCHANGED <<token, aside, operations>>

\* Another pair object in the slot, or the null's own put back.
SwapPair ==
    /\ \/ /\ aside = None
          /\ aside' = bound.pair
          /\ \E p \in Pairs : bound' = [bound EXCEPT !.pair = p]
       \/ /\ aside # None
          /\ aside' = None
          /\ bound' = [bound EXCEPT !.pair = aside]
    /\ UNCHANGED <<token, operations>>

ReplaceOperation ==
    /\ operations' \in {"registered", "replaced"} \ {operations}
    /\ UNCHANGED <<bound, token, aside>>

WriteToken ==
    /\ token # None
    /\ token' \in TokenDrifts \ {token}
    /\ UNCHANGED <<bound, aside, operations>>

Write ==
    /\ step \notin {"direct", "bind", "terminal", "closed", "refused"}
    /\ drifts < MaxWrites(null)
    /\ drifts' = drifts + 1
    /\ WriteSlot \/ SwapPair \/ ReplaceOperation \/ WriteToken
    /\ UNCHANGED <<null, born, pc, own, golden, snapshot, mapped, result>>
    /\ UNCHANGED <<step, entry, fingerprint, sampled, scored>>

Over ==
    /\ step \in {"terminal", "closed", "refused"}
    /\ UNCHANGED cvars

CNext ==
    \/ step = "direct" /\ Next /\ UNCHANGED watch
    \/ BindForRun \/ TakeSnapshot \/ Admit
    \/ DrawToken \/ CheckToken \/ Apply \/ CheckTransform \/ Evaluate \/ Recapture
    \/ Write \/ Over

CSpec == CInit /\ [][CNext]_cvars

-----------------------------------------------------------------------------
\* What every step of an undisturbed run finds: the parts of the inductive invariant

Owned == Slots(null, born, "here")

\* The token of this null and run for a state.
OwnToken(s) == TokenFor(null, "here", "here", Owned.digest, Owned.owner, s)

\* The pair a state makes of the observed one.
Moved(s) == [source |-> Transform(null, born.source, s), target |-> born.target]

ExactScores == {[state |-> s, source |-> Transform(null, born.source, s)] : s \in StatesOf(null)}

Looping == {"draw", "drawn", "apply", "applied", "evaluate", "recapture"}

Running == {"snapshot", "admit"} \cup Looping

\* The null is as bind made it, and the checkpoints have seen nothing else.
NullIsIntact ==
    /\ step \in Running =>
           /\ BindStatus(null) = "ENABLED"
           /\ bound = Owned /\ aside = None /\ operations = "registered"
           /\ scored \in Seq(ExactScores)
           /\ step # "recapture" => Len(scored) < Replicates
    /\ step \in {"snapshot", "admit", "draw", "drawn"} => pc = "bound"
    /\ step \in Running \ {"snapshot"} => entry = Live
    /\ step \in Looping => fingerprint = LightView(Live)

\* The token is the one of a state, and apply has made of the observed pair what it names.
Carries(s) ==
    /\ token = OwnToken(s)
    /\ step # "drawn" => sampled = token
    /\ step = "apply" =>
           /\ pc \in {"mapping", "mapped"} => golden = born /\ snapshot = token
           /\ pc = "mapped" => mapped = Moved(s)
    /\ step \in {"applied", "evaluate"} =>
           result = [pair |-> Moved(s), token |-> token,
                     changed |-> Moved(s).source # born.source,
                     equivalent |-> ~token.identity /\ Moved(s).source = born.source]

TokenIsIntact ==
    step \in {"drawn", "apply", "applied", "evaluate"} => \E s \in StatesOf(null) : Carries(s)

Undisturbed ==
    /\ null \in Calibrated /\ born \in Pairs
    /\ step \in {"bind", "terminal", "closed"} \cup Running
    /\ step = "bind" => scored = <<>> /\ aside = None /\ operations = "registered"
    /\ NullIsIntact
    /\ TokenIsIntact

UndisturbedInv ==
    /\ drifts \in Nat
    /\ drifts = 0 /\ step # "direct" => Undisturbed

-----------------------------------------------------------------------------
\* Properties

\* A run that ends well scored the exact transforms of the observed pair, each under a state
\* of the space, after any three writes at any time: misleading apply takes a write to the
\* pair and one to its guard, and hiding it from the checkpoints takes two more.
ScoredIsExact ==
    step = "closed" /\ drifts <= 3 =>
        \A i \in DOMAIN scored :
            /\ scored[i].state \in StatesOf(null)
            /\ scored[i].source = Transform(null, born.source, scored[i].state)

\* A run nobody interferes with is never refused: what bind stores passes every snapshot,
\* what is drawn is a token of the run, and apply changes nothing a checkpoint reads.
UndisturbedRunIsNotRefused == drifts = 0 => step # "refused"
=============================================================================
