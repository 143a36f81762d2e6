# Verification of SelCal

SelCal calibrates the maximum of a statistic scanned over several lags: it evaluates the whole
family on the observed pair of series, evaluates the whole family again on B surrogate states of
a null model, reselects the maximum each time, and reports a plus-one p-value. A run is bound to
a frozen plan; a failed replicate stops a decision instead of shrinking the denominator; every
object an adapter could change is compared with a snapshot before it is trusted again. Around the
calibrator there is a file workflow that saves a record which can be verified and replayed later.

This directory holds TLA+ modules for that behaviour, TLC configurations that check them on
small instances, and TLAPS proofs of the results that hold for every instance. Paths below are
those of `src/selcal/` in the repository; `PROJECT.json` maps every definition to its lines.

## 1. The system

| Part | State | Operations | Talks to |
| --- | --- | --- | --- |
| Calibrator (`calibration_v2.py`) | prepared graph and its fingerprints, observed vector, exact-B history, result under construction | `calibrate_selected_family` | statistic, null, selector, verifier (callbacks); random streams |
| Selector (`selection_v2.py`) | none | `select_family_v2` | calibrator, oracle |
| Contracts and verifier (`contracts_v2.py`, `_verifier_primitives_v2.py`) | immutable records, a frozen verifier capsule | constructors, `verify_calibration_result` | calibrator, workflow |
| Result wire (`result_wire.py`) | none | `encode_calibration_result`, `decode_calibration_result` | workflow, contracts |
| Nulls (`nulls/*`) | a pair of series with its content guard, ownership digests | `bind`, `identity_token`, `sample_token`, `enumerate_token`, `snapshot_token`, `apply` | calibrator, random streams |
| Randomness (`randomness.py`) | one PCG64 stream per replicate | `create_stream`, `randbelow` | calibrator, nulls |
| Statistics (`statistics/*`, `support.py`) | bound candidate family | `bind`, `evaluate_all` | calibrator |
| Resolution (`resolution_v2.py`, `registry.py`) | a registry of resolutions by id, weak references, sealed objects | `resolve_plan_v2`, three ownership gates | calibrator, verifier, workflow, oracle |
| Exact oracle (`exact_oracle_v0.py`) | none | `exact_state_oracle_v0` | resolution, selector |
| Workflow (`workflow.py`) | none of its own: files | `preflight`, `run_files`, `verify_record`, `report_record` | all of the above |
| Record store (`workflow_store.py`) | one SQLite file per record | `write_record`, `read_record` | workflow |
| Input snapshots (`input_resources.py`) | none: bounded reads of files | `read_regular_file_snapshot` | workflow, loaders |
| Loaders (`inputs.py`, `npz_safe.py`) | none: positions in one snapshot, the decompressor | `load_csv`, `load_npz` | workflow, input snapshots |
| Configuration, canonical JSON, migration, command line | none | pure functions and argument parsing | workflow |

The behaviours that are hard to test, listed with their lines under "hazards" in `PROJECT.json`:

- *Callbacks.* The calibrator is sequential, but adapters and the public verifier are foreign
  code that runs between its statements and can reach what it still reads. The same holds for the
  getters that resolution calls and for the slots of a bound null.
- *Arithmetic at boundaries.* Off-by-one in the shift spaces, ties of maxima, a float product
  next to a whole number, rejection sampling, the floor of an attainable p-value.
- *Object identity.* The registry is keyed by `id()`: ids are used again, and callbacks of weak
  references arrive late.
- *Files.* Two writers, torn reads, power losses, a path that is replaced, sources that are edited
  while a process runs.
- *Results that outlive their run.* A result is verified without its pair, written as JSON, kept,
  edited, read and verified again: every field must follow from the others or from the plan.
- *Broken files.* Headers that contradict the data, streams that end elsewhere than their
  member, a decompressor that takes a part of what it is given, limits met to the byte.
- *Partial failure.* A replicate that fails, a write that fails half way, a plan that is refused.

## 2. Modules

| Module | Models | State and actions |
| --- | --- | --- |
| `FamilySelection` | `select_family_v2` | operators: score, decision, tie set, selected candidate |
| `Calibration` | `calibrate_selected_family` and the verifier it ends with | one action per segment between two callbacks |
| `SelectedFamilyTest` | what a calibration promises | draws and one verdict, signed by the test or by the public hook |
| `CalibrationRefinement` | the mapping from the first to the second | `draws` are the tokens of the history, `verdict` is what the caller learns |
| `NullStates` | state spaces and mappings of the three nulls | operators |
| `ReplicateDraw` | `sample_token` over `randbelow` | one action per raw 64-bit word |
| `BoundNull` | `bind`, tokens, `apply` | bind, draw or receive a token, prepare, map, finalize; slots written from outside |
| `CalibratedNull` | the calibrator's snapshots of a bound null, its light checkpoints and its recaptures, around `BoundNull` | one action per call and per checkpoint; writes between any two |
| `ResultContract` | the records of a result: what runs report and what constructors admit | operators |
| `ResultVerifier` | `verify_calibration_result` | operators, one per check |
| `ResultExchange` | a result from its run to its restoration | verify, encode, decode; fields written, documents edited |
| `LagWindows` | common support, forward and reverse windows | operators |
| `ExactOracle` | the oracle's enumeration and p-value | operators |
| `Attainability` | `preflight`, the admission of `run_files`, the test it speaks about | budget, assessment with its two loops, admission, draws, decision |
| `Resolution` | `resolve_plan_v2`, the registry, the gates | one action per segment between two getters; deaths, revivals, late callbacks, copies, changes |
| `RecordStore` | `write_record`, `read_record`, `read_regular_file_snapshot` | one action per system call; other programs, failed calls, power losses |
| `RecordRegister` | what the record store promises | what is stored, who has returned, what was answered |
| `RecordStoreRefinement` | the mapping from the first to the second | `stored` is what the path can be read as, `answer` what `read_record` returned |
| `InputDecoding` | `load_csv`, `load_npz` | preflight, one action per call of the decompressor, per member, per record; the checks of the pair |
| `Workflow` | `run_files`, `verify_record`, `report_record` | one action per read, write, digest or computation; edits by others |

`Calibration` extends `FamilySelection`; `ReplicateDraw`, `LagWindows` and `BoundNull` extend
`NullStates`; `CalibratedNull` extends `BoundNull`; `ResultExchange` extends `ResultVerifier`, which
extends `ResultContract`, which extends `FamilySelection` and `NullStates`; `ReplicateDraw` and `Attainability` extend `ExactOracle`, `Attainability` also
`LagWindows`. `MC*` modules give small instances; `MCNullTest` puts a plan (`Attainability`) and one replicate's
draw (`ReplicateDraw`) side by side, one of which rests while the other runs.

| Proofs | Hold what is proved of |
| --- | --- |
| `CalibrationProofs` | `FamilySelection`, `Calibration`, `CalibrationRefinement` |
| `CalibratedNullProofs` | `NullStates`, `BoundNull`, `CalibratedNull` |
| `ResultExchangeProofs` | `ResultContract`, `ResultVerifier`, `ResultExchange` |
| `NullTestProofs` | `LagWindows`, `ExactOracle`, `Attainability`, `ReplicateDraw` |
| `RecordStoreProofs` | `RecordStore`, `RecordStoreRefinement` |
| `ResolutionProofs`, `InputDecodingProofs`, `WorkflowProofs` | the module they are named after |

### Calibration

`pc` names the next segment. One step is one callback together with the checks the code makes
before the next callback; the pure segments (budget, closing of the history, finalisation) are
steps of their own. What a callback can do to the run's objects is abstracted to `drift`, the set
of components that differ from their snapshot: a check "the signature equals the snapshot" is the
test that the component is not in `drift`, and a read of a drifted component returns anything of
its type. `Faults` says which components a callback may make drift and `Restorable` which a later
callback may put back unseen. Two checkpoints matter: the light one inside the loop compares slots
and array headers (`LightVisible`), the full recapture compares contents too (`PreparedGraph`) but
calls getters, so that a drift made while it runs falls to the next check.

`stat[s]` is the vector the statistic has on null state `s`; estimates are integers, because the
selector only compares, subtracts and takes absolute values, and `p` and `alpha` are fractions.
Seed digests and streams are left out: `token` is any state for a sampling plan and state
`id + 1` for an enumerating one. A forged token of a sampling plan is not detectable by the code
and is not claimed to be. The reported lag is modelled for the observed selection only.

The public hook after the run is code of the caller's that may rewrite the result before it is verified. It may alter one
field, or replace all of them by those of any other result of the plan that agrees with itself
(`HookedResults`, `ConsistentResults`). The frozen verifier has no pair and no null: it checks
self-consistency, so a replaced result is returned. What the code does give is that a returned result is
consistent and of this plan and entry, whoever made it; and what it says of the drawn states, counts, label,
bounds and exact p-value, is claimed of results that the hook kept (`HookKeptResult`). A hook that alters
what it was given and does not change every dependent field is caught by the verifier.

`SelectedFamilyTest` says what the result means and nothing about how: B states are drawn, a
decision counts those whose maximum reaches the observed one, with failures the verdict is the
pair of bounds, and a run may be refused. A verdict is signed: "test" for one about the draws, "hook" for one
that was put in its place (`Replace`), which is still a verdict on some scans of B replicates
but on none in particular. `ImplementsTest` is its specification under the refinement mapping, which takes the
signature from whether the hook kept the result.

### Nulls, draws and the oracle

A state is a shift or an order of blocks. `ReplicateDraw` reads words of `WordBits` bits, any word
at any time, so it says which states are drawn and by how many index sequences, not with which
seed. Powers of two are a recursive function (`PowerOfTwo`), because the provers know nothing of `^`. `BoundNull` holds the slots of a bound null that `apply` or the calibrator checks; digests are injective constructors.
The three nulls check different things before they touch the data: the two sampling nulls
recompute both digests from their slots, `circular_shift_exact_v1` does not and takes the length
from the pair it holds. At most one slot is written (`MaxDrifts = 1`): whoever writes the pair
*and* its guard gets a transform of the other pair, which no check of `apply` can see.

### The null in the hands of the calibrator

`CalibratedNull` puts the calibrator around `BoundNull`. `step` names its next segment; `Apply`
takes the actions of `BoundNull` as they are, and `step = "direct"` is a caller that is not the
calibrator. A *full* check (`Unchanged`: the preparation and the recapture after the last
replicate) works every slot and digest out again from the plan and the input, takes the contents of
the pair and compares all with the first snapshot. A *light* check (`LightHolds`: after each call)
compares slots by value and the pair by its identity, so contents escape it; `aside` says whether
the slot holds the null's own pair object. Between any two steps anything may be written: a slot, the
contents of the pair, the object in its slot, a method of the class, the token.

Misleading `apply` takes two writes, the contents and the guard; the light checkpoints see the guard
and the recapture sees both. So it takes four writes, each of the two put back before the next
check, to be scored on another pair and not be noticed. `ScoredIsExact` therefore speaks of up to
three, and with four TLC does find a run that scores another pair. This is the sharp form of what
`drift` says of the abstract component of `Calibration`.

### Results

`ResultContract` says what a run reports (`Report`, from a plan and the raw answers of the
adapters) and what the constructors admit (`Admitted`). `ResultVerifier` is the verifier's own
derivation: it recomputes scores, ties and selections, seeds, owners, exceedances, p-values and
bounds from what is retained. It runs no foreign code and has one answer, so it is a predicate.
The property is an equivalence. Reports are one side, made of `RunIsPossible` and `Report`, which mention no check of the
verifier: a run whose null does not bind, or whose exact null has not one state for each replicate, ends
before its observed scan (`Starts`), and an identity replicate reproduces the observed maximum or the
run raises (`Reproduces`). The other side is the verifier and what it does not look at, because it has no pair (`Unlooked`):

- `EndContradictsNull`: a terminal result of a scan that the null would have ended before, or an end by a null
  that every length would have let start;
- `SupportIsShort`: fewer rows of common support than the statistic binds (`LeastSupport`, two for `lagged_pearson`, one for
  `binned_nette`);
- `IdentityDiffers`: an identity replicate with another maximum than the observed one.

A result is accepted and none of the three exactly when some run reports its facts. So each of these results *is*
accepted by the code, which says of itself that it checks self-consistency (`contracts_v2.py:1414-1419`), and no other
that is not a report. Still open to any answer are which input the digest of the pair names, which state a seed draws and
what a statistic answers. Facts leave out three things that no check reads but for their types: the
diagnostics of the result (the calibrator writes fixed ones, `BindDiagnostics` and `RefusalDiagnostics`,
the verifier wants a tuple of strings; they are kept through storage), types of leaves and signs of zeros. Diagnostics of
outcomes and items are not modelled.

`inexact` marks leaves where a value of another type stands in for an equal one (the elements of
the tie tuple, the schema strings of a token and its state, the empty observed vector), and `negative` kinds of floats of which one
is a -0.0. The verifier compares both by `==` only. The constructors turn -0.0 into 0.0, so that
the decoder's copy of the document spells it differently, and the encoder, which decodes what it
wrote, refuses such a result before anything is stored; it refuses inexact leaves as well.

A constant set of `Runs` stands for what was calibrated. `ExchangeAssumption` says that each is
possible.

A document is its body and the ways its spelling deviates from the canonical bytes (`Deviations`).
The decoder parses and constructs, and then compares the canonical bytes of what it built with what
it read. Rows stand for bytes where a size matters.

`ExactOracle` is the second enumeration the repository keeps to compare with. Here it is compared
with the sampler (same states, same count, same cap) and with the enumerating plan (same p-value).

### Plan guard

Lagged Pearson scores lag `c` of a source shifted by `s` as it scores lag `c + s` of the original
source on a circle, which `ShiftMovesLagOntoLag` proves of the windows of `LagWindows`. The data
are therefore a `profile`, the score of every offset. The selected lag is the first whose score is within the tie
tolerance of the maximum, as `selection_v2.py` has it. `GuessAllowed` takes the float product to be
off by at most one count, and the two loops after it are the code's. Plans whose statistic or null
the guard does not assess go on to `elsewhere`.

The loader admits a pair with one sample more than the largest lag (`Loadable`), the statistic wants two in its
common support (`Bindable`); between the two a plan passes the guard and its calibration ends in `unbound`, which is
the finding of that name. `PassedPlanCanReject` says of the bound ones that the floor is sharp, and it
speaks of profiles of scores: with exactly two samples in the support every Pearson score is 1 or -1, and not each profile has a pair of
series behind it.

The docstring of `attainability` says that a shift onto the selected lag reproduces the observed maximum. It
reproduces the score of the selected lag, which with a tie tolerance may be below the maximum. So
`CollisionsAreExceedances` says that such a draw reaches the maximum up to the tolerance, and exceeds when the selected
lag has the maximum. The floor does not suffer: an enumeration meets as many
exceedances as the lag with the fewest collisions has, whichever is selected.

### Resolution

Numbers name objects; `address` says where a resolution lives and `records` is the registry by
address. The getters of adapters are callbacks, so other resolves, deaths, copies and changes
happen between the construction, the capture and the registration. Ids are used again, and the
callback of a weak reference runs at any time after the death, also after its id has a new owner;
CPython runs it before, which is a special case. A record that is discarded for a revived object
makes that object refused, never accepted. The pure gate and the verifier's gate are atomic; the
public one compares the objects, then calls getters, then compares contents, so an equal plan
swapped in by a getter passes it, which `AcceptedIsWhatWasResolved` grants to that gate alone.
Digests of an identity are its contents. `ResolutionAssumption` only keeps the mark `None`
apart from objects, addresses, requests and contents.

### Record store and input snapshots

One path, whose entry is an inode, nothing, or something else. A file is a sequence of pages, one
for the header and one for each member. A modification gives a file a new version, which stands
for its times: the model assumes that two modifications differ in their times, that an inode
number is not used again during a read, that a new file gets a free inode and none is made when
all are taken (`FreeInodes`), that the device keeps what was synced, and that an
unsynced page is kept, lost or garbled. The directory is not synced by the code, so a power loss
may also empty the path.

`RecordRegister` is the store without files: a register that is written once, where a record is
there whole or not at all, a writer returns when its own record is there, only one does while the
power stays, and a read answers what is there when it ends. A power loss may empty the register,
and another program may do anything to it. The last page of an image is the step that stores it,
`fsync` the one that returns, the last `lstat` the one that answers; every other call is a
stutter. It does not say that a read succeeds, which is `SavedRecordIsReadable`.

### Input decoding

Bytes are counted and not spelled. An entry of the directory is its sizes, its place, and the facts
of what stands there: the length and output of the deflated stream, whether it is one, whether the
CRC is that of the data, the NPY header. So headers and data can disagree in every way that the
checks tell apart; header checks that relate nothing else (signatures, flags, names, extra fields,
ZIP64 sizes) are the one fact `sound`. `Inflate` is one call of the decompressor, which is external: it takes some of
what it is offered and returns some of the output it has, or neither. `stalled` is a history
variable: it did less than it could. A text is its physical lines, each with its length and what its
cells are; `place` counts the characters taken, because `readline` stops one past the limit.
`Describes` says what a file means without the steps of a reader, and `LoadedIsDescribed` compares with it.

### Workflow

Reads of one file and the creation of the record are atomic here, which `ImplementsRegister` and
`ReadIsOneMoment` of `RecordStore` justify. What the model keeps apart is what was *loaded*, what was *read again*, what is *on disk*
and what *runs*: `disk.code` is what the digests are taken of, `run.code` and `reader.code` what
was imported. The loader and the codes are constants (`Loaded`, `Scores`).

A code on a platform gives each scan of a pair under a plan its scores, in units of the last place, or fails it, and nothing
relates the scores of two platforms. A result is worked out of its scores (`ResultOf`): the ties within the tolerance
of each scan, the failures, and the count of surrogates whose maximum reaches the observed one. So a replay elsewhere may disagree
in its last digits, in its decision, or in what fails. The decision replay wants
equal ties, failures and count (`SameDecision`) and scores within `Tolerance` (`Close`). What holds of it
is what the README of the repository says at lines 43 to 49: a record nobody edited replays in its decision on any platform
unless the two are further apart than the tolerance (`FarApart`), or the recorded scores have a
comparison that rounding within it may turn (`NearTie`); and a match vouches that some platform with the recorded software has
that decision and scores within the tolerance of the recorded ones.

`swapped` and `forged` are history variables for the hypotheses of the properties: sources were
edited under a running process; the record was edited. The digests of the sources are taken in one
step.

## 3. Runs

Every pass run explores its instance completely and checks deadlock; final states stutter by an
action of their own. States are those of the small instance.

| Run | Question | Instance |
| --- | --- | --- |
| `honest` | Without interference: bounds, exact p-value, label, the run returns | two candidates, three null states, four plans, sampling and enumerating; 52 thousand states |
| `drift` | Any callback may break any component and put slots, globals, the token and the result back, the hook may alter one field of the result or replace it by any consistent one, every adapter may return rubbish: the loop runs on intact slots, what is returned and was kept by the hook is still true, a replaced result is a verdict under the hook's name, and the run ends | one candidate, two null states, two plans of which one is over the envelope; `PutBack` are the components that can be put back; 55 thousand states |
| `null_test` | Do report, refusals and decision agree at every boundary? Are indices uniform and states drawn once each, as the oracle counts them? | circles of three to five offsets, all lag sets of up to three that load, tie tolerances 0 and 1, three scores, five alphas; beside it one draw, bounds 2 to 8, two to five blocks, words of one bit; four blocks meet the oracle's cap exactly and five pass it; 2.0 million states |
| `bound_null` | Is an applied transform exact and owned whatever slot was written? Does the calibrator score exact transforms whatever is written around its checkpoints, and finish when nothing is? | three nulls, series of up to six values over two, one write, foreign tokens of seven other nulls; under the calibrator shifts of two with three writes and blocks with two replicates and two writes; 7.5 million states |
| `results` | Does the verifier accept what runs report and, but for what it does not look at, nothing else? Does it survive storage? Does an edit show? | two lags, three plans, pairs of four to six samples, three replicates under the exact null, size limits of five and six; one changed field in each run and two in three of them; 1.5 million states |
| `record_store` | Do two writers and a reader stay correct among crashes and other programs, and are they one register? | two members, two payloads, two incidents; 2.2 million states |
| `workflow` | Is what is saved what was calibrated, and does a match mean anything? | three inputs, two configurations, two codes, two edits, three platforms of which one is off by the tolerance and one by more, wide margins and a near tie; 5.2 million states |
| `ownership` | Do gates accept exactly what the resolver returned? | three objects, two addresses, two calls, one change; 2.5 million states |
| `inputs` | Is a returned pair the one in the file, are limits kept, does decoding end? | archives of two members of up to three bytes, whole or with one change, in three layouts; texts of up to three rows; chunks of two bytes; 0.17 million states |
| `unbound`, `oversized`, `replay_code` | see Findings | violations |

The bounds are enough for the interesting cases to occur: a tie, an exceedance and a failure in one
history; a result replaced by another consistent one; a partial and a complete enumeration; a plan over each cap and one on it; a float guess
too high, too low and right; a selected lag below the maximum; a series one sample too short; a space with excluded shifts and the two-element space `2m = n`;
contents and guard written and one of them put back under the calibrator; a forged count
compensated by a forged score; a -0.0 that verifies
and is not stored; an address used twice while the record and the callback of its first owner are about; a reader
that sees both writers; a torn write followed by a read. Every property has a mutant of the code's
model (listed in `PROJECT.json`) which TLC refutes under the same configuration.

Bounds on counters: `MaxDrifts`, `MaxIncidents`, `MaxEdits`, `MaxMeddles`, and the finite sets of
addresses, objects and inodes. In `drift` the contents of arrays and
the retained records stay as they were left: with contents put back between the light checkpoints
`ReturnedCountsAreTrue` would not hold, since those do not see contents. What holds even then is
proved: the loop runs on intact slots, a sampled identity is counted (`IdentityCounted`), and no
result is returned while a component differs from its snapshot. `honest` includes both kinds of plan.

Fairness: `FairSpec` of `Calibration` is weak fairness of its next-state relation. The
calibrator is one thread of straight-line code with bounded loops, so it takes its next step;
callbacks are assumed to return. `RunEnds` and `HonestRunReturns` need no more. The rejection loop of
`randbelow` ends with probability one and not under any fairness, and no termination is claimed of it.
`FairSpec` of
`InputDecoding` is the same for one thread that waits for nothing; the decompressor may take nothing and return
nothing in any call, so that `DecodingEnds` rests on the check of progress and not on the library. The other modules claim no liveness: their processes may be killed at any point.

### Findings

- `unbound`: `preflight` reports a plan EXECUTABLE, and its attainability as PASS, for a series with one sample more than
  its largest lag, and `lagged_pearson.py:157` then refuses to bind it; the README of the repository says at line 16 that `run` refuses plans
  that can never reach alpha, and this one is not refused and reaches nothing.
- `oversized`: the comment of `preflight` promises that no plan-time arithmetic grows with an
  oversized replicate count; `attainability` runs whatever the resource check answered and sums a
  term for each allowed exceedance.
- `replay_code`: an exact replay compares digests of the sources on disk and then runs what the
  process had imported; a match may then be of other code than the one recorded.

Two remarks that are no findings. `attainability` refuses every `min_shift > 1` under several lags as
`REFUSE_NON_GROUP_NULL`; with `2 * min_shift = n` the two shifts left are a group
(`ShiftsAreAGroupExactlyWhen`), so the reason is not true there, and the refusal is conservative. And a single-lag plan with `min_shift > 1` passes the guard, although its
shifts are no group and its share of rejections over all rotations can exceed alpha (n = 5, m = 2, alpha = 1/3).
`CompleteTestKeepsItsLevel` is therefore stated for `min_shift = 1`.

## 4. Theorems

All proofs are checked by `tlapm`. Constants are restricted only by the named assumptions of the
modules.

| Theorem | Says |
| --- | --- |
| *Calibration* | |
| `TypeCorrect`, `ControlIsKept` | the inductive invariant |
| `SlotsAreIntactInLoop` | each replicate starts from the plan and the slots that were snapshotted |
| `ReturnedWithoutDrift` | nothing is returned while a component differs from its snapshot |
| `ReturnedCountsTrue`* | the counts of a returned result are those of the drawn states, if the hook kept the result |
| `LabelsAreFirstNearMaximum`* | its lag is the first within the tolerance of the observed maximum |
| `BoundsBracket`* | its bounds, when replicates failed, are the least and the greatest p-value of any completion |
| `EnumerationIsExact`* | its p-value, when an enumeration is complete, is the exact p-value over all states |
| `CalibrationImplementsTest`* | every step of the calibrator is a step of `SelectedFamilyTest` or a stutter, a result the hook replaced being the step `Replace` |
| `IdentityCounted` | a replicate under the identity is counted in a result that the hook kept, even when array contents are put back, if the observed vector and the history are not |
| `HistoryAppendOnly` | no step changes a registered outcome |
| `RunsAreBounded` | a run of B replicates has at most 3 B + 8 segments, whatever its callbacks do |
| `DecisionIsMaximum`, `SelectedIsSmallestTied` | the selector's two answers |
| *Nulls* | |
| `DrawnShiftIsAccepted`, `EveryShiftIsDrawnOnce` | index and shift correspond one to one |
| `ShiftsAreAGroupExactlyWhen` | the shifts are closed under composition exactly for `m = 1` and `2m = n` |
| `ShiftIsUndoneByItsInverse` | shifts have inverses |
| `AppliedTransformsAreExact`, `AppliedTokensAreOwned` | what `apply` returns is the exact mapping of the bound pair, under a token of this null and run, whatever one slot was written |
| `UndisturbedRunEndsWell`, `UndisturbedScoresAreExact` | without writes every check of the calibrator passes, and what it scores is exact |
| `ScoresAreExact` | a run that ends well scored exact transforms only, after any three writes at any moments |
| `AttemptsStayUniform` | `randbelow` accepts every value below its bound equally often, for every bound and width of a raw word |
| `EveryStateIsDrawnOnce` | exactly one index sequence leads to each shift or order, and there are as many as the oracle counts, or more than its cap |
| *Results* | |
| `AcceptedResultsAreReports` | a possible run reports the facts of a result exactly when the verifier accepts it and none of the three things it does not look at is the case |
| `AcceptedResultsSurvive` | an accepted result of exact types within the limit is stored and restored as it is if it holds no -0.0, and refused before it is stored if it does |
| `DecodedDecisionFollowsScores`, `OneDocumentPerResult` | a decoded result decides by the plus-one rule over its own scores; its document is the canonical one |
| *Plan guard* | |
| `WindowsStayInside`, `ShiftMovesLagOntoLag` | windows are inside the series; a shift puts one lag under another |
| `AllowedIsTheRejectingCounts` | the corrected float guess is the number of counts that reject |
| `ReportAndDecisionAgree` | a sampled run rejects exactly when it exceeds less often than reported |
| `CollisionsExceed` | a draw that puts a searched lag onto the selected one reaches the observed maximum up to the tolerance, and exceeds when the selected lag has it; an enumeration meets the counted collisions whichever lag is selected |
| `RefusedPlansNeverReject`, `PassedPlansCanReject` | an enumerating plan is refused for its floor only if it rejects on no data; one that passes, with two samples in its support, rejects on some profile of scores |
| `CompleteTestsKeepTheirLevel` | the p-value is the oracle's, and a full group rejects at most a share alpha of the rotations |
| *Resolution* | |
| `RecordsFollow` | a live resolution has its record, a record of a dead one stays no longer than its callback is due |
| `AcceptedWasResolved` | a gate accepts only what the resolver returned, as it was returned |
| `HonestIsOwned` | while nobody changes anything no resolve fails and no returned resolution is refused |
| *Files* | |
| `SavedRecordsStay`, `OnlyOneWriterReturns` | while no other program touches the path and the power stays, it names the file of the writer that returned, and only one returns |
| `SavedRecordsAreDurable` | its file keeps its image through other writers, failures and power losses, unless another program changes it |
| `ReadsAreOneMoment` | what a read returns was together in the file at one moment of the read |
| `SavedRecordsAreReadable`, `PartialRecordsAreRefused` | a saved record is read back if nothing happens meanwhile; a partly written one never is |
| `StoreImplementsRegister` | every step of the store is a step of `RecordRegister` or a stutter |
| `LoadedPairIsDescribed`, `LimitsAreKept` | `LoadedIsDescribed` and `LimitsHold` for every file, all limits and any decompressor |
| `DecodingIsBounded` | every step leaves fewer to come, in a number that the file and the limits bound |
| `InputSavedIsCalibrated`, `RecordStaysConsistent` | the saved input is the calibrated one; a record nobody edited is consistent |
| `MatchVouches` | a match, while no sources were edited under a process, vouches for the recorded platform if it was exact and for some platform up to the tolerance if it was of the decision |
| `HonestRecordsReplay` | a record nobody edited replays exactly under the same software, and in its decision unless the platforms are far apart or the record has a near tie |

The theorems with a star are of the behaviours in which array contents, the observed vector and the retained
records stay as the callbacks leave them: `Spec /\ [][Retains]_vars`, where `Retains` says of a step that
of these three nothing that has drifted is put back. It is a condition on callbacks, not on the constants: every other
component may be put back, and these three may drift. Runs says why it is needed. `IdentityCounted` has the weaker
`[][RetainsRecords]_vars`, for the observed vector and the records only. What the hook makes of the result is no
hypothesis: the refinement covers it, and the others say "if the hook kept the result" in the property.

The calibration argument. `TypeOK` alone is not inductive with the safety properties, because whether
a segment reads intact data depends on which checkpoint it is behind. `ControlInv` says for every
`pc` which components cannot have drifted there and what has been filled in: before the loop the
history and the token are untouched, inside it the light-visible slots are intact at its head,
after the recapture the whole graph is. `IInv == TypeOK /\ ControlInv` is preserved by each segment (one lemma per
action). `ReturnedCountsTrue` strengthens it: under `Retains`, which lets slots be
put back, whatever is intact at a later check was intact when an outcome was taken from it, so `TruthInv` says
that unless something has drifted, or the run raised, the observed vector and every outcome are those of the
statistic on their states.
The final verification recomputes the counts from the history and the recapture then shows that
nothing had drifted. `IdentityCounted` needs less: an outcome of the identity was compared with the
observed maximum when it was registered (`IdentityInv`), so contents may be put back as well.

The argument about what a result says and about the refinement. `Settled == DrawsOK /\ ResultOK`, beside
`IInv` and `TruthInv`: the tokens of an enumerating plan are 1, 2, 3, ..., nothing is drawn for a family that could not be
scanned, and a result the hook kept is the computed one. That the bounds bracket every completion and that an enumeration is exact are
statements about cardinalities of sets of outcomes, so no sum over a sequence is needed. For the refinement the tokens
of the history are the draws, and each action is shown to leave draws and verdict alone,
to append one draw, or to give a verdict: that of the draws there are if the hook kept the result, and any of a plan with as
many replicates if it did not, because what the verifier accepts of a replaced result is a `FinalResult` of some
outcomes or a terminal one, and each says something a verdict can say.

The argument about the undisturbed run. That no check fails is not inductive: a check compares the
null, the token and the result with snapshots of earlier steps. `UndisturbedInv` says what each step
finds: the slots are those `bind` stored (`Owned`), the snapshots are of them, the token is that of a
state of the space (`Carries`), and from the mapping on the pair is the exact image of the observed
one. It rests on lemmas about bound nulls of any length: every drawn or enumerated state is one that
`apply` accepts (`HandedOutAreStates`, `OwnTokenIsAccepted`), the flagged identity changes no series
(`IdentityChangesNothing`, with the division into blocks), and both formulas of every slot agree
(`OwnedSnapshotHolds`).

The argument about writes. `Traced == BoundOK /\ TokenOK /\ CheckpointOK /\ TransformOK /\ ScoresOK` counts
them. `Distance` is how many of the pair and its guard differ from what was bound, and no more of them differ than writes were
made. `apply` compares the one with the other, so data it takes are the observed ones or both had been written.
The guard must be back at the next light checkpoint, the pair at the recapture (`closed` has `Distance = 0`). So
`Misled == drifts + Distance >= 4` once other data were taken: two writes so far with both still
different, three with one of them back, or four. It stays true, because a write that lessens the distance
adds to `drifts`. The tokens have an argument of their own for one write: of the four slots that name a null the
owner digest is made of the other three, so one write never leaves bound null and token equal and both wrong (`Clear`).

The argument about documents. `RestoredInv`: what is restored was admitted by the constructors and
its canonical document is the one that was read. That the constructors imply the plus-one
rule is `AdmittedIsConsistent`, which needs the length of the retained history and the maxima of the
scored vectors and nothing of the verifier.

The argument about the verifier. A result is any record of the types of its fields, however it came to be
(`VerdictsOK`; `ChangesTyped` shows that each writable field keeps its type). `VerifierIsExact` goes through the
verifier check by check and says for each field that it has the one value the plan, the retained vectors and the states leave
it: in one direction this gives the run that reports the result, built from what is retained, in the other each
check of the report of a run. The order of candidates is `Sorted`, determined by ranks (the number of smaller
elements) and not by recursion, so tie tuples and selections are compared for families of any size. Terminal results,
which retain no replicate, have lemmas of their own (`UnfinishedEnds`, `FinishedEnds`): the length of the pair is recovered from the support or,
where nothing was scanned, is any at which the null ends the run. `FactsOf` takes equal facts apart
into equal fields.
An accepted result passes every constructor (`AcceptedIsAdmitted`), which makes it of itself, and so it is stored
unless a leaf is inexact or the document too large (`AcceptedIsStorable`). With a negative zero the constructed copy is another, so the encoder's own comparison fails.

The argument about the plan guard. `Inv == PlanOK /\ AllowedOK /\ StatusOK /\ CountsOK /\ OutcomeOK`: the two
loops after the float guess move it to the number of counts that reject and stop there (`AllowedOK`), a status records the
comparison it came from (`StatusOK`), the counters of an enumeration are those of the shifts `1 .. drawn`
(`CountsOK`). The rest is arithmetic on the circle: rotating the data permutes the states of a full group and keeps the set of
maxima, so over the rotations the p-values are ranks in one set, at most a share alpha of which can be small;
and the states that put a searched lag onto the selected one are as many as their shifts, which bounds the p-value
from below and, for a single peak, from above.

The argument about draws. `DrawInv`: while a block draw goes on, its labels are the order that the indices picked so far
lead to (`OrderOf`), and the j-th of them was below its bound `q - j + 1`; a circular draw has no index or one.
What remains is about numbers and functions, for which the library's induction cannot be used (its
theorems take an operator). An induction is put as what a *set* of numbers contains (`SetInduction`, from the least element of what is
missing), and a recursive function has a lemma that there is one (`GoingIsPossible`, from initial pieces that agree)
and one that there is no other (`GoingIsUnique`).

- `randbelow`: the words of an attempt are the digits of one number in base `2^WordBits`, so attempts of n words and the
  numbers below `2^(n * WordBits)` correspond one to one (`JoinedIsInjective`, `JoinedIsSurjective`). The attempts with
  low bits v are those with low bits 0 moved up by v (`LowBitsAreUniform`), and the words of an attempt have
  at least the bits of the bound (`WordsSuffice`), which is what the rounding up is for.
- Fisher-Yates: an exchange leaves the positions above its own as they are (`FilledPositionsStay`). So the filled positions of two
  draws that agree tell equal indices, one after the other (`PositionsTellIndices`), and indices can be chosen
  so that they hold what any given order has there (`PositionsCanBeFilled`): the label wanted is
  still at or below the position, since the ones above hold others. With q - 1 exchanges only position 0 is left.
- Counts: a sequence for q + 1 blocks is an index up to q and a sequence for q blocks (`DrawsMultiply`), so there are q
  factorial, and the oracle's product, which stops at its cap by a division, is that number or one more than the
  cap (`CappedFactorialCounts`).

The argument about resolution. `Inv == ResolutionInv /\ Honest`. Living objects have different addresses; each
live weak reference has its record at the address of its object; a record of a dead object stays only while its
callback is due (`RecordsAreDue`). A callback removes the record of its own reference only, so it cannot
take that of a later owner of the address, and a dead object's record cannot vouch for that
owner, because gates compare the reference. `Honest` says that without changes every segment finds what the one before it captured.

The argument about the record store. `Inv == StoreInv /\ ReaderInv`. The inode of each writer is its own and
holds the pages it has sent unless another program wrote to it (`ContentIsSent`), after a power loss some of them or garbage in
their places (`LeftBy`); pages are synced before the writer returns; a name is created only where there is none (`PathIsOurs`).
Versions only grow, so a file with the version the reader saw first has been the same ever since, and what was
read page by page was there together. What a reader gets is therefore some writer's image with each page right or garbage, and
garbage does not decode.

For the refinement one more fact is inductive: while nobody else touches the path, a file that is
being written is the one at the path (`WritingIsHere`), with or without power losses, because a power loss ends
every writer. So the last page stores where nothing was stored, what a power loss leaves is the record
(`SurvivorIsOldOrUnreadable`) or is not read as one, and the identity at the last `lstat` makes what was read
page by page what is there now (`DecodeAnswers`).

The argument about decoding. `IInv` of `InputDecodingProofs` says what each step has in hand: after the
preflight the headers agree and the ranges are apart; in the loop the bytes taken and the bytes
pending together are the cursor, and the output is at most what the stream has; a member that is
verified was extracted to its last byte and from nothing else (`Extracted`); the rows read are the
lines before the place (`RowsRead`). `RangesShareNothing` takes the order of the ranges to disjoint bytes.

The arguments about length. `SegmentsLeft` and `StepsLeft` count what can follow a state: three segments for each
replicate not yet registered and those outside of the loop; the bytes of a member that were neither taken
nor returned, and the lines behind the place. The inductive invariants make both natural
numbers (a replicate is to come while the loop goes on, the bytes taken are within the member, the output within a byte of the limit),
and every step that changes something makes them smaller; of a turn of the decompressor
this is so because one without progress is refused. Nothing is assumed of the callbacks or of the library but that a call returns.

The workflow argument. `WorkflowInv` says what each process knows at each of its points: the run's
pair is the one its retained bytes load to, its result is of that pair; while no sources were
edited under a process, its code is the one on disk and its digests name it; the reader's record is
the run's unless it was edited. A step of one process leaves alone what is said of the other,
because the reader relies on a run only after the run returned and the run never looks at the reader.

Only model-checked:

- liveness (`HonestRunReturns`, `RunEnds`, `DecodingEnds`) and what speaks of ENABLED, which the prover does not do.
  Of `RunEnds` and `DecodingEnds` it is proved that no behaviour goes on for ever (`RunsAreBounded`,
  `DecodingIsBounded`); that each state before the end has a next step, and that it is taken, stays with TLC;
- the three violations, which are counterexamples and need one instance.

## 5. Not modelled

`workflow_config.py`, `canonical*.py`, `parameters.py`,
`identifiers.py`, `migration_v1_to_v2.py` are pure functions of one snapshot or
value; the models take their answers as constants or members of small sets. `binned_nette.py` is
floating-point arithmetic; `cli.py` parses arguments; the version 1 modules are kept for migration only.
Of `resolution_v2.py` the snapshots of the bound statistics and the sealing of its gates are left out,
of `_verifier_primitives_v2.py` the freezing of the capsule, of `randomness.py` the derivation of the
seed and PCG64, of `workflow.py` the rendering of reports and the doctor. Type checks of single
fields are the types of the models, but for the leaves named under Results.

## 6. Plan

In this order:

1. `migration_v1_to_v2.py` as a mapping that keeps the meaning of a plan.
2. The snapshots of the bound statistics, beside those of the null in `CalibratedNull`.
3. `workflow_config.py` and the canonical encodings as injectivity results.
4. An abstract registry implemented by `Resolution`.

Proofs, in this order: the abstract registry of
item 4, whose steps the invariants above should give; `ReturnedCountsTrue` without `Retains` for a
bound on the number of writes, as `ScoresAreExact` has it for the null.
