------------------------------ MODULE Workflow ------------------------------
(***************************************************************************)
(* The file workflow (workflow.py): a run that reads a configuration and   *)
(* an input and saves a record, and a call that reads the record back,     *)
(* replays it or reports it, while the files are edited.                   *)
(*                                                                         *)
(* Reads of one file, and reading and creating the record, are atomic      *)
(* (ReadIsOneMoment, SavedRecordStays of RecordStore).  Digests are the    *)
(* values they are taken of.  Scores are integers, in units of the last    *)
(* place; a platform may compute every one of them differently, and what a *)
(* result says of ties and exceedances is recomputed from them.            *)
(***************************************************************************)
EXTENDS Integers, FiniteSets

CONSTANTS
    Raws, Configs, Codes, Platforms,
    Invalid,    \* what cannot be decoded or loaded
    None,       \* nothing at a path
    Partial,    \* what a failed write leaves
    Loaded,     \* the pair that the loader makes of a raw input under a configuration
    PlanStatus, \* the preflight of a configuration on a pair
    Lags, Observed, Replicates,
    Failed,     \* a scan without scores
    Scores,     \* the scans of a pair under a configuration by a code on a platform
    Tie,        \* tie tolerance, in the same unit
    Tolerance,  \* DECISION_REPLAY_MAX_ULP
    MaxEdits    \* bound on edits of the files by others

Pairs == {Loaded[at] : at \in Raws \X Configs} \ {Invalid}

Scans == {Observed} \cup Replicates

ASSUME WorkflowAssumption ==
    /\ Invalid \notin Configs
    /\ DOMAIN Loaded = Raws \X Configs
    /\ DOMAIN PlanStatus = Pairs \X Configs
    /\ \A at \in DOMAIN PlanStatus : PlanStatus[at] \in {"EXECUTABLE", "REFUSE", "OVERSIZED"}
    /\ Failed \notin [Lags -> Int]
    /\ Scores \in [Codes \X Platforms \X Pairs \X Configs -> [Scans -> [Lags -> Int] \cup {Failed}]]
    /\ Tie \in Nat /\ Tolerance \in Nat /\ MaxEdits \in Nat

VARIABLES
    disk,    \* the configuration, the input and the sources of the package
    output,  \* the record path
    report,  \* TRUE when something is at the report path
    run,     \* a call of run_files in a process of its own
    reader,  \* a call of verify_record or report_record in another
    edits,
    swapped, \* history: the sources were edited while a process was running
    forged   \* history: the record was edited

vars == <<disk, output, report, run, reader, edits, swapped, forged>>

-----------------------------------------------------------------------------
\* Software and results

Software(code, platform) == [code |-> code, platform |-> platform]

FailedScans(scores) == {scan \in Scans : scores[scan] = Failed}

\* The lags of a scan whose score is its maximum up to the tie tolerance; the first of them
\* is selected.
Tied(scan) == {c \in Lags : \A d \in Lags : scan[d] - scan[c] <= Tie}

\* The maximum of a surrogate scan is at least the observed one.
Exceeds(surrogate, observed) == \E c \in Lags : \A d \in Lags : surrogate[c] >= observed[d]

Exceeding(scores) ==
    {rep \in Replicates \ FailedScans(scores) : Exceeds(scores[rep], scores[Observed])}

\* A result of these scores.  The p-value, its bounds and the decision are functions of the
\* plan, the failures and the count.
ResultOf(pair, plan, scores) ==
    [pair |-> pair, plan |-> plan, scores |-> scores, failed |-> FailedScans(scores),
     tied |-> [scan \in Scans \ FailedScans(scores) |-> Tied(scores[scan])],
     count |-> IF Observed \in FailedScans(scores) THEN 0 ELSE Cardinality(Exceeding(scores))]

Compute(code, platform, pair, config) ==
    ResultOf(pair, config, Scores[code, platform, pair, config])

Init ==
    /\ disk \in [config : Configs \cup {Invalid}, input : Raws, code : Codes]
    /\ output \in {None, Partial}
    /\ report \in BOOLEAN
    /\ run \in [pc : {"import"}, platform : Platforms, allow : BOOLEAN, code : {None},
                config : {None}, raw : {None}, pair : {None}, software : {None}, result : {None}]
    /\ reader \in [pc : {"import"}, platform : Platforms, mode : {"none", "exact", "decision", "report"},
                   code : {None}, record : {None}]
    /\ edits = 0 /\ swapped = FALSE /\ forged = FALSE

-----------------------------------------------------------------------------
\* run_files

OfRun == UNCHANGED <<disk, report, reader, edits, swapped, forged>>

RunStep(pc) == run.pc = pc /\ OfRun

RunTo(pc) == run' = [run EXCEPT !.pc = pc]

\* The interpreter loads the package.
ImportForRun ==
    /\ RunStep("import")
    /\ run' = [run EXCEPT !.pc = "start", !.code = disk.code]
    /\ UNCHANGED output

CheckOutput ==
    /\ RunStep("start")
    /\ RunTo(IF output = None THEN "config" ELSE "FileExistsError")
    /\ UNCHANGED output

ReadConfig ==
    /\ RunStep("config")
    /\ run' = IF disk.config = Invalid THEN [run EXCEPT !.pc = "invalid_config"]
              ELSE [run EXCEPT !.pc = "load", !.config = disk.config]
    /\ UNCHANGED output

\* The first read of the input, by the loader.
LoadInput ==
    /\ RunStep("load")
    /\ LET pair == Loaded[disk.input, run.config]
       IN  run' = IF pair = Invalid THEN [run EXCEPT !.pc = "invalid_input"]
                  ELSE [run EXCEPT !.pc = "raw", !.raw = disk.input, !.pair = pair]
    /\ UNCHANGED output

\* Mutant of ReadRaw: the second read is not compared with what was loaded.
ReadRawUnchecked ==
    /\ RunStep("raw")
    /\ run' = [run EXCEPT !.pc = "preflight", !.raw = disk.input]
    /\ UNCHANGED output

\* The second read of the input, for the record.
ReadRaw ==
    /\ RunStep("raw")
    /\ RunTo(IF disk.input = run.raw THEN "preflight" ELSE "input_changed")
    /\ UNCHANGED output

Preflight ==
    /\ RunStep("preflight")
    /\ LET status == PlanStatus[run.pair, run.config]
       IN  RunTo(CASE status = "OVERSIZED" -> "resource_budget_exceeded"
                   [] status = "REFUSE" /\ ~run.allow -> "unattainable_plan"
                   [] OTHER -> "software")
    /\ UNCHANGED output

\* The digests of the source files, which are those on disk and not those loaded.
HashSoftware ==
    /\ RunStep("software")
    /\ run' = [run EXCEPT !.pc = "calibrate", !.software = Software(disk.code, run.platform)]
    /\ UNCHANGED output

Calibrate ==
    /\ RunStep("calibrate")
    /\ run' = [run EXCEPT !.pc = "rehash",
                          !.result = Compute(run.code, run.platform, run.pair, run.config)]
    /\ UNCHANGED output

RehashSoftware ==
    /\ RunStep("rehash")
    /\ RunTo(IF run.software = Software(disk.code, run.platform) THEN "write" ELSE "source_changed")
    /\ UNCHANGED output

RecordOf(r) ==
    [input |-> r.raw, request |-> r.config, result |-> r.result,
     metadata |-> [raw |-> r.raw, pair |-> r.result.pair, plan |-> r.result.plan,
                   software |-> r.software]]

\* write_record: exclusive, over the limit, failed, or whole.
WriteRecord ==
    /\ RunStep("write")
    /\ \/ output # None /\ RunTo("FileExistsError") /\ UNCHANGED output
       \/ output = None /\ RunTo("LIMIT_EXCEEDED") /\ UNCHANGED output
       \/ output = None /\ RunTo("OSError") /\ output' \in {None, Partial}
       \/ output = None /\ RunTo("returned") /\ output' = RecordOf(run)

-----------------------------------------------------------------------------
\* _read_context, verify_record, report_record

OfReader == UNCHANGED <<disk, output, run, edits, swapped, forged>>

ReaderStep(pc) == reader.pc = pc /\ OfReader

ReaderTo(pc) == reader' = [reader EXCEPT !.pc = pc]

ImportForReader ==
    /\ ReaderStep("import")
    /\ reader' = [reader EXCEPT !.pc = "read", !.code = disk.code]
    /\ UNCHANGED report

\* Mutant of Consistent: the input is loaded from where the run found it.
ConsistentWithDisk(record) ==
    /\ Loaded[disk.input, record.request] # Invalid
    /\ record.metadata.raw = disk.input
    /\ record.metadata.pair = Loaded[disk.input, record.request]
    /\ record.metadata.plan = record.result.plan
    /\ record.result = ResultOf(record.metadata.pair, record.request, record.result.scores)

\* The input member is loaded again; the digests and the result must speak of it and of the
\* plan, and what the result says of its scores must follow from them.
Consistent(record) ==
    LET pair == Loaded[record.input, record.request]
    IN  /\ pair # Invalid
        /\ record.metadata.raw = record.input
        /\ record.metadata.pair = pair
        /\ record.metadata.plan = record.result.plan
        /\ record.result = ResultOf(pair, record.request, record.result.scores)

ReadContext ==
    /\ ReaderStep("read")
    /\ \/ output = None /\ ReaderTo("OSError")
       \/ output = Partial /\ ReaderTo("INVALID_RECORD")
       \/ /\ output \notin {None, Partial}
          /\ IF Consistent(output)
             THEN reader' = [reader EXCEPT !.pc = reader.mode, !.record = output]
             ELSE ReaderTo("invalid_record_content")
    /\ UNCHANGED report

VerifyOnly ==
    /\ ReaderStep("none")
    /\ ReaderTo("NOT_PERFORMED")
    /\ UNCHANGED report

\* Mutant of SameSoftware: only the version is compared, which edits do not change.
SameVersion == TRUE

SameSoftware == reader.record.metadata.software = Software(disk.code, reader.platform)

SameSources == reader.record.metadata.software.code = disk.code

CheckSoftware ==
    /\ \/ /\ ReaderStep("exact")
          /\ ReaderTo(IF SameSoftware THEN "replay" ELSE "environment_mismatch")
       \/ /\ ReaderStep("decision")
          /\ ReaderTo(IF SameSources THEN "replay_decision" ELSE "environment_mismatch")
    /\ UNCHANGED report

Replayed ==
    LET record == reader.record
    IN  Compute(reader.code, reader.platform, Loaded[record.input, record.request], record.request)

ReplayExactly ==
    /\ ReaderStep("replay")
    /\ ReaderTo(IF Replayed = reader.record.result THEN "MATCH" ELSE "replay_mismatch")
    /\ UNCHANGED report

\* What must not differ at all.
SameDecision(left, right) ==
    /\ left.pair = right.pair /\ left.plan = right.plan
    /\ left.failed = right.failed /\ left.tied = right.tied /\ left.count = right.count

\* Mutant of Close: the bound is exclusive.
CloseExclusive(left, right) ==
    /\ SameDecision(left, right)
    /\ \A scan \in Scans \ left.failed, c \in Lags :
           left.scores[scan][c] - right.scores[scan][c] \in 1 - Tolerance .. Tolerance - 1

\* decision_replay_ulp: all but the statistic values are equal, and those are near.
Close(left, right) ==
    /\ SameDecision(left, right)
    /\ \A scan \in Scans \ left.failed, c \in Lags :
           left.scores[scan][c] - right.scores[scan][c] \in -Tolerance .. Tolerance

ReplayDecision ==
    /\ ReaderStep("replay_decision")
    /\ ReaderTo(IF Close(Replayed, reader.record.result) THEN "DECISION_MATCH"
                                                         ELSE "decision_replay_mismatch")
    /\ UNCHANGED report

Report ==
    /\ ReaderStep("report")
    /\ \/ ReaderTo("report_size_limit") /\ UNCHANGED report
       \/ report /\ ReaderTo("FileExistsError") /\ UNCHANGED report
       \/ ~report /\ ReaderTo("reported") /\ report' = TRUE

-----------------------------------------------------------------------------
\* Edits by others

Edit == edits < MaxEdits /\ edits' = edits + 1 /\ UNCHANGED <<report, run, reader>>

EditFiles ==
    /\ Edit
    /\ \/ \E config \in Configs \cup {Invalid} : disk' = [disk EXCEPT !.config = config]
       \/ \E raw \in Raws : disk' = [disk EXCEPT !.input = raw]
    /\ UNCHANGED <<output, swapped, forged>>

RunIsOver ==
    run.pc \notin {"start", "config", "load", "raw", "preflight", "software", "calibrate", "rehash", "write"}

ReaderIsOver ==
    reader.pc \notin {"read", "none", "exact", "decision", "report", "replay", "replay_decision"}

\* An upgrade of the package.
EditSources ==
    /\ Edit
    /\ \E code \in Codes \ {disk.code} : disk' = [disk EXCEPT !.code = code]
    /\ swapped' = (swapped \/ ~RunIsOver \/ ~ReaderIsOver)
    /\ UNCHANGED <<output, forged>>

\* A record with another member, whose bytes and hashes are in order.
EditRecord ==
    /\ Edit
    /\ output \notin {None, Partial}
    /\ \/ \E raw \in Raws : output' = [output EXCEPT !.input = raw, !.metadata.raw = raw]
       \/ \E config \in Configs : output' = [output EXCEPT !.request = config]
       \/ \E code \in Codes, platform \in Platforms :
            output' = [output EXCEPT !.metadata.software = Software(code, platform)]
       \/ \E at \in DOMAIN Scores :
            output' = [output EXCEPT !.result = ResultOf(@.pair, @.plan, Scores[at])]
       \/ \E k \in 0 .. Cardinality(Replicates) : output' = [output EXCEPT !.result.count = k]
       \/ output' \in {None, Partial}
    /\ forged' = TRUE
    /\ UNCHANGED <<disk, swapped>>

Ended ==
    /\ run.pc # "import" /\ RunIsOver
    /\ reader.pc # "import" /\ ReaderIsOver
    /\ UNCHANGED vars

Next ==
    \/ ImportForRun \/ CheckOutput \/ ReadConfig \/ LoadInput \/ ReadRaw \/ Preflight
    \/ HashSoftware \/ Calibrate \/ RehashSoftware \/ WriteRecord
    \/ ImportForReader \/ ReadContext \/ VerifyOnly \/ CheckSoftware \/ ReplayExactly
    \/ ReplayDecision \/ Report
    \/ EditFiles \/ EditSources \/ EditRecord
    \/ Ended

Spec == Init /\ [][Next]_vars

-----------------------------------------------------------------------------
\* Properties

Claimed(record, platform) ==
    Compute(record.metadata.software.code, platform,
            Loaded[record.input, record.request], record.request)

\* A run that returned saved the bytes it calibrated: the result of the record is what the
\* loaded code computes of the input and request saved beside it, although the input was
\* read twice and the files were edited meanwhile (run_files, _files).
SavedInputIsTheCalibratedOne ==
    run.pc = "returned" /\ ~forged =>
        output.result = Compute(run.code, run.platform, Loaded[output.input, output.request], output.request)

\* A record nobody edited is always accepted, whatever became of the files it was made from
\* (_read_context consults the members only).
SavedRecordIsConsistent ==
    reader.pc = "invalid_record_content" => forged

\* A match vouches for the record: if no process had its sources edited under it, the recorded
\* code computes the saved result of the recorded input and request.  An exact match says so
\* of the recorded platform; a decision match, of some platform and but for scores within the
\* tolerance.  Both hold even when the record was edited (verify_record).
MatchIsWhatTheRecordedSoftwareComputes ==
    ~swapped =>
        /\ reader.pc = "MATCH" =>
               reader.record.result = Claimed(reader.record, reader.record.metadata.software.platform)
        /\ reader.pc = "DECISION_MATCH" =>
               \E platform \in Platforms : Close(Claimed(reader.record, platform), reader.record.result)

\* The difference of two scores is so near the least or the greatest at which a comparison of
\* them turns that rounding within the tolerance may turn it.
Turns(left, right, at) == left - right - at \in -2 * Tolerance .. 2 * Tolerance

\* Such a pair of scores: two lags of one scan, or a surrogate and the observed scan.
NearTie(scores) ==
    \/ \E scan \in Scans \ FailedScans(scores), c, d \in Lags :
          c # d /\ Turns(scores[scan][d], scores[scan][c], Tie)
    \/ \E rep \in Replicates \ FailedScans(scores), c, d \in Lags :
          Observed \notin FailedScans(scores) /\ Turns(scores[rep][c], scores[Observed][d], 0)

\* The platforms differ in what fails, or in a score by more than the tolerance.
FarApart(left, right) ==
    \/ FailedScans(left) # FailedScans(right)
    \/ \E scan \in Scans \ FailedScans(left), c \in Lags :
          left[scan][c] - right[scan][c] \notin -Tolerance .. Tolerance

\* A record nobody edited replays: exactly where the software is the same, and in its decision
\* on any platform, unless the platforms are further apart than the tolerance or the recorded
\* scores have a near tie that rounding within the tolerance may turn (verify_record).
HonestRecordReplays ==
    ~forged /\ ~swapped =>
        /\ reader.pc # "replay_mismatch"
        /\ reader.pc = "decision_replay_mismatch" =>
              \/ FarApart(reader.record.result.scores, Replayed.scores)
              \/ NearTie(reader.record.result.scores)

\* What the docstring of verify_record says of an exact replay.
ExactReplayRunsTheRecordedCode ==
    reader.pc = "MATCH" => reader.code = reader.record.metadata.software.code
=============================================================================
