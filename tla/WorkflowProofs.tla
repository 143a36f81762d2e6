--------------------------- MODULE WorkflowProofs ---------------------------
(***************************************************************************)
(* The four properties of the file workflow hold for every loader, every   *)
(* code, every set of platforms and any number of edits.                   *)
(*                                                                         *)
(* The invariant says what each process knows at each of its points: the   *)
(* run, that its pair is the one its retained bytes load to and that its   *)
(* result is of that pair; the reader, whose record and whose code it has. *)
(* What a replay on another platform may change is about scores alone:     *)
(* near scores without a near tie have the same ties and exceedances.      *)
(***************************************************************************)
EXTENDS Workflow, TLAPS

\* The processes and the disk are records of these fields.
Shapes ==
    /\ run = [pc |-> run.pc, platform |-> run.platform, allow |-> run.allow, code |-> run.code,
              config |-> run.config, raw |-> run.raw, pair |-> run.pair,
              software |-> run.software, result |-> run.result]
    /\ reader = [pc |-> reader.pc, platform |-> reader.platform, mode |-> reader.mode,
                 code |-> reader.code, record |-> reader.record]
    /\ disk = [config |-> disk.config, input |-> disk.input, code |-> disk.code]
    /\ run.platform \in Platforms /\ reader.platform \in Platforms
    /\ reader.mode \in {"none", "exact", "decision", "report"}

\* A process past its import runs some code, and a run past its reads has some of the inputs.
CodesAreLoaded ==
    /\ disk.config \in Configs \cup {Invalid} /\ disk.input \in Raws /\ disk.code \in Codes
    /\ run.pc # "import" => run.code \in Codes
    /\ reader.pc # "import" => reader.code \in Codes
    /\ run.pc \in {"load", "raw", "preflight", "software", "calibrate", "rehash", "write", "returned"} =>
           run.config \in Configs
    /\ run.pc \in {"raw", "preflight", "software", "calibrate", "rehash", "write", "returned"} =>
           run.raw \in Raws

PairIsOfRaw ==
    run.pc \in {"raw", "preflight", "software", "calibrate", "rehash", "write", "returned"} =>
        run.pair = Loaded[run.raw, run.config] /\ run.pair # Invalid

ResultIsOfPair ==
    run.pc \in {"rehash", "write", "returned"} =>
        run.result = Compute(run.code, run.platform, run.pair, run.config)

OutputIsOfRun ==
    ~forged => IF run.pc = "returned" THEN output = RecordOf(run) ELSE output \in {None, Partial}

RunCodeIsOnDisk ==
    ~swapped /\ run.pc \in {"start", "config", "load", "raw", "preflight", "software", "calibrate",
                            "rehash", "write"} =>
        run.code = disk.code

SoftwareIsOfRun ==
    ~swapped /\ run.pc \in {"calibrate", "rehash", "write", "returned"} =>
        run.software = Software(run.code, run.platform)

ReaderCodeIsOnDisk ==
    ~swapped /\ reader.pc \in {"read", "none", "exact", "decision", "report", "replay", "replay_decision"} =>
        reader.code = disk.code

SoftwareIsOfReader ==
    ~swapped =>
        /\ reader.pc \in {"replay", "MATCH", "replay_mismatch"} =>
               reader.record.metadata.software = Software(reader.code, reader.platform)
        /\ reader.pc \in {"replay_decision", "DECISION_MATCH", "decision_replay_mismatch"} =>
               reader.record.metadata.software.code = reader.code

RecordIsOfRun ==
    ~forged /\ reader.pc \in {"none", "exact", "decision", "report", "replay", "replay_decision", "MATCH",
                              "replay_mismatch", "DECISION_MATCH", "decision_replay_mismatch"} =>
        run.pc = "returned" /\ reader.record = RecordOf(run)

VerdictIsOfReplay ==
    /\ reader.pc = "MATCH" => Replayed = reader.record.result
    /\ reader.pc = "replay_mismatch" => Replayed # reader.record.result
    /\ reader.pc = "DECISION_MATCH" => Close(Replayed, reader.record.result)
    /\ reader.pc = "decision_replay_mismatch" => ~Close(Replayed, reader.record.result)

WorkflowInv ==
    /\ Shapes /\ CodesAreLoaded
    /\ PairIsOfRaw /\ ResultIsOfPair /\ OutputIsOfRun
    /\ RunCodeIsOnDisk /\ SoftwareIsOfRun
    /\ ReaderCodeIsOnDisk /\ SoftwareIsOfReader
    /\ RecordIsOfRun /\ VerdictIsOfReplay
    /\ SavedRecordIsConsistent

RunPart == PairIsOfRaw /\ ResultIsOfPair /\ OutputIsOfRun /\ RunCodeIsOnDisk /\ SoftwareIsOfRun

ReaderPart ==
    /\ ReaderCodeIsOnDisk /\ SoftwareIsOfReader /\ RecordIsOfRun /\ VerdictIsOfReplay
    /\ SavedRecordIsConsistent

-----------------------------------------------------------------------------
\* Initial states satisfy the invariant: no process has read anything.
LEMMA InitEstablishes == Init => WorkflowInv
  <1> SUFFICES ASSUME Init PROVE WorkflowInv
      OBVIOUS
  <1>1. run.pc = "import" /\ reader.pc = "import" /\ output \in {None, Partial}
      BY DEF Init
  <1>2. Shapes /\ CodesAreLoaded
      BY DEF Init, Shapes, CodesAreLoaded
  <1>3. RunPart
      BY <1>1 DEF RunPart, PairIsOfRaw, ResultIsOfPair, OutputIsOfRun, RunCodeIsOnDisk, SoftwareIsOfRun
  <1>4. ReaderPart
      BY <1>1 DEF ReaderPart, ReaderCodeIsOnDisk, SoftwareIsOfReader, RecordIsOfRun, VerdictIsOfReplay,
                  SavedRecordIsConsistent
  <1> QED
      BY <1>2, <1>3, <1>4 DEF WorkflowInv, RunPart, ReaderPart

\* A verdict stands while the reader rests: a replay reads its record and its own code.
LEMMA VerdictStays ==
    ASSUME VerdictIsOfReplay, UNCHANGED reader
    PROVE  VerdictIsOfReplay'
  <1>1. Replayed' = Replayed
      BY DEF Replayed, Compute, ResultOf
  <1>2. Close(Replayed, reader.record.result)' <=> Close(Replayed, reader.record.result)
      BY <1>1 DEF Close, SameDecision
  <1> QED
      BY <1>1, <1>2 DEF VerdictIsOfReplay

-----------------------------------------------------------------------------
\* A step of one process leaves alone what the invariant says of the other

\* The reader relies on the run only after it returned, and then it takes no more steps.
LEMMA RunKeepsReader ==
    ASSUME WorkflowInv, OfRun, run.pc # "returned"
    PROVE  ReaderPart'
  <1>1. UNCHANGED <<reader, disk, swapped, forged>>
      BY DEF OfRun
  <1>2. ReaderCodeIsOnDisk'
      BY <1>1 DEF WorkflowInv, ReaderCodeIsOnDisk
  <1>3. SoftwareIsOfReader'
      BY <1>1 DEF WorkflowInv, SoftwareIsOfReader, Software
  <1>4. RecordIsOfRun'
      BY <1>1 DEF WorkflowInv, RecordIsOfRun
  <1>5. VerdictIsOfReplay'
      BY <1>1, VerdictStays DEF WorkflowInv
  <1>6. SavedRecordIsConsistent'
      BY <1>1 DEF WorkflowInv, SavedRecordIsConsistent
  <1> QED
      BY <1>2, <1>3, <1>4, <1>5, <1>6 DEF ReaderPart

LEMMA ReaderKeepsRun ==
    ASSUME WorkflowInv, OfReader
    PROVE  RunPart'
  <1>1. UNCHANGED <<disk, output, run, swapped, forged>>
      BY DEF OfReader
  <1> QED
      BY <1>1 DEF WorkflowInv, RunPart, PairIsOfRaw, ResultIsOfPair, OutputIsOfRun, RunCodeIsOnDisk,
                  SoftwareIsOfRun, RecordOf, Compute, Software

-----------------------------------------------------------------------------
\* Steps of the run

LEMMA RunKeeps ==
    ASSUME WorkflowInv,
           \/ ImportForRun \/ CheckOutput \/ ReadConfig \/ LoadInput \/ ReadRaw \/ Preflight
           \/ HashSoftware \/ Calibrate \/ RehashSoftware \/ WriteRecord
    PROVE  WorkflowInv'
  <1> DEFINE Fields == run = [pc |-> run.pc, platform |-> run.platform, allow |-> run.allow,
                              code |-> run.code, config |-> run.config, raw |-> run.raw,
                              pair |-> run.pair, software |-> run.software, result |-> run.result]
  <1> USE DEF RunStep, RunTo
  <1>0. OfRun /\ run.pc # "returned"
      BY DEF ImportForRun, CheckOutput, ReadConfig, LoadInput, ReadRaw, Preflight,
             HashSoftware, Calibrate, RehashSoftware, WriteRecord
  <1>1. ReaderPart'
      BY <1>0, RunKeepsReader
  <1>2. Fields /\ UNCHANGED <<disk, reader, swapped, forged>>
      BY <1>0 DEF WorkflowInv, Shapes, OfRun
  <1>3. ~forged => output \in {None, Partial}
      BY <1>0 DEF WorkflowInv, OutputIsOfRun
  <1> HIDE DEF Fields
  <1>4. CASE ImportForRun
    <2>1. Shapes' /\ CodesAreLoaded'
        BY <1>2, <1>4 DEF WorkflowInv, Shapes, CodesAreLoaded, ImportForRun, Fields
    <2>2. RunPart'
        BY <1>2, <1>3, <1>4 DEF WorkflowInv, RunPart, PairIsOfRaw, ResultIsOfPair, OutputIsOfRun,
               RunCodeIsOnDisk, SoftwareIsOfRun, ImportForRun, Fields
    <2> QED
        BY <1>1, <2>1, <2>2 DEF WorkflowInv, RunPart, ReaderPart
  <1>5. CASE CheckOutput
    <2>1. Shapes' /\ CodesAreLoaded'
        BY <1>2, <1>5 DEF WorkflowInv, Shapes, CodesAreLoaded, CheckOutput, Fields
    <2>2. RunPart'
        BY <1>2, <1>3, <1>5 DEF WorkflowInv, RunPart, PairIsOfRaw, ResultIsOfPair, OutputIsOfRun,
               RunCodeIsOnDisk, SoftwareIsOfRun, CheckOutput, Fields, Compute, Software
    <2> QED
        BY <1>1, <2>1, <2>2 DEF WorkflowInv, RunPart, ReaderPart
  <1>6. CASE ReadConfig
    <2>1. Shapes' /\ CodesAreLoaded'
        BY <1>2, <1>6 DEF WorkflowInv, Shapes, CodesAreLoaded, ReadConfig, Fields
    <2>2. RunPart'
        BY <1>2, <1>3, <1>6 DEF WorkflowInv, RunPart, PairIsOfRaw, ResultIsOfPair, OutputIsOfRun,
               RunCodeIsOnDisk, SoftwareIsOfRun, ReadConfig, Fields, Compute, Software
    <2> QED
        BY <1>1, <2>1, <2>2 DEF WorkflowInv, RunPart, ReaderPart
  <1>7. CASE LoadInput
    <2>1. Shapes' /\ CodesAreLoaded'
        BY <1>2, <1>7 DEF WorkflowInv, Shapes, CodesAreLoaded, LoadInput, Fields
    <2>2. RunPart'
        BY <1>2, <1>3, <1>7 DEF WorkflowInv, RunPart, PairIsOfRaw, ResultIsOfPair, OutputIsOfRun,
               RunCodeIsOnDisk, SoftwareIsOfRun, LoadInput, Fields, Compute, Software
    <2> QED
        BY <1>1, <2>1, <2>2 DEF WorkflowInv, RunPart, ReaderPart
  <1>8. CASE ReadRaw
    <2>1. Shapes' /\ CodesAreLoaded'
        BY <1>2, <1>8 DEF WorkflowInv, Shapes, CodesAreLoaded, ReadRaw, Fields
    <2>2. RunPart'
        BY <1>2, <1>3, <1>8 DEF WorkflowInv, RunPart, PairIsOfRaw, ResultIsOfPair, OutputIsOfRun,
               RunCodeIsOnDisk, SoftwareIsOfRun, ReadRaw, Fields, Compute, Software
    <2> QED
        BY <1>1, <2>1, <2>2 DEF WorkflowInv, RunPart, ReaderPart
  <1>9. CASE Preflight
    <2>1. Shapes' /\ CodesAreLoaded'
        BY <1>2, <1>9 DEF WorkflowInv, Shapes, CodesAreLoaded, Preflight, Fields
    <2>2. RunPart'
        BY <1>2, <1>3, <1>9 DEF WorkflowInv, RunPart, PairIsOfRaw, ResultIsOfPair, OutputIsOfRun,
               RunCodeIsOnDisk, SoftwareIsOfRun, Preflight, Fields, Compute, Software
    <2> QED
        BY <1>1, <2>1, <2>2 DEF WorkflowInv, RunPart, ReaderPart
  <1>10. CASE HashSoftware
    <2>1. Shapes' /\ CodesAreLoaded'
        BY <1>2, <1>10 DEF WorkflowInv, Shapes, CodesAreLoaded, HashSoftware, Fields
    <2>2. RunPart'
        BY <1>2, <1>3, <1>10 DEF WorkflowInv, RunPart, PairIsOfRaw, ResultIsOfPair, OutputIsOfRun,
               RunCodeIsOnDisk, SoftwareIsOfRun, HashSoftware, Fields, Compute, Software
    <2> QED
        BY <1>1, <2>1, <2>2 DEF WorkflowInv, RunPart, ReaderPart
  <1>11. CASE Calibrate
    <2>1. Shapes' /\ CodesAreLoaded'
        BY <1>2, <1>11 DEF WorkflowInv, Shapes, CodesAreLoaded, Calibrate, Fields
    <2>2. RunPart'
        BY <1>2, <1>3, <1>11 DEF WorkflowInv, RunPart, PairIsOfRaw, ResultIsOfPair, OutputIsOfRun,
               RunCodeIsOnDisk, SoftwareIsOfRun, Calibrate, Fields, Compute, Software
    <2> QED
        BY <1>1, <2>1, <2>2 DEF WorkflowInv, RunPart, ReaderPart
  <1>12. CASE RehashSoftware
    <2>1. Shapes' /\ CodesAreLoaded'
        BY <1>2, <1>12 DEF WorkflowInv, Shapes, CodesAreLoaded, RehashSoftware, Fields
    <2>2. RunPart'
        BY <1>2, <1>3, <1>12 DEF WorkflowInv, RunPart, PairIsOfRaw, ResultIsOfPair, OutputIsOfRun,
               RunCodeIsOnDisk, SoftwareIsOfRun, RehashSoftware, Fields, Compute, Software
    <2> QED
        BY <1>1, <2>1, <2>2 DEF WorkflowInv, RunPart, ReaderPart
  <1>13. CASE WriteRecord
    <2>1. Shapes' /\ CodesAreLoaded'
        BY <1>2, <1>13 DEF WorkflowInv, Shapes, CodesAreLoaded, WriteRecord, Fields
    <2>2. RunPart'
        BY <1>2, <1>3, <1>13 DEF WorkflowInv, RunPart, PairIsOfRaw, ResultIsOfPair, OutputIsOfRun,
               RunCodeIsOnDisk, SoftwareIsOfRun, WriteRecord, Fields, Compute, Software, RecordOf
    <2> QED
        BY <1>1, <2>1, <2>2 DEF WorkflowInv, RunPart, ReaderPart
  <1> QED
      BY <1>4, <1>5, <1>6, <1>7, <1>8, <1>9, <1>10, <1>11, <1>12, <1>13

-----------------------------------------------------------------------------
\* Steps of the reader

\* A result names its pair and its plan, and the rest of it follows from its scores.
LEMMA ResultSaysWhatItIsOf ==
    ASSUME NEW pair, NEW plan, NEW scores
    PROVE  /\ ResultOf(pair, plan, scores).pair = pair
           /\ ResultOf(pair, plan, scores).plan = plan
           /\ ResultOf(pair, plan, scores).scores = scores
  BY DEF ResultOf

\* A record nobody edited is the one the run saved, and that one is consistent.
LEMMA HonestOutputIsConsistent ==
    ASSUME WorkflowInv, ~forged, output \notin {None, Partial}
    PROVE  run.pc = "returned" /\ output = RecordOf(run) /\ Consistent(output)
  <1>1. run.pc = "returned" /\ output = RecordOf(run)
      BY DEF WorkflowInv, OutputIsOfRun
  <1>2. run.pair = Loaded[run.raw, run.config] /\ run.pair # Invalid
      BY <1>1 DEF WorkflowInv, PairIsOfRaw
  <1>3. run.result = Compute(run.code, run.platform, run.pair, run.config)
      BY <1>1 DEF WorkflowInv, ResultIsOfPair
  <1>4. /\ run.result.pair = run.pair /\ run.result.plan = run.config
        /\ run.result = ResultOf(run.pair, run.config, run.result.scores)
    <2> DEFINE scores == Scores[run.code, run.platform, run.pair, run.config]
    <2>1. run.result = ResultOf(run.pair, run.config, scores)
        BY <1>3 DEF Compute
    <2> HIDE DEF scores
    <2> QED
        BY <2>1, ResultSaysWhatItIsOf
  <1> QED
      BY <1>1, <1>2, <1>4 DEF Consistent, RecordOf

LEMMA ReaderKeeps ==
    ASSUME WorkflowInv,
           \/ ImportForReader \/ ReadContext \/ VerifyOnly \/ CheckSoftware \/ ReplayExactly
           \/ ReplayDecision \/ Report
    PROVE  WorkflowInv'
  <1> DEFINE Fields == reader = [pc |-> reader.pc, platform |-> reader.platform, mode |-> reader.mode,
                                 code |-> reader.code, record |-> reader.record]
  <1> USE DEF ReaderStep, ReaderTo
  <1>0. OfReader
      BY DEF ImportForReader, ReadContext, VerifyOnly, CheckSoftware, ReplayExactly, ReplayDecision, Report
  <1>1. RunPart'
      BY <1>0, ReaderKeepsRun
  <1>2. Fields /\ UNCHANGED <<disk, output, run, swapped, forged>>
      BY <1>0 DEF WorkflowInv, Shapes, OfReader
  <1>3. reader.mode \in {"none", "exact", "decision", "report"}
      BY DEF WorkflowInv, Shapes
  <1> HIDE DEF Fields
  <1>4. CASE ImportForReader
    <2>1. Shapes' /\ CodesAreLoaded'
        BY <1>2, <1>4 DEF WorkflowInv, Shapes, CodesAreLoaded, ImportForReader, Fields
    <2>2. ReaderPart'
        BY <1>2, <1>3, <1>4 DEF WorkflowInv, ReaderPart, ReaderCodeIsOnDisk, SoftwareIsOfReader,
               RecordIsOfRun, VerdictIsOfReplay, SavedRecordIsConsistent, ImportForReader, Fields
    <2> QED
        BY <1>1, <2>1, <2>2 DEF WorkflowInv, RunPart, ReaderPart
  <1>5. CASE ReadContext
    <2>1. Shapes' /\ CodesAreLoaded'
        BY <1>2, <1>5 DEF WorkflowInv, Shapes, CodesAreLoaded, ReadContext, Fields
    <2>2. ReaderPart'
        BY <1>2, <1>3, <1>5, HonestOutputIsConsistent DEF WorkflowInv, ReaderPart, ReaderCodeIsOnDisk, SoftwareIsOfReader,
               RecordIsOfRun, VerdictIsOfReplay, SavedRecordIsConsistent, ReadContext, Fields, RecordOf
    <2> QED
        BY <1>1, <2>1, <2>2 DEF WorkflowInv, RunPart, ReaderPart
  <1>6. CASE VerifyOnly
    <2>1. Shapes' /\ CodesAreLoaded'
        BY <1>2, <1>6 DEF WorkflowInv, Shapes, CodesAreLoaded, VerifyOnly, Fields
    <2>2. ReaderPart'
        BY <1>2, <1>3, <1>6 DEF WorkflowInv, ReaderPart, ReaderCodeIsOnDisk, SoftwareIsOfReader,
               RecordIsOfRun, VerdictIsOfReplay, SavedRecordIsConsistent, VerifyOnly, Fields
    <2> QED
        BY <1>1, <2>1, <2>2 DEF WorkflowInv, RunPart, ReaderPart
  <1>7. CASE CheckSoftware
    <2>1. Shapes' /\ CodesAreLoaded'
        BY <1>2, <1>7 DEF WorkflowInv, Shapes, CodesAreLoaded, CheckSoftware, Fields
    <2>2. ReaderPart'
        BY <1>2, <1>3, <1>7 DEF WorkflowInv, ReaderPart, ReaderCodeIsOnDisk, SoftwareIsOfReader,
               RecordIsOfRun, VerdictIsOfReplay, SavedRecordIsConsistent, CheckSoftware, Fields, SameSoftware, SameSources, Software, RecordOf
    <2> QED
        BY <1>1, <2>1, <2>2 DEF WorkflowInv, RunPart, ReaderPart
  <1>8. CASE ReplayExactly
    <2>1. Shapes' /\ CodesAreLoaded'
        BY <1>2, <1>8 DEF WorkflowInv, Shapes, CodesAreLoaded, ReplayExactly, Fields
    <2>2. ReaderPart'
        BY <1>2, <1>3, <1>8 DEF WorkflowInv, ReaderPart, ReaderCodeIsOnDisk, SoftwareIsOfReader,
               RecordIsOfRun, VerdictIsOfReplay, SavedRecordIsConsistent, ReplayExactly, Fields, Replayed, Software, RecordOf
    <2> QED
        BY <1>1, <2>1, <2>2 DEF WorkflowInv, RunPart, ReaderPart
  <1>9. CASE ReplayDecision
    <2>1. Shapes' /\ CodesAreLoaded'
        BY <1>2, <1>9 DEF WorkflowInv, Shapes, CodesAreLoaded, ReplayDecision, Fields
    <2>2. ReaderPart'
        BY <1>2, <1>3, <1>9 DEF WorkflowInv, ReaderPart, ReaderCodeIsOnDisk, SoftwareIsOfReader,
               RecordIsOfRun, VerdictIsOfReplay, SavedRecordIsConsistent, ReplayDecision, Fields, Replayed, Software, RecordOf
    <2> QED
        BY <1>1, <2>1, <2>2 DEF WorkflowInv, RunPart, ReaderPart
  <1>10. CASE Report
    <2>1. Shapes' /\ CodesAreLoaded'
        BY <1>2, <1>10 DEF WorkflowInv, Shapes, CodesAreLoaded, Report, Fields
    <2>2. ReaderPart'
        BY <1>2, <1>3, <1>10 DEF WorkflowInv, ReaderPart, ReaderCodeIsOnDisk, SoftwareIsOfReader,
               RecordIsOfRun, VerdictIsOfReplay, SavedRecordIsConsistent, Report, Fields
    <2> QED
        BY <1>1, <2>1, <2>2 DEF WorkflowInv, RunPart, ReaderPart
  <1> QED
      BY <1>4, <1>5, <1>6, <1>7, <1>8, <1>9, <1>10

-----------------------------------------------------------------------------
\* Edits by others

\* Edits change no process; an edited record is forged, and edited sources are swapped
\* unless both processes are over.
LEMMA EditKeeps ==
    ASSUME WorkflowInv, EditFiles \/ EditSources \/ EditRecord
    PROVE  WorkflowInv'
  <1>1. UNCHANGED <<run, reader>>
      BY DEF EditFiles, EditSources, EditRecord, Edit
  <1>2. PairIsOfRaw' /\ ResultIsOfPair'
      BY <1>1 DEF WorkflowInv, PairIsOfRaw, ResultIsOfPair, Compute
  <1>3. VerdictIsOfReplay'
      BY <1>1, VerdictStays DEF WorkflowInv
  <1>4. CASE EditFiles
    <2>1. /\ disk'.code = disk.code /\ disk'.config \in Configs \cup {Invalid} /\ disk'.input \in Raws
          /\ disk' = [config |-> disk'.config, input |-> disk'.input, code |-> disk'.code]
        BY <1>4 DEF WorkflowInv, Shapes, CodesAreLoaded, EditFiles
    <2>2. UNCHANGED <<output, swapped, forged>>
        BY <1>4 DEF EditFiles
    <2>3. Shapes' /\ CodesAreLoaded' /\ OutputIsOfRun' /\ RecordIsOfRun' /\ SavedRecordIsConsistent'
        BY <1>1, <2>1, <2>2 DEF WorkflowInv, Shapes, CodesAreLoaded, OutputIsOfRun, RecordIsOfRun, RecordOf,
               SavedRecordIsConsistent
    <2>4. RunCodeIsOnDisk' /\ SoftwareIsOfRun' /\ ReaderCodeIsOnDisk' /\ SoftwareIsOfReader'
        BY <1>1, <2>1, <2>2 DEF WorkflowInv, RunCodeIsOnDisk, SoftwareIsOfRun, ReaderCodeIsOnDisk,
               SoftwareIsOfReader, Software
    <2> QED
        BY <1>2, <1>3, <2>3, <2>4 DEF WorkflowInv
  <1>5. CASE EditSources
    <2>1. /\ disk'.config = disk.config /\ disk'.input = disk.input /\ disk'.code \in Codes
          /\ disk' = [config |-> disk'.config, input |-> disk'.input, code |-> disk'.code]
        BY <1>5 DEF WorkflowInv, Shapes, EditSources
    <2>2. UNCHANGED <<output, forged>>
        BY <1>5 DEF EditSources
    <2>3. ~swapped' => ~swapped /\ RunIsOver /\ ReaderIsOver
        BY <1>5 DEF EditSources
    <2>4. Shapes' /\ CodesAreLoaded' /\ OutputIsOfRun' /\ RecordIsOfRun' /\ SavedRecordIsConsistent'
        BY <1>1, <2>1, <2>2 DEF WorkflowInv, Shapes, CodesAreLoaded, OutputIsOfRun, RecordIsOfRun, RecordOf,
               SavedRecordIsConsistent
    <2>5. RunCodeIsOnDisk' /\ ReaderCodeIsOnDisk'
        BY <1>1, <2>3 DEF RunCodeIsOnDisk, ReaderCodeIsOnDisk, RunIsOver, ReaderIsOver
    <2>6. SoftwareIsOfRun' /\ SoftwareIsOfReader'
        BY <1>1, <2>3 DEF WorkflowInv, SoftwareIsOfRun, SoftwareIsOfReader, Software
    <2> QED
        BY <1>2, <1>3, <2>4, <2>5, <2>6 DEF WorkflowInv
  <1>6. CASE EditRecord
    <2>1. forged' /\ UNCHANGED <<disk, swapped>>
        BY <1>6 DEF EditRecord
    <2>2. Shapes' /\ CodesAreLoaded' /\ OutputIsOfRun' /\ RecordIsOfRun' /\ SavedRecordIsConsistent'
        BY <1>1, <2>1 DEF WorkflowInv, Shapes, CodesAreLoaded, OutputIsOfRun, RecordIsOfRun, SavedRecordIsConsistent
    <2>3. RunCodeIsOnDisk' /\ SoftwareIsOfRun' /\ ReaderCodeIsOnDisk' /\ SoftwareIsOfReader'
        BY <1>1, <2>1 DEF WorkflowInv, RunCodeIsOnDisk, SoftwareIsOfRun, ReaderCodeIsOnDisk,
               SoftwareIsOfReader, Software
    <2> QED
        BY <1>2, <1>3, <2>2, <2>3 DEF WorkflowInv
  <1> QED
      BY <1>4, <1>5, <1>6

-----------------------------------------------------------------------------
\* The theorems

\* What each process knows at each of its points.
THEOREM WorkflowInvHolds == Spec => []WorkflowInv
  <1>1. WorkflowInv /\ [Next]_vars => WorkflowInv'
    <2> SUFFICES ASSUME WorkflowInv, [Next]_vars PROVE WorkflowInv'
        OBVIOUS
    <2>1. CASE \/ ImportForRun \/ CheckOutput \/ ReadConfig \/ LoadInput \/ ReadRaw \/ Preflight
               \/ HashSoftware \/ Calibrate \/ RehashSoftware \/ WriteRecord
        BY <2>1, RunKeeps
    <2>2. CASE \/ ImportForReader \/ ReadContext \/ VerifyOnly \/ CheckSoftware \/ ReplayExactly
               \/ ReplayDecision \/ Report
        BY <2>2, ReaderKeeps
    <2>3. CASE EditFiles \/ EditSources \/ EditRecord
        BY <2>3, EditKeeps
    <2>4. CASE UNCHANGED vars
      <3>1. UNCHANGED <<disk, output, run, reader, swapped, forged>>
          BY <2>4 DEF vars
      <3>2. Shapes' /\ CodesAreLoaded' /\ PairIsOfRaw' /\ ResultIsOfPair' /\ OutputIsOfRun'
          BY <3>1 DEF WorkflowInv, Shapes, CodesAreLoaded, PairIsOfRaw, ResultIsOfPair, OutputIsOfRun, RecordOf, Compute
      <3>3. RunCodeIsOnDisk' /\ SoftwareIsOfRun' /\ ReaderCodeIsOnDisk' /\ SoftwareIsOfReader'
          BY <3>1 DEF WorkflowInv, RunCodeIsOnDisk, SoftwareIsOfRun, ReaderCodeIsOnDisk,
                 SoftwareIsOfReader, Software
      <3>4. RecordIsOfRun' /\ SavedRecordIsConsistent'
          BY <3>1 DEF WorkflowInv, RecordIsOfRun, SavedRecordIsConsistent, RecordOf
      <3>5. VerdictIsOfReplay'
          BY <3>1, VerdictStays DEF WorkflowInv
      <3> QED
          BY <3>2, <3>3, <3>4, <3>5 DEF WorkflowInv
    <2> QED
        BY <2>1, <2>2, <2>3, <2>4 DEF Next, Ended
  <1> QED
      BY InitEstablishes, <1>1, PTL DEF Spec

\* A run that returned saved the input it calibrated, although it read the input twice and
\* any number of edits came in between (run_files).
THEOREM InputSavedIsCalibrated == Spec => []SavedInputIsTheCalibratedOne
  <1>1. WorkflowInv => SavedInputIsTheCalibratedOne
    <2> SUFFICES ASSUME WorkflowInv, run.pc = "returned", ~forged
                 PROVE  output.result = Compute(run.code, run.platform,
                                                Loaded[output.input, output.request], output.request)
        BY DEF SavedInputIsTheCalibratedOne
    <2>1. output = RecordOf(run)
        BY DEF WorkflowInv, OutputIsOfRun
    <2>2. run.pair = Loaded[run.raw, run.config]
        BY DEF WorkflowInv, PairIsOfRaw
    <2>3. run.result = Compute(run.code, run.platform, run.pair, run.config)
        BY DEF WorkflowInv, ResultIsOfPair
    <2>4. output.input = run.raw /\ output.request = run.config /\ output.result = run.result
        BY <2>1 DEF RecordOf
    <2> QED
        BY <2>2, <2>3, <2>4
  <1> QED
      BY WorkflowInvHolds, <1>1, PTL

\* A record nobody edited is never refused for its content (_read_context).
THEOREM RecordStaysConsistent == Spec => []SavedRecordIsConsistent
  <1>1. WorkflowInv => SavedRecordIsConsistent
      BY DEF WorkflowInv
  <1> QED
      BY WorkflowInvHolds, <1>1, PTL

-----------------------------------------------------------------------------
\* What rounding may change

\* Every score is near: nothing fails on one platform only, and no score is beyond the tolerance.
Near(left, right) == ~FarApart(left, right)

AllScores == [Scans -> [Lags -> Int] \cup {Failed}]

LEMMA ScanHasScores ==
    ASSUME NEW scores \in AllScores, NEW scan \in Scans \ FailedScans(scores), NEW c \in Lags
    PROVE  scores[scan][c] \in Int
  <1>1. scores[scan] \in [Lags -> Int]
      BY DEF AllScores, FailedScans
  <1> QED
      BY <1>1

\* Without a near tie in one scan, the same lags tie.
LEMMA SameTies ==
    ASSUME NEW left \in AllScores, NEW right \in AllScores, Near(left, right), ~NearTie(left),
           NEW scan \in Scans \ FailedScans(left)
    PROVE  Tied(left[scan]) = Tied(right[scan])
  <1>1. scan \in Scans \ FailedScans(right) /\ Tie \in Nat /\ Tolerance \in Nat
      BY WorkflowAssumption DEF Near, FarApart
  <1>2. ASSUME NEW c \in Lags, NEW d \in Lags
        PROVE  left[scan][d] - left[scan][c] <= Tie <=> right[scan][d] - right[scan][c] <= Tie
    <2> DEFINE lc == left[scan][c]
               ld == left[scan][d]
               rc == right[scan][c]
               rd == right[scan][d]
    <2>1. lc \in Int /\ ld \in Int /\ rc \in Int /\ rd \in Int
        BY <1>1, ScanHasScores
    <2>2. lc - rc \in -Tolerance .. Tolerance /\ ld - rd \in -Tolerance .. Tolerance
        BY DEF Near, FarApart
    <2>3. c # d => ld - lc - Tie \notin -2 * Tolerance .. 2 * Tolerance
        BY DEF NearTie, Turns
    <2>4. CASE c = d
      <3>1. ld = lc /\ rd = rc
          BY <2>4
      <3> QED
          BY <1>1, <2>1, <3>1
    <2>5. CASE c # d
      <3> HIDE DEF lc, ld, rc, rd
      <3>1. ld - lc <= Tie <=> rd - rc <= Tie
          BY <1>1, <2>1, <2>2, <2>3, <2>5
      <3> QED
          BY <3>1 DEF lc, ld, rc, rd
    <2> QED
        BY <2>4, <2>5
  <1> QED
      BY <1>2 DEF Tied

\* Without a surrogate near the observed scan, the same surrogates exceed.
LEMMA SameExceedances ==
    ASSUME NEW left \in AllScores, NEW right \in AllScores, Near(left, right), ~NearTie(left),
           Observed \notin FailedScans(left)
    PROVE  Exceeding(left) = Exceeding(right)
  <1>1. FailedScans(left) = FailedScans(right) /\ Tolerance \in Nat
      BY WorkflowAssumption DEF Near, FarApart
  <1>2. Observed \in Scans \ FailedScans(left) /\ Observed \in Scans \ FailedScans(right)
      BY <1>1 DEF Scans
  <1>3. ASSUME NEW rep \in Replicates \ FailedScans(left), NEW c \in Lags, NEW d \in Lags
        PROVE  left[rep][c] >= left[Observed][d] <=> right[rep][c] >= right[Observed][d]
    <2> DEFINE lc == left[rep][c]
               ld == left[Observed][d]
               rc == right[rep][c]
               rd == right[Observed][d]
    <2>1. rep \in Scans \ FailedScans(left) /\ rep \in Scans \ FailedScans(right)
        BY <1>1 DEF Scans
    <2>2. lc \in Int /\ ld \in Int /\ rc \in Int /\ rd \in Int
        BY <1>2, <2>1, ScanHasScores
    <2>3. lc - rc \in -Tolerance .. Tolerance /\ ld - rd \in -Tolerance .. Tolerance
        BY <1>2, <2>1 DEF Near, FarApart
    <2>4. lc - ld - 0 \notin -2 * Tolerance .. 2 * Tolerance
        BY <1>2 DEF NearTie, Turns
    <2> HIDE DEF lc, ld, rc, rd
    <2>5. lc >= ld <=> rc >= rd
        BY <1>1, <2>2, <2>3, <2>4
    <2> QED
        BY <2>5 DEF lc, ld, rc, rd
  <1>4. \A rep \in Replicates \ FailedScans(left) :
            Exceeds(left[rep], left[Observed]) <=> Exceeds(right[rep], right[Observed])
      BY <1>3 DEF Exceeds
  <1> QED
      BY <1>1, <1>4 DEF Exceeding

\* Results of near scores without a near tie are close: rounding within the tolerance changes
\* neither the ties nor the count.
LEMMA NearScoresAreClose ==
    ASSUME NEW left \in AllScores, NEW right \in AllScores, Near(left, right), ~NearTie(left),
           NEW pair, NEW plan
    PROVE  Close(ResultOf(pair, plan, right), ResultOf(pair, plan, left))
  <1> DEFINE one == ResultOf(pair, plan, right)
             two == ResultOf(pair, plan, left)
  <1>1. FailedScans(left) = FailedScans(right)
      BY DEF Near, FarApart
  <1>2. /\ one.pair = pair /\ one.plan = plan /\ one.scores = right /\ one.failed = FailedScans(right)
        /\ one.tied = [scan \in Scans \ FailedScans(right) |-> Tied(right[scan])]
        /\ one.count = IF Observed \in FailedScans(right) THEN 0 ELSE Cardinality(Exceeding(right))
      BY DEF ResultOf
  <1>3. /\ two.pair = pair /\ two.plan = plan /\ two.scores = left /\ two.failed = FailedScans(left)
        /\ two.tied = [scan \in Scans \ FailedScans(left) |-> Tied(left[scan])]
        /\ two.count = IF Observed \in FailedScans(left) THEN 0 ELSE Cardinality(Exceeding(left))
      BY DEF ResultOf
  <1> HIDE DEF one, two
  <1>4. one.tied = two.tied
      BY <1>1, <1>2, <1>3, SameTies
  <1>5. one.count = two.count
      BY <1>1, <1>2, <1>3, SameExceedances
  <1>6. ASSUME NEW scan \in Scans \ FailedScans(right), NEW c \in Lags
        PROVE  right[scan][c] - left[scan][c] \in -Tolerance .. Tolerance
    <2>1. right[scan][c] \in Int /\ left[scan][c] \in Int /\ Tolerance \in Nat
        BY <1>1, ScanHasScores, WorkflowAssumption
    <2>2. left[scan][c] - right[scan][c] \in -Tolerance .. Tolerance
        BY <1>1 DEF Near, FarApart
    <2> QED
        BY <2>1, <2>2
  <1>7. SameDecision(one, two)
      BY <1>1, <1>2, <1>3, <1>4, <1>5 DEF SameDecision
  <1>8. Close(one, two)
      BY <1>2, <1>3, <1>6, <1>7 DEF Close
  <1> QED
      BY <1>8 DEF one, two

-----------------------------------------------------------------------------
\* What a replay says

\* A match vouches for the record, be it edited, if no process had its sources edited under
\* it (verify_record).
THEOREM MatchVouches == Spec => []MatchIsWhatTheRecordedSoftwareComputes
  <1>1. WorkflowInv => MatchIsWhatTheRecordedSoftwareComputes
    <2> SUFFICES ASSUME WorkflowInv, ~swapped
                 PROVE  /\ reader.pc = "MATCH" =>
                              reader.record.result
                                  = Claimed(reader.record, reader.record.metadata.software.platform)
                        /\ reader.pc = "DECISION_MATCH" =>
                              \E platform \in Platforms :
                                  Close(Claimed(reader.record, platform), reader.record.result)
        BY DEF MatchIsWhatTheRecordedSoftwareComputes
    <2>1. ASSUME reader.pc = "MATCH"
          PROVE  reader.record.result = Claimed(reader.record, reader.record.metadata.software.platform)
      <3>1. reader.record.metadata.software = Software(reader.code, reader.platform)
          BY <2>1 DEF WorkflowInv, SoftwareIsOfReader
      <3>2. /\ reader.record.metadata.software.code = reader.code
            /\ reader.record.metadata.software.platform = reader.platform
          BY <3>1 DEF Software
      <3>3. Replayed = reader.record.result
          BY <2>1 DEF WorkflowInv, VerdictIsOfReplay
      <3> QED
          BY <3>2, <3>3 DEF Replayed, Claimed
    <2>2. ASSUME reader.pc = "DECISION_MATCH"
          PROVE  \E platform \in Platforms : Close(Claimed(reader.record, platform), reader.record.result)
      <3>1. reader.record.metadata.software.code = reader.code
          BY <2>2 DEF WorkflowInv, SoftwareIsOfReader
      <3>2. Close(Replayed, reader.record.result)
          BY <2>2 DEF WorkflowInv, VerdictIsOfReplay
      <3>3. Replayed = Claimed(reader.record, reader.platform)
          BY <3>1 DEF Replayed, Claimed
      <3>4. reader.platform \in Platforms
          BY DEF WorkflowInv, Shapes
      <3> QED
          BY <3>2, <3>3, <3>4
    <2> QED
        BY <2>1, <2>2
  <1> QED
      BY WorkflowInvHolds, <1>1, PTL

\* A record nobody edited replays exactly where the software is the same, and in its decision
\* on every platform whose scores are within the tolerance, if the recorded scores have no
\* near tie (verify_record, decision_replay_ulp).
THEOREM HonestRecordsReplay == Spec => []HonestRecordReplays
  <1>1. WorkflowInv => HonestRecordReplays
    <2> SUFFICES ASSUME WorkflowInv, ~forged, ~swapped,
                        reader.pc \in {"replay_mismatch", "decision_replay_mismatch"}
                 PROVE  /\ reader.pc = "decision_replay_mismatch"
                        /\ \/ FarApart(reader.record.result.scores, Replayed.scores)
                           \/ NearTie(reader.record.result.scores)
        BY DEF HonestRecordReplays
    <2> DEFINE Pair == Loaded[run.raw, run.config]
    <2>1. run.pc = "returned" /\ reader.record = RecordOf(run)
        BY DEF WorkflowInv, RecordIsOfRun
    <2>2. /\ reader.record.input = run.raw
          /\ reader.record.request = run.config
          /\ reader.record.result = run.result
          /\ reader.record.metadata.software = run.software
        BY <2>1 DEF RecordOf
    <2>3. run.software = Software(run.code, run.platform)
        BY <2>1 DEF WorkflowInv, SoftwareIsOfRun
    <2>4. run.software.code = run.code /\ run.software.platform = run.platform
        BY <2>3 DEF Software
    <2>5. run.pair = Pair /\ run.result = Compute(run.code, run.platform, run.pair, run.config)
        BY <2>1 DEF WorkflowInv, PairIsOfRaw, ResultIsOfPair
    <2>6. Replayed = Compute(reader.code, reader.platform, Pair, run.config)
        BY <2>2 DEF Replayed
    <2>7. run.result = Compute(run.code, run.platform, Pair, run.config)
        BY <2>5
    <2>8. CASE reader.pc = "replay_mismatch"
      <3> HIDE DEF Pair
      <3>1. reader.record.metadata.software = Software(reader.code, reader.platform)
          BY <2>8 DEF WorkflowInv, SoftwareIsOfReader
      <3>2. /\ reader.record.metadata.software.code = reader.code
            /\ reader.record.metadata.software.platform = reader.platform
          BY <3>1 DEF Software
      <3>3. reader.code = run.code /\ reader.platform = run.platform
          BY <3>2, <2>2, <2>4
      <3>4. Replayed # run.result
          BY <2>8, <2>2 DEF WorkflowInv, VerdictIsOfReplay
      <3> QED
          BY <3>3, <3>4, <2>6, <2>7
    <2>9. CASE reader.pc = "decision_replay_mismatch"
      <3> DEFINE there == Scores[run.code, run.platform, Pair, run.config]
                 here  == Scores[reader.code, reader.platform, Pair, run.config]
      <3>1. ~Close(Replayed, run.result)
          BY <2>9, <2>2 DEF WorkflowInv, VerdictIsOfReplay
      <3>2. /\ run.result.scores = there /\ run.result = ResultOf(Pair, run.config, there)
            /\ Replayed.scores = here /\ Replayed = ResultOf(Pair, run.config, here)
        <4> HIDE DEF Pair
        <4>1. run.result = ResultOf(Pair, run.config, there)
            BY <2>7 DEF Compute
        <4>2. Replayed = ResultOf(Pair, run.config, here)
            BY <2>6 DEF Compute
        <4> HIDE DEF there, here
        <4> QED
            BY <4>1, <4>2, ResultSaysWhatItIsOf
      <3>3. there \in AllScores /\ here \in AllScores
        <4>1. run.code \in Codes /\ reader.code \in Codes
            BY <2>9, <2>1 DEF WorkflowInv, CodesAreLoaded
        <4>2. run.platform \in Platforms /\ reader.platform \in Platforms
            BY DEF WorkflowInv, Shapes
        <4>3. Pair \in Pairs /\ run.config \in Configs
          <5>1. run.raw \in Raws /\ run.config \in Configs
              BY <2>1 DEF WorkflowInv, CodesAreLoaded
          <5>2. Pair # Invalid
              BY <2>1, <2>5 DEF WorkflowInv, PairIsOfRaw
          <5>3. <<run.raw, run.config>> \in Raws \X Configs
              BY <5>1
          <5>4. Loaded[<<run.raw, run.config>>] \in {Loaded[at] : at \in Raws \X Configs}
              BY <5>3
          <5>5. Pair \in Pairs
              BY <5>2, <5>4 DEF Pairs
          <5> QED
              BY <5>1, <5>5
        <4> HIDE DEF Pair
        <4> QED
            BY <4>1, <4>2, <4>3, WorkflowAssumption DEF AllScores
      <3> HIDE DEF Pair, there, here
      <3>4. FarApart(there, here) \/ NearTie(there)
          BY <3>1, <3>2, <3>3, NearScoresAreClose DEF Near
      <3> QED
          BY <2>2, <2>9, <3>2, <3>4
    <2> QED
        BY <2>8, <2>9
  <1> QED
      BY WorkflowInvHolds, <1>1, PTL
=============================================================================
