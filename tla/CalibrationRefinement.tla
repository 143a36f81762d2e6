------------------------ MODULE CalibrationRefinement ------------------------
(***************************************************************************)
(* Calibration implements SelectedFamilyTest: the draws are the tokens of  *)
(* the registered outcomes, the verdict is what a caller learns.           *)
(***************************************************************************)
EXTENDS Calibration

Drawn == [i \in DOMAIN history |-> history[i].token]

\* What a result tells whoever reads it.
Says(r) ==
    CASE r.stage = "NONE" -> [kind |-> "decided", p |-> r.p, reject |-> r.reject]
      [] r.stage = "REPLICATE_EXECUTION" -> [kind |-> "bounded", low |-> r.low, high |-> r.high]
      [] OTHER -> [kind |-> r.stage]

\* What the returned result, or the raised error, tells the caller, and by whom.
Told ==
    CASE pc = "raised" -> [by |-> "test", says |-> [kind |-> "refused"]]
      [] pc = "returned" ->
            [by |-> IF HookKeptResult THEN "test" ELSE "hook", says |-> Says(result)]
      [] OTHER -> NoValue

Test == INSTANCE SelectedFamilyTest WITH draws <- Drawn, verdict <- Told

\* Whatever the callbacks break, a caller is told the verdict on the drawn states, or that the
\* run was refused, unless the public hook replaced the result; then it is told the verdict on
\* some scans of B replicates of the same plan, and no half-altered result: the frozen verifier
\* sees to that, and to no more (calibrate_selected_family, verify_calibration_result).
ImplementsTest == Test!Spec
=============================================================================
