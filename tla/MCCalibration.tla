---------------------------- MODULE MCCalibration ----------------------------
(***************************************************************************)
(* Small instances of Calibration for TLC.                                 *)
(***************************************************************************)
EXTENDS CalibrationRefinement

Plan(replicates, alpha, enumerating) ==
    [replicates |-> replicates, alpha |-> alpha, enumerating |-> enumerating]

\* p falls on both sides of alpha; of the enumerating plans one covers both non-identity
\* states and one would cover a part.
HonestPlans ==
    {Plan(2, <<2, 3>>, FALSE), Plan(1, <<1, 4>>, FALSE), Plan(2, <<1, 3>>, TRUE), Plan(1, <<1, 2>>, TRUE)}

\* The second plan is over the envelope of the drift instances.
DriftPlans ==
    {Plan(2, <<1, 3>>, FALSE), Plan(3, <<1, 2>>, FALSE)}

SignedEstimates == {-2, 1}

UnsignedEstimates == {0, 1}

Pair == {1, 3}

Single == {2}

EveryFault == Components

\* What a callback may put back as it was: slots, globals, the token.  Contents of arrays and
\* retained records stay as they were left.
PutBack == LightVisible \cup {"globals", "token"}
=============================================================================
