----------------------------- MODULE MCNullTest -----------------------------
(***************************************************************************)
(* A plan and one replicate's draw, side by side for TLC.                  *)
(*                                                                         *)
(* Attainability takes the state of a replicate as any state of the space, *)
(* and ReplicateDraw says how it is drawn.  They share no variable: a plan *)
(* runs while the draw rests at its start, and a draw runs beside a plan   *)
(* that ended without one.                                                 *)
(***************************************************************************)
EXTENDS MCAttainability, ReplicateDraw

\* Bounds 2 to 8, powers of two and not: shift spaces with and without excluded shifts,
\* the two-element space of 2m = n, and two to five blocks, of which four just meet the cap
\* of the oracle and five pass it.
SmallNulls ==
    [name : {"circular_shift_v2"}, length : 2 .. 8, parameter : {1}]
    \cup [name : {"circular_shift_v2"}, length : 4 .. 8, parameter : {2}]
    \cup [name : {"block_shuffle_v2"}, length : {4, 6, 8}, parameter : {2}]
    \cup [name : {"block_shuffle_v2"}, length : {5}, parameter : {1}]

SmallestNull == [name |-> "circular_shift_v2", length |-> 2, parameter |-> 1]

PlanRests ==
    /\ request = CHOOSE rq \in LongLagRequests : TRUE
    /\ n = 3 /\ profile = [k \in 0 .. 2 |-> 0] /\ allow = FALSE
    /\ pc = "elsewhere"
    /\ within = "unknown" /\ allowed = 0 /\ terms = 0 /\ status = "none"
    /\ drawn = 0 /\ exceed = 0 /\ landed = 0 /\ rejects = FALSE

PlanRuns == DrawInit /\ null = SmallestNull /\ Init

DrawRuns == PlanRests /\ DrawInit

TestInit == PlanRuns \/ DrawRuns

TestNext ==
    \/ Next /\ UNCHANGED drawVars
    \/ pc = "elsewhere" /\ DrawNext /\ UNCHANGED vars

TestSpec == TestInit /\ [][TestNext]_<<vars, drawVars>>
=============================================================================
