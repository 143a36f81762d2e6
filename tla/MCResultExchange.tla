--------------------------- MODULE MCResultExchange ---------------------------
(***************************************************************************)
(* Small instances of ResultExchange for TLC.                              *)
(***************************************************************************)
EXTENDS ResultExchange

Lags == {1, 2}

\* Scores 0, 1 and 2, of which neighbours are tied.
SignedEstimates == {-2, 0, 1}

Plan(name, parameter, replicates, alpha) ==
    [name |-> name, parameter |-> parameter, replicates |-> replicates, alpha |-> alpha]

SampledPlan == Plan("circular_shift_v2", 2, 2, <<1, 3>>)
ExactPlan == Plan("circular_shift_exact_v1", 1, 3, <<2, 3>>)
BlockPlan == Plan("block_shuffle_v2", 2, 2, <<1, 2>>)

AllPlans == {SampledPlan, ExactPlan, BlockPlan}

Vector(a, b) == [c \in Lags |-> IF c = 1 THEN a ELSE b]

Low == Vector(0, 1)
High == Vector(1, -2)
Apart == Vector(-2, 0)
Torn == Vector(1, Failure)

Reply(state, v) == [state |-> state, vector |-> v]

Run(plan, length, v, replies) ==
    [plan |-> plan, pair |-> "here", length |-> length, observed |-> v, replies |-> replies]

\* The states of the replicates of each plan, the identity among them where it can be drawn.
StatesOfRun(plan) ==
    CASE plan = SampledPlan -> <<<<0>>, <<2>>>>
      [] plan = ExactPlan   -> <<<<1>>, <<2>>, <<3>>>>
      [] OTHER              -> <<<<0, 1>>, <<1, 0>>>>

\* The first replicate answers a, the others b.
Replies(plan, a, b) ==
    [i \in Replicates(plan) |-> Reply(StatesOfRun(plan)[i], IF i = 1 THEN a ELSE b)]

FullRun == Run(ExactPlan, 4, High, Replies(ExactPlan, Low, Apart))

SomeLengths == 4 .. 6

\* A length of 5 cannot be divided into blocks of two, nor enumerated by three replicates.
SomeRuns ==
    {FullRun}
    \cup {run \in {Run(plan, 4, v, Replies(plan, a, b)) :
                    plan \in AllPlans, v \in {Low, High}, a \in {Low, Apart, Torn}, b \in {High, Torn}} :
            RunIsPossible(run.plan, run)}
    \cup {Run(plan, 4, Torn, <<>>) : plan \in AllPlans}
    \cup {Run(plan, 5, Torn, <<>>) : plan \in {ExactPlan, BlockPlan}}

\* Two changes together where one would be compensated by the other.
Thorough ==
    {run \in SomeRuns : run.plan \in {ExactPlan, SampledPlan} /\ run.length = 4 /\ run.observed = Torn}
    \cup {FullRun}

SomeBudgets == [run \in SomeRuns |-> IF run \in Thorough THEN 2 ELSE 1]

SomeLimits == {5, 6}
=============================================================================
