--------------------------- MODULE MCAttainability ---------------------------
(***************************************************************************)
(* Small instances of Attainability for TLC.                               *)
(***************************************************************************)
EXTENDS Attainability

Pearson == "lagged_pearson_v1"

Alphas == {[num |-> 1, den |-> 4], [num |-> 1, den |-> 3], [num |-> 2, den |-> 5],
           [num |-> 1, den |-> 2], [num |-> 4, den |-> 5]}

\* Complete and incomplete enumerations of every lag set that three offsets allow.
EnumeratingRequests ==
    [null : {"circular_shift_exact_v1"}, statistic : {Pearson}, parameter : {1},
     lags : SUBSET {1, 2, 3} \ {{}}, tolerance : {0, 1}, replicates : 3 .. 4, alpha : Alphas]

\* Sampled shifts with and without excluded ones, from one replicate up.
SampledRequests ==
    [null : {"circular_shift_v2"}, statistic : {Pearson}, parameter : {1, 2},
     lags : {{1}, {1, 2}}, tolerance : {0, 1}, replicates : {1, 2, 4},
     alpha : Alphas]

\* The plans attainability leaves alone, and a space without shifts.
OtherRequests ==
    [null : {"block_shuffle_v2"}, statistic : {Pearson}, parameter : {2, 3},
     lags : {{1}}, tolerance : {0}, replicates : {3, 4}, alpha : {[num |-> 1, den |-> 2]}]
    \cup [null : {"circular_shift_v2"}, statistic : {"equal_width_binned_nette_v1"}, parameter : {1},
          lags : {{1}}, tolerance : {0}, replicates : {2}, alpha : {[num |-> 1, den |-> 2]}]
    \cup [null : {"circular_shift_v2"}, statistic : {Pearson}, parameter : {3},
          lags : {{1}}, tolerance : {0}, replicates : {2}, alpha : {[num |-> 1, den |-> 2]}]

AllRequests == EnumeratingRequests \cup SampledRequests \cup OtherRequests

\* Lag sets of which some reach the last sample, so that no two samples are left.
LongLagRequests ==
    [null : {"circular_shift_v2"}, statistic : {Pearson}, parameter : {1}, lags : {{1}, {1, 2}},
     tolerance : {0}, replicates : {1, 2, 4}, alpha : Alphas]

Levels == 0 .. 2

Bits == 0 .. 1

\* Four replicates of two lags on five samples are over the work cap.
WorkCaps == [replicates |-> 4, evaluations |-> 12, states |-> 8, work |-> 63]
=============================================================================
