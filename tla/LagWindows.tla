------------------------------ MODULE LagWindows ------------------------------
(***************************************************************************)
(* The common support of a lag family and the vectors a candidate is       *)
(* scored on (support.py, statistics/lagged_pearson.py).                   *)
(*                                                                         *)
(* A window is a function on the support; positions are those of the whole *)
(* series, so a window keeps the place each value was taken from.          *)
(***************************************************************************)
EXTENDS NullStates, FiniteSetsExt

\* The contiguous common axis of all candidates.
Support(n, lags) == Max(lags) .. n - 1

\* What the loader asks of a series: a length above the largest lag.
Loadable(n, lags) == n > Max(lags)

\* bind of the lagged statistic: at least two samples for the largest lag.
Bindable(n, lags) == n - Max(lags) >= 2

SourcePast(x, n, lags, c) == [t \in Support(n, lags) |-> x[t - c]]

\* forward_for: the target on the axis and one step before it, the source c steps before.
ForwardFor(pair, n, lags, c) ==
    [future      |-> [t \in Support(n, lags) |-> pair.target[t]],
     past        |-> [t \in Support(n, lags) |-> pair.target[t - 1]],
     source_past |-> SourcePast(pair.source, n, lags, c)]

\* reverse_for: the same with the roles exchanged.
ReverseFor(pair, n, lags, c) ==
    ForwardFor([source |-> pair.target, target |-> pair.source], n, lags, c)
=============================================================================
