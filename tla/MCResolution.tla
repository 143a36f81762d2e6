---------------------------- MODULE MCResolution ----------------------------
(***************************************************************************)
(* A small instance of Resolution for TLC: three objects over two          *)
(* addresses, so that an address is used again while records and callbacks *)
(* of its former owner are still about.                                    *)
(***************************************************************************)
EXTENDS Resolution, TLC

ThreeObjects == 1 .. 3

\* Two requests that differ in the statistic; the third differs outside the adapters.
SomeRequests ==
    {[statistic |-> "pearson", null |-> "circular", rest |-> 0],
     [statistic |-> "binned", null |-> "circular", rest |-> 0],
     [statistic |-> "pearson", null |-> "circular", rest |-> 1]}

ResolverSymmetry == Permutations(Resolvers) \cup Permutations(Addresses)
=============================================================================
