----------------------------- MODULE MCWorkflow -----------------------------
(***************************************************************************)
(* A small instance of Workflow for TLC.                                   *)
(***************************************************************************)
EXTENDS Workflow

\* Two spellings of one pair, and one of another; columns that the last input lacks.
AllRaws == {"x", "x2", "y"}
AllConfigs == {"strict", "wide"}
AllCodes == {"old", "new"}
AllPlatforms == {"mac", "linux", "other"}

LoadedPairs ==
    [at \in AllRaws \X AllConfigs |->
        CASE at = <<"y", "wide">> -> Invalid
          [] at[1] \in {"x", "x2"} -> "X"
          [] OTHER -> "Y"]

\* The wide plan is refused on X, the strict one is too large on Y.
Statuses ==
    [at \in {"X", "Y"} \X AllConfigs |->
        CASE at = <<"X", "wide">> -> "REFUSE" [] at = <<"Y", "strict">> -> "OVERSIZED"
          [] OTHER -> "EXECUTABLE"]

\* The strict plan is decided by a wide margin, by each code the other way; the wide one has
\* a surrogate level with the observed scan.  Lag 1 scores best by far.
Exact(code, config, scan) ==
    CASE config = "wide" -> [c \in {1, 2} |-> IF c = 1 THEN 50 ELSE 0]
      [] config = "strict" /\ (scan = "observed") = (code = "old") -> [c \in {1, 2} |-> IF c = 1 THEN 90 ELSE 10]
      [] OTHER -> [c \in {1, 2} |-> IF c = 1 THEN 50 ELSE 30]

\* One platform is off by the tolerance in the observed scan.  On another the old code is off
\* by more, and the new one fails the surrogate or, on the wide plan, the observed scan.
Rounded(code, platform, config, scan) ==
    LET exact == Exact(code, config, scan)
    IN  CASE platform = "linux" /\ scan = "observed" -> [exact EXCEPT ![1] = @ + 2]
          [] platform = "other" /\ code = "new" /\ (scan = "surrogate" \/ config = "wide") -> Failed
          [] platform = "other" /\ code = "old" /\ scan = "observed" -> [exact EXCEPT ![2] = @ + 3]
          [] OTHER -> exact

ScoresOfAll ==
    [at \in AllCodes \X AllPlatforms \X {"X", "Y"} \X AllConfigs |->
        [scan \in {"observed", "surrogate"} |-> Rounded(at[1], at[2], at[4], scan)]]
=============================================================================
