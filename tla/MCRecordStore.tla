--------------------------- MODULE MCRecordStore ---------------------------
(***************************************************************************)
(* Small instances of RecordStore for TLC.                                 *)
(***************************************************************************)
EXTENDS RecordStoreRefinement

CONSTANTS a, b, w1, w2

TwoNames == <<"input", "result">>

TwoPayloads == {a, b}

TwoWriters == {w1, w2}

Of(p) == [input |-> p, result |-> p]

\* Two writers of records of one layout, under limits that are invalid, enough for the
\* payloads only, or just enough; a record is read, or the file as an input.
SomeCalls ==
    {[writer |-> [w \in TwoWriters |-> IF w = w1 THEN [members |-> Of(a), limit |-> 3] ELSE call[1]],
      kind |-> call[2], reader |-> call[3]] :
        call \in {<<[members |-> Of(b), limit |-> 3], "record", 3>>,
                  <<[members |-> Of(b), limit |-> 2], "record", 2>>,
                  <<[members |-> [input |-> b], limit |-> 3], "record", 3>>,
                  <<[members |-> Of(b), limit |-> 0], "record", 0>>,
                  <<[members |-> Of(b), limit |-> 0], "input", 3>>}}
=============================================================================
