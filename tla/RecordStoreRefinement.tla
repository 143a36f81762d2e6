----------------------- MODULE RecordStoreRefinement -----------------------
(***************************************************************************)
(* RecordStore implements RecordRegister: the register holds the record    *)
(* the path can be read as, the answer is what read_record returned.       *)
(***************************************************************************)
EXTENDS RecordStore

\* What the writers are called with.
CalledWith == {call.writer[w].members : call \in Calls, w \in Writers}

Content == [w \in Writers |-> writer[w].members]

Stored == Held(entry, files)

Saved == {w \in Writers : writer[w].pc = "saved"}

Answered == IF reader.pc = "returned" THEN {Decoded(reader.pages)} ELSE {}

Register ==
    INSTANCE RecordRegister WITH
        Contents <- Records, Offered <- CalledWith,
        content <- Content, stored <- Stored, saved <- Saved, answer <- Answered,
        lost <- outages > 0, meddled <- meddles > 0

\* However the system calls of writers and readers interleave, fail or are cut off, a caller
\* sees a register that holds a record whole or not at all, that takes the record of one
\* writer only, and whose read answers what is there when it ends: write_record and
\* read_record against what their callers build on.
ImplementsRegister == Register!Spec
=============================================================================
