--------------------------- MODULE RecordRegister ---------------------------
(***************************************************************************)
(* What the record store promises, without files: one register that is     *)
(* written once.  A record is there whole or not at all, a writer returns  *)
(* when its own record is there, and a read answers what is there at the   *)
(* moment it ends.  A power loss may empty the register; another program   *)
(* may do anything to it.                                                  *)
(***************************************************************************)
CONSTANTS
    Writers,  \* calls that write the register
    Contents, \* the records it may hold
    Offered   \* what the writers are called with, records or not

VARIABLES
    content, \* what each writer was called with
    stored,  \* the record in the register, if there is one
    saved,   \* the writers that have returned
    answer,  \* what the read has answered, if anything
    lost,    \* whether the power has failed
    meddled  \* whether another program has touched the register

registerVars == <<content, stored, saved, answer, lost, meddled>>

AnyState == {{}} \cup {{record} : record \in Contents}

Init ==
    /\ content \in [Writers -> Offered]
    /\ stored = {}
    /\ saved = {}
    /\ answer = {}
    /\ lost = FALSE
    /\ meddled = FALSE

\* The record of a writer is there, where none was.
Store(w) ==
    /\ content[w] \in Contents
    /\ w \notin saved
    /\ stored = {}
    /\ stored' = {content[w]}
    /\ UNCHANGED <<content, saved, answer, lost, meddled>>

\* A writer returns: its record is there, and it is the only writer to do so.
Return(w) ==
    /\ content[w] \in Contents
    /\ w \notin saved
    /\ meddled \/ stored = {content[w]}
    /\ meddled \/ lost \/ saved = {}
    /\ saved' = saved \cup {w}
    /\ UNCHANGED <<content, stored, answer, lost, meddled>>

\* The read answers the record that is there.
Answer ==
    /\ answer = {}
    /\ stored # {}
    /\ answer' = stored
    /\ UNCHANGED <<content, stored, saved, lost, meddled>>

LosePower ==
    /\ lost' = TRUE
    /\ stored' \in AnyState
    /\ meddled \/ stored' \in {stored, {}}
    /\ UNCHANGED <<content, saved, answer, meddled>>

Meddle ==
    /\ meddled' = TRUE
    /\ stored' \in AnyState
    /\ UNCHANGED <<content, saved, answer, lost>>

Next == (\E w \in Writers : Store(w) \/ Return(w)) \/ Answer \/ LosePower \/ Meddle

Spec == Init /\ [][Next]_registerVars
=============================================================================
