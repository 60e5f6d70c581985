----------------------------- MODULE Decompiler -----------------------------
(***************************************************************************)
(* What the interface Decompiler promises: decompile gives nothing, or a   *)
(* result made from the database as it is, with every action applied once  *)
(* and in order, whatever the decompilations before it came to.            *)
(***************************************************************************)
EXTENDS Naturals

CONSTANTS
    Wanted,     \* the actions of a decompilation, in order
    NoResult,   \* std::nullopt
    MaxEdits    \* bound: edits of the database

VARIABLES
    db,         \* version of IDA's database
    out         \* what the last decompile returned

Init == db = 0 /\ out = NoResult

\* The user edits the database.
Edit ==
    /\ db < MaxEdits
    /\ db' = db + 1
    /\ UNCHANGED out

Succeed ==
    /\ out' = [symbols |-> {db}, applied |-> Wanted]
    /\ UNCHANGED db

Fail ==
    /\ out' = NoResult
    /\ UNCHANGED db

Next == Edit \/ Succeed \/ Fail

Spec == Init /\ [][Next]_<<db, out>>
=============================================================================
