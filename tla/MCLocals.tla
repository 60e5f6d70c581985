------------------------------ MODULE MCLocals ------------------------------
(***************************************************************************)
(* The program Local* of MCPlugin is one of those to which the theorems of *)
(* LocalsProof apply.                                                      *)
(***************************************************************************)
EXTENDS MCPlugin

ASSUME ApartAssumption == LocalsApart /\ PlainTyped /\ RecordsReached
=============================================================================
