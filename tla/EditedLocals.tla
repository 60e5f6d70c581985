---------------------------- MODULE EditedLocals ----------------------------
(***************************************************************************)
(* What editing the locals of a program promises: a name and a type for    *)
(* each of them, changed one local at a time by the key the user presses,  *)
(* and by nothing else.  Views, records, functions and decompilations do   *)
(* not exist here.                                                         *)
(***************************************************************************)
CONSTANTS Var, Typed, TypeName, None, FirstName

VARIABLES name, type

Init ==
    /\ name = FirstName
    /\ type = [v \in Var |-> None]

Rename(v, n) == name' = [name EXCEPT ![v] = n] /\ UNCHANGED type

Retype(v, t) == type' = [type EXCEPT ![v] = t] /\ UNCHANGED name

Clear(v) == type' = [type EXCEPT ![v] = None] /\ UNCHANGED name

Next ==
    \E v \in Var :
        \/ \E n \in Typed : Rename(v, n)
        \/ \E t \in TypeName : Retype(v, t)
        \/ Clear(v)

Spec == Init /\ [][Next]_<<name, type>>
=============================================================================
