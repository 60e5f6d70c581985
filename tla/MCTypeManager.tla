--------------------------- MODULE MCTypeManager ---------------------------
(***************************************************************************)
(* All type databases of two structs S and T of at most two fields each,   *)
(* pointers to both, an array of two T, a base type, a type without a size *)
(* and a callback that takes a pointer to S and returns a typedef of void. *)
(***************************************************************************)
EXTENDS TypeManager, TLC

CONSTANTS S, T, PS, PT, A, I, V, F, PF, O, PO

MCCount == A :> 2

UpTo2(X) == {<<>>} \cup {<<x>> : x \in X} \cup X \X X

Contains(fields, t) == \E i \in DOMAIN fields : fields[i] \in t

\* The fields of S and of T; a struct does not contain itself.
Fields(X, Y) ==
    {q \in UpTo2(X) \X UpTo2(Y) : ~(Contains(q[1], {T, A}) /\ Contains(q[2], {S}))}

MCGraph == Fields({PS, PT, A, T, PF}, {PS, PT, S, PO})
EmbedGraph == Fields({PT, I}, {PT, S})
ArrayGraph == Fields({A, I}, {I})

MCParts ==
    [q \in MCGraph \cup EmbedGraph \cup ArrayGraph |->
        S :> q[1] @@ T :> q[2] @@ PS :> <<S>> @@ PT :> <<T>> @@ A :> <<T>>
        @@ I :> <<>> @@ V :> <<>> @@ F :> <<V, PS>> @@ PF :> <<F>>
        @@ O :> <<>> @@ PO :> <<O>>]

\* tinfo_t::get_size.
RECURSIVE SizeOf(_, _)
SizeOf(q, t) ==
    LET total(fields) ==
            (IF Len(fields) > 0 THEN SizeOf(q, fields[1]) ELSE 0)
            + (IF Len(fields) > 1 THEN SizeOf(q, fields[2]) ELSE 0)
    IN  CASE t \in Pointer -> 2
          [] t = S -> total(q[1])
          [] t = T -> total(q[2])
          [] t = A -> 2 * SizeOf(q, T)
          [] t = I -> 1
          [] t = V -> 0
          [] t \in {O, F} -> -1

MCSize == [q \in DOMAIN MCParts |-> [t \in Type |-> SizeOf(q, t)]]

\* Fields are packed.
MCOffset ==
    [q \in DOMAIN MCParts |-> [t \in {S, T} |->
        [i \in DOMAIN MCParts[q][t] |->
            IF i = 1 THEN 0 ELSE MCSize[q][MCParts[q][t][1]]]]]

\* Where both fields of S have one type, the second has no name.
MCRefused ==
    [q \in Graph |-> IF Len(q[1]) = 2 /\ q[1][1] = q[1][2] THEN {S} ELSE {}]
NoneRefused == [q \in Graph |-> {}]

\* The callback is the longest way from struct to struct: pointer, function,
\* pointer.
MCHeight == [q \in Graph |-> F :> 1 @@ PF :> 2 @@ PO :> 1 @@ [t \in Type |-> 0]]

\* These databases meet the conditions of TypeManagerProof's DeepEnough.
ASSUME DepthAssumption ==
    /\ IsFiniteSet(Struct)
    /\ Layered(MCHeight, 3)
    /\ MaxDepth >= Nesting(Cardinality(Struct), 3)
=============================================================================
