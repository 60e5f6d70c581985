----------------------------- MODULE TypeManager -----------------------------
(***************************************************************************)
(* How TypeManager translates IDA's types into Ghidra's: findByTypeInfo    *)
(* looks a type up by its name, parseTypeInfo makes it from the types it   *)
(* is built from, and the two call each other along the type graph, which  *)
(* has cycles.  The calls are modelled with the native stack as a variable,*)
(* one step per call and return.                                           *)
(*                                                                         *)
(* Ghidra's TypeFactory (external) keeps a struct under its name from      *)
(* getTypeStruct on, with no fields and of size 0 until setFields; every   *)
(* other type is kept by setName, once it is made.                         *)
(***************************************************************************)
EXTENDS Integers, Sequences, Functions, FiniteSets

CONSTANTS
    Type,       \* types, each standing for its name
    Struct,     \* struct types
    Array,      \* array types
    Pointer,    \* pointer types
    Func,       \* function types
    Void,       \* void and its typedefs
    Core,       \* base types Ghidra knows from the start
    AddrSize,   \* size of an address
    Graph,      \* databases of types
    Parts,      \* the types each type is built from, in order
    Size,       \* TypeInfo::getSize: bytes of a type, -1 if unknown
    Offset,     \* TypeStructField::offset of each field of a struct
    Count,      \* ArrayInfo::getSize: elements of an array, 0 if not given
    Refused,    \* structs setFields refuses: a field without a name, or void
    MaxDepth    \* bound: calls that fit on the native stack

ASSUME TypeAssumption ==
    /\ Struct \subseteq Type /\ Array \subseteq Type /\ Pointer \subseteq Type
    /\ Func \subseteq Type /\ Void \subseteq Type /\ Core \subseteq Type
    /\ Struct \cap (Array \cup Pointer \cup Func \cup Void \cup Core) = {}
    /\ Array \cap (Pointer \cup Func \cup Void \cup Core) = {}
    /\ Pointer \cap (Func \cup Void \cup Core) = {}
    /\ AddrSize \in Nat
    /\ \A g \in Graph : Parts[g] \in [Type -> Seq(Type)]
    /\ \A g \in Graph : Size[g] \in [Type -> Nat \cup {-1}]
    /\ \A g \in Graph : \A t \in Array \cup Pointer : Len(Parts[g][t]) = 1
    /\ \A g \in Graph :
        \A t \in Core \cup Struct \cup Array \cup Void : Size[g][t] # -1
    /\ \A g \in Graph : \A t \in Struct :
        Offset[g][t] \in Seq(Nat) /\ Len(Offset[g][t]) = Len(Parts[g][t])
    /\ Count \in [Array -> Nat]
    /\ Refused \in [Graph -> SUBSET Struct]
    /\ MaxDepth \in Nat

VARIABLES
    graph,      \* IDA's types
    cache,      \* datatypes Ghidra finds by name
    layout,     \* size of the structs that have their fields
    stack,      \* running calls of parseTypeInfo, the latest last
    overflow,   \* the native stack was exceeded
    broken      \* an exception ended the decompilation

vars == <<graph, cache, layout, stack, overflow, broken>>

\* A Ghidra datatype, with the size it was made with.
Datatype == [type : Type, size : Nat]

\* A running call and the parts it has found.
Call == [type : Type, parts : Seq(Datatype)]

CoreTypes == [t \in Core |-> [type |-> t, size |-> Size[graph][t]]]

TypeOK ==
    /\ graph \in Graph
    /\ DOMAIN cache \subseteq Type /\ cache \in [DOMAIN cache -> Datatype]
    /\ DOMAIN layout \subseteq Struct /\ layout \in [DOMAIN layout -> Nat]
    /\ stack \in Seq(Call)
    /\ overflow \in BOOLEAN
    /\ broken \in BOOLEAN

Init ==
    /\ graph \in Graph
    /\ cache = CoreTypes
    /\ layout = <<>>
    /\ stack = <<>>
    /\ overflow = FALSE
    /\ broken = FALSE

-----------------------------------------------------------------------------
(* What IDA says of a type *)

IdaSize(t) == Size[graph][t]

-----------------------------------------------------------------------------
(* What Ghidra makes of the parts *)

Top == stack[Len(stack)]
Children == Parts[graph][Top.type]
Ready == Len(Top.parts) = Len(Children)

\* The size of a part when it is used: of a struct, its size by then.
PartSize(d) ==
    IF d.type \in Struct
    THEN IF d.type \in DOMAIN layout THEN layout[d.type] ELSE 0
    ELSE d.size

\* TypeFactory::setFields: the end of the last field.
StructSize(t, parts) ==
    LET end(i) == Offset[graph][t][i] + PartSize(parts[i])
    IN  IF parts = <<>> THEN 0
        ELSE CHOOSE m \in {end(i) : i \in DOMAIN parts} :
                \A i \in DOMAIN parts : end(i) <= m

\* Mutant: a type without a size keeps IDA's -1.
BadSize(t) == IdaSize(t)

\* A void of no size, or a type of unknown size and no known kind, gets that
\* of an address.
BaseSize(t) ==
    IF IdaSize(t) = IF t \in Void THEN 0 ELSE -1 THEN AddrSize ELSE IdaSize(t)

\* The number of elements the array is made with: its size.
Elements(t) == IdaSize(t)

Made(t, parts) ==
    CASE t \in Pointer -> [type |-> t, size |-> AddrSize]
      [] t \in Array ->
            IF IdaSize(t) = 0 THEN parts[1]
            ELSE [type |-> t, size |-> Elements(t) * PartSize(parts[1])]
      [] t \in Struct -> [type |-> t, size |-> 0]
      [] t \in Func -> [type |-> t, size |-> 1]
      [] OTHER -> [type |-> t, size |-> BaseSize(t)]

-----------------------------------------------------------------------------
(* Calls and returns *)

\* Mutant: a struct is put in the cache when it has its fields, as before
\* version 1.2.0.
EnterLate(t) ==
    /\ stack' = Append(stack, [type |-> t, parts |-> <<>>])
    /\ UNCHANGED cache

\* parseTypeInfo begins; getTypeStruct puts a struct in the cache.
Enter(t) ==
    /\ stack' = Append(stack, [type |-> t, parts |-> <<>>])
    /\ cache' = IF t \in Struct
                THEN [u \in DOMAIN cache \cup {t} |->
                        IF u = t THEN [type |-> t, size |-> 0] ELSE cache[u]]
                ELSE cache

\* A symbol or a saved type asks for t; update asks for the prototype of the
\* function itself, and does not look for it in the cache.
Request(t) ==
    /\ stack = <<>> /\ ~overflow /\ ~broken
    /\ t \in Func \/ t \notin DOMAIN cache
    /\ Enter(t)
    /\ UNCHANGED <<graph, layout, overflow, broken>>

\* findByTypeInfo of the next part finds it in the cache.
Hit ==
    /\ stack # <<>> /\ ~overflow
    /\ ~Ready
    /\ LET c == Children[Len(Top.parts) + 1] IN
       /\ c \in DOMAIN cache
       /\ stack' = [stack EXCEPT ![Len(stack)].parts = Append(@, cache[c])]
    /\ UNCHANGED <<graph, cache, layout, overflow, broken>>

\* Or has to make it.
Miss ==
    /\ stack # <<>> /\ ~overflow
    /\ ~Ready
    /\ LET c == Children[Len(Top.parts) + 1] IN
       /\ c \notin DOMAIN cache
       /\ IF Len(stack) < MaxDepth
          THEN Enter(c) /\ UNCHANGED overflow
          ELSE overflow' = TRUE /\ UNCHANGED <<cache, stack>>
    /\ UNCHANGED <<graph, layout, broken>>

\* The call returns to the one that waits for this part.
Pop(d) ==
    LET rest == SubSeq(stack, 1, Len(stack) - 1) IN
    stack' = IF rest = <<>> THEN <<>>
             ELSE [rest EXCEPT ![Len(rest)].parts = Append(@, d)]

\* setName and setFields; a name that is taken stays with its datatype.  When
\* setFields refuses the fields, nobody looks at what it returns.
Return ==
    /\ stack # <<>> /\ ~overflow
    /\ Ready
    /\ LET t == Top.type
           d == Made(t, Top.parts) IN
       /\ Pop(d)
       /\ cache' = IF d.type \in DOMAIN cache THEN cache
                   ELSE [u \in DOMAIN cache \cup {d.type} |->
                            IF u = d.type THEN d ELSE cache[u]]
       /\ layout' = IF t \in Struct \ Refused[graph]
                    THEN [u \in DOMAIN layout \cup {t} |->
                            IF u = t THEN StructSize(t, Top.parts) ELSE layout[u]]
                    ELSE layout
    /\ UNCHANGED <<graph, overflow, broken>>

\* Ghidra's factory refuses what a running call asks for: its exception goes
\* through every call and ends the decompilation.  What the calls have put in
\* the cache stays.
Throw ==
    /\ stack # <<>> /\ ~overflow
    /\ stack' = <<>>
    /\ broken' = TRUE
    /\ UNCHANGED <<graph, cache, layout, overflow>>

\* Mutant: a decompilation begins with the types of the last one.
ClearNothing ==
    /\ stack = <<>> /\ ~overflow
    /\ broken
    /\ broken' = FALSE
    /\ UNCHANGED <<graph, cache, layout, stack, overflow>>

\* clearNoncore, at the start of the next decompilation.
Clear ==
    /\ stack = <<>> /\ ~overflow
    /\ broken \/ cache # CoreTypes
    /\ cache' = CoreTypes
    /\ layout' = <<>>
    /\ broken' = FALSE
    /\ UNCHANGED <<graph, stack, overflow>>

Next == (\E t \in Type : Request(t)) \/ Hit \/ Miss \/ Return \/ Throw \/ Clear

\* A call that has begun goes on; nobody has to ask for a type.
Fairness == WF_vars(Hit \/ Miss \/ Return)

Spec == Init /\ [][Next]_vars /\ Fairness
-----------------------------------------------------------------------------
(* Properties *)

(***************************************************************************)
(* A struct is parsed by at most one of the running calls, however its     *)
(* fields lead back to it: this is what ends the recursion on a cycle.     *)
(***************************************************************************)
StructOnce ==
    \A i, j \in 1 .. Len(stack) :
        stack[i].type \in Struct /\ stack[i].type = stack[j].type => i = j

(***************************************************************************)
(* A struct that Ghidra knows without fields is one that is being parsed,  *)
(* or one whose fields setFields refused.  Those an exception left open    *)
(* are gone before the next decompilation asks for a type.                 *)
(***************************************************************************)
OpenOnStack ==
    ~broken => \A t \in Struct \cap DOMAIN cache :
        \/ t \in DOMAIN layout
        \/ t \in Refused[graph]
        \/ \E i \in 1 .. Len(stack) : stack[i].type = t

(***************************************************************************)
(* The native stack is deep enough for every graph.                        *)
(***************************************************************************)
NoOverflow == ~overflow

\* A type of C leads back to itself through a struct only: every other type
\* has a height below k, and is built from structs and lower types.
Layered(height, k) ==
    /\ height \in [Graph -> [Type -> 0 .. k - 1]]
    /\ \A g \in Graph : \A t \in Type \ Struct : \A i \in DOMAIN Parts[g][t] :
        LET c == Parts[g][t][i] IN
        c \in Struct \/ height[g][c] < height[g][t]

\* The calls of n structs, of the k types that may lie between two of them,
\* and before the first and behind the last.
Nesting(n, k) == n * (k + 1) + k

(***************************************************************************)
(* A type that is asked for is found: the recursion ends.                  *)
(***************************************************************************)
Resolved == stack # <<>> ~> stack = <<>>

(***************************************************************************)
(* What typeinfo.hh says of the two sizes, and the code does not keep.     *)
(***************************************************************************)

\* ArrayInfo::getSize is the number of elements of an array; TypeInfo::getSize
\* its bytes.  Ghidra's array is to have as many elements as IDA's.
ArrayElements ==
    \A t \in Array \cap DOMAIN cache : Elements(t) = Count[t]

\* TypeInfo::getSize: the size Ghidra has for a struct is IDA's.
StructSizes ==
    stack = <<>> /\ ~broken => \A t \in DOMAIN layout : layout[t] = IdaSize(t)
=============================================================================
