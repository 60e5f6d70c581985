---------------------------- MODULE LocalSymbols ----------------------------
(***************************************************************************)
(* The names and types of local variables that Yagi keeps in the IDA       *)
(* database (IdaFunctionSymbolInfo), and how a decompilation gives them    *)
(* back to the variables it finds (ActionSyncStackVar, ActionRenameVar,    *)
(* ActionLoadLocalScope).                                                  *)
(*                                                                         *)
(* A record of the database is a netnode whose name is made of the start   *)
(* of the function, a memory space and the address pc of an operation; it  *)
(* holds a text and an offset in that space.  Nothing in the key or in the *)
(* value says which variable the record is about: the decompiler finds it  *)
(* again by looking for the symbol at that offset that is used at that pc. *)
(*                                                                         *)
(* What the decompiler finds in a function (its variables and where they   *)
(* are) is the work of Ghidra and a parameter here.                        *)
(***************************************************************************)
EXTENDS Integers

CONSTANTS
    Func,       \* functions, each standing for its start address
    Var,        \* local variables of the decompiled functions
    Pc,         \* addresses of operations
    MaxPc,      \* the largest address
    Offset,     \* offsets in a memory space
    Base,       \* texts of names, without the import prefix
    MaxPrefix,  \* bound: how many times a name may carry the import prefix
    TypeName,   \* type declarations that parse_decl accepts
    Loc,        \* MemoryLocation of each variable, with its function
    Live,       \* pcs at which the scope entry of a variable is in use
    AutoName,   \* name Ghidra gives a variable
    FrameName,  \* name of the IDA frame member at a stack variable, or None
    Preset,     \* variables whose type comes from the function's prototype
    Barred,     \* texts that hold a '|'
    Split,      \* what reading back a barred text gives
    Throws,     \* std::stoull refused what follows the first '|'
    None        \* no record, no name

Space == {"register", "stack", "unique", "const"}

\* A name: a text and how many IMPORT_PREFIX stand before it.
Name == [pre : 0 .. MaxPrefix, base : Base]

Location == [fn : Func, space : Space, offset : Offset, pc : SUBSET Pc]

Slot == Func \X Space \X Pc

NameEntry == [value : Name, offset : Offset]
TypeEntry == [value : TypeName, offset : Offset]

\* A location in the constant space is a pointer into the frame.
Home(s) == IF s = "const" THEN "stack" ELSE s

ASSUME PcAssumption == MaxPc \in Nat /\ Pc \subseteq 0 .. MaxPc

ASSUME NameAssumption ==
    /\ MaxPrefix \in Nat
    /\ AutoName \in [Var -> Name]
    /\ FrameName \in [Var -> Name \cup {None}]
    /\ None \notin Name

ASSUME LocAssumption ==
    /\ Loc \in [Var -> Location]
    /\ Live \in [Var -> SUBSET Pc]
    /\ Preset \subseteq Var

ASSUME EntryAssumption ==
    /\ None \notin NameEntry
    /\ None \notin TypeEntry
    /\ Throws \notin NameEntry
    /\ Throws # None

\* std::stoull stops at the first character that is not hexadecimal, so a
\* barred text gives an offset of its own, or none at all.
ASSUME SplitAssumption ==
    /\ Barred \subseteq Base
    /\ Split \in [Barred -> [base : Base, offset : Offset] \cup {Throws}]

Vars == [f \in Func |-> {v \in Var : Loc[v].fn = f}]

SlotsOf(v) == {<<Loc[v].fn, Loc[v].space, p>> : p \in Loc[v].pc}

-----------------------------------------------------------------------------
(* The store *)

NoNames == [k \in Slot |-> None]
NoTypes == [k \in Slot |-> None]

\* Mutant: the function is missing from the key.
SaveInAll(store, f, loc, value) ==
    [k \in Slot |->
        IF k[2] = loc.space /\ k[3] \in loc.pc
        THEN [value |-> value, offset |-> loc.offset]
        ELSE store[k]]

\* One netnode is written for each pc of the location, with the same value.
SaveIn(store, f, loc, value) ==
    [k \in Slot |->
        IF k[1] = f /\ k[2] = loc.space /\ k[3] \in loc.pc
        THEN [value |-> value, offset |-> loc.offset]
        ELSE store[k]]

SaveName(names, f, loc, name) == SaveIn(names, f, loc, name)
SaveType(types, f, loc, type) == SaveIn(types, f, loc, type)

\* The offset is not looked at: whatever the netnode holds is deleted.
ClearType(types, f, loc) ==
    [k \in Slot |->
        IF k[1] = f /\ k[2] = loc.space /\ k[3] \in loc.pc
        THEN None ELSE types[k]]

\* The value clearType returns.
HasType(types, f, loc) ==
    \E p \in loc.pc : types[<<f, loc.space, p>>] # None

\* The text is cut at its first '|', wherever that one comes from.
FindName(names, f, s, p) ==
    LET e == names[<<f, s, p>>] IN
    IF e = None THEN None
    ELSE IF e.value.base \notin Barred THEN e
    ELSE LET cut == Split[e.value.base] IN
         IF cut = Throws THEN Throws
         ELSE [value |-> [pre |-> e.value.pre, base |-> cut.base],
               offset |-> cut.offset]

FindType(types, f, s, p) == types[<<f, s, p>>]

-----------------------------------------------------------------------------
(* The decompilation of a function, as far as names and types go *)

\* A stack symbol is in use everywhere, the others between their limits.
InUse(v, p) == Home(Loc[v].space) = "stack" \/ p \in Live[v]

\* Mutant: the offset of the record is not compared.
EntryAnywhere(v, e, p) == InUse(v, p)

\* The entry of v in the local scope answers for the offset of e at pc.
EntryAt(v, e, p) == e.offset = Loc[v].offset /\ InUse(v, p)

\* The order in which the actions of a group look at the spaces.
Pass == [register |-> 1, stack |-> 2, unique |-> 3, const |-> 4]

Before(a, b) ==
    \/ Pass[a[1]] < Pass[b[1]]
    \/ Pass[a[1]] = Pass[b[1]] /\ a[2] < b[2]

\* Every operation of the function at which a record may have been left.
Ops == [f \in Func |-> UNION {Loc[v].pc : v \in Vars[f]}]

\* The (space, pc) whose records are looked up in the home of v.
Lookups == [v \in Var |->
    {s \in Space : Home(s) = Home(Loc[v].space)} \X Ops[Loc[v].fn]]

\* The records that ActionRenameVar applies to v.
NameHits(names, v) ==
    {h \in Lookups[v] :
        LET e == FindName(names, Loc[v].fn, h[1], h[2]) IN
        e \notin {None, Throws} /\ EntryAt(v, e, h[2])}

\* ActionSyncStackVar runs first and gives stack symbols their frame name.
SyncName(v) ==
    IF Home(Loc[v].space) = "stack" /\ FrameName[v] # None
    THEN FrameName[v] ELSE AutoName[v]

\* Mutant: the frame's names are applied after the records.
SyncedLast(names, v) ==
    LET H == NameHits(names, v) IN
    IF H = {} \/ SyncName(v) # AutoName[v] THEN SyncName(v)
    ELSE LET last == CHOOSE h \in H : \A g \in H : g = h \/ Before(g, h)
         IN  FindName(names, Loc[v].fn, last[1], last[2]).value

\* A later rename overrides an earlier one.
RecoveredName(names, v) ==
    LET H == NameHits(names, v) IN
    IF H = {} THEN SyncName(v)
    ELSE LET last == CHOOSE h \in H : \A g \in H : g = h \/ Before(g, h)
         IN  FindName(names, Loc[v].fn, last[1], last[2]).value

\* The records that ActionLoadLocalScope could apply to v.
TypeHits(types, v) ==
    {h \in Lookups[v] :
        LET e == FindType(types, Loc[v].fn, h[1], h[2]) IN
        e # None /\ EntryAt(v, e, h[2])}

\* A symbol that is already in the scope is left as it is: a prototype's
\* parameter keeps its type, and an earlier record wins over a later one.
RecoveredType(types, v) ==
    LET H == TypeHits(types, v) IN
    IF H = {} \/ v \in Preset THEN None
    ELSE LET first == CHOOSE h \in H : \A g \in H : g = h \/ Before(h, g)
         IN  FindType(types, Loc[v].fn, first[1], first[2]).value

\* The exception of a single unreadable record leaves the rename group, and
\* with it the decompilation.
Unreadable(names, f) ==
    \E s \in Space, p \in Ops[f] : FindName(names, f, s, p) = Throws
=============================================================================
