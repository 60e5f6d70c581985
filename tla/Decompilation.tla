---------------------------- MODULE Decompilation ---------------------------
(***************************************************************************)
(* What GhidraDecompiler::decompile hands to the plugin: the tokens that   *)
(* are printed for the items of a function, and the map from token to item *)
(* the plugin uses to find out what the user points at.                    *)
(*                                                                         *)
(* Both are derived from the same symbols along different paths: the       *)
(* printer (IdaEmit) takes the import prefix off every name, the map is    *)
(* filled from three sources of which only one does.                       *)
(***************************************************************************)
EXTENDS LocalSymbols

CONSTANTS
    Data,       \* named data items of the program, in ram
    Calls,      \* functions a function calls
    Refs,       \* data items a function uses as variables
    Rank,       \* order in which findVarSymbols and the calls are walked
    Imported,   \* texts that are the name of an import
    RamName     \* name Ghidra makes up for an address without a name

Global == Func \cup Data
Item == Var \cup Global

ASSUME ItemAssumption ==
    /\ Func \cap Data = {}
    /\ Var \cap Global = {}
    /\ Calls \in [Func -> SUBSET Func]
    /\ Refs \in [Func -> SUBSET Data]
    /\ Rank \in [Item -> Nat]
    /\ \A a, b \in Item : Rank[a] = Rank[b] => a = b
    /\ Imported \subseteq Base
    /\ RamName \in [Global -> Name]

\* A token is a name; getName may add one prefix to what the database holds.
Token == [pre : 0 .. MaxPrefix + 1, base : Base]

\* Mutant: six characters are cut without looking at them.
StripAlways(n) == [n EXCEPT !.pre = n.pre - 1]

Strip(n) == [n EXCEPT !.pre = IF n.pre = 0 THEN 0 ELSE n.pre - 1]

\* IdaSymbolInfo::isImport looks at the name with at most one prefix off.
IsImport(n) == n.base \in Imported /\ n.pre <= 1

\* IdaSymbolInfo::getName marks an import by one more prefix.  What it does
\* to the text itself (cleanup_name, demangling, the cut at a '(') gives a
\* base of its own, and nothing here depends on which.
GetName(n) == IF IsImport(n) THEN [n EXCEPT !.pre = n.pre + 1] ELSE n

\* The name Ghidra's symbol for a global has.
GlobalName(gname, g) ==
    IF gname[g] = None THEN RamName[g] ELSE GetName(gname[g])

\* Everything in the text of f that the user can point at.
Items == [f \in Func |-> Vars[f] \cup Refs[f] \cup Calls[f] \cup {f}]

SymbolName(names, gname, i) ==
    IF i \in Var THEN RecoveredName(names, i) ELSE GlobalName(gname, i)

\* The type an item has in the text: a local's record, or what IDA knows of
\* a global; None leaves it to Ghidra.
SymbolType(types, gtype, i) ==
    IF i \in Var THEN RecoveredType(types, i) ELSE gtype[i]

\* IdaEmit::tagVariable and IdaEmit::tagFuncName.
Printed(names, gname, i) == Strip(SymbolName(names, gname, i))

\* Mutants: a callee keeps its prefix; a callee gets the caller's address.
KeysUnstripped(names, gname, f) ==
    {<<SymbolName(names, gname, i), 1, i>> : i \in Vars[f] \cup Refs[f]}
    \cup {<<GlobalName(gname, g), 3, g>> : g \in Calls[f] \cup {f}}

KeysOfCaller(names, gname, f) ==
    {<<SymbolName(names, gname, i), 1, i>> : i \in Vars[f] \cup Refs[f]}
    \cup {<<GlobalName(gname, f), 2, f>>}
    \cup {<<Strip(GlobalName(gname, g)), 3, f>> : g \in Calls[f]}

\* The keys under which the three sources emplace an item, in their order:
\* variables, the function itself, its calls.  Only the last are stripped.
SymbolKeys(names, gname, f) ==
    {<<SymbolName(names, gname, i), 1, i>> : i \in Vars[f] \cup Refs[f]}
    \cup {<<GlobalName(gname, f), 2, f>>}
    \cup {<<Strip(GlobalName(gname, g)), 3, g>> : g \in Calls[f]}

Earlier(k, l) ==
    \/ k[2] < l[2]
    \/ k[2] = l[2] /\ Rank[k[3]] <= Rank[l[3]]

\* std::map::emplace keeps what is there: the first to bring a token wins.
SymbolMap(names, gname, f) ==
    LET keys == SymbolKeys(names, gname, f)
        First(t) == CHOOSE k \in keys :
                        k[1] = t /\ \A l \in keys : l[1] = t => Earlier(k, l)
    IN [t \in {k[1] : k \in keys} |-> First(t)[3]]

\* The text is kept as the names and the types it was printed with.
Result(names, types, gname, gtype, f, title) ==
    [title |-> title, fn |-> f,
     shown |-> [i \in Items[f] |-> Printed(names, gname, i)],
     typed |-> [i \in Items[f] |-> SymbolType(types, gtype, i)],
     sym   |-> SymbolMap(names, gname, f)]
=============================================================================
