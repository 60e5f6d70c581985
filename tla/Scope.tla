-------------------------------- MODULE Scope --------------------------------
(***************************************************************************)
(* YagiScope: the symbols of IDA's globals, copied into Ghidra's internal  *)
(* scope (the proxy) when Ghidra first asks for them.  Ghidra asks in five *)
(* ways and in any order; what is in the proxy answers before IDA does.    *)
(* The scope is emptied at the start of each decompilation and filled with *)
(* the system calls if the language has them.                              *)
(*                                                                         *)
(* Symbols at one address are in the order they were added.  What the      *)
(* proxy finds among them is Ghidra's (external): findFunction the first   *)
(* function, findContainer a symbol at least as large as asked for.        *)
(***************************************************************************)
EXTENDS Prototype

CONSTANTS
    Offset,     \* addresses of the database
    Root,       \* the function that is decompiled
    Number,     \* numbers in the space of system calls
    Calls,      \* system calls by number: <<name, parameters>> in their order
    Comments,   \* what a comment calls one of them, where the code differs
    Name, NoName,
    Sessions,   \* a machine and what its database says of each address
    Opened,     \* bound: machines with a function that is decompiled
    Asked,      \* bound: addresses Ghidra asks about
    Op,         \* operations a symbol may be limited to
    Anywhere,   \* no such limit
    WordSize,   \* size of a pointer
    MaxSymbols, \* bound: symbols the questions add in one decompilation
    MaxEdits    \* bound: edits of the database

VARIABLES
    ida,        \* what the database says of each address
    phase,      \* what decompile does
    cache,      \* symbols of the proxy, by space and offset
    first,      \* what was asked first about each address
    edits       \* edits so far

scopeVars == <<ida, phase, cache, first, edits>>
vars == <<bootVars, scopeVars>>

Ram == "ram"
Syscall == "syscall"
Offsets == [ram |-> Offset, syscall |-> Number]
Address == {<<Ram, o>> : o \in Offset} \cup {<<Syscall, n>> : n \in Number}

Item ==
    [name : Name \cup {NoName}, function : BOOLEAN, label : BOOLEAN,
     import : BOOLEAN, readonly : BOOLEAN, type : IdaType]

Kind == {"function", "external", "label", "data", "global"}
Size == {1, WordSize}

Symbol ==
    [kind : Kind, name : Name, size : Size, use : Op \cup {Anywhere},
     inject : BOOLEAN, readonly : BOOLEAN,
     proto : {NoPrototype} \cup ((Conventions \cup {"default"}) \X Nat)]

ScopeAssumption ==
    /\ Root \in Offset /\ Offset \subseteq Nat /\ Number \subseteq Nat
    /\ NoName \notin Name /\ "unk" \in Name /\ Anywhere \notin Op
    /\ WordSize \in Nat \ {0, 1}
    /\ Asked \subseteq Address
    /\ Calls \in [Number -> Seq(Name \X Nat)]
    /\ Models \in [Languages -> SUBSET Conventions]
    /\ ModelOrder \in Seq(Conventions)
    /\ \A id \in Languages : \E i \in DOMAIN ModelOrder : ModelOrder[i] \in Models[id]
    /\ Sessions \subseteq Machine \X [Offset -> Item]
    /\ \A s \in Sessions : s[2][Root].function /\ s[2][Root].name # NoName
    /\ MaxEdits \in Nat

ASSUME ScopeAssumption

-----------------------------------------------------------------------------
(* The database, by offset: the space of an address is not looked at *)

Named(a) == a[2] \in Offset /\ ida[a[2]].name # NoName
At(a) == ida[a[2]]

\* getType
TypeOf(i) ==
    CASE i.function -> "function"
      [] ~i.function /\ i.label -> "label"
      [] ~i.function /\ ~i.label /\ i.import -> "external"
      [] OTHER -> "data"

-----------------------------------------------------------------------------
(* The proxy *)

Empty == [s \in DOMAIN Offsets |-> [o \in Offsets[s] |-> <<>>]]

Symbols(a) == cache[a[1]][a[2]]

HasKind(s, k) == \E i \in DOMAIN s : s[i].kind = k
Has(a, k) == HasKind(Symbols(a), k)

FirstFunction(s) ==
    s[CHOOSE i \in DOMAIN s :
        /\ s[i].kind = "function"
        /\ \A k \in 1 .. i - 1 : s[k].kind # "function"]

Contained(a, size, use) ==
    \E i \in DOMAIN Symbols(a) :
        Symbols(a)[i].size >= size /\ Symbols(a)[i].use \in {Anywhere, use}

Plain(k, name, size, use) ==
    [kind |-> k, name |-> name, size |-> size, use |-> use, inject |-> FALSE,
     readonly |-> FALSE, proto |-> NoPrototype]

\* What the proxy makes of addFunction, addExternalRef and addCodeLabel: they
\* map the symbol at once and for every use.
Mapped(a, k) ==
    Plain(k, At(a).name, IF k = "external" THEN WordSize ELSE 1, Anywhere)

\* The function findFunction makes, before and after types->update.
Injected(a) ==
    [Mapped(a, "function") EXCEPT !.inject = At(a).name \in arch.injections]
Typed(s, a) == [s EXCEPT !.proto = Updated(arch, At(a).type)]

Add(a, s) == cache' = [cache EXCEPT ![a[1]][a[2]] = Append(@, s)]

\* Symbols the questions have added: bounded by MaxSymbols in Room.
Room(a) ==
    Len(Symbols(a)) <
        MaxSymbols + (IF a[1] = Syscall THEN Len(Calls[a[2]]) ELSE 0)

-----------------------------------------------------------------------------
(* decompile *)

Init ==
    /\ BootInit
    /\ \E s \in Sessions : machine = s[1] /\ ida = s[2]
    /\ phase = "idle"
    /\ cache = Empty
    /\ first = [a \in Asked |-> "none"]
    /\ edits = 0

Boot == BootNext /\ UNCHANGED scopeVars

\* The user renames, retypes or redefines something between decompilations.
Edit ==
    /\ phase = "idle"
    /\ edits < MaxEdits
    /\ \E s \in Sessions :
        /\ s[1] = machine
        /\ ida' = s[2]
    /\ edits' = edits + 1
    /\ UNCHANGED <<bootVars, phase, cache, first>>

\* Mutant: the scope keeps its symbols.
ClearNothing ==
    /\ phase = "idle"
    /\ boot = "loaded" /\ machine \in Opened
    /\ phase' = "cleared"
    /\ UNCHANGED cache
    /\ first' = [a \in Asked |-> "none"]
    /\ UNCHANGED <<bootVars, ida, edits>>

\* Mutant: it keeps those of the system calls.
ClearRam ==
    /\ phase = "idle"
    /\ boot = "loaded" /\ machine \in Opened
    /\ phase' = "cleared"
    /\ cache' = [Empty EXCEPT ![Syscall] = cache[Syscall]]
    /\ first' = [a \in Asked |-> "none"]
    /\ UNCHANGED <<bootVars, ida, edits>>

\* Mutant: it keeps all others.
ClearSyscalls ==
    /\ phase = "idle"
    /\ boot = "loaded" /\ machine \in Opened
    /\ phase' = "cleared"
    /\ cache' = [Empty EXCEPT ![Ram] = cache[Ram]]
    /\ first' = [a \in Asked |-> "none"]
    /\ UNCHANGED <<bootVars, ida, edits>>

\* Mutant: the key works before the plugin is loaded.
ClearUnloaded ==
    /\ phase = "idle"
    /\ phase' = "cleared"
    /\ cache' = Empty
    /\ first' = [a \in Asked |-> "none"]
    /\ UNCHANGED <<bootVars, ida, edits>>

Clear ==
    /\ phase = "idle"
    /\ boot = "loaded" /\ machine \in Opened
    /\ phase' = "cleared"
    /\ cache' = Empty
    /\ first' = [a \in Asked |-> "none"]
    /\ UNCHANGED <<bootVars, ida, edits>>

\* The scope finds the function to decompile; its type may throw.
FindRoot ==
    LET a == <<Ram, Root>> IN
    /\ phase = "cleared"
    /\ IF Has(a, "function") THEN phase' = "found" /\ UNCHANGED cache
       ELSE IF UpdateThrows(At(a).type)
       THEN phase' = "idle" /\ Add(a, Injected(a))
       ELSE phase' = "found" /\ Add(a, Typed(Injected(a), a))
    /\ UNCHANGED <<bootVars, ida, first, edits>>

\* addSyscall, by number.
SyscallSymbols ==
    [n \in Number |->
        [i \in DOMAIN Calls[n] |->
            [Plain("function", Calls[n][i][1], 1, Anywhere)
                EXCEPT !.proto = <<"default", Calls[n][i][2]>>]]]

\* The actions of the language that come first.
Register ==
    /\ phase = "found"
    /\ phase' = "asking"
    /\ cache' = IF arch.initActions = <<>> THEN cache
                ELSE [cache EXCEPT ![Syscall] =
                        [n \in Number |-> @[n] \o SyscallSymbols[n]]]
    /\ UNCHANGED <<bootVars, ida, first, edits>>

\* The function is printed, or something throws: a method of the scope that
\* is not implemented does.
Leave ==
    /\ phase # "idle"
    /\ phase' = "idle"
    /\ UNCHANGED <<bootVars, ida, cache, first, edits>>
-----------------------------------------------------------------------------
(* What Ghidra asks while it decompiles *)

\* Only languages with system calls have a space for them.
Ask(a, q) ==
    /\ phase = "asking"
    /\ a[1] = Ram \/ arch.initActions # <<>>
    /\ Room(a)
    /\ first' = [first EXCEPT ![a] = IF @ = "none" THEN q ELSE @]
    /\ UNCHANGED <<bootVars, ida, edits>>

\* The proxy or the database answers, and nothing is added.
Answered == UNCHANGED <<phase, cache>>

\* Mutant: the type is only put on functions that are called.
FindFunctionUntyped(a) ==
    /\ Ask(a, "function")
    /\ IF Has(a, "function") \/ ~Named(a) THEN Answered
       ELSE Add(a, Injected(a)) /\ UNCHANGED phase

\* A function of any address that has a name.  The symbol is in the proxy
\* before its type is looked at, which may throw and end the decompilation.
FindFunction(a) ==
    /\ Ask(a, "function")
    /\ IF Has(a, "function") \/ ~Named(a) THEN Answered
       ELSE IF UpdateThrows(At(a).type)
       THEN Add(a, Injected(a)) /\ phase' = "idle"
       ELSE Add(a, Typed(Injected(a), a)) /\ UNCHANGED phase

\* The symbol findContainer makes.  Data is mapped for the use that was asked
\* about, all other kinds are mapped already.
ContainerSymbol(a, size, use) ==
    LET made ==
        IF TypeOf(At(a)) # "data" THEN Mapped(a, TypeOf(At(a)))
        ELSE Plain("data", At(a).name,
                   IF At(a).type.kind = "none" THEN size ELSE WordSize, use)
    IN [made EXCEPT !.readonly = At(a).readonly]

FindContainer(a, size, use) ==
    /\ Ask(a, "container")
    /\ IF Contained(a, size, use) \/ a[1] # Ram \/ ~Named(a) THEN Answered
       ELSE IF TypeOf(At(a)) = "data" /\ UpdateThrows(At(a).type)
       THEN phase' = "idle" /\ UNCHANGED cache
       ELSE Add(a, ContainerSymbol(a, size, use)) /\ UNCHANGED phase

FindExternalRef(a) ==
    /\ Ask(a, "external")
    /\ IF Has(a, "external") \/ ~Named(a) \/ (Named(a) /\ ~At(a).import)
       THEN Answered
       ELSE Add(a, Mapped(a, "external")) /\ UNCHANGED phase

FindCodeLabel(a) ==
    /\ Ask(a, "label")
    /\ IF Has(a, "label") \/ ~Named(a) \/ (Named(a) /\ ~At(a).label)
       THEN Answered
       ELSE Add(a, Mapped(a, "label")) /\ UNCHANGED phase

\* An external symbol is resolved to a function, a new one each time.  Only
\* errors of Yagi's own are caught here, and update throws none.
ResolveExternalRefFunction(a) ==
    /\ Has(a, "external")
    /\ Ask(a, "resolve")
    /\ IF ~UpdateThrows(At(a).type)
       THEN Add(a, Typed(Mapped(a, "function"), a)) /\ UNCHANGED phase
       ELSE Add(a, Mapped(a, "function")) /\ phase' = "idle"

\* Ghidra's own name (buildVariableName) for what it found nothing at.
AddGlobal(a, size, use) ==
    /\ ~Contained(a, size, use)
    /\ a[1] = Ram /\ ~Named(a)
    /\ Ask(a, "container")
    /\ Add(a, Plain("global", "unk", size, use))
    /\ UNCHANGED phase

Question ==
    \E a \in Asked :
        \/ FindFunction(a)
        \/ FindExternalRef(a)
        \/ FindCodeLabel(a)
        \/ ResolveExternalRefFunction(a)
        \/ \E size \in Size, use \in Op \cup {Anywhere} :
            FindContainer(a, size, use) \/ AddGlobal(a, size, use)

Next == Boot \/ Edit \/ Clear \/ FindRoot \/ Register \/ Leave \/ Question

Spec == Init /\ [][Next]_vars

-----------------------------------------------------------------------------
(* Properties *)

TypeOK ==
    /\ BootTypes
    /\ ida \in [Offset -> Item]
    /\ phase \in {"idle", "cleared", "found", "asking"}
    /\ phase # "idle" => boot = "loaded"
    /\ cache \in [ram : [Offset -> Seq(Symbol)], syscall : [Number -> Seq(Symbol)]]
    /\ first \in [Asked ->
            {"none", "function", "container", "external", "label", "resolve"}]
    /\ edits \in 0 .. MaxEdits

\* The function found there is as findFunction makes it from the database.
Complete(a) ==
    /\ Has(a, "function")
    /\ FirstFunction(Symbols(a)) = Typed(Injected(a), a)

(***************************************************************************)
(* A function has its injection and its prototype, if findFunction was the *)
(* first question about it; the function that is decompiled always has.    *)
(* (scope.cc:43 to 56.)  Asked about as data or as an import before, it    *)
(* has not: the symbol is in the proxy by then and nobody completes it.    *)
(***************************************************************************)
Prepared ==
    phase = "asking" =>
        /\ Complete(<<Ram, Root>>)
        /\ \A a \in Asked :
            a[1] = Ram /\ first[a] = "function" /\ Named(a) => Complete(a)

(***************************************************************************)
(* While a language with system calls is decompiled, every number that was *)
(* given once answers with its call, registered once in this decompilation,*)
(* whatever IDA has at an address equal to the number.                     *)
(***************************************************************************)
SyscallsKnown ==
    phase = "asking" /\ arch.initActions # <<>> =>
        \A n \in Number :
            Len(Calls[n]) = 1 =>
                /\ cache[Syscall][n] # <<>>
                /\ cache[Syscall][n][1] = SyscallSymbols[n][1]
                /\ \A i \in DOMAIN cache[Syscall][n] :
                    cache[Syscall][n][i] = SyscallSymbols[n][1] => i = 1

(***************************************************************************)
(* Every symbol of a running decompilation but Ghidra's own has the name   *)
(* the database has now, however many symbols there are at one address and *)
(* whatever made them: an import resolved twice is one name twice.         *)
(***************************************************************************)
NamesCurrent ==
    phase \in {"found", "asking"} =>
        \A o \in Offset : \A i \in DOMAIN cache[Ram][o] :
            cache[Ram][o][i].kind # "global" => cache[Ram][o][i].name = ida[o].name

(***************************************************************************)
(* A function keeps its answer as long as the decompilation runs, and it   *)
(* is the right one: the scope is a read-through copy of the names.  It is *)
(* as long as no number is asked about that no call is registered for.     *)
(***************************************************************************)
NumbersGiven == \A a \in Asked : a[1] = Syscall => Calls[a[2]] # <<>>

AnswerOf(s) == IF HasKind(s, "function") THEN FirstFunction(s).name ELSE NoName

Copy == INSTANCE GlobalNames WITH
    Database <- Ram,
    Registered <- [syscall |->
        [n \in Number |-> IF Calls[n] = <<>> THEN NoName ELSE Calls[n][1][1]]],
    names <- [o \in Offset |-> ida[o].name],
    answers <-
        [ram |-> [o \in Offset |-> AnswerOf(cache[Ram][o])],
         syscall |-> [n \in Number |-> AnswerOf(cache[Syscall][n])]],
    open <- phase # "idle"
CopiesNames == Copy!Spec

(***************************************************************************)
(* What documentation and comments say of the symbols, and the code does   *)
(* not keep in every program.                                              *)
(***************************************************************************)

\* A number answers with the call that the comment above a registration of it
\* declares, for each of its registrations.
AsCommented ==
    phase = "asking" /\ arch.initActions # <<>> =>
        \A n \in Number : \A i \in DOMAIN Calls[n] :
            FirstFunction(cache[Syscall][n]).name =
                IF n \in DOMAIN Comments THEN Comments[n] ELSE Calls[n][i][1]
=============================================================================
