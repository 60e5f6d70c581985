------------------------------ MODULE MCScope ------------------------------
(***************************************************************************)
(* Every machine is started; two of them, a Windows program and an eBPF    *)
(* object, have a function at address 2, which is decompiled, and an item  *)
(* at address 1 of several kinds.  1 is the number of a system call too.   *)
(***************************************************************************)
EXTENDS Scope, EbpfSyscalls

\* Ids of the language files, as the tests and src/ghidra/CMakeLists.txt use
\* them.
MCLanguages ==
    {<<"x86", "LE", 16, "Real Mode">>, <<"avr8", "LE", 24, "xmega">>,
     <<"avr32", "BE", 32, "default">>, <<"eBPF", "LE", 64, "default">>}
    \cup {<<"x86", "LE", m, v>> : m \in {32, 64},
            v \in {"default", "default:gcc", "default:windows"}}
    \cup {<<p, e, m, "default">> : p \in {"PowerPC", "MIPS"}, e \in {"LE", "BE"},
            m \in {32, 64}}
    \cup {<<"ARM", e, 32, "v7">> : e \in {"LE", "BE"}}
    \cup {<<"AARCH64", e, 64, "v8A:default">> : e \in {"LE", "BE"}}
    \cup {<<"sparc", "BE", m, "default">> : m \in {32, 64}}
    \cup {<<p, "LE", 16, "default">> : p \in {"6502", "z80", "avr8"}}

MCModels ==
    [id \in MCLanguages |->
        IF id[1] = "x86" THEN Conventions
        ELSE IF id[1] = "eBPF" THEN {"__fastcall"} ELSE {"__stdcall"}]

MCModelOrder == <<"__cdecl", "__fastcall", "__stdcall", "__thiscall">>

\* The calls of a set of numbers: all there are, or the first of them, up to
\* those that are given twice.
CallsOf(numbers) ==
    [n \in numbers |->
        LET s == SelectSeq(Syscalls, LAMBDA c : c[2] = n)
        IN [i \in DOMAIN s |-> <<s[i][1], s[i][3]>>]]

AllNumber == 0 .. 165
AllCalls == CallsOf(AllNumber)
MCNumber == 0 .. 47
MCCalls == CallsOf(MCNumber)

MCName ==
    {Syscalls[i][1] : i \in DOMAIN Syscalls}
    \cup {"main", "alloca_probe", "sub", "unk"}

Untyped == [kind |-> "none", args |-> 0, located |-> TRUE, hidden |-> FALSE,
            cc |-> "unknown"]
Function(args, hidden, cc) ==
    [kind |-> "func", args |-> args, located |-> TRUE, hidden |-> hidden, cc |-> cc]
Bad == [Untyped EXCEPT !.kind = "bad"]

Thing(name, fs, type) ==
    [name |-> name, function |-> "function" \in fs, label |-> "label" \in fs,
     import |-> "import" \in fs, readonly |-> "readonly" \in fs, type |-> type]

Roots ==
    {Thing("main", {"function"}, Function(2, FALSE, "__cdecl")),
     Thing("alloca_probe", {"function", "label"}, Function(1, TRUE, "unknown"))}

Others ==
    {Thing(NoName, {}, Untyped),
     Thing("sub", {"import", "readonly"}, [Function(1, FALSE, "__thiscall") EXCEPT !.kind = "ptr"]),
     Thing("sub", {"function", "import"}, Bad),
     Thing("alloca_probe", {"function"}, Function(0, FALSE, "__fastcall")),
     Thing("sub", {"label"}, Untyped),
     Thing("sub", {}, Bad)}

MCOpened ==
    {[proc |-> "386", comp |-> "MS", mode |-> 32, be |-> FALSE],
     [proc |-> "EBPF", comp |-> "Other", mode |-> 64, be |-> FALSE]}

\* The eBPF object has one function.
MCSessions ==
    {x \in {<<m, [o \in {1, 2} |-> IF o = 2 THEN r ELSE i]>> :
                m \in MCOpened, r \in Roots, i \in Others} :
        x[1].proc = "EBPF" => x[2][2].name = "main" /\ x[2][1].name = "sub"}
    \cup {<<m, [o \in {1, 2} |-> IF o = 2 THEN Thing("main", {"function"}, Untyped)
                              ELSE Thing(NoName, {}, Untyped)]>> :
        m \in Machine \ MCOpened}

\* These language files meet the condition of ScopeProof's MachinesLoad.
ASSUME LanguagesAssumption == DocumentedIds \subseteq Languages

MCAsked == {<<"ram", 1>>, <<"syscall", 1>>}
=============================================================================
