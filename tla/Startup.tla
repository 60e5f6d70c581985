------------------------------- MODULE Startup -------------------------------
(***************************************************************************)
(* From IDA's database to a decompiler: yagi_init looks for Ghidra's files,*)
(* compute_compiler names the machine, compute_sleigh_id and               *)
(* compute_default_cc what Ghidra calls it, and build makes the            *)
(* architecture with what its language needs.  The plugin is loaded or it  *)
(* is not; nothing is tried twice.                                         *)
(***************************************************************************)
EXTENDS Naturals, Sequences

CONSTANTS
    Languages,  \* ids of the languages among Ghidra's specification files
    NoArch      \* no decompiler

VARIABLES
    machine,    \* what IDA knows of the binary
    ghidra,     \* whether Ghidra's folder is installed
    boot,       \* how far yagi_init is
    compiler,   \* the Compiler it computed
    arch        \* the YagiArchitecture it built

bootVars == <<machine, ghidra, boot, compiler, arch>>

Family == [ARM |-> "ARM", PPC |-> "PPC", MIPS |-> "MIPS", SPARC |-> "SPARC",
    AVR |-> "ATMEL", P6502 |-> "P6502", Z80 |-> "Z80", EBPF |-> "eBPF"]
X86Family == [MS |-> "X86_WINDOWS", GNU |-> "X86_GCC", Other |-> "X86"]

Processor == DOMAIN Family \cup {"386", "Unknown"}

\* 24 stands for a database that is none of the three.
Mode == {16, 24, 32, 64}

Machine == [proc : Processor, comp : DOMAIN X86Family, mode : Mode, be : BOOLEAN]

Compiler ==
    [language : {Family[p] : p \in DOMAIN Family}
                \cup {X86Family[c] : c \in DOMAIN X86Family},
     mode : Mode, be : BOOLEAN]

IsX86(c) == c.language \in {X86Family[k] : k \in DOMAIN X86Family}

-----------------------------------------------------------------------------
(* Names of a machine *)

CompilerOf(m) ==
    [language |-> IF m.proc = "386" THEN X86Family[m.comp] ELSE Family[m.proc],
     mode |-> m.mode, be |-> m.be]

\* Language and variant of the sleigh id.
Variant(c) ==
    CASE c.language = "X86" ->
            <<"x86", IF c.mode = 16 THEN "Real Mode" ELSE "default">>
      [] c.language = "X86_GCC" -> <<"x86", "default:gcc">>
      [] c.language = "X86_WINDOWS" -> <<"x86", "default:windows">>
      [] c.language = "PPC" -> <<"PowerPC", "default">>
      [] c.language = "MIPS" -> <<"MIPS", "default">>
      [] c.language = "SPARC" -> <<"sparc", "default">>
      [] c.language = "P6502" -> <<"6502", "default">>
      [] c.language = "Z80" -> <<"z80", "default">>
      [] c.language = "ARM" ->
            IF c.mode = 64 THEN <<"AARCH64", "v8A:default">> ELSE <<"ARM", "v7">>
      [] c.language = "ATMEL" ->
            CASE c.mode = 32 -> <<"avr32", "default">>
              [] c.mode = 24 -> <<"avr8", "xmega">>
              [] c.mode = 16 -> <<"avr8", "default">>
              [] OTHER -> <<"", "">>
      [] c.language = "eBPF" -> <<"eBPF", "default">>

\* Mutant: the byte order is left out.
SleighIdLittle(c) ==
    <<Variant(c)[1], "LE", c.mode, Variant(c)[2]>>

SleighId(c) ==
    <<Variant(c)[1], IF c.be THEN "BE" ELSE "LE", c.mode, Variant(c)[2]>>

DefaultCC(c) ==
    CASE c.language = "X86_WINDOWS" -> "__fastcall"
      [] c.language = "ARM" /\ c.mode # 32 -> "__cdecl"
      [] OTHER -> "__stdcall"

\* The architecture with what its language adds: functions that are replaced
\* by p-code, rules, and actions before all others and after the raw function.
ArchOf(c) ==
    [id |-> SleighId(c),
     cc |-> DefaultCC(c),
     injections |-> IF IsX86(c) THEN {"alloca_probe"} ELSE {},
     rules |-> IF IsX86(c) THEN {"guard_dispatch_icall_fptr"} ELSE {},
     archActions |-> IF c.language = "MIPS" THEN <<"t9optim">> ELSE <<>>,
     initActions |-> IF c.language = "eBPF" THEN <<"ebpfsyscall">> ELSE <<>>]

-----------------------------------------------------------------------------
(* yagi_init *)

BootInit ==
    /\ ghidra \in BOOLEAN
    /\ boot = "folder"
    /\ compiler = NoArch
    /\ arch = NoArch

FindFolder ==
    /\ boot = "folder"
    /\ boot' = IF ghidra THEN "compiler" ELSE "failed"
    /\ UNCHANGED <<machine, ghidra, compiler, arch>>

ComputeCompiler ==
    /\ boot = "compiler"
    /\ IF machine.proc = "Unknown"
       THEN boot' = "failed" /\ UNCHANGED compiler
       ELSE boot' = "build" /\ compiler' = CompilerOf(machine)
    /\ UNCHANGED <<machine, ghidra, arch>>

\* Ghidra knows the id, or init throws and there is no decompiler.
Build ==
    /\ boot = "build"
    /\ IF SleighId(compiler) \in Languages
       THEN boot' = "loaded" /\ arch' = ArchOf(compiler)
       ELSE boot' = "failed" /\ UNCHANGED arch
    /\ UNCHANGED <<machine, ghidra, compiler>>

BootNext == FindFolder \/ ComputeCompiler \/ Build

-----------------------------------------------------------------------------
(* Properties *)

BootTypes ==
    /\ machine \in Machine
    /\ ghidra \in BOOLEAN
    /\ boot \in {"folder", "compiler", "build", "loaded", "failed"}
    /\ compiler \in Compiler \cup {NoArch}
    /\ boot \in {"build", "loaded"} => compiler = CompilerOf(machine)
    /\ arch = IF boot = "loaded" THEN ArchOf(CompilerOf(machine)) ELSE NoArch

\* The machines the README and the change log list.
Documented(m) ==
    \/ m.proc = "386" /\ m.mode \in {16, 32, 64} /\ ~m.be
    \/ m.proc = "ARM" /\ m.mode \in {32, 64}
    \/ m.proc \in {"PPC", "MIPS"} /\ m.mode \in {32, 64}
    \/ m.proc = "SPARC" /\ m.mode = 32 /\ m.be
    \/ m.proc \in {"AVR", "P6502", "Z80"} /\ m.mode = 16 /\ ~m.be
    \/ m.proc = "EBPF" /\ m.mode = 64 /\ ~m.be

\* Real mode is chosen for an unknown compiler only.
NoRealMode(m) == m.proc = "386" /\ m.mode = 16 /\ m.comp # "Other"

\* The language files these machines need.
DocumentedIds ==
    {<<"x86", "LE", 16, "Real Mode">>,
     <<"x86", "LE", 32, "default">>, <<"x86", "LE", 64, "default">>,
     <<"x86", "LE", 32, "default:gcc">>, <<"x86", "LE", 64, "default:gcc">>,
     <<"x86", "LE", 32, "default:windows">>, <<"x86", "LE", 64, "default:windows">>,
     <<"ARM", "LE", 32, "v7">>, <<"ARM", "BE", 32, "v7">>,
     <<"AARCH64", "LE", 64, "v8A:default">>, <<"AARCH64", "BE", 64, "v8A:default">>,
     <<"PowerPC", "LE", 32, "default">>, <<"PowerPC", "BE", 32, "default">>,
     <<"PowerPC", "LE", 64, "default">>, <<"PowerPC", "BE", 64, "default">>,
     <<"MIPS", "LE", 32, "default">>, <<"MIPS", "BE", 32, "default">>,
     <<"MIPS", "LE", 64, "default">>, <<"MIPS", "BE", 64, "default">>,
     <<"sparc", "BE", 32, "default">>,
     <<"avr8", "LE", 16, "default">>,
     <<"6502", "LE", 16, "default">>, <<"z80", "LE", 16, "default">>,
     <<"eBPF", "LE", 64, "default">>}

(***************************************************************************)
(* With Ghidra's files in place, the plugin loads for every machine that   *)
(* is documented, whatever compiler IDA detected and in either byte order  *)
(* of it: the id put together from four parts is one of a language file.   *)
(* 16-bit x86 programs of a known compiler are the exception.              *)
(***************************************************************************)
DocumentedLoads ==
    boot = "failed" /\ ghidra => ~Documented(machine) \/ NoRealMode(machine)
=============================================================================
