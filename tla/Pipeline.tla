------------------------------ MODULE Pipeline ------------------------------
(***************************************************************************)
(* A decompilation step by step: GhidraDecompiler::decompile clears what   *)
(* the last one left, performActions resets five groups of actions and     *)
(* performs them in turn, the main one in two parts with the types of the  *)
(* locals put in between.  Each step may throw, which ends the             *)
(* decompilation and leaves the groups as they are; the architecture lives *)
(* on and the next decompilation starts from there.                        *)
(*                                                                         *)
(* Ghidra's Action::perform (external) applies the actions of a group from *)
(* the first one, or from where it stopped at a breakpoint, and never      *)
(* again once the group has ended: the groups are once-per-function.       *)
(***************************************************************************)
EXTENDS Naturals, Sequences

CONSTANTS
    Action,         \* actions a decompilation applies
    InitActions,    \* those of the language that come before all others
    ArchActions,    \* those of the language that work on the raw function
    Flow,           \* Ghidra's own actions up to the breakpoint
    Simplify,       \* and those from there on
    RetypeActions,  \* one ActionLoadLocalScope per space
    RenameActions,  \* ActionSyncStackVar and one ActionRenameVar per space
    NoResult,       \* std::nullopt
    MaxEdits        \* bound: edits of the database

ASSUME PipelineAssumption ==
    /\ InitActions \in Seq(Action) /\ ArchActions \in Seq(Action)
    /\ RetypeActions \in Seq(Action) /\ RenameActions \in Seq(Action)
    /\ Flow \in Action /\ Simplify \in Action
    /\ MaxEdits \in Nat

VARIABLES
    db,         \* version of IDA's database
    out,        \* what the last decompile returned
    stage,      \* what decompile does next
    pos,        \* next action of the group being performed
    status,     \* status of each group
    symbols,    \* versions of the database the cached symbols come from
    applied     \* actions applied to the function

vars == <<db, out, stage, pos, status, symbols, applied>>

Group == {"init", "main", "arch", "retype", "rename"}

Members ==
    [g \in Group |->
        CASE g = "init" -> InitActions
          [] g = "main" -> <<Flow, Simplify>>
          [] g = "arch" -> ArchActions
          [] g = "retype" -> RetypeActions
          [] g = "rename" -> RenameActions]

\* The groups in the order of their perform calls.
Stage == <<"init", "main", "arch", "retype", "main", "rename">>

\* The main group breaks before its second action in the first of its calls.
FirstMain == 2
Break == 2

\* The other steps of decompile.
Idle == 0
Found == 7      \* the scope is clear and the function built from it
Printing == 8

\* All actions in the order they are applied.
Order ==
    InitActions \o <<Flow>> \o ArchActions \o RetypeActions \o <<Simplify>>
        \o RenameActions

TypeOK ==
    /\ db \in 0 .. MaxEdits
    /\ out \in {NoResult} \cup [symbols : SUBSET Nat, applied : Seq(Action)]
    /\ stage \in 0 .. Printing
    /\ pos \in Nat
    /\ status \in [Group -> {"start", "break", "end"}]
    /\ symbols \subseteq 0 .. MaxEdits
    /\ applied \in Seq(Action) /\ Len(applied) <= Len(Order)

Init ==
    /\ db = 0
    /\ out = NoResult
    /\ stage = Idle
    /\ pos = 1
    /\ status = [g \in Group |-> "start"]
    /\ symbols = {}
    /\ applied = <<>>

-----------------------------------------------------------------------------
(* decompile *)

\* The user edits the database: callbacks run to their end, so not while one
\* decompiles.
Edit ==
    /\ stage = Idle
    /\ db < MaxEdits
    /\ db' = db + 1
    /\ UNCHANGED <<out, stage, pos, status, symbols, applied>>

\* No function there: nothing is touched.
NotFound ==
    /\ stage = Idle
    /\ out' = NoResult
    /\ UNCHANGED <<db, stage, pos, status, symbols, applied>>

\* clear, clearNoncore and findFunction: the function is made anew.  That the
\* scope and the types keep nothing from before is taken from Scope and
\* TypeManager, which model what the two calls clear.
Find ==
    /\ stage = Idle
    /\ symbols' = {db}
    /\ applied' = <<>>
    /\ stage' = Found
    /\ UNCHANGED <<db, out, pos, status>>

\* Any step throws, and decompile catches.
Throw ==
    /\ stage # Idle
    /\ out' = NoResult
    /\ stage' = Idle
    /\ UNCHANGED <<db, pos, status, symbols, applied>>

-----------------------------------------------------------------------------
(* performActions *)

\* The first action of a group that is performed: where it broke, if it did.
Entry(k, s) == IF s[Stage[k]] = "break" THEN Break ELSE 1

\* Mutant: m_retypeAction is not reset.
ResetButRetype ==
    /\ stage = Found
    /\ status' = [g \in Group |-> IF g = "retype" THEN status[g] ELSE "start"]
    /\ stage' = 1
    /\ pos' = Entry(1, status')
    /\ UNCHANGED <<db, out, symbols, applied>>

\* Mutant: nor is Ghidra's own group.
ResetButMain ==
    /\ stage = Found
    /\ status' = [g \in Group |-> IF g = "main" THEN status[g] ELSE "start"]
    /\ stage' = 1
    /\ pos' = Entry(1, status')
    /\ UNCHANGED <<db, out, symbols, applied>>

Reset ==
    /\ stage = Found
    /\ status' = [g \in Group |-> "start"]
    /\ stage' = 1
    /\ pos' = Entry(1, status')
    /\ UNCHANGED <<db, out, symbols, applied>>

\* perform returns with the group in status s.
LeaveWith(s) ==
    /\ status' = [status EXCEPT ![Stage[stage]] = s]
    /\ IF stage = Len(Stage)
       THEN stage' = Printing /\ UNCHANGED pos
       ELSE stage' = stage + 1 /\ pos' = Entry(stage + 1, status')
    /\ UNCHANGED <<db, out, symbols, applied>>

Performing == stage \in DOMAIN Stage
Now == Stage[stage]

\* Mutant: the main group is reset between its two calls.
BreakLost ==
    /\ Performing
    /\ stage = FirstMain /\ status[Now] = "start" /\ pos = Break
    /\ LeaveWith("start")

\* constbase is reached for the first time, with its breakpoint set.
BreakHit ==
    /\ Performing
    /\ stage = FirstMain /\ status[Now] = "start" /\ pos = Break
    /\ LeaveWith("break")

Apply ==
    /\ Performing
    /\ status[Now] # "end"
    /\ pos \in DOMAIN Members[Now]
    /\ ~(stage = FirstMain /\ status[Now] = "start" /\ pos = Break)
    /\ applied' = Append(applied, Members[Now][pos])
    /\ pos' = pos + 1
    /\ UNCHANGED <<db, out, stage, status, symbols>>

\* The group is done, now or since its reset.
Leave ==
    /\ Performing
    /\ status[Now] = "end" \/ pos > Len(Members[Now])
    /\ LeaveWith("end")

\* The symbols are found and the function is printed.
PrintDoc ==
    /\ stage = Printing
    /\ out' = [symbols |-> symbols, applied |-> applied]
    /\ stage' = Idle
    /\ UNCHANGED <<db, pos, status, symbols, applied>>

Next ==
    \/ Edit \/ NotFound \/ Find \/ Throw
    \/ Reset \/ BreakHit \/ Apply \/ Leave \/ PrintDoc

Spec == Init /\ [][Next]_vars
-----------------------------------------------------------------------------
(* Properties *)

(***************************************************************************)
(* The interface is kept: a result shows the database as it is, and every  *)
(* action was applied once and in order, after any number of               *)
(* decompilations that failed at any step.                                 *)
(***************************************************************************)
Interface == INSTANCE Decompiler WITH Wanted <- Order
ImplementsDecompiler == Interface!Spec

(***************************************************************************)
(* The types of the locals are there when Ghidra simplifies the function,  *)
(* and after the actions of the language: the first call of the main group *)
(* never runs through, the second never starts over.                       *)
(***************************************************************************)
Breaks ==
    Performing /\ stage > FirstMain =>
        (status["main"] = "break" <=> stage \in 3 .. 5)
=============================================================================
