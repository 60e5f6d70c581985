------------------------------- MODULE Plugin -------------------------------
(***************************************************************************)
(* The interactive part of Yagi (plugin.cc): decompiling the function under *)
(* the cursor into a view, and the keys of a view that rename, retype,     *)
(* clear and navigate.                                                     *)
(*                                                                         *)
(* A view keeps a copy of the Result it was made from: tokens, locations   *)
(* and the address of the function as they were then.  The IDA database    *)
(* goes on changing under it, through the keys of other views and through  *)
(* IDA itself.  A callback that edits runs the plugin again, and the       *)
(* plugin closes the view of the same title: possibly the one whose Result *)
(* the callback is still holding.                                          *)
(*                                                                         *)
(* Everything runs on IDA's user interface thread: a callback is a         *)
(* sequence of steps that nothing interleaves with.                        *)
(***************************************************************************)
EXTENDS Decompilation

CONSTANTS
    Typed,      \* names the user types for locals
    TypedGlobal,\* names the user types for globals, which IDA accepts
    Short,      \* get_short_name of a text, cut at its parameters
    NameOf,     \* names in the database at the start
    TypeOf,     \* types in the database at the start, or None
    Deletable,  \* functions IDA may delete, and create again
    Unnamed,    \* whether a function loses its name when it is deleted
    Fragile     \* functions whose decompilation may fail in Ghidra

ASSUME PluginAssumption ==
    /\ Typed \subseteq Name
    /\ TypedGlobal \subseteq Name
    /\ Short \in [Base -> Base]
    /\ NameOf \in [Global -> Name]
    /\ TypeOf \in [Global -> TypeName \cup {None}]
    /\ Deletable \subseteq Func
    /\ Unnamed \in BOOLEAN
    /\ Fragile \subseteq Func
    /\ None \notin TypeName

VARIABLES
    names,      \* netnodes ".yagireg."
    types,      \* netnodes ".yagitype."
    gname,      \* names of the globals in the IDA database
    gtype,      \* types of the globals in the IDA database
    alive,      \* functions the IDA database knows
    screen,     \* function under the cursor (get_screen_ea), or None
    views,      \* open views, each with its Result
    handler     \* the callback that is running

store == <<names, types>>
ida == <<gname, gtype, alive, screen>>
vars == <<names, types, gname, gtype, alive, screen, views, handler>>

Idle == [stage |-> "idle"]

\* The callback of view w has run plugin code up to stage.
Running(stage, w, i) == [stage |-> stage, view |-> w, at |-> i]

View(w) ==
    /\ w.title \in Token
    /\ w.fn \in Func
    /\ w.shown \in [Items[w.fn] -> Token]
    /\ w.typed \in [Items[w.fn] -> TypeName \cup {None}]
    /\ w.sym \in [DOMAIN w.sym -> Items[w.fn]]

\* Types of the variables; a function of the database has a name, and a
\* running callback is about an item of the view it belongs to.
TypeOK ==
    /\ names \in [Slot -> NameEntry \cup {None}]
    /\ types \in [Slot -> TypeEntry \cup {None}]
    /\ gname \in [Global -> Name \cup {None}]
    /\ gtype \in [Global -> TypeName \cup {None}]
    /\ alive \subseteq Func
    /\ \A f \in alive : gname[f] # None
    /\ screen \in Func \cup {None}
    /\ \A w \in views : View(w)
    /\ \/ handler = Idle
       \/ /\ handler = Running(handler.stage, handler.view, handler.at)
          /\ handler.stage \in {"log", "redraw", "aborted"}
          /\ View(handler.view)
          /\ handler.at \in Items[handler.view.fn]

Init ==
    /\ names = NoNames
    /\ types = NoTypes
    /\ gname = NameOf
    /\ gtype = TypeOf
    /\ alive = Func
    /\ screen = None
    /\ views = {}
    /\ handler = Idle

-----------------------------------------------------------------------------
(* Decompiling and showing *)

Title(f) == GetName([gname[f] EXCEPT !.base = Short[gname[f].base]])

\* Mutant: the view of the function is looked for, not that of the title.
ShowByFunction(r) == views' = {w \in views : w.fn # r.fn} \cup {r}

\* Plugin::view: the widget of that title is closed, which deletes its
\* Result, and a new one is made.
Show(r) == views' = {w \in views : w.title # r.title} \cup {r}

\* Plugin::run on the function under the cursor: when there is none, or
\* when the decompiler throws, nothing is shown.
Run ==
    \/ /\ screen \in alive
       /\ ~Unreadable(names, screen)
       /\ Show(Result(names, types, gname, gtype, screen, Title(screen)))
    \/ /\ screen \in alive =>
            screen \in Fragile \/ Unreadable(names, screen)
       /\ UNCHANGED views

\* The user presses F3.
Decompile ==
    /\ handler = Idle
    /\ Run
    /\ UNCHANGED <<store, ida, handler>>

-----------------------------------------------------------------------------
(* The keys of a view *)

\* The symbol the callback finds for the token of item i in view w.
Resolves(w, i, target) ==
    /\ handler = Idle
    /\ w \in views
    /\ i \in Items[w.fn]
    /\ w.shown[i] \in DOMAIN w.sym
    /\ target = w.sym[w.shown[i]]

\* IDA does not accept a name that is already in use.
SetName(g, n) ==
    gname' = IF \E o \in Global \ {g} : gname[o] = n THEN gname
             ELSE [gname EXCEPT ![g] = n]

\* 'N' on a token of the ram space.  What is proposed is what getName gives.
RenameGlobal(w, i, n) ==
    \E g \in Global :
        /\ Resolves(w, i, g)
        /\ gname[g] # None
        /\ \/ n \in TypedGlobal
           \/ n = GetName(gname[g]) /\ n \in Name
        /\ SetName(g, n)
        /\ handler' = Running("redraw", w, g)
        /\ UNCHANGED <<store, gtype, alive, screen, views>>

\* Mutant: the record is written for the function under the cursor.
RenameAtCursor(w, i, n) ==
    \E v \in Var :
        /\ Resolves(w, i, v)
        /\ screen \in alive
        /\ n \in Typed
        /\ names' = SaveName(names, screen, Loc[v], n)
        /\ handler' = Running("redraw", w, v)
        /\ UNCHANGED <<types, ida, views>>

\* 'N' on a local: the record is written for the function the view is about.
RenameLocal(w, i, n) ==
    \E v \in Var :
        /\ Resolves(w, i, v)
        /\ w.fn \in alive
        /\ n \in Typed
        /\ names' = SaveName(names, w.fn, Loc[v], n)
        /\ handler' = Running("redraw", w, v)
        /\ UNCHANGED <<types, ida, views>>

\* 'Y' on a token of the ram space.
RetypeGlobal(w, i, t) ==
    \E g \in Global :
        /\ Resolves(w, i, g)
        /\ gtype[g] # None
        /\ gtype' = [gtype EXCEPT ![g] = t]
        /\ handler' = Running("redraw", w, g)
        /\ UNCHANGED <<store, gname, alive, screen, views>>

\* 'Y' on a local: whether the function still exists is not checked.
RetypeLocal(w, i, t) ==
    \E v \in Var :
        /\ Resolves(w, i, v)
        /\ \/ /\ w.fn \in alive
              /\ types' = SaveType(types, w.fn, Loc[v], t)
              /\ handler' = Running("redraw", w, v)
           \/ /\ w.fn \notin alive
              /\ handler' = Running("aborted", w, v)
              /\ UNCHANGED types
        /\ UNCHANGED <<names, ida, views>>

\* Mutant: the plugin runs before the cleared symbol is logged.
ClearRunsFirst(w, i) ==
    \E v \in Var :
        /\ Resolves(w, i, v)
        /\ w.fn \in alive
        /\ HasType(types, w.fn, Loc[v])
        /\ types' = ClearType(types, w.fn, Loc[v])
        /\ handler' = Running("log", w, v)
        /\ Run
        /\ UNCHANGED <<names, ida>>

\* 'C': the types of a local are deleted.  A token of the ram space may have
\* pcs too, but no record is ever saved under that space, so none is found;
\* that the function still exists is not checked.
ClearLocal(w, i) ==
    \E x \in Item :
        /\ Resolves(w, i, x)
        /\ \/ /\ w.fn \in alive
              /\ x \in Var
              /\ HasType(types, w.fn, Loc[x])
              /\ types' = ClearType(types, w.fn, Loc[x])
              /\ handler' = Running("log", w, x)
           \/ /\ w.fn \notin alive
              /\ handler' = Running("aborted", w, x)
              /\ UNCHANGED types
        /\ UNCHANGED <<names, ida, views>>

\* The name of the cleared symbol is logged: read from the view's Result.
Logged ==
    /\ handler.stage = "log"
    /\ handler' = Running("redraw", handler.view, handler.at)

LogClear ==
    /\ Logged
    /\ UNCHANGED <<store, ida, views>>

\* The callback runs the plugin on the cursor's function and returns.
Returned ==
    /\ handler.stage = "redraw"
    /\ handler' = Idle

Redraw ==
    /\ Returned
    /\ Run
    /\ UNCHANGED <<store, ida>>

\* A double click: to the address of a global, or to the frame of the
\* function, which is read without a check that the function exists.
DoubleClick(w, i) ==
    \E x \in Item :
        /\ Resolves(w, i, x)
        /\ \/ /\ x \in Func
              /\ screen' = x
              /\ UNCHANGED handler
           \/ /\ x \in Data
              /\ screen' = None
              /\ UNCHANGED handler
           \/ /\ x \in Var
              /\ Loc[x].space \in {"stack", "const"}
              /\ w.fn \notin alive
              /\ handler' = Running("aborted", w, x)
              /\ UNCHANGED screen
        /\ UNCHANGED <<store, gname, gtype, alive, views>>

-----------------------------------------------------------------------------
(* What IDA does between two callbacks *)

CloseView(w) ==
    /\ handler = Idle
    /\ w \in views
    /\ views' = views \ {w}
    /\ UNCHANGED <<store, ida, handler>>

MoveCursor(f) ==
    /\ handler = Idle
    /\ screen' = f
    /\ UNCHANGED <<store, gname, gtype, alive, views, handler>>

DeleteFunction(f) ==
    /\ handler = Idle
    /\ f \in alive \cap Deletable
    /\ alive' = alive \ {f}
    /\ gname' = IF Unnamed THEN [gname EXCEPT ![f] = None] ELSE gname
    /\ UNCHANGED <<store, gtype, screen, views, handler>>

CreateFunction(f) ==
    /\ handler = Idle
    /\ f \notin alive
    /\ alive' = alive \cup {f}
    /\ gname' = IF gname[f] = None THEN [gname EXCEPT ![f] = RamName[f]]
                ELSE gname
    /\ UNCHANGED <<store, gtype, screen, views, handler>>

-----------------------------------------------------------------------------
Edit ==
    \E w \in views, i \in Item :
        \/ \E n \in Name : RenameGlobal(w, i, n) \/ RenameLocal(w, i, n)
        \/ \E t \in TypeName : RetypeGlobal(w, i, t) \/ RetypeLocal(w, i, t)
        \/ ClearLocal(w, i)
        \/ DoubleClick(w, i)

Ida ==
    \/ \E w \in views : CloseView(w)
    \/ \E f \in Func : MoveCursor(f) \/ DeleteFunction(f) \/ CreateFunction(f)

Next == Decompile \/ Edit \/ LogClear \/ Redraw \/ Ida

\* A callback that has begun runs until it returns: LogClear and Redraw are
\* the only steps that are then possible, and nothing can block them.
Fairness == WF_handler(Logged) /\ WF_handler(Returned)

Spec == Init /\ [][Next]_vars /\ Fairness

-----------------------------------------------------------------------------
(* Properties *)

(***************************************************************************)
(* No record is an orphan of another function or of another place: each    *)
(* one was written for a variable of the function in its key, at that      *)
(* variable's offset.  The keys of a stale view (Result::ea,               *)
(* Result::symbolAddress) are where this could go wrong.                   *)
(***************************************************************************)
Owned(db) ==
    \A k \in Slot : db[k] # None =>
        \E v \in Var : k \in SlotsOf(v) /\ db[k].offset = Loc[v].offset

SlotOwner == Owned(names) /\ Owned(types)

(***************************************************************************)
(* A callback that still reads the view's Result runs while that view is   *)
(* open: _Close deletes the Result when the redraw closes the view.        *)
(***************************************************************************)
HandlerViewLive == handler.stage = "log" => handler.view \in views

(***************************************************************************)
(* A token without import prefix that the text shows for one item only     *)
(* never leads to another item: what the user points at is what is edited. *)
(***************************************************************************)
TokenExact ==
    \A w \in views : \A i \in Items[w.fn] :
        (/\ w.shown[i].pre = 0
         /\ \A j \in Items[w.fn] \ {i} : w.shown[j] # w.shown[i]
         /\ w.shown[i] \in DOMAIN w.sym)
            => w.sym[w.shown[i]] = i

(***************************************************************************)
(* The name printed for a call can always be pointed at, also when it is   *)
(* an import: the printer and the map take the same prefix off.            *)
(***************************************************************************)
TokenKnown ==
    \A w \in views : \A g \in Calls[w.fn] : w.shown[g] \in DOMAIN w.sym

(***************************************************************************)
(* An edit writes records of the one function whose view the key was       *)
(* pressed in: what any other function is decompiled to stays the same.    *)
(***************************************************************************)
OtherFunctionsKept ==
    [][\A v \in Var :
          (\/ RecoveredName(names', v) # RecoveredName(names, v)
           \/ RecoveredType(types', v) # RecoveredType(types, v))
              => /\ handler' # Idle
                 /\ handler'.view.fn = Loc[v].fn]_vars

(***************************************************************************)
(* The name typed for a local is the name the next decompilation gives it. *)
(***************************************************************************)
RenameTakes ==
    [][\A w \in views, i \in Item, n \in Name :
          RenameLocal(w, i, n) => RecoveredName(names', handler'.at) = n]_vars

(***************************************************************************)
(* What a callback leaves behind.  It redraws the function IDA's cursor is *)
(* in, whichever view the key was pressed in; when Ghidra can decompile    *)
(* that function, the callback ends with a view of it in which every item  *)
(* has the name and the type the database now has, and the title the       *)
(* function now has, and no older view of that title is left.  Titles are  *)
(* the short names of functions: an edit changes them, and two functions   *)
(* can have the same.  A view of another function, or of an older title,   *)
(* keeps the text it has.                                                  *)
(***************************************************************************)
EditPending ==
    /\ handler.stage \in {"log", "redraw"}
    /\ screen \in alive \ Fragile
    /\ ~Unreadable(names, screen)

Current(w) ==
    /\ w.fn = screen
    /\ w.title = Title(screen)
    /\ \A i \in Items[screen] :
        /\ w.shown[i] = Printed(names, gname, i)
        /\ w.typed[i] = SymbolType(types, gtype, i)

UpToDate ==
    /\ handler = Idle
    /\ screen \in alive
    /\ \E w \in views :
        /\ Current(w)
        /\ \A u \in views : u.title = w.title => u = w

EditShown == EditPending ~> UpToDate

(***************************************************************************)
(* To the user, the locals are a table of names and types, and a key in a  *)
(* view changes one of its rows.  It does so only when no two locals of a  *)
(* function share a record, when no record of one is found at an operation *)
(* where another is in use at the same place, and when nothing typed is    *)
(* cut as it is read back.                                                 *)
(***************************************************************************)
DisjointSlots ==
    \A v, w \in Var : v # w => SlotsOf(v) \cap SlotsOf(w) = {}

SamePlace(v, w) ==
    /\ Loc[v].fn = Loc[w].fn
    /\ Home(Loc[v].space) = Home(Loc[w].space)
    /\ Loc[v].offset = Loc[w].offset

DisjointUse ==
    \A v, w \in Var : v # w /\ SamePlace(v, w) =>
        \A p \in Loc[w].pc : ~InUse(v, p)

LocalsApart == DisjointSlots /\ DisjointUse

PlainTyped == \A n \in Typed : n.base \notin Barred

\* Each local is in use at one of the operations its records are for.
RecordsReached == \A v \in Var : \E p \in Loc[v].pc : InUse(v, p)

Locals == INSTANCE EditedLocals WITH
    name <- [v \in Var |-> RecoveredName(names, v)],
    type <- [v \in Var |-> RecoveredType(types, v)],
    FirstName <- [v \in Var |-> SyncName(v)]

LocalsEdited == Locals!Spec

(***************************************************************************)
(* What the documentation says of the edits and of the result, and the     *)
(* code does not keep in every program.                                    *)
(***************************************************************************)

\* README.md: changes are saved into the IDA database; they stay there.
NamesKept ==
    [][\A v \in Var :
          RecoveredName(names', v) # RecoveredName(names, v)
              => handler'.at = v]_vars

\* plugin.cc checks in one key that the function of the view was found: a
\* callback returns, whatever became of the function.
NeverAborts == handler.stage # "aborted"
=============================================================================
