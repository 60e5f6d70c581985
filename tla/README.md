# Yagi in TLA+

Models, model-checking configurations and machine-checked proofs of Yagi, the
IDA plugin that brings Ghidra's decompiler into IDA. Paths below are relative to
`src/yagi/src/` unless they say otherwise.

    tlc -config plugin_locals.cfg MCLocals     # one of the runs
    tlapm PluginProof.tla                      # one of the proof modules

## 1. The system

Yagi sits between two programs that each own their state: IDA (its database of
functions, names, types and netnodes, and its event loop) and Ghidra's
decompiler library (its symbols, types, actions and printer). It runs on IDA's
user interface thread. Nothing is concurrent in the sense of threads: what is
hard is that state is copied from IDA to Ghidra and from Ghidra to a view, that
the copies grow old at different times, and that the way back, from a word in a
view to a record in the database, goes through the oldest of them.

| Component | State | Operations | Talks to | What makes it correct |
|---|---|---|---|---|
| Compiler detection and start (`yagi.cc`, `ghidradecompiler.cc` 222-413) | the `Compiler` and the architecture, made once | `yagi_init`, `compute_compiler`, `compute_sleigh_id`, `compute_default_cc`, `build` | IDA's processor, Ghidra's language files | every documented machine gets the id of a language that exists |
| Plugin, views and keys (`plugin.cc`) | open views, each owning the `Result` it was made from | F3 (`run`, `view`), keys N Y C X, double click, `_Close` | the decompiler; IDA's database; the records; itself, since a key runs the plugin again | an edit reaches what the user points at and nothing else; after it, a view shows it; a freed `Result` is never read |
| Word under the cursor (`plugin.cc` 94-145, 274-310) | none | `_ComputeKeyword`, `_DoubleClickCallback` | the colour tags of a line, the map of a `Result`, IDA's frame | the word is the token the cursor is on, the place is that of the variable |
| Printer (`print.cc`) | the text being written | the methods of `IdaEmit` | Ghidra's printer | each token stands between two tags of one colour, without its import prefix |
| Local names and types (`idasymbol.cc`) | netnodes keyed by function, space and pc | `saveName`, `saveType`, `clearType`, `findName`, `findType` | written by the keys, read by the actions | a record stays with its function and its variable |
| Local actions (`yagiaction.cc` 13-133) | none | `ActionSyncStackVar`, `ActionRenameVar`, `ActionLoadLocalScope` | the records, Ghidra's local scope | a variable gets the name and type that were saved for it |
| Decompilation result (`ghidradecompiler.cc` 23-147) | the map `symbolAddress` | `findVarSymbols`, `findFunctionSymbols`, `findConstantSymbols` | Ghidra's symbols, the views | a printed word is a key of the map and leads to the item it was printed for |
| Decompilation pipeline (`ghidradecompiler.cc` 150-219, `yagiarchitecture.cc`) | five groups of actions, kept from one function to the next | `decompile`, `performActions` | every action may throw | nothing of an earlier decompilation, failed or not, shows in the next |
| Global scope (`scope.cc`) | Ghidra's symbols for IDA's globals, made when first asked for | `findFunction`, `findContainer`, `findExternalRef`, `findCodeLabel`, `resolveExternalRefFunction`, `clear` | IDA's names and types, the type manager | an answer stays while a decompilation runs and is the database's |
| Language actions and rules (`yagiaction.cc` 136-1467, `yagirule.cc`) | the table of eBPF system calls, put into the scope by each decompilation | MIPS `t9`, eBPF system calls, Control Flow Guard | the scope, Ghidra's p-code | a number answers with its call |
| Type manager (`typemanager.cc`, `idatype.cc`) | Ghidra's datatypes by name | `findById`, `findByTypeInfo`, `parseTypeInfo`, `parseFunc`, `update` | itself, recursively, along IDA's types; the scope | the recursion ends on a cyclic type graph and leaves no struct half made |
| Loader, logger, errors, wrappers (`idaloader.cc`, `idalogger.cc`, `exception.cc`, `base.cc`, `ghidra.cc`) | none | reading, printing, asking | IDA | |

What is hard to test here, with its lines, is the list `hazards` of
`PROJECT.json`. In short: stale views (a key acts on the decompilation the view
was made from), one record for several variables, several names for one item
with and without the import prefix, the order of the passes and of the questions
Ghidra asks, exceptions that leave long-lived objects in the middle of a
decompilation, recursion over cyclic types, escapes and colours that look alike,
offsets of two widths, and a callback that destroys the view it is reading.

## 2. The modules

    EditedLocals      what editing locals promises
         ^  implemented by
    Plugin            views, keys, callbacks, what the user does in IDA
      extends Decompilation   printed tokens, the map of symbols
        extends LocalSymbols  the records and how they are given back

    Cursor            a line, its double clicks, the place they lead to
      extends Keyword         the word at a column
        extends Printer       what the emitter writes
      extends FrameOffset     offsets of the frame and their widths

    Decompiler        what the interface Decompiler promises
         ^  implemented by
    Pipeline          decompile and performActions, with exceptions

    GlobalNames       what Ghidra may rely on when it asks for functions
         ^  implemented by
    Scope             the lazy symbols, cleared and filled per decompilation
      extends Prototype       TypeManager::update
        extends Startup       yagi_init, compiler, sleigh id, build
    EbpfSyscalls      the table of system calls, given to Scope

    TypeManager       the recursive translation of types

    MCLocals, MCPlugin, MCCursor, MCPipeline, MCScope, MCTypeManager
                      instances for TLC
    NatLemmas <- PluginProof <- LocalsProof
    NatLemmas <- KeywordProof <- CursorProof
    NatLemmas <- ScopeProof, TypeManagerProof
    PipelineProof

### LocalSymbols and Decompilation

Pure operators over two tables, `names` and `types`, from a slot (function,
space, pc) to a record (text, offset). A slot is what the code makes the name of
a netnode from (`idasymbol.cc:189`, `226`). `SaveName`, `SaveType`, `ClearType`, `FindName` and
`FindType` are the methods of `IdaFunctionSymbolInfo`; `RecoveredName` and
`RecoveredType` are what a variable is called and typed after the actions of
`buildAction` have run in their order, with the last rename winning and the
first type. A name is a text and the number of import prefixes before it, since
that prefix is the only part of a name the code looks at, except for a `|`:
texts that hold one are `Barred`, and `Split` says what reading them back gives.

What Ghidra finds in a function is a parameter: its variables (`Var`), where
they are (`Loc`), where their scope entries are in use (`Live`), its calls
(`Calls`) and the globals it uses (`Refs`). `SymbolKeys` and `SymbolMap` are the
three `find...Symbols` and the `emplace` that keeps the first of equal keys,
`Printed` is the printer, which takes the prefix off.

### Plugin

| Variable | In the code |
|---|---|
| `names`, `types` | netnodes `.yagireg.` and `.yagitype.` |
| `gname`, `gtype`, `alive`, `screen` | IDA: names and types of globals, known functions, `get_screen_ea` |
| `views` | open widgets with the `Result` each owns |
| `handler` | the callback that is running, and how far it is |

`Decompile` is F3. `RenameGlobal`, `RenameLocal`, `RetypeGlobal`, `RetypeLocal`
and `ClearLocal` are the branches of `_KeyboardCallback` up to the point where it
runs the plugin again, `LogClear` the line of branch C that reads the `Result`
before that, `Redraw` the run of the plugin (`_RunYagi`), which decompiles the
function under IDA's cursor and replaces the view of the same title.
`DoubleClick` and `CloseView` are the other two callbacks. `MoveCursor`,
`DeleteFunction`, `CreateFunction` are what the user does in IDA in the meantime.
The guard of each action is the sequence of early returns before the edit. A
callback that throws or reads through a null pointer goes to the stage
`"aborted"` and stays there, which is why two configurations switch the deadlock
check off.

### Printer, Keyword, FrameOffset and Cursor

`Printer` gives each method of `IdaEmit` its colour and its cells: an escape, the
code of the colour, the characters, and both again behind them. The code of the
default colour is the escape itself (`print.cc:7`, `19`), and that is modelled as
it is. `Keyword` is `_ComputeKeyword` on those cells: `Walk` counts characters
forward to the column, `WordEnd` looks for the next escape or NUL, `TagBefore`
goes back to the last escape that no letter or digit follows.

`FrameOffset` has the arithmetic of `findStackVar` (`idasymbol.cc:159-184`) and
of the double click (`plugin.cc:298-306`) with `ea_t` of both builds, 4 or 8
bytes, and the stack addresses of both sizes. `Cursor` puts them together: the
user opens a view (`Show`), double-clicks at any column (`DoubleClick`, the word,
the map, the place) and closes it. The variables are the view, its line and the
last double click. The map and the names come from a frame and from functions;
Ghidra's own names are different from those of the frame, as they are
in the code, where a member's name is put in their place. Between two tokens
Ghidra writes a blank, or something that begins with two blanks or a comment sign
(`Spaced`): that decides what the scans find under a cursor that is on no token.

### Pipeline and Decompiler

`Decompiler` has two variables: a version number of IDA's database and what the
last `decompile` returned. A call gives nothing, or a result of the database as
it is with every action applied once and in order. `Pipeline` is the code:
`Find` (clear the scope, the types, make the function; what clearing amounts to is
taken from `Scope` and `TypeManager`), `Reset` (the five
resets), then six stages, one per `perform`, where the main group is performed
twice because a breakpoint at its action `constbase` stops the first. `Throw` may happen at any
step and leaves `status` of each group and the scope as they are. The rule that
a group starts at its first action, at its breakpoint, or not at all is Ghidra's
`Action::perform` and is marked external.

### Startup, Prototype, Scope and GlobalNames

| Variable | In the code |
|---|---|
| `machine`, `ghidra` | what IDA knows of the binary; whether Ghidra's folder is there |
| `boot`, `compiler`, `arch` | how far `yagi_init` is, the `Compiler`, the `YagiArchitecture` |
| `ida` | name, kind and type of each address |
| `phase` | what `decompile` does: idle, scope cleared, function found, Ghidra asking |
| `cache` | the symbols of Ghidra's internal scope (`proxy`), by space and offset, in the order they were added |
| `first`, `edits` | history: the first question about each address; edits so far |

`FindFolder`, `ComputeCompiler` and `Build` are `yagi_init` with its three ways to
fail; `ArchOf` is what `build` adds per language. `Clear`, `FindRoot` and
`Register` are the beginning of `decompile` as the scope sees it, the last one
`ActionAddeBPFSyscall`. Then Ghidra asks, in any order: `FindFunction`,
`FindContainer`, `FindExternalRef`, `FindCodeLabel`,
`ResolveExternalRefFunction`, and `AddGlobal` for what nobody knows.
Each action is the whole method with the proxy asked first, IDA asked second,
the symbol added, and the type looked at, where Ghidra's factory may throw
(`UpdateThrows`) and leave the symbol without it. `Leave` ends a decompilation at any point. `Updated` is
`TypeManager::update` with the choice of the convention and the condition that
there be as many names as parameters. `Calls` gives each number all calls that are
registered for it, in their order.

`GlobalNames` is the promise: while a decompilation is open, functions are found
and keep their answer, which is the name the database has for an address, or the
call that was registered for a number; opening forgets everything.

### TypeManager

The calls of `parseTypeInfo` are kept on an explicit `stack`, one record per
running call with the parts it has found, so that the cyclic recursion is a state
machine: `Request` (a symbol asks), `Hit` (the name is in the factory), `Miss` (a
nested call begins), `Return` (the type is made, named and, for a struct, given
its fields, unless `setFields` refuses them), `Throw` (an exception of Ghidra's
factory ends all calls and the decompilation, and the cache stays as it is),
`Clear` (`clearNoncore`, next decompilation). `graph` is chosen at
the start among all databases of the instance. `cache` holds what Ghidra finds by
name, `layout` the size of each struct once it has its fields; a struct without
them is in the cache with size 0, and whoever uses it then takes that size.

## 3. The runs

All bounds are constants of the modules or of the configurations.

| Run | States | Shows |
|---|---|---|
| `plugin_locals` | 15,161 | One function with a stack parameter read at two places, with a frame name, and a local behind a constant. The records implement a table with one row per local (`LocalsEdited`, a refinement of `EditedLocals`); the name typed is the name recovered (`RenameTakes`). |
| `plugin_views` | 187,736 | Two functions, one calling the other, a data item, an import; views that grow stale while globals are renamed to the import and functions are deleted and made again. Records are written for a local of the function in their key (`SlotOwner`); `TypeOK`, `HandlerViewLive`, `TokenExact`, `TokenKnown`, `OtherFunctionsKept`. A callback whose redraw is not refused ends with one view of the title of the function under IDA's cursor; it is that function's, and each name and type it shows is the one the database has (`EditShown`). |
| `cursor` | 23,993 | Every line of up to three tokens out of thirteen kinds with blanks as Ghidra writes them (`Spaced`), and every frame of two members around the frame pointer in the three combinations of widths, double-clicked at every column. The word is the token (`WordExact`), a click that goes anywhere goes where its token leads (`NoOtherWord`), a variable of the stack leads to its own place (`FrameExact`). |
| `scope` | 9,051 | Every machine is started (`DocumentedLoads`). A Windows program and an eBPF object are decompiled, edited and decompiled again, and Ghidra asks about a second item of six kinds and about a number in every order: functions are complete (`Prepared`), system calls answer (`SyscallsKnown`), names are the database's (`NamesCurrent`), and the scope implements `GlobalNames` (`CopiesNames`). |
| `types` | 366,462 | Every database of two structs with up to two fields each, some of which `setFields` refuses, and an exception of Ghidra's at any step of a translation. The recursion ends (`StructOnce`, `NoOverflow`, `Resolved`), and no struct without fields is left for the next decompilation (`OpenOnStack`); `TypeOK`. |
| `pipeline` | 393 | The actions of all languages at once, exceptions at any step, edits in between. `TypeOK`, `Breaks`, and the refinement `ImplementsDecompiler`. |
| `shared_slots` | | violates `NamesKept`: two parameters that only one instruction reads share a netnode. |
| `deleted_function` | | violates `NeverAborts`: the keys Y, C and the double click do not look whether the function still exists. |
| `underscored` | | violates `Navigates`: in the trace, a parameter whose name begins with an underscore loses its first character under the cursor, and the double click does not know what is left. |
| `mislabeled_call` | | violates `AsCommented`: two system calls are registered under the name of the call above them in the table, and two numbers are registered twice, so that the second call is never the answer. |
| `array_count` | | violates `ArrayElements`: an array gets as many elements as it has bytes. |
| `embedded_struct` | | violates `StructSizes`: a struct laid out while a struct it embeds is still open comes out too small. |

The six violations are disagreements between the code and what a document, a
header or the code itself says; `findings` in `PROJECT.json` quotes each.

What the passing properties leave out, because the code does:

* `DocumentedLoads`: 16-bit x86 programs of a known compiler, since real mode is
  chosen for an unknown one only (`NoRealMode`).
* `EditShown`: the view a key was pressed in, when IDA's cursor is in another
  function: the redraw is of that other function, and the edited view stays stale.
* `SyscallsKnown`, `CopiesNames`: the two numbers that are given twice (0x2c, 0x2f:
  `mislabeled_call`) and those no call is registered for (`NumbersGiven`). For the
  latter the scope asks IDA about the address of that value (`scope.cc:35`).
* `Prepared`: a function that was first asked about as data or as an import. It
  is in the proxy by then, without injection or prototype, and nobody completes it.
  A function is complete with the prototype `update` gives it, which may be none:
  `typemanager.cc:240` drops it if the counts differ.
* `OpenOnStack`: structs whose fields `setFields` refuses (`Refused`); what it
  returns is not looked at.
* `WordExact`: tokens in the default colour that begin with something else than a
  letter or digit (`Regular`); `NoOtherWord` bounds what happens to them.
* `FrameExact`: stack addresses of 4 and 8 bytes; those of 2 bytes, and
  locations in the constant space, are not extended by the code and not in `Cursor`.

Why the bounds are enough:

* Locals: two variables are the smallest number that can share or confuse
  records, two operations per variable the smallest with more than one netnode
  per save. `plugin_locals` gives the stack parameter and the constant one pc in
  common, so records of both spaces are looked up at the same operation.
  `MCLocals` asserts that this program meets the conditions of the theorems on locals.
* Views: two (`TwoViews`), one per function; a third could only repeat a title
  or a function. Functions can be renamed to one name, so the view of one
  may be replaced by that of the other. The constraint cuts exploration, not the
  actions; `EditShown` is checked of the callbacks that do not open a third view.
* Names: one import prefix in the database, so two after `getName`.
* Lines: three tokens, so that the one at the cursor has a neighbour on each side,
  with names of which one is the rest of another. `PastEnd` is 1: one column behind the
  last is where a walk stops at the line's end; from the second on, the cells it
  reads belong to nobody. The cells behind the NUL are three contents that could
  each be taken for a tag or a letter (`Garbage`).
* Frames: `Sign` is 4 instead of 2^31, so that all offsets of both signs, and the
  sizes 8 and 64 in place of 2^32 and 2^64, are within reach; the proof is for
  every `Sign`.
* Scope: one address besides the function, since symbols at different addresses
  never meet except for numbers equal to addresses, of which number 1 is one;
  `MaxSymbols` 2 symbols per address that questions add, one more than an
  answer needs to be hidden by another; `MaxEdits` 1, so two databases; the
  numbers go up to 47, the last that is given twice; number 1 is asked about. `mislabeled_call` has the whole table.
* Types: two structs are the smallest mutual cycle; the fields range over
  pointers to both, an array of the other, the other by value, a callback that
  takes a pointer back, and a type without a size. `MaxDepth` is 11, the depth
  that `DeepEnough` gives for two structs and ways of three types between them
  (pointer, function, pointer). The longest nest that occurs is eight calls: with
  a bound of 7 the run finds an overflow.
* Pipeline: two edits give three versions of the database, one more than a
  mixture of old and new needs; two of the four spaces stand for all, since the
  order of the actions within a group is that of a sequence either way.

Fairness. `Plugin` asks for `WF` of the two steps of a callback that has begun
(`Logged`, `Returned`): it is one C++ function on the thread it was called on, and
nothing can run in between. `TypeManager` asks for `WF` of the steps of a running
call, for the same reason. Nothing is asked of the user: F3, keys, edits in IDA
and requests for a type may never come. The other specifications have no fairness
and no liveness property.

## 4. The proofs

All statements are for every value of the constants under the named assumptions
of the modules, which TLC evaluates on every instance.

`PluginProof`:

* `TypeCorrect`: `TypeOK` is inductive as it stands. It contains what the rest
  relies on: a running callback is about an item of its own view, a function of
  the database has a name, and a view's map leads to items of its function. The
  work is in the operators with a `CHOOSE`: the last rename, the first type and
  the first key exist, because spaces and pcs are ordered and bounded (`LastHit`,
  `FirstHit`, `FirstKey`, which rest on `MinNat` and `MaxNat`).
* `RecordsOwned` (`SlotOwner`): with `TypeOK`, a save writes the slots of a
  variable of the view's function, a clear only removes.
* `EditsOneFunction` (`OtherFunctionsKept`): what a variable recovers depends on
  the records of its own function (`NameOfOwnRecords`, `TypeOfOwnRecords`), and a
  save changes those of one function.
* `NoFreedResult` (`HandlerViewLive`), `TokensExact`, `CallsKnown`: the two on
  tokens hold of every `Result` when it is made, and views only come and go.

`LocalsProof`: `EditsImplementTable` (`LocalsEdited`) and `TypedNameTaken`
(`RenameTakes`). They need conditions on the program, which `shared_slots` shows
are not idle: no two locals share a record (`DisjointSlots`), no record of one is
for an operation where another is in use at the same place (`DisjointUse`), nothing typed holds
a `|` (`PlainTyped`), and for the second that each local is in use where one of
its records is (`RecordsReached`). A local has one record for each pc of its
location where the table has one row, so the refinement rests on `Table`: the
records of a local are all the same, and hold what was typed. With `SlotOwner`, a record that is
found for a local was written for it (`FoundOwn`); so the order in which records are
applied no longer matters, and a save or a clear changes one row
(`NameRow`, `TypeRow`, `ClearRow`).

`KeywordProof` is about `_ComputeKeyword` on any line. A line is a sequence of
pieces, and `Written` says where the cells of each are: piece `i` ends at cell
`e[i]`, its characters are the columns up to `o[i]`, and it has two cells of tag
before and two behind unless it is plain. The three scans are then taken one by
one: `WalkPiece` and `WalkEnds` say at which cell the walk stops for a column,
`WordEndFound` where the word ends, `TagBeforeFound` which tag is the last before
it. `Walk` is a recursive function; what is proved of it is not an induction with
a predicate as a parameter, which the prover cannot use, but that the set of
numbers for which a statement holds contains 0 and successors (`AllNat`).
`WordAt` and `TaggedWord` put the scans together for a column inside a tagged
token, `BlankWord`, `EdgeWord` and `PlainWord` for the others: on a blank, or
behind the line, a word begins with the code of a colour or a blank and is never a
name.

`CursorProof`: the lines of `Cursor` are `Written` (`TextWritten`), since the
elements of a flattened sequence are found behind those of the parts before
(`FlattenParts`). The invariant of the specification is `Clicked`: the line
is that of the view, and the last double click was at one of its columns and has
the word and the place that are read there. `CursorTyped`, `WordIsExact`
and `OnlyItsWord` follow for every set of views, any number of tokens per
line and any cells behind it. `LettersNavigate` is what holds of the promise that the
run `underscored` finds broken. They rest on `CursorAssumption`,
`KeywordAssumption` (characters are neither escapes nor NUL, no colour has the code
of a letter or digit: the codes of `print.cc:18-58` are below 0x30)
and `ViewAssumption` (a token is about something of its view, and `Spaced`).

`FrameIsExact`: Ghidra's offset of a variable and IDA's
`soff - base` are the same number modulo 2^32 and modulo 2^64. For every width, what
`findStackVar` compares is equal exactly if the places are, and what the
double click adds wraps back to the place. A name of the frame belongs to one member, so a
word that names a variable leads to one place.

`ScopeProof`: `IInv` says where the symbols of the proxy come from. Each one is
Ghidra's own, or has the name the database has now, or is a registered call
(`AllSound`); a call comes first at its number (`CallsFirst`); before the questions
there is only the function that is decompiled, complete (`OnlyRoot`); and an
address first asked about by `findFunction` starts with a complete function
(`AskedFirst`). Every question adds at most one symbol, at the end, which makes
the first function at an address stay the first (`FirstKept`). `ScopeTypes`,
`FunctionsPrepared`, `SyscallsAnswer`, `NamesStayCurrent` and the refinement
`ReadThrough` follow, for every database, table, language and order of questions;
the last assumes `NumbersGiven`, that a registered call is behind every number
that is asked about.
`MachinesLoad` (`DocumentedLoads`) assumes that Ghidra has a language file for
each of the 24 ids in `DocumentedIds`, which `MCScope` asserts of its instance, and may have any
others. The invariant `Reasons` says that a start only fails on an unknown processor or a
missing id; that no documented machine lacks one goes through the processors
(`IdDocumented`).

`PipelineProof`: the invariant `IInv` says how far the six stages have come. In
stage k, `applied` is the actions of the stages before (`Prefix`) and the part of
this one that is done, in order, and the groups still to come stand where their
`perform` must find them. `Breaks` alone is not inductive: that the second call of
the main group starts at the breakpoint needs the position in the first. Nothing
in `IInv` constrains the statuses before `Reset`, which is the point: whatever an
exception left is irrelevant. From it follow `PipelineTypes`, `SplitAtBreak` and
`Refines`, the refinement of `Decompiler`: every step is a step of the interface
or leaves its variables alone.

`TypeManagerProof`: `StructOnce` and `OpenOnStack` are not inductive. `IInv` adds
that a struct on the stack is in the cache (so nobody enters it again), that
every part a call holds is in the cache (so returning one opens no struct), and
that a call holds no more parts than it has, fewer while it waits. `TypesCorrect`,
`ParsedOnce` and `FieldsSet` follow, for every type graph, every set of refused
structs and every stack depth. After an exception the invariant holds of an empty
stack and says nothing of open structs (`broken`) until `Clear` has removed them.

`DeepEnough` (`NoOverflow`) bounds the recursion. The condition `Layered` is that
the ways from struct to struct are finite: each type that is no struct has a height
below `k`, and its parts that are no structs are lower. This is what C allows, where
only a struct can be named before it is complete. Then a stack of `Nesting(n, k)`, which is
`n * (k + 1) + k` calls for `n` structs, never overflows. The invariant `DeepIn` says
of each call how much room is left above it: a type that is no struct opens at most as many
calls as its height before a struct comes, and a struct that comes is none of those
on the stack (`OpenIn`), of which there are at most `n`. `MCTypeManager`
asserts that its databases meet the conditions.

Only model-checked: the liveness properties `EditShown` and `Resolved`, which are
out of the prover's reach. Every other property of a passing run is the statement of a theorem.

## 5. Not modelled, and why

* Ghidra itself: which variables, calls and types a function has are constants.
  `ActionRestartGroup` may start a function over within a `perform`; it is not in
  `Pipeline`, whose main group has one pass. What the MIPS `t9` action and the
  Control Flow Guard rule do to p-code is its data flow; which language gets them
  is in `Startup`.
* Names with a `|`, for which `findName` cuts the text in the wrong place and may
  throw: `LocalSymbols` has them and the theorems of `LocalsProof` exclude them,
  but no instance of a run types one.
* Two names for one structure, and what Ghidra does with a name set twice: each
  type of `TypeManager` is its name. The kinds of base types and the types of the
  parameters of system calls. What cleanup, demangling and the cut at a parenthesis make of
  a name (`GetName`): a name is a value, and its title is `Short`.
* Key X, which opens a window and changes nothing; the wording of dialogs, line
  breaks and indentation.
* Functions made again at another start address.
* Methods of the scope that throw because they are not implemented, other than as
  a `Leave` at any point; those that pass a question on unchanged.
* The components listed as `not_modelled` in `PROJECT.json`, each with its reason.

## 6. Plan

Done, in this order: the records and the plugin (the only part of Yagi that
changes the user's database), the result, the pipeline, the type manager; then the
scope with the start of the plugin and the system calls, the word under the
cursor with the printer and the frame, and the table of locals as a theorem; then
the scans of `_ComputeKeyword` on every line, the depth of the type recursion from
the number of structs, and the start of every documented machine, as theorems.

Left, each with what stands in its way:

1. Functions made again at another start, which needs records that outlive their
   function in `Plugin`.
2. Two names for one structure in `TypeManager`.
3. Instances with names that hold a `|`, next to a promise the code makes of them.
