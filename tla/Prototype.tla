------------------------------ MODULE Prototype ------------------------------
(***************************************************************************)
(* TypeManager::update: the prototype a function symbol gets from the type *)
(* IDA has for its address.                                                *)
(***************************************************************************)
EXTENDS Startup

CONSTANTS
    Models,     \* calling conventions of a language, by id
    ModelOrder  \* all of them, in the order of Ghidra's map

Conventions == {"__fastcall", "__stdcall", "__thiscall", "__cdecl"}

\* What IDA answers about the type of an address.
\*   kind    no type, one of data, of a function, of a pointer to a function,
\*           or one that Ghidra's factory of types refuses
\*   args    parameters of the function
\*   located whether IDA can compute where they are
\*   hidden  whether Ghidra passes the address of the result as one more
\*   cc      calling convention, or "unknown"
IdaType ==
    [kind : {"none", "data", "func", "ptr", "bad"}, args : Nat,
     located : BOOLEAN, hidden : BOOLEAN, cc : Conventions \cup {"unknown"}]

\* getCallingConv, or the default of parseFunc.
Convention(t) == IF t.cc = "unknown" THEN "__stdcall" ELSE t.cc

\* The first model, if the language has neither that of the type nor its own.
FirstModel(ms) ==
    ModelOrder[CHOOSE i \in DOMAIN ModelOrder :
        /\ ModelOrder[i] \in ms
        /\ \A k \in 1 .. i - 1 : ModelOrder[k] \notin ms]

Model(a, t) ==
    LET ms == Models[a.id] IN
    IF Convention(t) \in ms THEN Convention(t)
    ELSE IF a.cc \in ms THEN a.cc ELSE FirstModel(ms)

\* getFuncPrototype, laid out by the model.
Slots(t) ==
    IF t.located THEN t.args + (IF t.hidden THEN 1 ELSE 0) ELSE 0

\* getFuncParamName names every parameter, those without a name too.
ParamNames(t) == t.args

NoPrototype == <<>>

\* An error of Ghidra's (LowlevelError) leaves parseFunc or findByTypeInfo.
\* Yagi's own for a type that is not to be found never does: findByTypeInfo
\* catches it and makes the type from what IDA says of it.
UpdateThrows(t) == t.kind = "bad"

\* A prototype is its model and its number of parameters; it is only handed
\* on if there is a name for each slot.
Updated(a, t) ==
    IF t.kind \in {"func", "ptr"} /\ ParamNames(t) = Slots(t)
    THEN <<Model(a, t), ParamNames(t)>>
    ELSE NoPrototype
=============================================================================
