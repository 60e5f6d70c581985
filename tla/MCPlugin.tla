------------------------------ MODULE MCPlugin ------------------------------
(***************************************************************************)
(* Small programs for the Plugin specification.                            *)
(*                                                                         *)
(*   Local*: one function whose locals live in the stack (a parameter      *)
(*     read at two places) and behind a constant; no record is shared.     *)
(*   Call*: the same function where two stack parameters are read only     *)
(*     by one instruction, so that they share the record of its pc.        *)
(*   View*: f calls g and uses the data d; g is named like an import,      *)
(*     and so may f and d be, so that titles coincide.                     *)
(***************************************************************************)
EXTENDS Plugin, FiniteSets, TLC

CONSTANTS f, g, d, r, s, c, a, b, mem, imp, none, int

N(x) == [pre |-> 0, base |-> x]
P(x) == [pre |-> 1, base |-> x]
At(fn, space, off, pcs) ==
    [fn |-> fn, space |-> space, offset |-> off, pc |-> pcs]

\* Everything the programs have in common.
MCPc == 1 .. 3
MCOffset == {0, 1}
MCShort == [x \in Base |-> x]

\* What std::stoull makes of a text after its first '|': here, nothing.
MCSplit == [x \in Barred |-> Throws]

\* A function with two locals, and one without.
LocalLoc == s :> At(f, "stack", 0, {1, 2}) @@ c :> At(f, "const", 1, {2, 3})
LocalLive == s :> {1, 2} @@ c :> {2, 3}
LocalAuto == s :> N(b) @@ c :> N(imp)
LocalFrame == s :> N(mem) @@ c :> none
LocalRank == s :> 1 @@ c :> 2 @@ f :> 3 @@ g :> 4
LocalNameOf == f :> N(f) @@ g :> N(g)
LocalTypeOf == f :> none @@ g :> none
LocalNone == f :> {} @@ g :> {}
TypedPlain == {N(a), N(b)}

\* The same function with two parameters read by one instruction.
CallLoc == r :> At(f, "stack", 0, {2}) @@ s :> At(f, "stack", 1, {2})
CallLive == r :> {2} @@ s :> {2}
CallAuto == r :> N(a) @@ s :> N(b)
CallFrame == r :> none @@ s :> none
CallRank == r :> 1 @@ s :> 2 @@ f :> 3
CallNameOf == f :> N(f)
CallTypeOf == f :> none
CallNone == f :> {}
TypedE == {N(mem)}

\* Two functions and a data item.
ViewLoc == r :> At(f, "stack", 0, {1}) @@ s :> At(g, "const", 0, {1})
ViewLive == r :> {1} @@ s :> {1}
ViewAuto == r :> N(a) @@ s :> N(a)
ViewFrame == r :> none @@ s :> none
ViewRamName == f :> N(f) @@ g :> N(g) @@ d :> N(d)
ViewCalls == f :> {g} @@ g :> {}
ViewRefs == f :> {d} @@ g :> {}
ViewRank == r :> 1 @@ s :> 2 @@ d :> 3 @@ f :> 4 @@ g :> 5
ViewNameOf == f :> N(f) @@ g :> N(imp) @@ d :> N(d)
ViewTypeOf == f :> none @@ g :> int @@ d :> none
TypedLocal == {P(b)}
TypedImport == {N(imp)}

\* The state space is explored up to two open views.
TwoViews == Cardinality(views) <= 2
=============================================================================
