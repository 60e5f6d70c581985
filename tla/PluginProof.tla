----------------------------- MODULE PluginProof -----------------------------
(***************************************************************************)
(* Proofs about the Plugin specification, for every program, every set of  *)
(* names and types, and any number of views.  They start with what a       *)
(* decompilation makes of the records: the choices the code makes (the     *)
(* last rename, the first type, the first symbol of a token) always have a *)
(* candidate, and what they give is well typed.                            *)
(***************************************************************************)
EXTENDS Plugin, NatLemmas

-----------------------------------------------------------------------------
(* The order in which records are applied *)

\* Everything the choice of a record relies on: a record is looked up at a
\* space and a pc, and both are ordered.
LEMMA Places ==
  ASSUME NEW H \in SUBSET (Space \X Pc), NEW h \in H
  PROVE  /\ h = <<h[1], h[2]>>
         /\ h[1] \in Space /\ h[2] \in 0 .. MaxPc
         /\ Pass[h[1]] \in 1 .. 4
<1>1. h \in Space \X Pc
  OBVIOUS
<1>2. h[1] \in Space /\ h[2] \in Pc /\ h = <<h[1], h[2]>>
  BY <1>1
<1>3. Pass[h[1]] \in 1 .. 4
  BY <1>2 DEF Pass, Space
<1> QED BY <1>2, <1>3, PcAssumption

LEMMA PassInjective ==
  ASSUME NEW s \in Space, NEW t \in Space, Pass[s] = Pass[t]
  PROVE  s = t
BY DEF Space, Pass

\* Of the places at which records are found, one is passed last.
LEMMA LastHit ==
  ASSUME NEW H \in SUBSET (Space \X Pc), H # {}
  PROVE  \E h \in H : \A g \in H : g = h \/ Before(g, h)
<1> DEFINE T == {Pass[h[1]] : h \in H}
<1>1. T \in SUBSET (0 .. 4) /\ T # {}
  BY Places
<1>2. PICK m \in T : \A n \in T : n <= m
  BY <1>1, MaxNat
<1>3. PICK k \in H : Pass[k[1]] = m
  BY <1>2
<1> DEFINE Q == {h[2] : h \in {x \in H : x[1] = k[1]}}
<1>4. Q \in SUBSET (0 .. MaxPc) /\ Q # {}
  BY <1>3, Places
<1>5. PICK q \in Q : \A p \in Q : p <= q
  BY <1>4, MaxNat, PcAssumption
<1>6. PICK h \in H : h[1] = k[1] /\ h[2] = q
  BY <1>5
<1>7. ASSUME NEW g \in H
      PROVE  g = h \/ Before(g, h)
  <2>1. Pass[g[1]] <= Pass[h[1]] /\ Pass[g[1]] \in 1 .. 4 /\ Pass[h[1]] \in 1 .. 4
    BY <1>2, <1>3, <1>6, Places
  <2>2. CASE Pass[g[1]] = Pass[h[1]]
    <3>1. g[1] = h[1]
      BY <2>2, PassInjective, Places
    <3>2. g[2] <= h[2] /\ g[2] \in Int /\ h[2] \in Int
      BY <3>1, <1>4, <1>5, <1>6
    <3>3. CASE g[2] = h[2]
      BY <3>1, <3>3, Places
    <3>4. CASE g[2] < h[2]
      BY <2>2, <3>4 DEF Before
    <3> QED BY <3>2, <3>3, <3>4
  <2>3. CASE Pass[g[1]] < Pass[h[1]]
    BY <2>3 DEF Before
  <2> QED BY <2>1, <2>2, <2>3
<1> QED BY <1>7

\* And one is passed first.
LEMMA FirstHit ==
  ASSUME NEW H \in SUBSET (Space \X Pc), H # {}
  PROVE  \E h \in H : \A g \in H : g = h \/ Before(h, g)
<1> DEFINE T == {Pass[h[1]] : h \in H}
<1>1. T \in SUBSET Nat /\ T # {}
  BY Places
<1>2. PICK m \in T : \A n \in T : m <= n
  BY <1>1, MinNat
<1>3. PICK k \in H : Pass[k[1]] = m
  BY <1>2
<1> DEFINE Q == {h[2] : h \in {x \in H : x[1] = k[1]}}
<1>4. Q \in SUBSET Nat /\ Q # {}
  BY <1>3, Places
<1>5. PICK q \in Q : \A p \in Q : q <= p
  BY <1>4, MinNat
<1>6. PICK h \in H : h[1] = k[1] /\ h[2] = q
  BY <1>5
<1>7. ASSUME NEW g \in H
      PROVE  g = h \/ Before(h, g)
  <2>1. Pass[h[1]] <= Pass[g[1]] /\ Pass[g[1]] \in 1 .. 4 /\ Pass[h[1]] \in 1 .. 4
    BY <1>2, <1>3, <1>6, Places
  <2>2. CASE Pass[g[1]] = Pass[h[1]]
    <3>1. g[1] = h[1]
      BY <2>2, PassInjective, Places
    <3>2. h[2] <= g[2] /\ g[2] \in Int /\ h[2] \in Int
      BY <3>1, <1>4, <1>5, <1>6
    <3>3. CASE g[2] = h[2]
      BY <3>1, <3>3, Places
    <3>4. CASE h[2] < g[2]
      BY <2>2, <3>4 DEF Before
    <3> QED BY <3>2, <3>3, <3>4
  <2>3. CASE Pass[h[1]] < Pass[g[1]]
    BY <2>3 DEF Before
  <2> QED BY <2>1, <2>2, <2>3
<1> QED BY <1>7
-----------------------------------------------------------------------------
(* Names and types of locals *)

\* The places at which a variable is looked up are places of its function.
LEMMA LookupsTyped ==
  ASSUME NEW v \in Var
  PROVE  /\ Loc[v] \in Location
         /\ Lookups[v] \subseteq Space \X Pc
<1>1. Loc[v] \in Location /\ Loc[v].fn \in Func
  BY LocAssumption DEF Location
<1>2. \A w \in Var : Loc[w].pc \subseteq Pc
  BY LocAssumption DEF Location
<1>3. Ops[Loc[v].fn] \subseteq Pc
  BY <1>1, <1>2 DEF Ops, Vars
<1> QED BY <1>1, <1>3 DEF Lookups

\* What is read back from a record is a name of the user's or a part of it.
LEMMA FindNameTyped ==
  ASSUME NEW db \in [Slot -> NameEntry \cup {None}],
         NEW f \in Func, NEW s \in Space, NEW p \in Pc
  PROVE  FindName(db, f, s, p) \in NameEntry \cup {None, Throws}
<1> DEFINE e == db[<<f, s, p>>]
<1>1. e \in NameEntry \cup {None}
  BY DEF Slot
<1>2. CASE e = None
  BY <1>2 DEF FindName
<1>3. CASE e # None /\ e.value.base \notin Barred
  BY <1>1, <1>3 DEF FindName
<1>4. CASE e # None /\ e.value.base \in Barred
  <2> DEFINE cut == Split[e.value.base]
  <2>1. cut \in [base : Base, offset : Offset] \cup {Throws}
    BY <1>4, SplitAssumption
  <2>2. e.value.pre \in 0 .. MaxPrefix
    BY <1>1, <1>4 DEF NameEntry, Name
  <2>3. CASE cut = Throws
    BY <1>4, <2>3 DEF FindName
  <2>4. CASE cut # Throws
    <3>1. cut.base \in Base /\ cut.offset \in Offset
      BY <2>1, <2>4
    <3>2. [value |-> [pre |-> e.value.pre, base |-> cut.base],
           offset |-> cut.offset] \in NameEntry
      BY <2>2, <3>1 DEF NameEntry, Name
    <3> QED BY <1>4, <2>4, <3>2 DEF FindName
  <2> QED BY <2>3, <2>4
<1> QED BY <1>2, <1>3, <1>4

LEMMA RecoveredNameTyped ==
  ASSUME NEW db \in [Slot -> NameEntry \cup {None}], NEW v \in Var
  PROVE  RecoveredName(db, v) \in Name
<1> DEFINE H == NameHits(db, v)
<1>1. CASE H = {}
  <2>1. SyncName(v) \in Name
    BY NameAssumption DEF SyncName
  <2> QED BY <1>1, <2>1 DEF RecoveredName
<1>2. CASE H # {}
  <2> DEFINE last == CHOOSE h \in H : \A g \in H : g = h \/ Before(g, h)
  <2>1. H \in SUBSET (Space \X Pc)
    BY LookupsTyped DEF NameHits
  <2>2. \E h \in H : \A g \in H : g = h \/ Before(g, h)
    BY <1>2, <2>1, LastHit
  <2>3. last \in H
    BY <2>2
  <2>4. last[1] \in Space /\ last[2] \in Pc
    BY <2>1, <2>3
  <2>5. FindName(db, Loc[v].fn, last[1], last[2]) \in NameEntry
    <3>1. FindName(db, Loc[v].fn, last[1], last[2])
             \in NameEntry \cup {None, Throws}
      BY <2>4, LookupsTyped, FindNameTyped DEF Location
    <3>2. FindName(db, Loc[v].fn, last[1], last[2]) \notin {None, Throws}
      BY <2>3 DEF NameHits
    <3> QED BY <3>1, <3>2
  <2> QED BY <1>2, <2>5 DEF RecoveredName, NameEntry
<1> QED BY <1>1, <1>2

LEMMA RecoveredTypeTyped ==
  ASSUME NEW db \in [Slot -> TypeEntry \cup {None}], NEW v \in Var
  PROVE  RecoveredType(db, v) \in TypeName \cup {None}
<1> DEFINE H == TypeHits(db, v)
<1>1. CASE H = {} \/ v \in Preset
  BY <1>1 DEF RecoveredType
<1>2. CASE H # {} /\ v \notin Preset
  <2> DEFINE first == CHOOSE h \in H : \A g \in H : g = h \/ Before(h, g)
  <2>1. H \in SUBSET (Space \X Pc)
    BY LookupsTyped DEF TypeHits
  <2>2. \E h \in H : \A g \in H : g = h \/ Before(h, g)
    BY <1>2, <2>1, FirstHit
  <2>3. first \in H
    BY <2>2
  <2>4. <<Loc[v].fn, first[1], first[2]>> \in Slot
    BY <2>1, <2>3, LookupsTyped DEF Location, Slot
  <2>5. FindType(db, Loc[v].fn, first[1], first[2]) \in TypeEntry
    BY <2>3, <2>4 DEF TypeHits, FindType
  <2> QED BY <1>2, <2>5 DEF RecoveredType, TypeEntry
<1> QED BY <1>1, <1>2

-----------------------------------------------------------------------------
(* The result of a decompilation *)

LEMMA GetNameTyped ==
  ASSUME NEW n \in Name
  PROVE  GetName(n) \in Token
<1>1. n.pre \in 0 .. MaxPrefix /\ n.base \in Base /\ n = [pre |-> n.pre, base |-> n.base]
  BY DEF Name
<1>2. [n EXCEPT !.pre = n.pre + 1] = [pre |-> n.pre + 1, base |-> n.base]
  BY <1>1
<1>3. n.pre \in 0 .. MaxPrefix + 1 /\ n.pre + 1 \in 0 .. MaxPrefix + 1
  BY <1>1, NameAssumption
<1> QED BY <1>1, <1>2, <1>3 DEF GetName, Token

LEMMA NameIsToken == Name \subseteq Token
<1>1. 0 .. MaxPrefix \subseteq 0 .. MaxPrefix + 1
  BY NameAssumption
<1> QED BY <1>1 DEF Name, Token

LEMMA StripTyped ==
  ASSUME NEW n \in Token
  PROVE  Strip(n) \in Token
<1>1. n.pre \in 0 .. MaxPrefix + 1 /\ n.base \in Base /\ n = [pre |-> n.pre, base |-> n.base]
  BY DEF Token
<1>2. \A m \in 0 .. MaxPrefix + 1 :
        [n EXCEPT !.pre = m] = [pre |-> m, base |-> n.base]
  BY <1>1
<1>3. (IF n.pre = 0 THEN 0 ELSE n.pre - 1) \in 0 .. MaxPrefix + 1
  BY <1>1, NameAssumption
<1> QED BY <1>1, <1>2, <1>3 DEF Strip, Token

LEMMA GlobalNameTyped ==
  ASSUME NEW gdb \in [Global -> Name \cup {None}], NEW g \in Global
  PROVE  GlobalName(gdb, g) \in Token
<1>1. CASE gdb[g] = None
  BY <1>1, ItemAssumption, NameIsToken DEF GlobalName
<1>2. CASE gdb[g] # None
  BY <1>2, GetNameTyped DEF GlobalName
<1> QED BY <1>1, <1>2

\* What a function shows are its locals, its data, its callees and itself.
LEMMA ItemsTyped ==
  ASSUME NEW f \in Func
  PROVE  /\ Items[f] \subseteq Item
         /\ Items[f] \cap Var = Vars[f]
         /\ Vars[f] \cup Refs[f] \cup Calls[f] \cup {f} = Items[f]
         /\ Vars[f] \subseteq Var /\ Refs[f] \subseteq Data /\ Calls[f] \subseteq Func
BY ItemAssumption DEF Items, Item, Global, Vars

LEMMA PrintedTyped ==
  ASSUME NEW db \in [Slot -> NameEntry \cup {None}],
         NEW gdb \in [Global -> Name \cup {None}],
         NEW i \in Item
  PROVE  /\ SymbolName(db, gdb, i) \in Token
         /\ Printed(db, gdb, i) \in Token
<1>1. SymbolName(db, gdb, i) \in Token
  <2>1. CASE i \in Var
    BY <2>1, RecoveredNameTyped, NameIsToken DEF SymbolName
  <2>2. CASE i \notin Var
    BY <2>2, GlobalNameTyped DEF SymbolName, Item
  <2> QED BY <2>1, <2>2
<1> QED BY <1>1, StripTyped DEF Printed

\* Of the keys for one token there is an earliest, and it is the one that
\* std::map::emplace keeps.
LEMMA EarliestKey ==
  ASSUME NEW K \in SUBSET (Token \X (1 .. 3) \X Item), K # {}
  PROVE  \E k \in K : \A l \in K : Earlier(k, l)
<1>0. \A k \in K : k[2] \in 1 .. 3 /\ k[3] \in Item /\ Rank[k[3]] \in Nat
  BY ItemAssumption
<1> DEFINE T == {k[2] : k \in K}
<1>1. T \in SUBSET Nat /\ T # {}
  BY <1>0
<1>2. PICK m \in T : \A n \in T : m <= n
  BY <1>1, MinNat
<1> DEFINE Q == {Rank[k[3]] : k \in {l \in K : l[2] = m}}
<1>3. Q \in SUBSET Nat /\ Q # {}
  BY <1>0, <1>2
<1>4. PICK q \in Q : \A r \in Q : q <= r
  BY <1>3, MinNat
<1>5. PICK k \in K : k[2] = m /\ Rank[k[3]] = q
  BY <1>4
<1>6. ASSUME NEW l \in K
      PROVE  Earlier(k, l)
  <2>1. m <= l[2] /\ m \in Nat /\ l[2] \in Nat
    BY <1>0, <1>1, <1>2
  <2>2. CASE m < l[2]
    BY <2>2, <1>5 DEF Earlier
  <2>3. CASE m = l[2]
    BY <2>3, <1>4, <1>5 DEF Earlier
  <2> QED BY <2>1, <2>2, <2>3
<1> QED BY <1>6

LEMMA KeysTyped ==
  ASSUME NEW db \in [Slot -> NameEntry \cup {None}],
         NEW gdb \in [Global -> Name \cup {None}],
         NEW f \in Func
  PROVE  SymbolKeys(db, gdb, f) \in SUBSET (Token \X (1 .. 3) \X Items[f])
<1>1. \A i \in Vars[f] \cup Refs[f] : SymbolName(db, gdb, i) \in Token
  BY ItemsTyped, PrintedTyped
<1>2. GlobalName(gdb, f) \in Token
  BY GlobalNameTyped DEF Global
<1>3. \A g \in Calls[f] : Strip(GlobalName(gdb, g)) \in Token
  BY ItemsTyped, GlobalNameTyped, StripTyped DEF Global
<1> QED BY <1>1, <1>2, <1>3, ItemsTyped DEF SymbolKeys

\* The map has an item for each of its tokens: the first key with it.
LEMMA FirstKey ==
  ASSUME NEW db \in [Slot -> NameEntry \cup {None}],
         NEW gdb \in [Global -> Name \cup {None}],
         NEW f \in Func,
         NEW t \in {k[1] : k \in SymbolKeys(db, gdb, f)}
  PROVE  LET keys == SymbolKeys(db, gdb, f)
             first == CHOOSE k \in keys :
                         k[1] = t /\ \A l \in keys : l[1] = t => Earlier(k, l)
         IN  first \in keys /\ first[1] = t
<1> DEFINE keys == SymbolKeys(db, gdb, f)
           K == {k \in keys : k[1] = t}
<1>1. K \in SUBSET (Token \X (1 .. 3) \X Item) /\ K # {}
  BY KeysTyped, ItemsTyped
<1>2. PICK k \in K : \A l \in K : Earlier(k, l)
  BY <1>1, EarliestKey
<1>3. k \in keys /\ k[1] = t /\ \A l \in keys : l[1] = t => Earlier(k, l)
  BY <1>2
<1> QED BY <1>3

LEMMA SymbolMapTyped ==
  ASSUME NEW db \in [Slot -> NameEntry \cup {None}],
         NEW gdb \in [Global -> Name \cup {None}],
         NEW f \in Func
  PROVE  SymbolMap(db, gdb, f)
            \in [{k[1] : k \in SymbolKeys(db, gdb, f)} -> Items[f]]
<1> DEFINE keys == SymbolKeys(db, gdb, f)
           First(t) == CHOOSE k \in keys :
                          k[1] = t /\ \A l \in keys : l[1] = t => Earlier(k, l)
<1>1. \A t \in {k[1] : k \in keys} : First(t) \in keys
  BY FirstKey
<1>2. \A t \in {k[1] : k \in keys} : First(t)[3] \in Items[f]
  <2>1. keys \in SUBSET (Token \X (1 .. 3) \X Items[f])
    BY KeysTyped
  <2> HIDE DEF keys, First
  <2> QED BY <1>1, <2>1
<1> QED BY <1>2 DEF SymbolMap

-----------------------------------------------------------------------------
(* What the operations on the store and on the views return *)

LEMMA SaveNameTyped ==
  ASSUME NEW db \in [Slot -> NameEntry \cup {None}],
         NEW f \in Func, NEW loc \in Location, NEW n \in Name
  PROVE  SaveName(db, f, loc, n) \in [Slot -> NameEntry \cup {None}]
<1>1. [value |-> n, offset |-> loc.offset] \in NameEntry
  BY DEF Location, NameEntry
<1> QED BY <1>1 DEF SaveName, SaveIn

LEMMA SaveTypeTyped ==
  ASSUME NEW db \in [Slot -> TypeEntry \cup {None}],
         NEW f \in Func, NEW loc \in Location, NEW t \in TypeName
  PROVE  SaveType(db, f, loc, t) \in [Slot -> TypeEntry \cup {None}]
<1>1. [value |-> t, offset |-> loc.offset] \in TypeEntry
  BY DEF Location, TypeEntry
<1> QED BY <1>1 DEF SaveType, SaveIn

LEMMA ClearTypeTyped ==
  ASSUME NEW db \in [Slot -> TypeEntry \cup {None}],
         NEW f \in Func, NEW loc \in Location
  PROVE  ClearType(db, f, loc) \in [Slot -> TypeEntry \cup {None}]
BY DEF ClearType

LEMMA TitleTyped ==
  ASSUME TypeOK, NEW f \in alive
  PROVE  Title(f) \in Token
<1>1. gname[f] \in Name /\ f \in Global
  BY NameAssumption DEF TypeOK, Global
<1>2. gname[f] = [pre |-> gname[f].pre, base |-> gname[f].base]
      /\ gname[f].pre \in 0 .. MaxPrefix /\ gname[f].base \in Base
  BY <1>1 DEF Name
<1>3. Short[gname[f].base] \in Base
  BY <1>2, PluginAssumption
<1>4. [gname[f] EXCEPT !.base = Short[gname[f].base]] \in Name
  BY <1>1, <1>3 DEF Name
<1> QED BY <1>4, GetNameTyped DEF Title

LEMMA ResultTyped ==
  ASSUME TypeOK, NEW f \in alive
  PROVE  View(Result(names, types, gname, gtype, f, Title(f)))
<1> DEFINE w == Result(names, types, gname, gtype, f, Title(f))
<1>1. f \in Func
  BY DEF TypeOK
<1>2. w.title \in Token /\ w.fn = f
  BY TitleTyped DEF Result
<1>3. w.shown \in [Items[f] -> Token]
  <2>1. \A i \in Items[f] : Printed(names, gname, i) \in Token
    BY <1>1, ItemsTyped, PrintedTyped DEF TypeOK
  <2> QED BY <2>1 DEF Result
<1>4. w.sym \in [DOMAIN w.sym -> Items[f]]
  <2>1. w.sym = SymbolMap(names, gname, f)
    BY DEF Result
  <2>2. SymbolMap(names, gname, f)
           \in [{k[1] : k \in SymbolKeys(names, gname, f)} -> Items[f]]
    BY <1>1, SymbolMapTyped DEF TypeOK
  <2> QED BY <2>1, <2>2
<1>5. w.typed \in [Items[f] -> TypeName \cup {None}]
  <2>1. ASSUME NEW i \in Items[f]
        PROVE  SymbolType(types, gtype, i) \in TypeName \cup {None}
    <3>1. i \in Var \/ (i \notin Var /\ i \in Global)
      BY <1>1, ItemsTyped DEF Item
    <3>2. CASE i \in Var
      BY <3>2, RecoveredTypeTyped DEF SymbolType, TypeOK
    <3>3. CASE i \notin Var /\ i \in Global
      BY <3>3 DEF SymbolType, TypeOK
    <3> QED BY <3>1, <3>2, <3>3
  <2> QED BY <2>1 DEF Result
<1> QED BY <1>1, <1>2, <1>3, <1>4, <1>5 DEF View

\* Running the plugin keeps every view a view.
LEMMA RunTyped ==
  ASSUME TypeOK, Run
  PROVE  \A w \in views' : View(w)
<1>1. CASE /\ screen \in alive
           /\ Show(Result(names, types, gname, gtype, screen, Title(screen)))
  <2> DEFINE r == Result(names, types, gname, gtype, screen, Title(screen))
  <2>1. View(r)
    BY <1>1, ResultTyped
  <2>2. views' \subseteq views \cup {r}
    BY <1>1 DEF Show
  <2>3. \A w \in views : View(w)
    BY DEF TypeOK
  <2> QED BY <2>1, <2>2, <2>3
<1>2. CASE UNCHANGED views
  BY <1>2 DEF TypeOK
<1> QED BY <1>1, <1>2 DEF Run

\* The token the user points at names an item of the view's function; when
\* it is a local, it is a local of that function.
LEMMA TargetTyped ==
  ASSUME TypeOK, NEW w \in views, NEW i, NEW x, Resolves(w, i, x)
  PROVE  /\ View(w) /\ w.fn \in Func
         /\ x \in Items[w.fn] /\ x \in Item
         /\ x \in Var => x \in Vars[w.fn] /\ Loc[x].fn = w.fn /\ Loc[x] \in Location
<1>1. View(w) /\ w.fn \in Func
  BY DEF TypeOK, View
<1>2. x \in Items[w.fn]
  BY <1>1 DEF Resolves, View
<1>3. Items[w.fn] \subseteq Item /\ Items[w.fn] \cap Var = Vars[w.fn]
  BY <1>1, ItemsTyped
<1> QED BY <1>1, <1>2, <1>3, LocAssumption DEF Vars

LEMMA RunningFields ==
  ASSUME NEW st, NEW w, NEW i
  PROVE  /\ Running(st, w, i).stage = st
         /\ Running(st, w, i).view = w
         /\ Running(st, w, i).at = i
BY DEF Running

\* A callback that goes on is about an item of its view.
LEMMA RunningTyped ==
  ASSUME TypeOK, NEW w \in views, NEW i, NEW x, Resolves(w, i, x),
         NEW st \in {"log", "redraw", "aborted"},
         handler' = Running(st, w, x)
  PROVE  /\ handler' = Running(handler'.stage, handler'.view, handler'.at)
         /\ handler'.stage \in {"log", "redraw", "aborted"}
         /\ View(handler'.view)
         /\ handler'.at \in Items[handler'.view.fn]
BY RunningFields, TargetTyped
-----------------------------------------------------------------------------
(* Type correctness *)

\* The type invariant holds in every state of every program: no callback, on
\* however stale a view, writes a record, a name or a view that the others
\* could not read.
THEOREM TypeCorrect == Spec => []TypeOK
<1>1. Init => TypeOK
  BY PluginAssumption, NameAssumption
  DEF Init, TypeOK, NoNames, NoTypes, Global
<1>2. ASSUME TypeOK, [Next]_vars
      PROVE  TypeOK'
  <2> USE <1>2 DEF TypeOK
  <2>1. ASSUME Decompile PROVE TypeOK'
    <3>1. \A w \in views' : View(w)
      BY <2>1, RunTyped DEF Decompile
    <3> QED BY <2>1, <3>1 DEF Decompile, store, ida
  <2>2. ASSUME NEW w \in views, NEW i \in Item, NEW n \in Name, RenameGlobal(w, i, n)
        PROVE  TypeOK'
    <3>1. PICK x \in Global :
             /\ Resolves(w, i, x)
             /\ SetName(x, n)
             /\ handler' = Running("redraw", w, x)
             /\ UNCHANGED <<store, gtype, alive, screen, views>>
      BY <2>2 DEF RenameGlobal
    <3>2. gname' \in [Global -> Name \cup {None}] /\ \A f \in alive : gname'[f] # None
      BY <3>1, NameAssumption DEF SetName, Global
    <3> QED BY <3>1, <3>2, RunningTyped DEF store
  <2>3. ASSUME NEW w \in views, NEW i \in Item, NEW n \in Name, RenameLocal(w, i, n)
        PROVE  TypeOK'
    <3>1. PICK v \in Var :
             /\ Resolves(w, i, v)
             /\ names' = SaveName(names, w.fn, Loc[v], n)
             /\ handler' = Running("redraw", w, v)
             /\ UNCHANGED <<types, ida, views>>
      BY <2>3 DEF RenameLocal
    <3>2. names' \in [Slot -> NameEntry \cup {None}]
      BY <3>1, TargetTyped, SaveNameTyped
    <3> QED BY <3>1, <3>2, RunningTyped DEF ida
  <2>4. ASSUME NEW w \in views, NEW i \in Item, NEW t \in TypeName, RetypeGlobal(w, i, t)
        PROVE  TypeOK'
    <3>1. PICK x \in Global :
             /\ Resolves(w, i, x)
             /\ gtype' = [gtype EXCEPT ![x] = t]
             /\ handler' = Running("redraw", w, x)
             /\ UNCHANGED <<store, gname, alive, screen, views>>
      BY <2>4 DEF RetypeGlobal
    <3> QED BY <3>1, RunningTyped DEF store
  <2>5. ASSUME NEW w \in views, NEW i \in Item, NEW t \in TypeName, RetypeLocal(w, i, t)
        PROVE  TypeOK'
    <3>1. PICK v \in Var :
             /\ Resolves(w, i, v)
             /\ \/ /\ types' = SaveType(types, w.fn, Loc[v], t)
                   /\ handler' = Running("redraw", w, v)
                \/ /\ handler' = Running("aborted", w, v)
                   /\ UNCHANGED types
             /\ UNCHANGED <<names, ida, views>>
      BY <2>5 DEF RetypeLocal
    <3>2. types' \in [Slot -> TypeEntry \cup {None}]
      BY <3>1, TargetTyped, SaveTypeTyped
    <3> QED BY <3>1, <3>2, RunningTyped DEF ida
  <2>6. ASSUME NEW w \in views, NEW i \in Item, ClearLocal(w, i)
        PROVE  TypeOK'
    <3>1. PICK x \in Item :
             /\ Resolves(w, i, x)
             /\ \/ /\ x \in Var
                   /\ types' = ClearType(types, w.fn, Loc[x])
                   /\ handler' = Running("log", w, x)
                \/ /\ handler' = Running("aborted", w, x)
                   /\ UNCHANGED types
             /\ UNCHANGED <<names, ida, views>>
      BY <2>6 DEF ClearLocal
    <3>2. types' \in [Slot -> TypeEntry \cup {None}]
      BY <3>1, TargetTyped, ClearTypeTyped
    <3> QED BY <3>1, <3>2, RunningTyped DEF ida
  <2>7. ASSUME NEW w \in views, NEW i \in Item, DoubleClick(w, i)
        PROVE  TypeOK'
    <3>1. PICK x \in Item :
             /\ Resolves(w, i, x)
             /\ \/ x \in Func /\ screen' = x /\ UNCHANGED handler
                \/ screen' = None /\ UNCHANGED handler
                \/ handler' = Running("aborted", w, x) /\ UNCHANGED screen
             /\ UNCHANGED <<store, gname, gtype, alive, views>>
      BY <2>7 DEF DoubleClick
    <3> QED BY <3>1, RunningTyped DEF store
  <2>8. ASSUME LogClear PROVE TypeOK'
    <3>1. handler # Idle
      BY <2>8 DEF LogClear, Logged, Idle
    <3>2. /\ handler' = Running("redraw", handler.view, handler.at)
          /\ UNCHANGED <<names, types, gname, gtype, alive, screen, views>>
      BY <2>8 DEF LogClear, Logged, store, ida
    <3> QED BY <3>1, <3>2, RunningFields
  <2>9. ASSUME Redraw PROVE TypeOK'
    <3>1. \A w \in views' : View(w)
      BY <2>9, RunTyped DEF Redraw
    <3> QED BY <2>9, <3>1 DEF Redraw, Returned, store, ida
  <2>10. ASSUME NEW w \in views, CloseView(w) PROVE TypeOK'
    BY <2>10 DEF CloseView, store, ida
  <2>11. ASSUME NEW f \in Func, MoveCursor(f) PROVE TypeOK'
    BY <2>11 DEF MoveCursor, store
  <2>12. ASSUME NEW f \in Func, DeleteFunction(f) PROVE TypeOK'
    BY <2>12 DEF DeleteFunction, store, Global
  <2>13. ASSUME NEW f \in Func, CreateFunction(f) PROVE TypeOK'
    BY <2>13, ItemAssumption, NameAssumption DEF CreateFunction, store, Global
  <2>14. CASE UNCHANGED vars
    BY <2>14 DEF vars
  <2> QED
    BY <2>1, <2>2, <2>3, <2>4, <2>5, <2>6, <2>7, <2>8, <2>9, <2>10, <2>11,
       <2>12, <2>13, <2>14 DEF Next, Edit, Ida
<1> QED BY <1>1, <1>2, PTL DEF Spec
-----------------------------------------------------------------------------
(* Where records are written *)

\* Only the three edits of locals write records, for the target of the key.
LEMMA RecordSteps ==
  ASSUME TypeOK, [Next]_vars
  PROVE  \/ UNCHANGED <<names, types>>
         \/ \E w \in views, v \in Var, st \in {"log", "redraw"} :
               /\ View(w) /\ w.fn = Loc[v].fn /\ Loc[v] \in Location
               /\ handler' = Running(st, w, v)
               /\ \/ \E n \in Typed : names' = SaveName(names, Loc[v].fn, Loc[v], n)
                                      /\ UNCHANGED types
                  \/ \E t \in TypeName : types' = SaveType(types, Loc[v].fn, Loc[v], t)
                                         /\ UNCHANGED names
                  \/ types' = ClearType(types, Loc[v].fn, Loc[v]) /\ UNCHANGED names
<1>1. ASSUME NEW w \in views, NEW i \in Item, NEW n \in Name, RenameLocal(w, i, n)
      PROVE  \E v \in Var : /\ View(w) /\ w.fn = Loc[v].fn /\ Loc[v] \in Location
                            /\ handler' = Running("redraw", w, v)
                            /\ n \in Typed
                            /\ names' = SaveName(names, Loc[v].fn, Loc[v], n)
                            /\ UNCHANGED types
  <2>1. PICK v \in Var : /\ Resolves(w, i, v)
                         /\ n \in Typed
                         /\ names' = SaveName(names, w.fn, Loc[v], n)
                         /\ handler' = Running("redraw", w, v)
                         /\ UNCHANGED types
    BY <1>1 DEF RenameLocal
  <2>2. View(w) /\ w.fn = Loc[v].fn /\ Loc[v] \in Location
    BY <2>1, TargetTyped
  <2> QED BY <2>1, <2>2
<1>2. ASSUME NEW w \in views, NEW i \in Item, NEW t \in TypeName, RetypeLocal(w, i, t)
      PROVE  \/ UNCHANGED <<names, types>>
             \/ \E v \in Var : /\ View(w) /\ w.fn = Loc[v].fn /\ Loc[v] \in Location
                               /\ handler' = Running("redraw", w, v)
                               /\ types' = SaveType(types, Loc[v].fn, Loc[v], t)
                               /\ UNCHANGED names
  <2>1. PICK v \in Var : /\ Resolves(w, i, v)
                         /\ \/ /\ types' = SaveType(types, w.fn, Loc[v], t)
                               /\ handler' = Running("redraw", w, v)
                            \/ UNCHANGED types
                         /\ UNCHANGED names
    BY <1>2 DEF RetypeLocal
  <2>2. View(w) /\ w.fn = Loc[v].fn /\ Loc[v] \in Location
    BY <2>1, TargetTyped
  <2> QED BY <2>1, <2>2
<1>3. ASSUME NEW w \in views, NEW i \in Item, ClearLocal(w, i)
      PROVE  \/ UNCHANGED <<names, types>>
             \/ \E v \in Var : /\ View(w) /\ w.fn = Loc[v].fn /\ Loc[v] \in Location
                               /\ handler' = Running("log", w, v)
                               /\ types' = ClearType(types, Loc[v].fn, Loc[v])
                               /\ UNCHANGED names
  <2>1. PICK x \in Item : /\ Resolves(w, i, x)
                          /\ \/ /\ x \in Var
                                /\ types' = ClearType(types, w.fn, Loc[x])
                                /\ handler' = Running("log", w, x)
                             \/ UNCHANGED types
                          /\ UNCHANGED names
    BY <1>3 DEF ClearLocal
  <2>2. x \in Var => View(w) /\ w.fn = Loc[x].fn /\ Loc[x] \in Location
    BY <2>1, TargetTyped
  <2> QED BY <2>1, <2>2
<1>4. ASSUME NEW w \in views, NEW i \in Item, NEW n \in Name, RenameGlobal(w, i, n)
      PROVE  UNCHANGED <<names, types>>
  BY <1>4 DEF RenameGlobal, store
<1>5. ASSUME NEW w \in views, NEW i \in Item, NEW t \in TypeName, RetypeGlobal(w, i, t)
      PROVE  UNCHANGED <<names, types>>
  BY <1>5 DEF RetypeGlobal, store
<1>6. ASSUME NEW w \in views, NEW i \in Item, DoubleClick(w, i)
      PROVE  UNCHANGED <<names, types>>
  BY <1>6 DEF DoubleClick, store
<1>7. ASSUME Decompile \/ LogClear \/ Redraw \/ Ida
      PROVE  UNCHANGED <<names, types>>
  BY <1>7 DEF Decompile, LogClear, Redraw, Ida, CloseView, MoveCursor,
              DeleteFunction, CreateFunction, store
<1>8. CASE UNCHANGED vars
  BY <1>8 DEF vars
<1>9. CASE Edit
  <2>1. PICK w \in views, i \in Item :
           \/ \E n \in Name : RenameGlobal(w, i, n) \/ RenameLocal(w, i, n)
           \/ \E t \in TypeName : RetypeGlobal(w, i, t) \/ RetypeLocal(w, i, t)
           \/ ClearLocal(w, i)
           \/ DoubleClick(w, i)
    BY <1>9 DEF Edit
  <2>2. CASE \E n \in Name : RenameGlobal(w, i, n) \/ RenameLocal(w, i, n)
    BY <2>2, <1>1, <1>4
  <2>3. CASE \E t \in TypeName : RetypeGlobal(w, i, t) \/ RetypeLocal(w, i, t)
    BY <2>3, <1>2, <1>5
  <2>4. CASE ClearLocal(w, i)
    BY <2>4, <1>3
  <2>5. CASE DoubleClick(w, i)
    BY <2>5, <1>6
  <2> QED BY <2>1, <2>2, <2>3, <2>4, <2>5
<1> QED BY <1>7, <1>8, <1>9 DEF Next

\* A slot in which a local is saved is one of its own slots.
LEMMA SaveOwned ==
  ASSUME NEW db, NEW v \in Var, NEW x, Owned(db)
  PROVE  Owned(SaveIn(db, Loc[v].fn, Loc[v], x))
<1> DEFINE new == SaveIn(db, Loc[v].fn, Loc[v], x)
<1>1. ASSUME NEW k \in Slot, new[k] # None
      PROVE  \E u \in Var : k \in SlotsOf(u) /\ new[k].offset = Loc[u].offset
  <2>1. CASE k[1] = Loc[v].fn /\ k[2] = Loc[v].space /\ k[3] \in Loc[v].pc
    <3>1. k \in SlotsOf(v)
      BY <2>1 DEF SlotsOf, Slot
    <3>2. new[k].offset = Loc[v].offset
      BY <2>1 DEF SaveIn
    <3> QED BY <3>1, <3>2
  <2>2. CASE ~(k[1] = Loc[v].fn /\ k[2] = Loc[v].space /\ k[3] \in Loc[v].pc)
    <3>1. new[k] = db[k]
      BY <2>2 DEF SaveIn
    <3> QED BY <3>1, <1>1 DEF Owned
  <2> QED BY <2>1, <2>2
<1> QED BY <1>1 DEF Owned

LEMMA ClearOwned ==
  ASSUME NEW db, NEW f, NEW loc, Owned(db)
  PROVE  Owned(ClearType(db, f, loc))
BY DEF Owned, ClearType

\* No sequence of edits, deletions and stale views leaves a record that was
\* not written for a local of the function in its key, at its own offset.
THEOREM RecordsOwned == Spec => []SlotOwner
<1>1. Init => SlotOwner
  BY DEF Init, SlotOwner, Owned, NoNames, NoTypes
<1>2. ASSUME TypeOK, SlotOwner, [Next]_vars
      PROVE  SlotOwner'
  <2>1. CASE UNCHANGED <<names, types>>
    BY <1>2, <2>1 DEF SlotOwner, Owned
  <2>2. ASSUME NEW v \in Var, NEW n, names' = SaveName(names, Loc[v].fn, Loc[v], n),
               UNCHANGED types
        PROVE  SlotOwner'
    <3>1. Owned(SaveName(names, Loc[v].fn, Loc[v], n))
      BY <1>2, SaveOwned DEF SlotOwner, SaveName
    <3> QED BY <3>1, <2>2, <1>2 DEF SlotOwner, Owned
  <2>3. ASSUME NEW v \in Var, NEW t, types' = SaveType(types, Loc[v].fn, Loc[v], t),
               UNCHANGED names
        PROVE  SlotOwner'
    <3>1. Owned(SaveType(types, Loc[v].fn, Loc[v], t))
      BY <1>2, SaveOwned DEF SlotOwner, SaveType
    <3> QED BY <3>1, <2>3, <1>2 DEF SlotOwner, Owned
  <2>4. ASSUME NEW v \in Var, types' = ClearType(types, Loc[v].fn, Loc[v]),
               UNCHANGED names
        PROVE  SlotOwner'
    <3>1. Owned(ClearType(types, Loc[v].fn, Loc[v]))
      BY <1>2, ClearOwned DEF SlotOwner
    <3> QED BY <3>1, <2>4, <1>2 DEF SlotOwner, Owned
  <2> QED BY <1>2, RecordSteps, <2>1, <2>2, <2>3, <2>4
<1> QED BY <1>1, <1>2, TypeCorrect, PTL DEF Spec
-----------------------------------------------------------------------------
(* What an edit changes *)

\* The name of a local depends on the records of its own function only.
LEMMA NameOfOwnRecords ==
  ASSUME NEW old, NEW new, NEW v \in Var,
         \A s \in Space, p \in Pc : new[<<Loc[v].fn, s, p>>] = old[<<Loc[v].fn, s, p>>]
  PROVE  RecoveredName(new, v) = RecoveredName(old, v)
<1>1. \A s \in Space, p \in Pc :
         FindName(new, Loc[v].fn, s, p) = FindName(old, Loc[v].fn, s, p)
  BY DEF FindName
<1>2. NameHits(new, v) = NameHits(old, v)
  BY <1>1, LookupsTyped DEF NameHits
<1> DEFINE H == NameHits(old, v)
           last == CHOOSE h \in H : \A g \in H : g = h \/ Before(g, h)
<1>3. CASE H = {}
  BY <1>2, <1>3 DEF RecoveredName
<1>4. CASE H # {}
  <2>1. H \in SUBSET (Space \X Pc)
    BY LookupsTyped DEF NameHits
  <2>2. \E h \in H : \A g \in H : g = h \/ Before(g, h)
    BY <1>4, <2>1, LastHit
  <2>3. last \in H
    BY <2>2
  <2>4. FindName(new, Loc[v].fn, last[1], last[2])
           = FindName(old, Loc[v].fn, last[1], last[2])
    BY <1>1, <2>1, <2>3
  <2> QED BY <1>2, <1>4, <2>4 DEF RecoveredName
<1> QED BY <1>3, <1>4

LEMMA TypeOfOwnRecords ==
  ASSUME NEW old, NEW new, NEW v \in Var,
         \A s \in Space, p \in Pc : new[<<Loc[v].fn, s, p>>] = old[<<Loc[v].fn, s, p>>]
  PROVE  RecoveredType(new, v) = RecoveredType(old, v)
<1>1. \A s \in Space, p \in Pc :
         FindType(new, Loc[v].fn, s, p) = FindType(old, Loc[v].fn, s, p)
  BY DEF FindType
<1>2. TypeHits(new, v) = TypeHits(old, v)
  BY <1>1, LookupsTyped DEF TypeHits
<1> DEFINE H == TypeHits(old, v)
           first == CHOOSE h \in H : \A g \in H : g = h \/ Before(h, g)
<1>3. CASE H = {} \/ v \in Preset
  BY <1>2, <1>3 DEF RecoveredType
<1>4. CASE H # {} /\ v \notin Preset
  <2>1. H \in SUBSET (Space \X Pc)
    BY LookupsTyped DEF TypeHits
  <2>2. \E h \in H : \A g \in H : g = h \/ Before(h, g)
    BY <1>4, <2>1, FirstHit
  <2>3. first \in H
    BY <2>2
  <2>4. FindType(new, Loc[v].fn, first[1], first[2])
           = FindType(old, Loc[v].fn, first[1], first[2])
    BY <1>1, <2>1, <2>3
  <2> QED BY <1>2, <1>4, <2>4 DEF RecoveredType
<1> QED BY <1>3, <1>4

\* Saving and clearing touch the records of one function.
LEMMA SaveInOneFunction ==
  ASSUME NEW db, NEW f \in Func, NEW g \in Func, f # g, NEW loc, NEW x,
         NEW s \in Space, NEW p \in Pc
  PROVE  /\ SaveIn(db, f, loc, x)[<<g, s, p>>] = db[<<g, s, p>>]
         /\ ClearType(db, f, loc)[<<g, s, p>>] = db[<<g, s, p>>]
BY DEF SaveIn, ClearType, Slot

\* An edit leaves what every other function is decompiled to as it was,
\* whatever the view it was made in still believed about the program.
THEOREM EditsOneFunction == Spec => OtherFunctionsKept
<1> DEFINE Kept ==
      \A v \in Var :
          (\/ RecoveredName(names', v) # RecoveredName(names, v)
           \/ RecoveredType(types', v) # RecoveredType(types, v))
              => /\ handler' # Idle
                 /\ handler'.view.fn = Loc[v].fn
<1>1. ASSUME TypeOK, [Next]_vars
      PROVE  Kept
  <2>1. CASE UNCHANGED <<names, types>>
    BY <2>1
  <2>2. ASSUME NEW w \in views, NEW u \in Var, NEW st \in {"log", "redraw"},
               w.fn = Loc[u].fn, handler' = Running(st, w, u),
               \/ \E n \in Typed : names' = SaveName(names, Loc[u].fn, Loc[u], n)
                                   /\ UNCHANGED types
               \/ \E t \in TypeName : types' = SaveType(types, Loc[u].fn, Loc[u], t)
                                      /\ UNCHANGED names
               \/ types' = ClearType(types, Loc[u].fn, Loc[u]) /\ UNCHANGED names
        PROVE  Kept
    <3>1. handler' # Idle /\ handler'.view.fn = Loc[u].fn
      BY <2>2, RunningFields DEF Running, Idle
    <3>2. ASSUME NEW v \in Var, Loc[v].fn # Loc[u].fn
          PROVE  /\ RecoveredName(names', v) = RecoveredName(names, v)
                 /\ RecoveredType(types', v) = RecoveredType(types, v)
      <4>1. Loc[v].fn \in Func /\ Loc[u].fn \in Func
        BY LocAssumption DEF Location
      <4>2. \A s \in Space, p \in Pc :
               names'[<<Loc[v].fn, s, p>>] = names[<<Loc[v].fn, s, p>>]
        BY <2>2, <3>2, <4>1, SaveInOneFunction DEF SaveName
      <4>3. \A s \in Space, p \in Pc :
               types'[<<Loc[v].fn, s, p>>] = types[<<Loc[v].fn, s, p>>]
        BY <2>2, <3>2, <4>1, SaveInOneFunction, SMTT(30) DEF SaveType
      <4> QED BY <4>2, <4>3, NameOfOwnRecords, TypeOfOwnRecords
    <3> QED BY <3>1, <3>2
  <2> QED BY <1>1, RecordSteps, <2>1, <2>2
<1>2. TypeOK /\ [Next]_vars => [Kept]_vars
  BY <1>1
<1> QED BY <1>2, TypeCorrect, PTL DEF Spec, OtherFunctionsKept

-----------------------------------------------------------------------------
(* Callbacks and their view *)

\* No callback reads a Result that its own redraw, or the user, has freed.
THEOREM NoFreedResult == Spec => []HandlerViewLive
<1>1. Init => HandlerViewLive
  BY DEF Init, HandlerViewLive, Idle
<1>2. ASSUME HandlerViewLive, [Next]_vars
      PROVE  HandlerViewLive'
  <2> USE <1>2 DEF HandlerViewLive
  <2>1. ASSUME Edit
        PROVE  \/ handler' = handler /\ handler = Idle
               \/ handler'.stage \in {"redraw", "aborted"}
               \/ handler'.stage = "log" /\ handler'.view \in views'
    <3>1. PICK w \in views, i \in Item :
             \/ \E n \in Name : RenameGlobal(w, i, n) \/ RenameLocal(w, i, n)
             \/ \E t \in TypeName : RetypeGlobal(w, i, t) \/ RetypeLocal(w, i, t)
             \/ ClearLocal(w, i)
             \/ DoubleClick(w, i)
      BY <2>1 DEF Edit
    <3>2. CASE \E n \in Name : RenameGlobal(w, i, n) \/ RenameLocal(w, i, n)
      BY <3>2, RunningFields DEF RenameGlobal, RenameLocal
    <3>3. CASE \E t \in TypeName : RetypeGlobal(w, i, t) \/ RetypeLocal(w, i, t)
      BY <3>3, RunningFields DEF RetypeGlobal, RetypeLocal
    <3>4. CASE ClearLocal(w, i)
      BY <3>4, RunningFields DEF ClearLocal
    <3>5. CASE DoubleClick(w, i)
      BY <3>5, RunningFields DEF DoubleClick, Resolves
    <3> QED BY <3>1, <3>2, <3>3, <3>4, <3>5
  <2>2. ASSUME LogClear
        PROVE  handler'.stage = "redraw"
    BY <2>2, RunningFields DEF LogClear, Logged
  <2>3. ASSUME Decompile \/ Redraw \/ Ida
        PROVE  handler' = Idle
    BY <2>3 DEF Decompile, Redraw, Returned, Ida, CloseView, MoveCursor,
                DeleteFunction, CreateFunction
  <2>4. CASE UNCHANGED vars
    BY <2>4 DEF vars
  <2> QED BY <2>1, <2>2, <2>3, <2>4 DEF Next, Idle
<1> QED BY <1>1, <1>2, PTL DEF Spec

-----------------------------------------------------------------------------
(* Tokens *)

\* What TokenExact and TokenKnown say of one view.
ExactIn(w) ==
    \A i \in Items[w.fn] :
        (/\ w.shown[i].pre = 0
         /\ \A j \in Items[w.fn] \ {i} : w.shown[j] # w.shown[i]
         /\ w.shown[i] \in DOMAIN w.sym)
            => w.sym[w.shown[i]] = i

KnownIn(w) == \A g \in Calls[w.fn] : w.shown[g] \in DOMAIN w.sym

\* A key without prefix is printed as it is, whichever source it comes from.
LEMMA KeyIsPrinted ==
  ASSUME TypeOK, NEW f \in Func, NEW k \in SymbolKeys(names, gname, f), k[1].pre = 0
  PROVE  k[3] \in Items[f] /\ Printed(names, gname, k[3]) = k[1]
<1>1. \A n \in Token : n.pre = 0 => Strip(n) = n
  BY DEF Token, Strip
<1>2. CASE \E i \in Vars[f] \cup Refs[f] : k = <<SymbolName(names, gname, i), 1, i>>
  <2>1. PICK i \in Vars[f] \cup Refs[f] : k = <<SymbolName(names, gname, i), 1, i>>
    BY <1>2
  <2>2. i \in Items[f] /\ i \in Item
    BY ItemsTyped
  <2>3. SymbolName(names, gname, i) \in Token
    BY <2>2, PrintedTyped DEF TypeOK
  <2> QED BY <1>1, <2>1, <2>2, <2>3 DEF Printed
<1>3. CASE k = <<GlobalName(gname, f), 2, f>>
  <2>1. f \in Items[f] /\ f \in Global /\ f \notin Var
    BY ItemsTyped, ItemAssumption DEF Global
  <2>2. GlobalName(gname, f) \in Token
    BY <2>1, GlobalNameTyped DEF TypeOK
  <2> QED BY <1>1, <1>3, <2>1, <2>2 DEF Printed, SymbolName
<1>4. CASE \E g \in Calls[f] : k = <<Strip(GlobalName(gname, g)), 3, g>>
  <2>1. PICK g \in Calls[f] : k = <<Strip(GlobalName(gname, g)), 3, g>>
    BY <1>4
  <2>2. g \in Items[f] /\ g \notin Var
    BY ItemsTyped, ItemAssumption DEF Global
  <2> QED BY <2>1, <2>2 DEF Printed, SymbolName
<1> QED BY <1>2, <1>3, <1>4 DEF SymbolKeys

LEMMA ResultExact ==
  ASSUME TypeOK, NEW f \in alive
  PROVE  ExactIn(Result(names, types, gname, gtype, f, Title(f)))
<1> DEFINE w == Result(names, types, gname, gtype, f, Title(f))
           keys == SymbolKeys(names, gname, f)
           First(t) == CHOOSE k \in keys :
                          k[1] = t /\ \A l \in keys : l[1] = t => Earlier(k, l)
<1>1. /\ f \in Func /\ w.fn = f
      /\ \A i \in Items[f] : w.shown[i] = Printed(names, gname, i)
      /\ w.sym = SymbolMap(names, gname, f)
  BY DEF Result, TypeOK
<1>2. SUFFICES ASSUME NEW i \in Items[f],
                      w.shown[i].pre = 0,
                      \A j \in Items[f] \ {i} : w.shown[j] # w.shown[i],
                      w.shown[i] \in DOMAIN w.sym
               PROVE  w.sym[w.shown[i]] = i
  BY <1>1 DEF ExactIn
<1> DEFINE t == w.shown[i]
<1>3. t \in {k[1] : k \in keys} /\ w.sym[t] = First(t)[3]
  BY <1>1, <1>2 DEF SymbolMap
<1>4. First(t) \in keys /\ First(t)[1] = t
  BY <1>1, <1>3, FirstKey DEF TypeOK
<1>5. First(t)[3] \in Items[f] /\ Printed(names, gname, First(t)[3]) = t
  BY <1>1, <1>2, <1>4, KeyIsPrinted
<1> QED BY <1>1, <1>2, <1>3, <1>5

LEMMA ResultKnown ==
  ASSUME TypeOK, NEW f \in alive
  PROVE  KnownIn(Result(names, types, gname, gtype, f, Title(f)))
<1> DEFINE w == Result(names, types, gname, gtype, f, Title(f))
<1>1. f \in Func /\ w.fn = f /\ w.sym = SymbolMap(names, gname, f)
  BY DEF Result, TypeOK
<1>2. ASSUME NEW g \in Calls[f]
      PROVE  w.shown[g] \in DOMAIN w.sym
  <2>1. g \in Items[f] /\ g \notin Var
    BY <1>1, ItemsTyped, ItemAssumption DEF Global
  <2>2. w.shown[g] = Strip(GlobalName(gname, g))
    BY <2>1 DEF Result, Printed, SymbolName
  <2>3. <<Strip(GlobalName(gname, g)), 3, g>> \in SymbolKeys(names, gname, f)
    BY DEF SymbolKeys
  <2>4. DOMAIN w.sym = {k[1] : k \in SymbolKeys(names, gname, f)}
    BY <1>1 DEF SymbolMap
  <2> QED BY <2>2, <2>3, <2>4
<1> QED BY <1>1, <1>2 DEF KnownIn

\* Only a run of the plugin adds a view, and the view it adds is a Result.
LEMMA ViewSteps ==
  ASSUME TypeOK, [Next]_vars
  PROVE  \/ views' \subseteq views
         \/ \E f \in alive : views' \subseteq
                views \cup {Result(names, types, gname, gtype, f, Title(f))}
<1>1. CASE Decompile \/ Redraw
  BY <1>1 DEF Decompile, Redraw, Run, Show
<1>2. CASE Edit
  BY <1>2 DEF Edit, RenameGlobal, RenameLocal, RetypeGlobal, RetypeLocal,
              ClearLocal, DoubleClick
<1>3. CASE LogClear \/ Ida
  BY <1>3 DEF LogClear, Ida, CloseView, MoveCursor, DeleteFunction, CreateFunction
<1>4. CASE UNCHANGED vars
  BY <1>4 DEF vars
<1> QED BY <1>1, <1>2, <1>3, <1>4 DEF Next

\* In every view that was ever opened, a token without prefix that only one
\* item shows leads to that item and to no other.
THEOREM TokensExact == Spec => []TokenExact
<1>1. Init => TokenExact
  BY DEF Init, TokenExact
<1>2. ASSUME TypeOK, TokenExact, [Next]_vars
      PROVE  TokenExact'
  <2>1. \A w \in views : ExactIn(w)
    BY <1>2 DEF TokenExact, ExactIn
  <2>2. \A w \in views' : ExactIn(w)
    BY <1>2, <2>1, ViewSteps, ResultExact
  <2> QED BY <2>2 DEF TokenExact, ExactIn
<1> QED BY <1>1, <1>2, TypeCorrect, PTL DEF Spec

\* In every view, the name of every call can be pointed at.
THEOREM CallsKnown == Spec => []TokenKnown
<1>1. Init => TokenKnown
  BY DEF Init, TokenKnown
<1>2. ASSUME TypeOK, TokenKnown, [Next]_vars
      PROVE  TokenKnown'
  <2>1. \A w \in views : KnownIn(w)
    BY <1>2 DEF TokenKnown, KnownIn
  <2>2. \A w \in views' : KnownIn(w)
    BY <1>2, <2>1, ViewSteps, ResultKnown
  <2> QED BY <2>2 DEF TokenKnown, KnownIn
<1> QED BY <1>1, <1>2, TypeCorrect, PTL DEF Spec
=============================================================================
