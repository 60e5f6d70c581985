----------------------------- MODULE ScopeProof -----------------------------
(***************************************************************************)
(* Proofs about Scope, for every database, table of system calls and order *)
(* of questions.  The invariant says where each symbol of the proxy comes  *)
(* from, which makes the answers right; that they stay what they are is    *)
(* the order of the symbols at one address: the first function answers,    *)
(* and new ones come last.                                                 *)
(***************************************************************************)
EXTENDS Scope, NatLemmas, SequenceTheorems, TLAPS

Cache == [ram : [Offset -> Seq(Symbol)], syscall : [Number -> Seq(Symbol)]]

Running == phase \in {"found", "asking"}

\* A symbol is Ghidra's own, or has the name of the database, or is a system
\* call.
Sound(a, s) ==
    \/ s.kind = "global" /\ a[1] = Ram
    \/ Named(a) /\ s.name = At(a).name
    \/ /\ a[1] = Syscall /\ s.kind = "function"
       /\ s.proto # NoPrototype /\ s.proto[1] = "default"

AllSound ==
    Running =>
        \A a \in Address : \A i \in DOMAIN Symbols(a) : Sound(a, Symbols(a)[i])

\* A system call is where it was registered, once if it has a number of its
\* own.
CallsFirst ==
    phase = "asking" /\ arch.initActions # <<>> =>
        \A n \in Number :
            Calls[n] # <<>> =>
                /\ cache[Syscall][n] # <<>>
                /\ cache[Syscall][n][1] = SyscallSymbols[n][1]
                /\ Len(Calls[n]) = 1 =>
                    \A i \in DOMAIN cache[Syscall][n] :
                        cache[Syscall][n][i] = SyscallSymbols[n][1] => i = 1

\* Before the questions there is only the function that is decompiled.
OnlyRoot ==
    /\ phase = "cleared" => cache = Empty
    /\ phase \in {"cleared", "found"} => \A a \in Asked : first[a] = "none"
    /\ phase = "found" =>
        \A a \in Address : a # <<Ram, Root>> => Symbols(a) = <<>>
    /\ Running => Complete(<<Ram, Root>>)

AskedFirst ==
    phase = "asking" =>
        \A a \in Asked :
            a[1] = Ram =>
                /\ first[a] = "none" => Symbols(a) = <<>> \/ Complete(a)
                /\ first[a] = "function" /\ Named(a) => Complete(a)

Database ==
    /\ <<machine, ida>> \in Sessions
    /\ boot = "loaded" => arch.id \in Languages

IInv ==
    /\ TypeOK /\ Database
    /\ AllSound /\ CallsFirst /\ OnlyRoot /\ AskedFirst

-----------------------------------------------------------------------------
(* Sequences of symbols *)

LEMMA AddressParts ==
  ASSUME NEW a \in Address
  PROVE  /\ a = <<a[1], a[2]>>
         /\ \/ a[1] = Ram /\ a[2] \in Offset
            \/ a[1] = Syscall /\ a[2] \in Number
BY DEF Address

LEMMA CacheAt ==
  ASSUME cache \in Cache, NEW a \in Address
  PROVE  Symbols(a) \in Seq(Symbol)
BY AddressParts DEF Cache, Symbols, Ram, Syscall

\* Adding a symbol to one address leaves the others alone.
LEMMA AddAt ==
  ASSUME cache \in Cache, NEW a \in Address, NEW e \in Symbol, Add(a, e)
  PROVE  /\ cache' \in Cache
         /\ \A b \in Address :
              Symbols(b)' = IF b = a THEN Append(Symbols(a), e) ELSE Symbols(b)
<1>1. Append(Symbols(a), e) \in Seq(Symbol)
  BY CacheAt
<1>2. cache' = [cache EXCEPT ![a[1]][a[2]] = Append(Symbols(a), e)]
  BY DEF Add, Symbols
<1>3. cache' \in Cache
  BY <1>1, <1>2, AddressParts DEF Cache, Ram, Syscall
<1>4. ASSUME NEW b \in Address
      PROVE  Symbols(b)' = IF b = a THEN Append(Symbols(a), e) ELSE Symbols(b)
  <2>1. CASE b = a
    BY <1>2, <2>1, AddressParts DEF Cache, Ram, Syscall, Symbols
  <2>2. CASE b # a
    <3>1. b[1] # a[1] \/ b[2] # a[2]
      BY <2>2, AddressParts
    <3> QED BY <1>2, <2>2, <3>1, AddressParts DEF Cache, Ram, Syscall, Symbols
  <2> QED BY <2>1, <2>2
<1> QED BY <1>3, <1>4

\* The first function of a sequence that has one.
LEMMA FirstOf ==
  ASSUME NEW s \in Seq(Symbol), HasKind(s, "function")
  PROVE  \E i \in DOMAIN s :
            /\ FirstFunction(s) = s[i] /\ s[i].kind = "function"
            /\ \A k \in 1 .. i - 1 : s[k].kind # "function"
<1> DEFINE F == {i \in DOMAIN s : s[i].kind = "function"}
           Q(i) == s[i].kind = "function" /\ \A k \in 1 .. i - 1 : s[k].kind # "function"
<1>1. DOMAIN s = 1 .. Len(s) /\ Len(s) \in Nat
  OBVIOUS
<1>2. F \in SUBSET Nat /\ F # {}
  BY <1>1 DEF HasKind
<1>3. PICK m \in F : \A i \in F : m <= i
  BY <1>2, MinNat
<1>4. m \in DOMAIN s /\ Q(m)
  <2>1. ASSUME NEW k \in 1 .. m - 1 PROVE s[k].kind # "function"
    <3>1. k \in DOMAIN s /\ ~ (m <= k)
      BY <1>1, <1>3
    <3> QED BY <1>3, <3>1
  <2> QED BY <1>3, <2>1
<1>5. FirstFunction(s) = s[CHOOSE i \in DOMAIN s : Q(i)]
  BY DEF FirstFunction
<1> HIDE DEF Q
<1>6. (CHOOSE i \in DOMAIN s : Q(i)) \in DOMAIN s /\ Q(CHOOSE i \in DOMAIN s : Q(i))
  BY <1>4
<1> QED BY <1>5, <1>6 DEF Q

LEMMA FirstIs ==
  ASSUME NEW s \in Seq(Symbol), NEW i \in DOMAIN s, s[i].kind = "function",
         \A k \in 1 .. i - 1 : s[k].kind # "function"
  PROVE  HasKind(s, "function") /\ FirstFunction(s) = s[i]
<1>1. HasKind(s, "function")
  BY DEF HasKind
<1>2. PICK m \in DOMAIN s :
            /\ FirstFunction(s) = s[m] /\ s[m].kind = "function"
            /\ \A k \in 1 .. m - 1 : s[k].kind # "function"
  BY <1>1, FirstOf
<1>3. DOMAIN s = 1 .. Len(s) /\ Len(s) \in Nat
  OBVIOUS
<1>4. m = i
  BY <1>2, <1>3
<1> QED BY <1>1, <1>2, <1>4

\* What is appended does not change the first function, if there is one.
LEMMA FirstKept ==
  ASSUME NEW s \in Seq(Symbol), NEW e \in Symbol, HasKind(s, "function")
  PROVE  /\ HasKind(Append(s, e), "function")
         /\ FirstFunction(Append(s, e)) = FirstFunction(s)
<1>1. PICK i \in DOMAIN s :
            /\ FirstFunction(s) = s[i] /\ s[i].kind = "function"
            /\ \A k \in 1 .. i - 1 : s[k].kind # "function"
  BY FirstOf
<1>2. /\ Append(s, e) \in Seq(Symbol)
      /\ i \in DOMAIN Append(s, e)
      /\ \A k \in 1 .. i : Append(s, e)[k] = s[k]
  OBVIOUS
<1>3. i \in 1 .. i /\ \A k \in 1 .. i - 1 : k \in 1 .. i
  OBVIOUS
<1> QED BY <1>1, <1>2, <1>3, FirstIs

LEMMA FirstAdded ==
  ASSUME NEW s \in Seq(Symbol), NEW e \in Symbol, ~ HasKind(s, "function")
  PROVE  /\ e.kind = "function" =>
              /\ HasKind(Append(s, e), "function")
              /\ FirstFunction(Append(s, e)) = e
         /\ e.kind # "function" => ~ HasKind(Append(s, e), "function")
<1>1. /\ Append(s, e) \in Seq(Symbol) /\ Len(s) \in Nat
      /\ DOMAIN s = 1 .. Len(s) /\ DOMAIN Append(s, e) = 1 .. Len(s) + 1
      /\ \A k \in 1 .. Len(s) : Append(s, e)[k] = s[k]
      /\ Append(s, e)[Len(s) + 1] = e
  OBVIOUS
<1>2. \A k \in 1 .. Len(s) : s[k].kind # "function"
  BY <1>1 DEF HasKind
<1>3. ASSUME e.kind = "function"
      PROVE  HasKind(Append(s, e), "function") /\ FirstFunction(Append(s, e)) = e
  <2> DEFINE t == Append(s, e)
             n == Len(s) + 1
  <2>1. t \in Seq(Symbol) /\ n \in DOMAIN t /\ t[n] = e /\ n - 1 = Len(s)
    BY <1>1
  <2>2. \A k \in 1 .. n - 1 : t[k].kind # "function"
    BY <1>1, <1>2, <2>1
  <2> HIDE DEF t, n
  <2>3. HasKind(t, "function") /\ FirstFunction(t) = t[n]
    BY <1>3, <2>1, <2>2, FirstIs
  <2> QED BY <2>1, <2>3 DEF t
<1>4. ASSUME e.kind # "function" PROVE ~ HasKind(Append(s, e), "function")
  BY <1>1, <1>2, <1>4 DEF HasKind
<1> QED BY <1>3, <1>4

-----------------------------------------------------------------------------
(* The symbols that are added *)

\* The model of a prototype is one of the language, or its first.
LEMMA ModelTyped ==
  ASSUME NEW id \in Languages, NEW t \in IdaType, arch.id = id
  PROVE  Model(arch, t) \in Conventions
<1> DEFINE ms == Models[id]
           Q(i) == ModelOrder[i] \in ms /\ \A k \in 1 .. i - 1 : ModelOrder[k] \notin ms
           I == {i \in DOMAIN ModelOrder : ModelOrder[i] \in ms}
<1>1. ms \subseteq Conventions /\ I # {} /\ ModelOrder \in Seq(Conventions)
  BY ScopeAssumption DEF ScopeAssumption
<1>2. DOMAIN ModelOrder = 1 .. Len(ModelOrder) /\ Len(ModelOrder) \in Nat
  BY <1>1
<1>3. I \in SUBSET Nat
  BY <1>2
<1>4. PICK m \in I : \A i \in I : m <= i
  BY <1>1, <1>3, MinNat
<1>5. m \in DOMAIN ModelOrder /\ Q(m)
  <2>1. ASSUME NEW k \in 1 .. m - 1 PROVE ModelOrder[k] \notin ms
    <3>1. k \in DOMAIN ModelOrder /\ ~ (m <= k)
      BY <1>2, <1>4
    <3> QED BY <1>4, <3>1
  <2> QED BY <1>4, <2>1
<1>6. FirstModel(ms) = ModelOrder[CHOOSE i \in DOMAIN ModelOrder : Q(i)]
  BY DEF FirstModel
<1> HIDE DEF Q
<1>7. Q(CHOOSE i \in DOMAIN ModelOrder : Q(i))
  BY <1>5
<1>8. FirstModel(ms) \in ms
  BY <1>6, <1>7 DEF Q
<1>9. \/ Model(arch, t) = Convention(t) /\ Convention(t) \in ms
      \/ Model(arch, t) = arch.cc /\ arch.cc \in ms
      \/ Model(arch, t) = FirstModel(ms)
  BY DEF Model
<1> HIDE DEF ms
<1> QED BY <1>1, <1>8, <1>9

LEMMA UpdatedTyped ==
  ASSUME NEW t \in IdaType, arch.id \in Languages
  PROVE  Updated(arch, t) \in {NoPrototype} \cup (Conventions \X Nat)
<1>1. Model(arch, t) \in Conventions /\ ParamNames(t) \in Nat
  BY ModelTyped DEF IdaType, ParamNames
<1> QED BY <1>1 DEF Updated

\* What is added of an address: Ghidra's own symbol, or one of the database,
\* and never a system call.
Fitting(a, e) ==
    /\ e \in Symbol
    /\ e.proto # NoPrototype => e.proto[1] # "default"
    /\ \/ e.kind = "global" /\ a[1] = Ram
       \/ e.kind # "global" /\ Named(a) /\ e.name = At(a).name

LEMMA AtTyped ==
  ASSUME TypeOK, NEW a \in Address, Named(a)
  PROVE  /\ At(a) \in Item /\ At(a).name \in Name
         /\ At(a).type \in IdaType /\ At(a).readonly \in BOOLEAN
BY DEF TypeOK, Named, At, Item

LEMMA PlainTyped ==
  ASSUME NEW k \in Kind, NEW n \in Name, NEW z \in Size, NEW u \in Op \cup {Anywhere}
  PROVE  /\ Plain(k, n, z, u) \in Symbol
         /\ Plain(k, n, z, u).kind = k /\ Plain(k, n, z, u).name = n
         /\ Plain(k, n, z, u).proto = NoPrototype
BY DEF Plain, Symbol

LEMMA MappedFits ==
  ASSUME TypeOK, NEW a \in Address, Named(a), NEW k \in {"function", "external", "label"}
  PROVE  Fitting(a, Mapped(a, k)) /\ Mapped(a, k).kind = k
         /\ Mapped(a, k).proto = NoPrototype /\ Mapped(a, k).name = At(a).name
<1> DEFINE z == IF k = "external" THEN WordSize ELSE 1
<1>1. k \in Kind /\ z \in Size /\ At(a).name \in Name
  BY AtTyped DEF Kind, Size
<1>2. Mapped(a, k) = Plain(k, At(a).name, z, Anywhere)
  BY DEF Mapped
<1> HIDE DEF z
<1>3. /\ Mapped(a, k) \in Symbol /\ Mapped(a, k).kind = k
      /\ Mapped(a, k).name = At(a).name /\ Mapped(a, k).proto = NoPrototype
  BY <1>1, <1>2, PlainTyped
<1> QED BY <1>3 DEF Fitting

LEMMA InjectedFits ==
  ASSUME TypeOK, NEW a \in Address, Named(a)
  PROVE  Fitting(a, Injected(a)) /\ Injected(a).kind = "function"
<1> DEFINE s == Mapped(a, "function")
<1>1. Fitting(a, s) /\ s.kind = "function" /\ s.proto = NoPrototype
  BY MappedFits
<1>2. Injected(a) = [s EXCEPT !.inject = At(a).name \in arch.injections]
  BY DEF Injected
<1>3. (At(a).name \in arch.injections) \in BOOLEAN
  OBVIOUS
<1> HIDE DEF s
<1> QED BY <1>1, <1>2, <1>3 DEF Fitting, Symbol

LEMMA TypedFits ==
  ASSUME TypeOK, NEW a \in Address, Named(a), arch.id \in Languages,
         NEW s, Fitting(a, s), s.kind = "function"
  PROVE  Fitting(a, Typed(s, a)) /\ Typed(s, a).kind = "function"
<1> DEFINE u == Updated(arch, At(a).type)
<1>1. u \in {NoPrototype} \cup (Conventions \X Nat)
  BY AtTyped, UpdatedTyped
<1>2. u # NoPrototype => u[1] # "default"
  BY <1>1 DEF Conventions
<1>3. Typed(s, a) = [s EXCEPT !.proto = u]
  BY DEF Typed
<1> HIDE DEF u
<1>4. Typed(s, a) \in Symbol
  BY <1>1, <1>3 DEF Fitting, Symbol
<1>5. /\ Typed(s, a).kind = s.kind /\ Typed(s, a).name = s.name
      /\ Typed(s, a).proto = u
  BY <1>3 DEF Fitting, Symbol
<1> QED BY <1>2, <1>4, <1>5 DEF Fitting

LEMMA ContainerFits ==
  ASSUME TypeOK, NEW a \in Address, Named(a), a[1] = Ram,
         NEW z \in Size, NEW u \in Op \cup {Anywhere}
  PROVE  Fitting(a, ContainerSymbol(a, z, u))
<1> DEFINE w == IF At(a).type.kind = "none" THEN z ELSE WordSize
           made == IF TypeOf(At(a)) # "data" THEN Mapped(a, TypeOf(At(a)))
                   ELSE Plain("data", At(a).name, w, u)
<1>1. Fitting(a, made) /\ made.kind # "global"
  <2>1. TypeOf(At(a)) \in {"function", "external", "label", "data"}
    BY AtTyped DEF TypeOf, Item
  <2>2. CASE TypeOf(At(a)) # "data"
    <3>1. TypeOf(At(a)) \in {"function", "external", "label"}
      BY <2>1, <2>2
    <3> QED BY <2>2, <3>1, MappedFits
  <2>3. CASE TypeOf(At(a)) = "data"
    <3>1. w \in Size /\ "data" \in Kind /\ At(a).name \in Name
      BY AtTyped DEF Size, Kind
    <3>2. made = Plain("data", At(a).name, w, u)
      BY <2>3
    <3> HIDE DEF w, made
    <3>3. made \in Symbol /\ made.kind = "data" /\ made.name = At(a).name
          /\ made.proto = NoPrototype
      BY <3>1, <3>2, PlainTyped
    <3> QED BY <3>3 DEF Fitting
  <2> QED BY <2>2, <2>3
<1>2. ContainerSymbol(a, z, u) = [made EXCEPT !.readonly = At(a).readonly]
  BY DEF ContainerSymbol
<1>3. At(a).readonly \in BOOLEAN
  BY AtTyped
<1> HIDE DEF made
<1> QED BY <1>1, <1>2, <1>3 DEF Fitting, Symbol

-----------------------------------------------------------------------------
(* Questions *)

Questions == {"function", "container", "external", "label", "resolve"}

\* All questions are alike in what they change: at most one symbol is added,
\* and it fits.
Inquiry(a) ==
    /\ phase = "asking" /\ phase' \in {"asking", "idle"}
    /\ a[1] = Ram \/ arch.initActions # <<>>
    /\ UNCHANGED <<bootVars, ida, edits>>
    /\ \E q \in Questions :
        /\ first' = [first EXCEPT ![a] = IF @ = "none" THEN q ELSE @]
        /\ q = "function" => FindFunction(a)
    /\ \/ UNCHANGED cache
       \/ \E e : Fitting(a, e) /\ Add(a, e)

LEMMA ArchKnown ==
  ASSUME TypeOK, Database, phase = "asking"
  PROVE  arch.id \in Languages
BY DEF TypeOK, Database

LEMMA AskInquires ==
  ASSUME NEW a \in Asked, NEW q \in Questions, Ask(a, q), phase' \in {phase, "idle"},
         UNCHANGED cache \/ \E e : Fitting(a, e) /\ Add(a, e),
         q = "function" => FindFunction(a)
  PROVE  Inquiry(a)
BY DEF Ask, Inquiry

\* An external symbol comes from the database.
LEMMA ExternalNamed ==
  ASSUME IInv, phase = "asking", NEW a \in Address, Has(a, "external")
  PROVE  Named(a)
<1>1. PICK i \in DOMAIN Symbols(a) : Symbols(a)[i].kind = "external"
  BY DEF Has, HasKind
<1>2. Sound(a, Symbols(a)[i])
  BY DEF IInv, AllSound, Running
<1> QED BY <1>1, <1>2 DEF Sound

LEMMA FindFunctionInquires ==
  ASSUME IInv, NEW a \in Asked, FindFunction(a)
  PROVE  Inquiry(a)
<1>1. a \in Address /\ phase = "asking" /\ Ask(a, "function")
  BY ScopeAssumption DEF ScopeAssumption, FindFunction, Ask
<1>2. TypeOK /\ arch.id \in Languages
  BY <1>1, ArchKnown DEF IInv
<1>3. CASE Answered
  BY <1>1, <1>3, AskInquires DEF Answered, Questions
<1>4. CASE /\ Named(a) /\ phase' \in {phase, "idle"}
           /\ Add(a, Injected(a)) \/ Add(a, Typed(Injected(a), a))
  <2>1. Fitting(a, Injected(a)) /\ Fitting(a, Typed(Injected(a), a))
    BY <1>1, <1>2, <1>4, InjectedFits, TypedFits
  <2> QED BY <1>1, <1>4, <2>1, AskInquires DEF Questions
<1> QED BY <1>3, <1>4 DEF FindFunction, Ask

LEMMA ResolveInquires ==
  ASSUME IInv, NEW a \in Asked, ResolveExternalRefFunction(a)
  PROVE  Inquiry(a)
<1>1. a \in Address /\ phase = "asking" /\ Ask(a, "resolve") /\ Has(a, "external")
  BY ScopeAssumption DEF ScopeAssumption, ResolveExternalRefFunction, Ask
<1>2. TypeOK /\ arch.id \in Languages /\ Named(a)
  BY <1>1, ArchKnown, ExternalNamed DEF IInv
<1>3. Fitting(a, Mapped(a, "function")) /\ Mapped(a, "function").kind = "function"
  BY <1>1, <1>2, MappedFits
<1>4. Fitting(a, Typed(Mapped(a, "function"), a))
  BY <1>1, <1>2, <1>3, TypedFits
<1>5. \E e : Fitting(a, e) /\ Add(a, e)
  BY <1>3, <1>4 DEF ResolveExternalRefFunction
<1>6. phase' \in {phase, "idle"}
  BY DEF ResolveExternalRefFunction
<1> QED BY <1>1, <1>5, <1>6, AskInquires DEF Questions

LEMMA ExternalInquires ==
  ASSUME IInv, NEW a \in Asked, FindExternalRef(a)
  PROVE  Inquiry(a)
<1>1. a \in Address /\ Ask(a, "external") /\ phase' = phase /\ TypeOK
  BY ScopeAssumption DEF ScopeAssumption, FindExternalRef, Answered, IInv
<1>2. UNCHANGED cache \/ (Named(a) /\ Add(a, Mapped(a, "external")))
  BY DEF FindExternalRef, Answered
<1>3. UNCHANGED cache \/ \E e : Fitting(a, e) /\ Add(a, e)
  BY <1>1, <1>2, MappedFits
<1> QED BY <1>1, <1>3, AskInquires DEF Questions

LEMMA LabelInquires ==
  ASSUME IInv, NEW a \in Asked, FindCodeLabel(a)
  PROVE  Inquiry(a)
<1>1. a \in Address /\ Ask(a, "label") /\ phase' = phase /\ TypeOK
  BY ScopeAssumption DEF ScopeAssumption, FindCodeLabel, Answered, IInv
<1>2. UNCHANGED cache \/ (Named(a) /\ Add(a, Mapped(a, "label")))
  BY DEF FindCodeLabel, Answered
<1>3. UNCHANGED cache \/ \E e : Fitting(a, e) /\ Add(a, e)
  BY <1>1, <1>2, MappedFits
<1> QED BY <1>1, <1>3, AskInquires DEF Questions

LEMMA ContainerInquires ==
  ASSUME IInv, NEW a \in Asked, NEW z \in Size, NEW u \in Op \cup {Anywhere},
         FindContainer(a, z, u)
  PROVE  Inquiry(a)
<1>1. a \in Address /\ Ask(a, "container") /\ phase' \in {phase, "idle"} /\ TypeOK
  BY ScopeAssumption DEF ScopeAssumption, FindContainer, Answered, IInv
<1>2. \/ UNCHANGED cache
      \/ a[1] = Ram /\ Named(a) /\ Add(a, ContainerSymbol(a, z, u))
  BY DEF FindContainer, Answered
<1>3. UNCHANGED cache \/ \E e : Fitting(a, e) /\ Add(a, e)
  BY <1>1, <1>2, ContainerFits
<1> QED BY <1>1, <1>3, AskInquires DEF Questions

LEMMA GlobalInquires ==
  ASSUME NEW a \in Asked, NEW z \in Size, NEW u \in Op \cup {Anywhere},
         AddGlobal(a, z, u)
  PROVE  Inquiry(a)
<1> DEFINE e == Plain("global", "unk", z, u)
<1>1. Ask(a, "container") /\ phase' = phase /\ a[1] = Ram /\ Add(a, e)
  BY DEF AddGlobal
<1>2. "global" \in Kind /\ "unk" \in Name
  BY ScopeAssumption DEF ScopeAssumption, Kind
<1>3. e \in Symbol /\ e.kind = "global" /\ e.proto = NoPrototype
  BY <1>2, PlainTyped
<1> HIDE DEF e
<1>4. Fitting(a, e)
  BY <1>1, <1>3 DEF Fitting
<1> QED BY <1>1, <1>4, AskInquires DEF Questions

LEMMA QuestionInquires ==
  ASSUME IInv, Question
  PROVE  \E a \in Asked : Inquiry(a)
BY FindFunctionInquires, ResolveInquires, ExternalInquires, LabelInquires,
   ContainerInquires, GlobalInquires DEF Question

\* What a question leaves at each address.
LEMMA InquiryCache ==
  ASSUME TypeOK, NEW a \in Asked, Inquiry(a)
  PROVE  /\ cache' \in Cache
         /\ \A b \in Address :
              \/ Symbols(b)' = Symbols(b)
              \/ /\ b = a
                 /\ \E e : Fitting(a, e) /\ Symbols(b)' = Append(Symbols(b), e)
<1>1. a \in Address /\ cache \in Cache
  BY ScopeAssumption DEF ScopeAssumption, TypeOK, Cache
<1>2. CASE UNCHANGED cache
  BY <1>1, <1>2 DEF Symbols
<1>3. CASE \E e : Fitting(a, e) /\ Add(a, e)
  <2>1. PICK e : Fitting(a, e) /\ Add(a, e)
    BY <1>3
  <2>2. e \in Symbol
    BY <2>1 DEF Fitting
  <2>3. /\ cache' \in Cache
        /\ \A b \in Address :
             Symbols(b)' = IF b = a THEN Append(Symbols(a), e) ELSE Symbols(b)
    BY <1>1, <2>1, <2>2, AddAt
  <2> QED BY <2>1, <2>3
<1> QED BY <1>2, <1>3 DEF Inquiry

\* The function findFunction makes is the same as long as IDA's database is.
LEMMA SameFunction ==
  ASSUME NEW a \in Address, UNCHANGED <<arch, ida>>
  PROVE  Typed(Injected(a), a)' = Typed(Injected(a), a)
BY DEF Typed, Injected, Mapped, Plain, At

LEMMA CompleteKept ==
  ASSUME NEW a \in Address, Complete(a), UNCHANGED <<arch, ida>>,
         Symbols(a) \in Seq(Symbol),
         \/ Symbols(a)' = Symbols(a)
         \/ \E e \in Symbol : Symbols(a)' = Append(Symbols(a), e)
  PROVE  Complete(a)'
<1>1. /\ HasKind(Symbols(a)', "function")
      /\ FirstFunction(Symbols(a)') = FirstFunction(Symbols(a))
  BY FirstKept DEF Complete, Has
<1>2. FirstFunction(Symbols(a))' = FirstFunction(Symbols(a)')
  BY DEF FirstFunction
<1>3. Has(a, "function")'
  BY <1>1 DEF Has, HasKind
<1> QED BY <1>1, <1>2, <1>3, SameFunction DEF Complete

LEMMA MadeComplete ==
  ASSUME NEW a \in Address, UNCHANGED <<arch, ida>>,
         Symbols(a) = <<>>, Typed(Injected(a), a) \in Symbol,
         Typed(Injected(a), a).kind = "function",
         Symbols(a)' = Append(Symbols(a), Typed(Injected(a), a))
  PROVE  Complete(a)'
<1> DEFINE f == Typed(Injected(a), a)
<1>1. <<>> \in Seq(Symbol) /\ ~ HasKind(<<>>, "function")
  BY DEF HasKind
<1>2. HasKind(Symbols(a)', "function") /\ FirstFunction(Symbols(a)') = f
  <2> HIDE DEF f
  <2>1. f \in Symbol /\ f.kind = "function"
    BY DEF f
  <2> QED BY <1>1, <2>1, FirstAdded DEF f
<1>3. FirstFunction(Symbols(a))' = FirstFunction(Symbols(a)')
  BY DEF FirstFunction
<1>4. Has(a, "function")'
  BY <1>2 DEF Has, HasKind
<1> QED BY <1>2, <1>3, <1>4, SameFunction DEF Complete
-----------------------------------------------------------------------------
(* The invariant *)

LEMMA RootKnown ==
  ASSUME Database
  PROVE  /\ ida \in [Offset -> Item] /\ machine \in Machine
         /\ <<Ram, Root>> \in Address /\ Named(<<Ram, Root>>)
<1>1. /\ ida \in [Offset -> Item] /\ machine \in Machine
      /\ Root \in Offset /\ ida[Root].name # NoName
  BY ScopeAssumption DEF ScopeAssumption, Database
<1> QED BY <1>1 DEF Address, Named

\* Nothing is asked of a scope no decompilation uses.
LEMMA IdleHolds ==
  /\ phase = "idle" => AllSound /\ CallsFirst /\ OnlyRoot /\ AskedFirst
  /\ phase' = "idle" => (AllSound /\ CallsFirst /\ OnlyRoot /\ AskedFirst)'
BY DEF AllSound, CallsFirst, OnlyRoot, AskedFirst, Running

LEMMA EmptyTyped ==
  /\ Empty \in Cache
  /\ \A a \in Address : Empty[a[1]][a[2]] = <<>>
<1>1. DOMAIN Offsets = {"ram", "syscall"} /\ Offsets["ram"] = Offset
      /\ Offsets["syscall"] = Number
  BY DEF Offsets
<1>2. Empty = [ram |-> [o \in Offset |-> <<>>], syscall |-> [n \in Number |-> <<>>]]
  BY <1>1 DEF Empty
<1>3. <<>> \in Seq(Symbol)
  OBVIOUS
<1>4. ASSUME NEW a \in Address PROVE Empty[a[1]][a[2]] = <<>>
  BY <1>2, AddressParts DEF Ram, Syscall
<1> QED BY <1>2, <1>3, <1>4 DEF Cache

LEMMA InitInv == Init => IInv
<1> SUFFICES ASSUME Init PROVE IInv
  OBVIOUS
<1>1. Database
  <2>1. PICK s \in Sessions : machine = s[1] /\ ida = s[2]
    BY DEF Init
  <2>2. s = <<s[1], s[2]>>
    BY ScopeAssumption DEF ScopeAssumption
  <2> QED BY <2>1, <2>2 DEF Init, Database, BootInit
<1>2. TypeOK
  <2>1. BootTypes
    BY <1>1, RootKnown DEF Init, BootInit, BootTypes
  <2>2. cache \in Cache
    BY EmptyTyped DEF Init
  <2>3. edits \in 0 .. MaxEdits
    BY ScopeAssumption DEF ScopeAssumption, Init
  <2> QED BY <1>1, <2>1, <2>2, <2>3, RootKnown DEF Init, TypeOK, Cache
<1> QED BY <1>1, <1>2, IdleHolds DEF Init, IInv

LEMMA CompilerTyped ==
  ASSUME NEW m \in Machine, m.proc # "Unknown"
  PROVE  CompilerOf(m) \in Compiler
<1>1. /\ m.proc \in DOMAIN Family \/ m.proc = "386"
      /\ m.comp \in DOMAIN X86Family /\ m.mode \in Mode /\ m.be \in BOOLEAN
  BY DEF Machine, Processor
<1> QED BY <1>1 DEF CompilerOf, Compiler

LEMMA BootStep ==
  ASSUME IInv, Boot
  PROVE  IInv'
<1>1. TypeOK /\ Database /\ BootTypes /\ machine \in Machine
  BY DEF IInv, TypeOK, BootTypes
<1>2. boot \in {"folder", "compiler", "build"} /\ UNCHANGED <<machine, ida, phase, cache, first, edits>>
  BY DEF Boot, BootNext, FindFolder, ComputeCompiler, Build, scopeVars
<1>3. phase = "idle" /\ phase' = "idle"
  BY <1>1, <1>2 DEF TypeOK
<1>4. BootTypes' /\ Database'
  <2>1. CASE FindFolder
    BY <1>1, <2>1, <1>2 DEF FindFolder, BootTypes, Database
  <2>2. CASE ComputeCompiler
    <3>1. CASE machine.proc = "Unknown"
      BY <1>1, <2>2, <3>1, <1>2 DEF ComputeCompiler, BootTypes, Database
    <3>2. CASE machine.proc # "Unknown"
      <4>1. CompilerOf(machine) \in Compiler
        BY <1>1, <3>2, CompilerTyped
      <4> QED BY <1>1, <2>2, <3>2, <4>1, <1>2 DEF ComputeCompiler, BootTypes, Database
    <3> QED BY <3>1, <3>2
  <2>3. CASE Build
    <3>1. ASSUME NEW c PROVE ArchOf(c).id = SleighId(c)
      BY DEF ArchOf
    <3> QED BY <1>1, <2>3, <3>1, <1>2 DEF Build, BootTypes, Database
  <2> QED BY <2>1, <2>2, <2>3 DEF Boot, BootNext
<1>5. TypeOK'
  BY <1>1, <1>2, <1>3, <1>4 DEF TypeOK
<1>6. (AllSound /\ CallsFirst /\ OnlyRoot /\ AskedFirst)'
  BY <1>3, IdleHolds
<1> QED BY <1>4, <1>5, <1>6 DEF IInv

LEMMA EditStep ==
  ASSUME IInv, Edit
  PROVE  IInv'
<1>1. PICK s \in Sessions : s[1] = machine /\ ida' = s[2]
  BY DEF Edit
<1>2. s = <<s[1], s[2]>>
  BY ScopeAssumption DEF ScopeAssumption
<1>3. /\ phase = "idle" /\ phase' = "idle" /\ edits < MaxEdits /\ edits' = edits + 1
      /\ UNCHANGED <<machine, ghidra, boot, compiler, arch, cache, first>>
  BY DEF Edit, bootVars
<1>4. TypeOK /\ Database
  BY DEF IInv
<1>5. Database'
  BY <1>1, <1>2, <1>3, <1>4 DEF Database
<1>6. ida' \in [Offset -> Item]
  BY <1>1, <1>2, ScopeAssumption DEF ScopeAssumption
<1>7. edits' \in 0 .. MaxEdits
  BY <1>3, <1>4, ScopeAssumption DEF TypeOK, ScopeAssumption
<1>8. TypeOK'
  BY <1>3, <1>4, <1>6, <1>7 DEF TypeOK, BootTypes
<1> QED BY <1>3, <1>5, <1>8, IdleHolds DEF IInv

LEMMA LeaveStep ==
  ASSUME IInv, Leave
  PROVE  IInv'
<1>1. phase' = "idle" /\ UNCHANGED <<bootVars, ida, cache, first, edits>>
  BY DEF Leave
<1>2. TypeOK' /\ Database'
  BY <1>1 DEF IInv, TypeOK, BootTypes, Database, bootVars
<1> QED BY <1>1, <1>2, IdleHolds DEF IInv

LEMMA ClearStep ==
  ASSUME IInv, Clear
  PROVE  IInv'
<1>1. /\ phase' = "cleared" /\ cache' = Empty /\ boot = "loaded"
      /\ first' = [a \in Asked |-> "none"] /\ UNCHANGED <<bootVars, ida, edits>>
  BY DEF Clear
<1>2. cache' \in Cache
  BY <1>1, EmptyTyped
<1>3. TypeOK' /\ Database'
  BY <1>1, <1>2 DEF IInv, TypeOK, BootTypes, Database, bootVars, Cache
<1>4. (AllSound /\ CallsFirst /\ OnlyRoot /\ AskedFirst)'
  BY <1>1 DEF AllSound, CallsFirst, OnlyRoot, AskedFirst, Running
<1> QED BY <1>3, <1>4 DEF IInv

LEMMA FindRootStep ==
  ASSUME IInv, FindRoot
  PROVE  IInv'
<1> DEFINE r == <<Ram, Root>>
           f == Typed(Injected(r), r)
<1>1. /\ TypeOK /\ Database /\ cache \in Cache /\ phase = "cleared"
      /\ arch.id \in Languages /\ r \in Address /\ Named(r)
  <2>1. TypeOK /\ Database /\ phase = "cleared"
    BY DEF IInv, FindRoot
  <2> QED BY <2>1, RootKnown DEF TypeOK, Database, Cache
<1>2. \A a \in Address : Symbols(a) = <<>>
  BY <1>1, EmptyTyped DEF IInv, OnlyRoot, Symbols
<1>3. ~ Has(r, "function")
  BY <1>1, <1>2 DEF Has, HasKind
<1>4. Fitting(r, Injected(r)) /\ Fitting(r, f) /\ f.kind = "function"
  BY <1>1, InjectedFits, TypedFits
<1>5. \/ phase' = "idle" /\ Add(r, Injected(r))
      \/ phase' = "found" /\ Add(r, f)
  BY <1>3 DEF FindRoot
<1>6. UNCHANGED <<bootVars, ida, first, edits>>
  BY DEF FindRoot
<1> HIDE DEF f
<1>7. cache' \in Cache
  BY <1>1, <1>4, <1>5, AddAt DEF Fitting
<1>8. TypeOK' /\ Database'
  BY <1>1, <1>5, <1>6, <1>7 DEF TypeOK, BootTypes, Database, bootVars, Cache
<1>9. CASE phase' = "idle"
  BY <1>8, <1>9, IdleHolds DEF IInv
<1>10. CASE phase' = "found" /\ Add(r, f)
  <2>1. \A a \in Address : Symbols(a)' = IF a = r THEN Append(Symbols(a), f) ELSE Symbols(a)
    BY <1>1, <1>4, <1>10, AddAt DEF Fitting
  <2>2. Complete(r)'
    <3>1. UNCHANGED <<arch, ida>>
      BY <1>6 DEF bootVars
    <3>2. f \in Symbol
      BY <1>4 DEF Fitting
    <3> QED BY <1>1, <1>2, <1>4, <2>1, <3>1, <3>2, MadeComplete DEF f
  <2>3. OnlyRoot'
    BY <1>1, <1>2, <1>6, <1>10, <2>1, <2>2 DEF IInv, OnlyRoot
  <2>4. AllSound'
    <3>1. ASSUME NEW a \in Address, NEW i \in DOMAIN (Symbols(a)')
          PROVE  Sound(a, Symbols(a)[i])'
      <4>1. CASE a = r
        <5>1. (Symbols(a))' = Append(<<>>, f)
          BY <1>2, <2>1, <4>1
        <5>2. i = 1
          BY <3>1, <5>1
        <5>3. (Symbols(a)[i])' = f
          BY <5>1, <5>2 DEF Symbols
        <5>4. Named(r) /\ f.name = At(r).name
          BY <1>1, <1>4 DEF Fitting
        <5> HIDE DEF r
        <5> QED BY <1>6, <4>1, <5>3, <5>4 DEF Sound, Named, At
      <4>2. CASE a # r
        <5>1. (Symbols(a))' = <<>>
          BY <1>2, <2>1, <4>2
        <5> QED BY <3>1, <5>1
      <4> QED BY <4>1, <4>2
    <3> QED BY <3>1 DEF AllSound
  <2>5. CallsFirst' /\ AskedFirst'
    BY <1>10 DEF CallsFirst, AskedFirst
  <2> QED BY <1>8, <2>3, <2>4, <2>5 DEF IInv
<1> QED BY <1>5, <1>9, <1>10

\* The symbols of the system calls.
LEMMA CallsTyped ==
  ASSUME NEW n \in Number
  PROVE  /\ SyscallSymbols[n] \in Seq(Symbol)
         /\ Len(SyscallSymbols[n]) = Len(Calls[n])
         /\ \A i \in DOMAIN SyscallSymbols[n] :
              /\ SyscallSymbols[n][i].kind = "function"
              /\ SyscallSymbols[n][i].name = Calls[n][i][1]
              /\ SyscallSymbols[n][i].proto # NoPrototype
              /\ SyscallSymbols[n][i].proto[1] = "default"
<1> DEFINE s == Calls[n]
           e(i) == [Plain("function", s[i][1], 1, Anywhere)
                        EXCEPT !.proto = <<"default", s[i][2]>>]
<1>1. s \in Seq(Name \X Nat)
  BY ScopeAssumption DEF ScopeAssumption
<1>2. SyscallSymbols[n] = [i \in DOMAIN s |-> e(i)]
  BY DEF SyscallSymbols
<1> HIDE DEF s
<1>3. DOMAIN s = 1 .. Len(s) /\ Len(s) \in Nat
  BY <1>1
<1>4. ASSUME NEW i \in 1 .. Len(s)
      PROVE  /\ e(i) \in Symbol /\ e(i).kind = "function" /\ e(i).name = s[i][1]
             /\ e(i).proto = <<"default", s[i][2]>>
  <2>1. s[i] \in Name \X Nat
    BY <1>1, <1>3
  <2>2. s[i][1] \in Name /\ s[i][2] \in Nat
    BY <2>1
  <2> DEFINE p == Plain("function", s[i][1], 1, Anywhere)
  <2>3. p \in Symbol /\ p.kind = "function" /\ p.name = s[i][1]
    BY <2>2, PlainTyped DEF Kind, Size
  <2>4. e(i) = [p EXCEPT !.proto = <<"default", s[i][2]>>]
    OBVIOUS
  <2> HIDE DEF p, e
  <2> QED BY <2>2, <2>3, <2>4 DEF Symbol
<1>5. [i \in DOMAIN s |-> e(i)] \in [1 .. Len(s) -> Symbol]
  BY <1>3, <1>4
<1> HIDE DEF e
<1>6. SyscallSymbols[n] \in [1 .. Len(s) -> Symbol]
  BY <1>2, <1>5
<1>7. SyscallSymbols[n] \in Seq(Symbol) /\ Len(SyscallSymbols[n]) = Len(s)
  BY <1>3, <1>6, SeqDef
<1>8. ASSUME NEW i \in DOMAIN SyscallSymbols[n]
      PROVE  /\ SyscallSymbols[n][i].kind = "function"
             /\ SyscallSymbols[n][i].name = Calls[n][i][1]
             /\ SyscallSymbols[n][i].proto # NoPrototype
             /\ SyscallSymbols[n][i].proto[1] = "default"
  <2>1. i \in 1 .. Len(s) /\ SyscallSymbols[n][i] = e(i)
    BY <1>2, <1>3
  <2>2. <<"default", s[i][2]>> # <<>>
    OBVIOUS
  <2>3. /\ e(i).kind = "function" /\ e(i).name = s[i][1]
        /\ e(i).proto = <<"default", s[i][2]>>
    BY <1>4, <2>1
  <2> QED BY <2>1, <2>2, <2>3 DEF NoPrototype, s
<1> QED BY <1>7, <1>8 DEF s

\* What Register leaves at each address.
LEMMA RegisterCache ==
  ASSUME IInv, Register
  PROVE  /\ cache' \in Cache
         /\ \A a \in Address :
              Symbols(a)' = IF a[1] = Syscall /\ arch.initActions # <<>>
                            THEN SyscallSymbols[a[2]] ELSE Symbols(a)
<1>1. cache \in Cache /\ phase = "found"
  BY DEF IInv, TypeOK, Cache, Register
<1>2. \A n \in Number : cache[Syscall][n] = <<>>
  <2>1. ASSUME NEW n \in Number PROVE <<Syscall, n>> \in Address /\ <<Syscall, n>> # <<Ram, Root>>
    BY DEF Address, Ram, Syscall
  <2> QED BY <1>1, <2>1 DEF IInv, OnlyRoot, Symbols
<1>3. CASE arch.initActions = <<>>
  BY <1>1, <1>3 DEF Register, Symbols
<1>4. CASE arch.initActions # <<>>
  <2> DEFINE calls == [n \in Number |-> SyscallSymbols[n]]
  <2>1. ASSUME NEW n \in Number PROVE cache[Syscall][n] \o SyscallSymbols[n] = SyscallSymbols[n]
    BY <1>2, CallsTyped, ConcatEmptySeq
  <2>2. cache' = [cache EXCEPT ![Syscall] =
                    [n \in Number |-> cache[Syscall][n] \o SyscallSymbols[n]]]
    BY <1>4 DEF Register
  <2>3. cache' = [cache EXCEPT ![Syscall] = calls]
    BY <2>1, <2>2
  <2>4. calls \in [Number -> Seq(Symbol)] /\ \A n \in Number : calls[n] = SyscallSymbols[n]
    BY CallsTyped
  <2> HIDE DEF calls
  <2>5. cache' \in Cache
    BY <1>1, <2>3, <2>4 DEF Cache, Syscall
  <2>6. ASSUME NEW a \in Address
        PROVE  Symbols(a)' = IF a[1] = Syscall THEN SyscallSymbols[a[2]] ELSE Symbols(a)
    BY <1>1, <2>3, <2>4, AddressParts DEF Cache, Symbols, Ram, Syscall
  <2> QED BY <1>4, <2>5, <2>6
<1> QED BY <1>3, <1>4

LEMMA RegisterStep ==
  ASSUME IInv, Register
  PROVE  IInv'
<1> DEFINE r == <<Ram, Root>>
<1>1. /\ phase = "found" /\ phase' = "asking"
      /\ UNCHANGED <<bootVars, ida, first, edits>>
  BY DEF Register
<1>2. /\ TypeOK /\ Database /\ AllSound /\ OnlyRoot /\ r \in Address
  BY RootKnown DEF IInv
<1>3. /\ cache' \in Cache
      /\ \A a \in Address :
           Symbols(a)' = IF a[1] = Syscall /\ arch.initActions # <<>>
                         THEN SyscallSymbols[a[2]] ELSE Symbols(a)
  BY RegisterCache
<1>4. TypeOK' /\ Database'
  BY <1>1, <1>2, <1>3 DEF TypeOK, BootTypes, Database, bootVars, Cache
<1>5. Complete(r)'
  <2>1. Symbols(r)' = Symbols(r) /\ Symbols(r) \in Seq(Symbol)
    BY <1>2, <1>3, CacheAt DEF Ram, Syscall, TypeOK, Cache
  <2>2. Complete(r) /\ UNCHANGED <<arch, ida>>
    BY <1>1, <1>2 DEF OnlyRoot, Running, bootVars
  <2> QED BY <1>2, <2>1, <2>2, CompleteKept
<1>6. OnlyRoot'
  BY <1>1, <1>5 DEF OnlyRoot
<1>7. AskedFirst'
  <2>1. ASSUME NEW a \in Asked, a[1] = Ram
        PROVE  first'[a] = "none" /\ ((Symbols(a) = <<>>)' \/ Complete(a)')
    <3>1. first'[a] = "none" /\ a \in Address
      BY <1>1, <1>2, <2>1, ScopeAssumption DEF OnlyRoot, ScopeAssumption
    <3>2. CASE a = r
      BY <1>5, <3>1, <3>2
    <3>3. CASE a # r
      <4>1. Symbols(a)' = Symbols(a)
        BY <1>3, <2>1, <3>1 DEF Ram, Syscall
      <4>2. Symbols(a) = <<>>
        BY <1>1, <1>2, <3>1, <3>3 DEF OnlyRoot
      <4> QED BY <3>1, <4>1, <4>2
    <3> QED BY <3>2, <3>3
  <2> QED BY <2>1 DEF AskedFirst
<1>8. CallsFirst'
  <2>1. SUFFICES ASSUME arch.initActions # <<>>, NEW n \in Number, Calls[n] # <<>>
                 PROVE  /\ cache'[Syscall][n] # <<>>
                        /\ cache'[Syscall][n][1] = SyscallSymbols[n][1]
                        /\ Len(Calls[n]) = 1 =>
                             \A i \in DOMAIN cache'[Syscall][n] : i = 1
    BY <1>1 DEF CallsFirst, bootVars
  <2>2. <<Syscall, n>> \in Address
    BY DEF Address
  <2>3. cache'[Syscall][n] = SyscallSymbols[n]
    BY <1>3, <2>1, <2>2 DEF Symbols
  <2>4. Calls[n] \in Seq(Name \X Nat)
    BY ScopeAssumption DEF ScopeAssumption
  <2>5. Len(Calls[n]) \in Nat \ {0}
    BY <2>1, <2>4
  <2>6. SyscallSymbols[n] \in Seq(Symbol) /\ Len(SyscallSymbols[n]) = Len(Calls[n])
    BY CallsTyped
  <2> QED BY <2>3, <2>5, <2>6
<1>9. AllSound'
  <2>1. ASSUME NEW a \in Address, NEW i \in DOMAIN (Symbols(a)')
        PROVE  Sound(a, Symbols(a)[i])'
    <3>1. CASE a[1] = Syscall /\ arch.initActions # <<>>
      <4>1. (Symbols(a))' = SyscallSymbols[a[2]] /\ a[2] \in Number
        BY <1>3, <3>1, AddressParts DEF Ram, Syscall
      <4>2. (Symbols(a)[i])' = SyscallSymbols[a[2]][i]
        BY <4>1 DEF Symbols
      <4> QED BY <2>1, <3>1, <4>1, <4>2, CallsTyped DEF Sound
    <3>2. CASE ~ (a[1] = Syscall /\ arch.initActions # <<>>)
      <4>1. (Symbols(a))' = Symbols(a)
        BY <1>3, <3>2
      <4>2. (Symbols(a)[i])' = Symbols(a)[i] /\ i \in DOMAIN Symbols(a)
        BY <2>1, <4>1 DEF Symbols
      <4>3. Sound(a, Symbols(a)[i])
        BY <1>1, <1>2, <4>2 DEF AllSound, Running
      <4> QED BY <1>1, <4>2, <4>3 DEF Sound, Named, At
    <3> QED BY <3>1, <3>2
  <2> QED BY <2>1 DEF AllSound
<1> QED BY <1>4, <1>6, <1>7, <1>8, <1>9 DEF IInv

\* The parts of the invariant a question can disturb.
LEMMA InquirySound ==
  ASSUME IInv, NEW a \in Asked, Inquiry(a)
  PROVE  AllSound'
<1>1. /\ phase = "asking" /\ UNCHANGED <<bootVars, ida>>
      /\ TypeOK /\ AllSound /\ cache \in Cache
  BY DEF Inquiry, IInv, TypeOK, Cache
<1>2. ASSUME NEW b \in Address, NEW i \in DOMAIN (Symbols(b)')
      PROVE  Sound(b, Symbols(b)[i])'
  <2>1. Symbols(b) \in Seq(Symbol)
    BY <1>1, CacheAt
  <2>2. ASSUME i \in DOMAIN Symbols(b), (Symbols(b)[i])' = Symbols(b)[i]
        PROVE  Sound(b, Symbols(b)[i])'
    <3>1. Sound(b, Symbols(b)[i])
      BY <1>1, <2>2 DEF AllSound, Running
    <3> QED BY <1>1, <2>2, <3>1 DEF Sound, Named, At
  <2>3. CASE (Symbols(b))' = Symbols(b)
    BY <1>2, <2>2, <2>3 DEF Symbols
  <2>4. ASSUME b = a, NEW e, Fitting(a, e), (Symbols(b))' = Append(Symbols(b), e)
        PROVE  Sound(b, Symbols(b)[i])'
    <3>1. i \in 1 .. Len(Symbols(b)) + 1 /\ Len(Symbols(b)) \in Nat
      BY <1>2, <2>1, <2>4 DEF Fitting
    <3>2. CASE i = Len(Symbols(b)) + 1
      <4>1. (Symbols(b)[i])' = e
        <5>1. (Symbols(b))' = Append(Symbols(b), e) /\ e \in Symbol
          BY <2>4 DEF Fitting
        <5>2. \A q \in Seq(Symbol), z \in Symbol : Append(q, z)[Len(q) + 1] = z
          OBVIOUS
        <5> QED BY <2>1, <3>2, <5>1, <5>2 DEF Symbols
      <4> QED BY <1>1, <2>4, <4>1 DEF Sound, Fitting, Named, At
    <3>3. CASE i \in 1 .. Len(Symbols(b))
      <4>1. i \in DOMAIN Symbols(b) /\ (Symbols(b)[i])' = Symbols(b)[i]
        BY <2>1, <2>4, <3>3 DEF Symbols, Fitting
      <4> QED BY <2>2, <4>1
    <3> QED BY <3>1, <3>2, <3>3
  <2> QED BY <1>1, <2>3, <2>4, InquiryCache
<1> QED BY <1>2 DEF AllSound

LEMMA InquiryCalls ==
  ASSUME IInv, NEW a \in Asked, Inquiry(a)
  PROVE  CallsFirst'
<1>1. /\ phase = "asking" /\ UNCHANGED <<bootVars, ida>>
      /\ TypeOK /\ CallsFirst /\ cache \in Cache
  BY DEF Inquiry, IInv, TypeOK, Cache
<1>2. SUFFICES ASSUME arch.initActions # <<>>, NEW n \in Number, Calls[n] # <<>>
               PROVE  /\ cache'[Syscall][n] # <<>>
                      /\ cache'[Syscall][n][1] = SyscallSymbols[n][1]
                      /\ Len(Calls[n]) = 1 =>
                           \A i \in DOMAIN cache'[Syscall][n] :
                               cache'[Syscall][n][i] = SyscallSymbols[n][1] => i = 1
  BY <1>1 DEF CallsFirst, bootVars
<1> DEFINE s == cache[Syscall][n]
           t == cache'[Syscall][n]
           c == SyscallSymbols[n][1]
<1>3. /\ s # <<>> /\ s[1] = c
      /\ Len(Calls[n]) = 1 => \A i \in DOMAIN s : s[i] = c => i = 1
  BY <1>1, <1>2 DEF CallsFirst
<1>4. <<Syscall, n>> \in Address
  BY DEF Address
<1>5. s \in Seq(Symbol)
  BY <1>1, <1>4, CacheAt DEF Symbols
<1>6. t = s \/ \E e : Fitting(a, e) /\ t = Append(s, e)
  BY <1>1, <1>4, InquiryCache, SMTT(30) DEF Symbols
<1>7. c.proto # NoPrototype /\ c.proto[1] = "default"
  <2>1. Calls[n] \in Seq(Name \X Nat) /\ Len(Calls[n]) \in Nat \ {0}
    BY <1>2, ScopeAssumption DEF ScopeAssumption
  <2>2. 1 \in DOMAIN SyscallSymbols[n]
    BY <2>1, CallsTyped
  <2> QED BY <2>2, CallsTyped
<1> HIDE DEF s, t, c
<1>8. ASSUME NEW e, Fitting(a, e), t = Append(s, e)
      PROVE  /\ t # <<>> /\ t[1] = c
             /\ Len(Calls[n]) = 1 => \A i \in DOMAIN t : t[i] = c => i = 1
  <2>1. e \in Symbol /\ e # c
    BY <1>7, <1>8 DEF Fitting
  <2>2. Len(s) \in Nat \ {0} /\ DOMAIN s = 1 .. Len(s)
    BY <1>3, <1>5
  <2>3. /\ DOMAIN t = 1 .. Len(s) + 1 /\ t[Len(s) + 1] = e
        /\ \A i \in 1 .. Len(s) : t[i] = s[i]
    BY <1>5, <1>8, <2>1
  <2>4. t # <<>> /\ t[1] = c
    BY <1>3, <2>2, <2>3
  <2>5. ASSUME Len(Calls[n]) = 1, NEW i \in DOMAIN t, t[i] = c PROVE i = 1
    <3>1. i # Len(s) + 1
      BY <2>1, <2>3, <2>5
    <3>2. i \in DOMAIN s /\ s[i] = c
      BY <2>2, <2>3, <2>5, <3>1
    <3> QED BY <1>3, <2>5, <3>2
  <2> QED BY <2>4, <2>5
<1>9. ASSUME t = s
      PROVE  /\ t # <<>> /\ t[1] = c
             /\ Len(Calls[n]) = 1 => \A i \in DOMAIN t : t[i] = c => i = 1
  BY <1>3, <1>9
<1>10. /\ t # <<>> /\ t[1] = c
       /\ Len(Calls[n]) = 1 => \A i \in DOMAIN t : t[i] = c => i = 1
  BY <1>6, <1>8, <1>9
<1> QED BY <1>10 DEF t, c

LEMMA InquiryComplete ==
  ASSUME IInv, NEW a \in Asked, Inquiry(a), NEW b \in Address, Complete(b)
  PROVE  Complete(b)'
<1>1. TypeOK /\ UNCHANGED <<arch, ida>> /\ Symbols(b) \in Seq(Symbol)
  BY CacheAt DEF Inquiry, IInv, TypeOK, Cache, bootVars
<1>2. \/ Symbols(b)' = Symbols(b)
      \/ \E e \in Symbol : Symbols(b)' = Append(Symbols(b), e)
  BY <1>1, InquiryCache DEF Fitting
<1> QED BY <1>1, <1>2, CompleteKept

\* The first question at an address that has no symbol makes a function.
LEMMA FirstQuestion ==
  ASSUME IInv, NEW a \in Asked, FindFunction(a), phase' = "asking",
         Named(a), Symbols(a) = <<>>
  PROVE  Complete(a)'
<1> DEFINE f == Typed(Injected(a), a)
<1>1. a \in Address /\ TypeOK /\ Database /\ cache \in Cache
  BY ScopeAssumption DEF ScopeAssumption, IInv, TypeOK, Cache
<1>2. phase = "asking" /\ UNCHANGED <<arch, ida>>
  BY DEF FindFunction, Ask, bootVars
<1>3. ~ Has(a, "function")
  BY DEF Has, HasKind
<1>4. Add(a, f)
  BY <1>2, <1>3 DEF FindFunction
<1>5. f \in Symbol /\ f.kind = "function"
  BY <1>1, <1>2, ArchKnown, InjectedFits, TypedFits DEF Fitting
<1> HIDE DEF f
<1>6. Symbols(a)' = Append(Symbols(a), f)
  BY <1>1, <1>4, <1>5, AddAt
<1> QED BY <1>1, <1>2, <1>5, <1>6, MadeComplete DEF f

LEMMA InquiryAsked ==
  ASSUME IInv, NEW a \in Asked, Inquiry(a)
  PROVE  AskedFirst'
<1>1. /\ phase = "asking" /\ UNCHANGED <<bootVars, ida>> /\ UNCHANGED <<arch, ida>>
      /\ TypeOK /\ AskedFirst /\ Asked \subseteq Address
  BY ScopeAssumption DEF ScopeAssumption, Inquiry, IInv, bootVars
<1>2. PICK q \in Questions :
        /\ first' = [first EXCEPT ![a] = IF @ = "none" THEN q ELSE @]
        /\ q = "function" => FindFunction(a)
  BY DEF Inquiry
<1>3. first'[a] = (IF first[a] = "none" THEN q ELSE first[a])
      /\ \A b \in Asked : b # a => first'[b] = first[b]
  BY <1>1, <1>2 DEF TypeOK
<1>4. ASSUME phase' = "asking", NEW b \in Asked, b[1] = Ram
      PROVE  /\ first'[b] = "none" => (Symbols(b) = <<>>)' \/ Complete(b)'
             /\ first'[b] = "function" /\ Named(b)' => Complete(b)'
  <2>1. /\ b \in Address
        /\ first[b] = "none" => Symbols(b) = <<>> \/ Complete(b)
        /\ first[b] = "function" /\ Named(b) => Complete(b)
        /\ Named(b)' = Named(b)
    BY <1>1, <1>4 DEF AskedFirst, Named
  <2>2. Complete(b) => Complete(b)'
    BY <2>1, InquiryComplete
  <2>3. CASE b # a
    <3>1. Symbols(b)' = Symbols(b)
      BY <1>1, <2>1, <2>3, InquiryCache
    <3> QED BY <1>3, <1>4, <2>1, <2>2, <2>3, <3>1
  <2>4. CASE b = a
    <3>1. first'[b] # "none"
      BY <1>3, <2>4 DEF Questions
    <3>2. ASSUME first'[b] = "function", Named(b) PROVE Complete(b)'
      <4>1. CASE first[b] = "function"
        BY <2>1, <2>2, <3>2, <4>1
      <4>2. CASE first[b] = "none" /\ FindFunction(b)
        BY <1>4, <2>1, <2>2, <3>2, <4>2, FirstQuestion
      <4> QED BY <1>2, <1>3, <2>4, <3>2, <4>1, <4>2
    <3> QED BY <2>1, <3>1, <3>2
  <2> QED BY <2>3, <2>4
<1> QED BY <1>4 DEF AskedFirst

LEMMA InquiryStep ==
  ASSUME IInv, NEW a \in Asked, Inquiry(a)
  PROVE  IInv'
<1>1. /\ phase = "asking" /\ phase' \in {"asking", "idle"}
      /\ UNCHANGED <<bootVars, ida, edits>>
      /\ TypeOK /\ Database /\ OnlyRoot /\ <<Ram, Root>> \in Address
  BY RootKnown DEF Inquiry, IInv
<1>2. first' \in [Asked -> {"none"} \cup Questions]
  BY <1>1 DEF Inquiry, TypeOK, Questions
<1>3. TypeOK' /\ Database'
  BY <1>1, <1>2, InquiryCache
     DEF TypeOK, BootTypes, Database, bootVars, Cache, Questions
<1>4. OnlyRoot'
  <2>1. Complete(<<Ram, Root>>)'
    BY <1>1, InquiryComplete DEF OnlyRoot, Running
  <2> QED BY <1>1, <2>1 DEF OnlyRoot
<1> QED BY <1>3, <1>4, InquirySound, InquiryCalls, InquiryAsked DEF IInv

LEMMA StutterStep ==
  ASSUME IInv, UNCHANGED vars
  PROVE  IInv'
<1>1. UNCHANGED <<bootVars, ida, phase, cache, first, edits>> /\ UNCHANGED <<arch, ida>>
  BY DEF vars, scopeVars, bootVars
<1>2. \A a : Symbols(a)' = Symbols(a) /\ Complete(a)' = Complete(a)
  BY <1>1 DEF Symbols, Complete, Has, Typed, Injected, Mapped, Plain, At
<1>3. TypeOK' /\ Database'
  BY <1>1 DEF IInv, TypeOK, BootTypes, Database, bootVars
<1>4. AllSound'
  BY <1>1 DEF IInv, bootVars, AllSound, Running, Sound, Named, At, Symbols
<1>5. CallsFirst'
  BY <1>1 DEF IInv, bootVars, CallsFirst
<1>6. OnlyRoot' /\ AskedFirst'
  BY <1>1, <1>2 DEF IInv, OnlyRoot, AskedFirst, Running, Named
<1> QED BY <1>3, <1>4, <1>5, <1>6 DEF IInv

LEMMA Inductive == Spec => []IInv
<1>1. IInv /\ [Next]_vars => IInv'
  <2> SUFFICES ASSUME IInv, [Next]_vars PROVE IInv'
    OBVIOUS
  <2>1. CASE Boot
    BY <2>1, BootStep
  <2>2. CASE Edit
    BY <2>2, EditStep
  <2>3. CASE Clear
    BY <2>3, ClearStep
  <2>4. CASE FindRoot
    BY <2>4, FindRootStep
  <2>5. CASE Register
    BY <2>5, RegisterStep
  <2>6. CASE Leave
    BY <2>6, LeaveStep
  <2>7. CASE Question
    BY <2>7, QuestionInquires, InquiryStep
  <2>8. CASE UNCHANGED vars
    BY <2>8, StutterStep
  <2> QED BY <2>1, <2>2, <2>3, <2>4, <2>5, <2>6, <2>7, <2>8 DEF Next
<1> QED BY InitInv, <1>1, PTL DEF Spec

-----------------------------------------------------------------------------
(* Theorems *)

\* The type invariant, for every database, language and table of calls.
THEOREM ScopeTypes == Spec => []TypeOK
<1>1. IInv => TypeOK
  BY DEF IInv
<1> QED BY <1>1, Inductive, PTL

\* The function that is decompiled, and every function that was first asked
\* about as one, has its injection and its prototype.
THEOREM FunctionsPrepared == Spec => []Prepared
<1>1. IInv => Prepared
  BY DEF IInv, OnlyRoot, AskedFirst, Running, Prepared
<1> QED BY <1>1, Inductive, PTL

\* Every number of a system call answers with its call, whatever Ghidra asked
\* and the database has at that number.
THEOREM SyscallsAnswer == Spec => []SyscallsKnown
<1>1. IInv => SyscallsKnown
  <2> SUFFICES ASSUME IInv, phase = "asking", arch.initActions # <<>>,
                      NEW n \in Number, Len(Calls[n]) = 1
               PROVE  /\ cache[Syscall][n] # <<>>
                      /\ cache[Syscall][n][1] = SyscallSymbols[n][1]
                      /\ \A i \in DOMAIN cache[Syscall][n] :
                           cache[Syscall][n][i] = SyscallSymbols[n][1] => i = 1
    BY DEF SyscallsKnown
  <2>1. Calls[n] # <<>>
    OBVIOUS
  <2> QED BY <2>1 DEF IInv, CallsFirst
<1> QED BY <1>1, Inductive, PTL

\* No symbol of a running decompilation has an old name of its address.
THEOREM NamesStayCurrent == Spec => []NamesCurrent
<1>1. IInv => NamesCurrent
  <2> SUFFICES ASSUME IInv, Running, NEW o \in Offset, NEW i \in DOMAIN cache[Ram][o],
                      cache[Ram][o][i].kind # "global"
               PROVE  cache[Ram][o][i].name = ida[o].name
    BY DEF NamesCurrent, Running
  <2>1. <<Ram, o>> \in Address
    BY DEF Address
  <2>2. Sound(<<Ram, o>>, cache[Ram][o][i])
    BY <2>1 DEF IInv, AllSound, Symbols
  <2> QED BY <2>2 DEF Sound, At, Ram, Syscall
<1> QED BY <1>1, Inductive, PTL

-----------------------------------------------------------------------------
(* The scope implements a read-through copy of the names *)

Names == [o \in Offset |-> ida[o].name]

\* The name an address should answer with.
Expected(a) ==
    IF a[1] = Ram THEN Names[a[2]]
    ELSE IF Calls[a[2]] = <<>> THEN NoName ELSE Calls[a[2]][1][1]

\* At each address the answer stays, or the right one comes where none was.
AnswersGrow ==
    \A a \in Address :
        \/ AnswerOf(Symbols(a)') = AnswerOf(Symbols(a))
        \/ /\ AnswerOf(Symbols(a)) = NoName
           /\ AnswerOf(Symbols(a)') = Expected(a)

LEMMA GrowImplements ==
  ASSUME AnswersGrow, UNCHANGED ida
  PROVE  Copy!Grow
<1>1. DOMAIN Offsets = {"ram", "syscall"} /\ Offsets["ram"] = Offset
      /\ Offsets["syscall"] = Number
  BY DEF Offsets
<1>2. ASSUME NEW o \in Offset
      PROVE  \/ AnswerOf(cache'[Ram][o]) = AnswerOf(cache[Ram][o])
             \/ /\ AnswerOf(cache[Ram][o]) = NoName
                /\ AnswerOf(cache'[Ram][o]) = Names[o]
  <2>1. <<Ram, o>> \in Address
    BY DEF Address
  <2> QED BY <2>1 DEF AnswersGrow, Symbols, Expected, Ram, Syscall
<1>3. ASSUME NEW n \in Number
      PROVE  \/ AnswerOf(cache'[Syscall][n]) = AnswerOf(cache[Syscall][n])
             \/ /\ AnswerOf(cache[Syscall][n]) = NoName
                /\ AnswerOf(cache'[Syscall][n]) =
                     IF Calls[n] = <<>> THEN NoName ELSE Calls[n][1][1]
  <2>1. <<Syscall, n>> \in Address
    BY DEF Address
  <2> QED BY <2>1 DEF AnswersGrow, Symbols, Expected, Ram, Syscall
<1> DEFINE Reg == [syscall |-> [n \in Number |->
                       IF Calls[n] = <<>> THEN NoName ELSE Calls[n][1][1]]]
           ans == [ram |-> [o \in Offset |-> AnswerOf(cache[Ram][o])],
                   syscall |-> [n \in Number |-> AnswerOf(cache[Syscall][n])]]
           new == [ram |-> [o \in Offset |-> AnswerOf(cache'[Ram][o])],
                   syscall |-> [n \in Number |-> AnswerOf(cache'[Syscall][n])]]
<1>4. ans' = new
  BY DEF Ram, Syscall, AnswerOf, HasKind, FirstFunction
<1>5. new = [s \in DOMAIN Offsets |-> [o \in Offsets[s] |-> new[s][o]]]
  BY <1>1
<1>6. ASSUME NEW s \in DOMAIN Offsets, NEW o \in Offsets[s]
      PROVE  \/ new[s][o] = ans[s][o]
             \/ /\ ans[s][o] = NoName
                /\ new[s][o] = IF s = Ram THEN Names[o] ELSE Reg[s][o]
  <2>1. CASE s = "ram"
    <3>1. o \in Offset /\ s = Ram
          /\ ans[s][o] = AnswerOf(cache[Ram][o]) /\ new[s][o] = AnswerOf(cache'[Ram][o])
      BY <1>1, <1>6, <2>1 DEF Ram
    <3> QED BY <1>2, <3>1
  <2>2. CASE s = "syscall"
    <3>1. o \in Number /\ s # Ram
          /\ Reg[s][o] = (IF Calls[o] = <<>> THEN NoName ELSE Calls[o][1][1])
          /\ ans[s][o] = AnswerOf(cache[Syscall][o])
          /\ new[s][o] = AnswerOf(cache'[Syscall][o])
      BY <1>1, <1>6, <2>2 DEF Ram
    <3> QED BY <1>3, <3>1
  <2> QED BY <1>1, <1>6, <2>1, <2>2
<1> HIDE DEF Reg, ans, new
<1>7. /\ ans' = [s \in DOMAIN Offsets |-> [o \in Offsets[s] |-> ans'[s][o]]]
      /\ \A s \in DOMAIN Offsets : \A o \in Offsets[s] :
           \/ ans'[s][o] = ans[s][o]
           \/ /\ ans[s][o] = NoName
              /\ ans'[s][o] = IF s = Ram THEN Names[o] ELSE Reg[s][o]
  BY <1>4, <1>5, <1>6
<1> QED BY <1>7 DEF Copy!Grow, Copy!Space, Copy!Right, Reg, ans, Names

\* A fitting symbol answers right or not at all.
LEMMA FittingAnswers ==
  ASSUME NEW a \in Address, NEW e, Fitting(a, e), Symbols(a) \in Seq(Symbol),
         Symbols(a)' = Append(Symbols(a), e),
         a[1] = Syscall => Has(a, "function")
  PROVE  \/ AnswerOf(Symbols(a)') = AnswerOf(Symbols(a))
         \/ /\ AnswerOf(Symbols(a)) = NoName
            /\ AnswerOf(Symbols(a)') = Expected(a)
<1> DEFINE s == Symbols(a)
           t == Symbols(a)'
<1>1. s \in Seq(Symbol) /\ e \in Symbol /\ t = Append(s, e)
  BY DEF Fitting
<1>2. ASSUME HasKind(s, "function") PROVE AnswerOf(t) = AnswerOf(s)
  <2> HIDE DEF s, t
  <2> QED BY <1>1, <1>2, FirstKept DEF AnswerOf
<1>3. ASSUME ~ HasKind(s, "function"), e.kind # "function" PROVE AnswerOf(t) = AnswerOf(s)
  <2> HIDE DEF s, t
  <2> QED BY <1>1, <1>3, FirstAdded DEF AnswerOf
<1>4. ASSUME ~ HasKind(s, "function"), e.kind = "function"
      PROVE  AnswerOf(s) = NoName /\ AnswerOf(t) = Expected(a)
  <2>1. Named(a) /\ e.name = At(a).name
    BY <1>4 DEF Fitting
  <2>2. Expected(a) = At(a).name
    BY <1>4, <2>1, AddressParts DEF Expected, Has, Named, At, Names
  <2> HIDE DEF s, t
  <2>3. AnswerOf(s) = NoName /\ AnswerOf(t) = e.name
    BY <1>1, <1>4, FirstAdded DEF AnswerOf
  <2> QED BY <2>1, <2>2, <2>3
<1> QED BY <1>2, <1>3, <1>4

LEMMA InquiryGrows ==
  ASSUME NumbersGiven, IInv, NEW a \in Asked, Inquiry(a)
  PROVE  AnswersGrow
<1>1. TypeOK /\ cache \in Cache /\ phase = "asking" /\ CallsFirst
  BY DEF IInv, TypeOK, Cache, Inquiry
<1>2. SUFFICES ASSUME NEW b \in Address
               PROVE  \/ AnswerOf(Symbols(b)') = AnswerOf(Symbols(b))
                      \/ /\ AnswerOf(Symbols(b)) = NoName
                         /\ AnswerOf(Symbols(b)') = Expected(b)
  BY DEF AnswersGrow
<1>3. CASE Symbols(b)' = Symbols(b)
  BY <1>3
<1>4. ASSUME b = a, NEW e, Fitting(b, e), Symbols(b)' = Append(Symbols(b), e)
      PROVE  \/ AnswerOf(Symbols(b)') = AnswerOf(Symbols(b))
             \/ /\ AnswerOf(Symbols(b)) = NoName
                /\ AnswerOf(Symbols(b)') = Expected(b)
  <2>1. Symbols(b) \in Seq(Symbol)
    BY <1>1, CacheAt
  <2>2. ASSUME b[1] = Syscall PROVE Has(b, "function")
    <3>1. arch.initActions # <<>> /\ b[2] \in Number /\ Calls[b[2]] # <<>>
      BY <1>4, <2>2, AddressParts DEF Inquiry, NumbersGiven, Ram, Syscall
    <3>2. Symbols(b) # <<>> /\ Symbols(b)[1] = SyscallSymbols[b[2]][1]
      BY <1>1, <2>2, <3>1 DEF CallsFirst, Symbols
    <3>3. Calls[b[2]] \in Seq(Name \X Nat)
      BY <3>1, ScopeAssumption DEF ScopeAssumption
    <3>4. 1 \in DOMAIN SyscallSymbols[b[2]]
      BY <2>2, <3>1, <3>3, CallsTyped
    <3>5. Symbols(b)[1].kind = "function"
      BY <3>1, <3>2, <3>4, CallsTyped
    <3>6. 1 \in DOMAIN Symbols(b)
      BY <2>1, <3>2
    <3> QED BY <3>5, <3>6 DEF Has, HasKind
  <2> QED BY <1>4, <2>1, <2>2, FittingAnswers
<1> QED BY <1>1, <1>3, <1>4, InquiryCache

LEMMA FindRootGrows ==
  ASSUME IInv, FindRoot
  PROVE  AnswersGrow
<1> DEFINE r == <<Ram, Root>>
<1>1. /\ TypeOK /\ Database /\ cache \in Cache /\ phase = "cleared"
      /\ arch.id \in Languages /\ r \in Address /\ Named(r)
  <2>1. TypeOK /\ Database /\ phase = "cleared"
    BY DEF IInv, FindRoot
  <2> QED BY <2>1, RootKnown DEF TypeOK, Database, Cache
<1>2. \A a \in Address : Symbols(a) = <<>>
  BY <1>1, EmptyTyped DEF IInv, OnlyRoot, Symbols
<1>3. ~ Has(r, "function")
  BY <1>1, <1>2 DEF Has, HasKind
<1>4. Fitting(r, Injected(r)) /\ Fitting(r, Typed(Injected(r), r))
  BY <1>1, InjectedFits, TypedFits
<1>5. PICK e : Fitting(r, e) /\ Add(r, e)
  BY <1>3, <1>4 DEF FindRoot
<1>6. \A a \in Address : Symbols(a)' = IF a = r THEN Append(Symbols(a), e) ELSE Symbols(a)
  BY <1>1, <1>5, AddAt DEF Fitting
<1>7. /\ \/ AnswerOf(Symbols(r)') = AnswerOf(Symbols(r))
         \/ /\ AnswerOf(Symbols(r)) = NoName
            /\ AnswerOf(Symbols(r)') = Expected(r)
  <2>1. Symbols(r) \in Seq(Symbol) /\ Symbols(r)' = Append(Symbols(r), e)
    BY <1>1, <1>6, CacheAt
  <2>2. ~ (r[1] = Syscall)
    BY DEF Ram, Syscall
  <2> QED BY <1>1, <1>5, <2>1, <2>2, FittingAnswers
<1>8. \A a \in Address : a # r => AnswerOf(Symbols(a)') = AnswerOf(Symbols(a))
  BY <1>6
<1> HIDE DEF r
<1> QED BY <1>7, <1>8 DEF AnswersGrow

LEMMA RegisterGrows ==
  ASSUME IInv, Register
  PROVE  AnswersGrow
<1>1. SUFFICES ASSUME NEW a \in Address
               PROVE  \/ AnswerOf(Symbols(a)') = AnswerOf(Symbols(a))
                      \/ /\ AnswerOf(Symbols(a)) = NoName
                         /\ AnswerOf(Symbols(a)') = Expected(a)
  BY DEF AnswersGrow
<1>2. Symbols(a)' = IF a[1] = Syscall /\ arch.initActions # <<>>
                    THEN SyscallSymbols[a[2]] ELSE Symbols(a)
  BY RegisterCache
<1>3. CASE a[1] = Syscall /\ arch.initActions # <<>>
  <2> DEFINE n == a[2]
             t == SyscallSymbols[n]
  <2>1. n \in Number /\ Symbols(a)' = t
    BY <1>2, <1>3, AddressParts DEF Ram, Syscall
  <2>2. Symbols(a) = <<>>
    BY <1>3 DEF IInv, OnlyRoot, Register, Ram, Syscall
  <2>3. AnswerOf(Symbols(a)) = NoName
    BY <2>2 DEF AnswerOf, HasKind
  <2>4. CASE Calls[n] = <<>>
    <3>1. t \in Seq(Symbol) /\ Len(t) = 0
      BY <2>1, <2>4, CallsTyped
    <3>2. t = <<>>
      BY <3>1
    <3> QED BY <2>1, <2>2, <3>2
  <2>5. CASE Calls[n] # <<>>
    <3>1. Calls[n] \in Seq(Name \X Nat)
      BY <2>1, ScopeAssumption DEF ScopeAssumption
    <3>2. t \in Seq(Symbol) /\ 1 \in DOMAIN t
      BY <2>1, <2>5, <3>1, CallsTyped
    <3>3. t[1].kind = "function" /\ t[1].name = Calls[n][1][1]
      BY <2>1, <3>2, CallsTyped
    <3> HIDE DEF t
    <3>4. HasKind(t, "function") /\ FirstFunction(t) = t[1]
      <4>1. \A k \in 1 .. 1 - 1 : t[k].kind # "function"
        OBVIOUS
      <4> QED BY <3>2, <3>3, <4>1, FirstIs
    <3>5. AnswerOf(t) = Calls[n][1][1]
      BY <3>3, <3>4 DEF AnswerOf
    <3> QED BY <1>3, <2>1, <2>3, <2>5, <3>5 DEF Expected, Ram, Syscall
  <2> QED BY <2>4, <2>5
<1>4. CASE ~ (a[1] = Syscall /\ arch.initActions # <<>>)
  BY <1>2, <1>4
<1> QED BY <1>3, <1>4

\* The answers, and the names, as the abstract specification sees them.
LEMMA SeenAlike ==
  ASSUME UNCHANGED <<ida, cache>>
  PROVE  AnswersGrow
BY DEF AnswersGrow, Symbols

LEMMA CopiesInit ==
  ASSUME Init
  PROVE  Copy!Init
<1>1. cache = Empty /\ phase = "idle"
  BY DEF Init
<1>2. DOMAIN Offsets = {"ram", "syscall"} /\ Offsets["ram"] = Offset
      /\ Offsets["syscall"] = Number
  BY DEF Offsets
<1>3. AnswerOf(<<>>) = NoName
  BY DEF AnswerOf, HasKind
<1>4. \A o \in Offset : cache[Ram][o] = <<>>
  BY <1>1, <1>2 DEF Empty, Ram
<1>5. \A n \in Number : cache[Syscall][n] = <<>>
  BY <1>1, <1>2 DEF Empty, Syscall
<1>6. [ram |-> [o \in Offset |-> AnswerOf(cache[Ram][o])],
       syscall |-> [n \in Number |-> AnswerOf(cache[Syscall][n])]]
      = [s \in DOMAIN Offsets |-> [o \in Offsets[s] |-> NoName]]
  BY <1>2, <1>3, <1>4, <1>5
<1> QED BY <1>1, <1>6 DEF Copy!Init, Copy!None, Copy!Space

LEMMA OpenImplements ==
  ASSUME IInv, Clear
  PROVE  Copy!Open
<1>1. /\ cache' = Empty /\ phase = "idle" /\ phase' = "cleared"
      /\ UNCHANGED ida
  BY DEF Clear
<1>2. DOMAIN Offsets = {"ram", "syscall"} /\ Offsets["ram"] = Offset
      /\ Offsets["syscall"] = Number
  BY DEF Offsets
<1>3. AnswerOf(<<>>) = NoName
  BY DEF AnswerOf, HasKind
<1>4. \A o \in Offset : cache'[Ram][o] = <<>>
  BY <1>1, <1>2 DEF Empty, Ram
<1>5. \A n \in Number : cache'[Syscall][n] = <<>>
  BY <1>1, <1>2 DEF Empty, Syscall
<1>6. [ram |-> [o \in Offset |-> AnswerOf(cache'[Ram][o])],
       syscall |-> [n \in Number |-> AnswerOf(cache'[Syscall][n])]]
      = [s \in DOMAIN Offsets |-> [o \in Offsets[s] |-> NoName]]
  BY <1>2, <1>3, <1>4, <1>5
<1>7. [ram |-> [o \in Offset |-> AnswerOf(cache[Ram][o])],
       syscall |-> [n \in Number |-> AnswerOf(cache[Syscall][n])]]'
      = [ram |-> [o \in Offset |-> AnswerOf(cache'[Ram][o])],
         syscall |-> [n \in Number |-> AnswerOf(cache'[Syscall][n])]]
  BY DEF Ram, Syscall, AnswerOf, HasKind, FirstFunction
<1> QED BY <1>1, <1>6, <1>7 DEF Copy!Open, Copy!None, Copy!Space

\* The scope is a read-through copy of the names of the database and of the
\* table of system calls, as long as every number that is asked about has a
\* call: within a decompilation no answer changes, and none is left from the
\* one before.
THEOREM ReadThrough ==
  ASSUME NumbersGiven
  PROVE  Spec => CopiesNames
<1>1. Init => Copy!Init
  BY CopiesInit
<1>2. IInv /\ [Next]_vars => [Copy!Next]_Copy!vars
  <2> SUFFICES ASSUME IInv, [Next]_vars PROVE [Copy!Next]_Copy!vars
    OBVIOUS
  <2>1. ASSUME UNCHANGED <<ida, phase, cache>> PROVE UNCHANGED Copy!vars
    BY <2>1 DEF Copy!vars
  <2>2. ASSUME UNCHANGED ida, phase # "idle", AnswersGrow PROVE Copy!Next
    <3>1. Copy!Grow
      BY <2>2, GrowImplements
    <3>2. CASE phase' = "idle"
      BY <2>2, <3>1, <3>2 DEF Copy!Next, Copy!Close
    <3>3. CASE phase' # "idle"
      BY <2>2, <3>1, <3>3 DEF Copy!Next, Copy!Answer
    <3> QED BY <3>2, <3>3
  <2>3. CASE Boot \/ UNCHANGED vars
    BY <2>1, <2>3 DEF Boot, vars, scopeVars
  <2>4. CASE Edit
    BY <2>4 DEF Edit, Copy!Next, Copy!Edit, Copy!vars, bootVars
  <2>5. CASE Clear
    BY <2>5, OpenImplements DEF Copy!Next
  <2>6. CASE FindRoot
    BY <2>2, <2>6, FindRootGrows DEF FindRoot
  <2>7. CASE Register
    BY <2>2, <2>7, RegisterGrows DEF Register
  <2>8. CASE Leave
    BY <2>2, <2>8, SeenAlike DEF Leave
  <2>9. CASE Question
    <3>1. PICK a \in Asked : Inquiry(a)
      BY <2>9, QuestionInquires
    <3> QED BY <2>2, <3>1, InquiryGrows DEF Inquiry
  <2> QED BY <2>3, <2>4, <2>5, <2>6, <2>7, <2>8, <2>9 DEF Next
<1> QED BY <1>1, <1>2, Inductive, PTL DEF Spec, CopiesNames, Copy!Spec

-----------------------------------------------------------------------------
(* Loading *)

\* Every documented machine has its id among those.
LEMMA IdDocumented ==
  ASSUME NEW m \in Machine, Documented(m), ~NoRealMode(m)
  PROVE  SleighId(CompilerOf(m)) \in DocumentedIds
<1> DEFINE c == CompilerOf(m)
<1>1. c.mode = m.mode /\ c.be = m.be
  BY DEF CompilerOf
<1>2. SleighId(c) = <<Variant(c)[1], IF m.be THEN "BE" ELSE "LE", m.mode, Variant(c)[2]>>
  BY <1>1 DEF SleighId
<1>3. m.be \in BOOLEAN /\ m.mode \in Mode /\ m.comp \in {"MS", "GNU", "Other"}
  BY DEF Machine, X86Family
<1>4. CASE m.proc = "386"
  <2>1. m.mode \in {16, 32, 64} /\ ~m.be /\ (m.mode = 16 => m.comp = "Other")
    BY <1>3, <1>4 DEF Documented, NoRealMode
  <2>2. c.language = X86Family[m.comp]
    BY <1>4 DEF CompilerOf
  <2>3. CASE m.comp = "Other"
    <3>1. c.language = "X86"
      BY <2>2, <2>3 DEF X86Family
    <3>2. Variant(c) = <<"x86", IF m.mode = 16 THEN "Real Mode" ELSE "default">>
      BY <1>1, <3>1 DEF Variant
    <3>3. CASE m.mode = 16
      <4>1. Variant(c) = <<"x86", "Real Mode">>
        BY <3>2, <3>3, Zenon
      <4>2. ASSUME NEW r, Variant(c) = <<"x86", r>>
            PROVE  SleighId(c) = <<"x86", "LE", m.mode, r>>
        BY <1>2, <2>1, <4>2
      <4>3. SleighId(c) = <<"x86", "LE", 16, "Real Mode">>
        BY <3>3, <4>1, <4>2, Zenon
      <4> QED BY <4>3, Zenon DEF DocumentedIds
    <3>4. CASE m.mode # 16
      BY <1>2, <2>1, <3>2, <3>4 DEF DocumentedIds
    <3> QED BY <3>3, <3>4
  <2>4. CASE m.comp = "GNU"
    <3>1. c.language = "X86_GCC"
      BY <2>2, <2>4 DEF X86Family
    <3>2. Variant(c) = <<"x86", "default:gcc">>
      BY <3>1 DEF Variant
    <3> QED BY <1>2, <2>1, <2>4, <3>2 DEF DocumentedIds
  <2>5. CASE m.comp = "MS"
    <3>1. c.language = "X86_WINDOWS"
      BY <2>2, <2>5 DEF X86Family
    <3>2. Variant(c) = <<"x86", "default:windows">>
      BY <3>1 DEF Variant
    <3> QED BY <1>2, <2>1, <2>5, <3>2 DEF DocumentedIds
  <2> QED BY <1>3, <2>3, <2>4, <2>5
<1>5. CASE m.proc # "386"
  <2>1. c.language = Family[m.proc]
    BY <1>5 DEF CompilerOf
  <2>2. CASE m.proc = "ARM"
    <3>1. c.language = "ARM" /\ m.mode \in {32, 64}
      BY <2>1, <2>2 DEF Family, Documented
    <3>2. Variant(c) = IF m.mode = 64 THEN <<"AARCH64", "v8A:default">> ELSE <<"ARM", "v7">>
      BY <1>1, <3>1 DEF Variant
    <3> QED BY <1>2, <3>1, <3>2 DEF DocumentedIds
  <2>3. CASE m.proc = "PPC"
    <3>1. c.language = "PPC" /\ m.mode \in {32, 64}
      BY <2>1, <2>3 DEF Family, Documented
    <3>2. Variant(c) = <<"PowerPC", "default">>
      BY <3>1 DEF Variant
    <3> QED BY <1>2, <3>1, <3>2 DEF DocumentedIds
  <2>4. CASE m.proc = "MIPS"
    <3>1. c.language = "MIPS" /\ m.mode \in {32, 64}
      BY <2>1, <2>4 DEF Family, Documented
    <3>2. Variant(c) = <<"MIPS", "default">>
      BY <3>1 DEF Variant
    <3> QED BY <1>2, <3>1, <3>2 DEF DocumentedIds
  <2>5. CASE m.proc = "SPARC"
    <3>1. c.language = "SPARC" /\ m.mode = 32 /\ m.be
      BY <2>1, <2>5 DEF Family, Documented
    <3>2. Variant(c) = <<"sparc", "default">>
      BY <3>1 DEF Variant
    <3> QED BY <1>2, <3>1, <3>2 DEF DocumentedIds
  <2>6. CASE m.proc = "AVR"
    <3>1. c.language = "ATMEL" /\ m.mode = 16 /\ ~m.be
      BY <2>1, <2>6 DEF Family, Documented
    <3>2. Variant(c) = <<"avr8", "default">>
      BY <1>1, <3>1 DEF Variant
    <3> QED BY <1>2, <3>1, <3>2 DEF DocumentedIds
  <2>7. CASE m.proc = "P6502"
    <3>1. c.language = "P6502" /\ m.mode = 16 /\ ~m.be
      BY <2>1, <2>7 DEF Family, Documented
    <3>2. Variant(c) = <<"6502", "default">>
      BY <3>1 DEF Variant
    <3> QED BY <1>2, <3>1, <3>2 DEF DocumentedIds
  <2>8. CASE m.proc = "Z80"
    <3>1. c.language = "Z80" /\ m.mode = 16 /\ ~m.be
      BY <2>1, <2>8 DEF Family, Documented
    <3>2. Variant(c) = <<"z80", "default">>
      BY <3>1 DEF Variant
    <3> QED BY <1>2, <3>1, <3>2 DEF DocumentedIds
  <2>9. CASE m.proc = "EBPF"
    <3>1. c.language = "eBPF" /\ m.mode = 64 /\ ~m.be
      BY <2>1, <2>9 DEF Family, Documented
    <3>2. Variant(c) = <<"eBPF", "default">>
      BY <3>1 DEF Variant
    <3> QED BY <1>2, <3>1, <3>2 DEF DocumentedIds
  <2> QED BY <1>5, <2>2, <2>3, <2>4, <2>5, <2>6, <2>7, <2>8, <2>9 DEF Documented
<1> QED BY <1>4, <1>5

\* Why a start fails.
Reasons ==
    boot = "failed" /\ ghidra =>
        \/ machine.proc = "Unknown"
        \/ SleighId(CompilerOf(machine)) \notin Languages

\* With a language file for each documented machine, whatever others there
\* are, the plugin loads for every such machine.
THEOREM MachinesLoad ==
  ASSUME DocumentedIds \subseteq Languages
  PROVE  Spec => []DocumentedLoads
<1>1. Init => Reasons
  BY DEF Init, BootInit, Reasons
<1>2. IInv /\ Reasons /\ [Next]_vars => Reasons'
  <2> SUFFICES ASSUME IInv, Reasons, [Next]_vars PROVE Reasons'
    OBVIOUS
  <2>1. boot = "build" => compiler = CompilerOf(machine)
    BY DEF IInv, TypeOK, BootTypes
  <2>2. CASE Boot
    <3>1. CASE FindFolder
      BY <3>1 DEF FindFolder, Reasons
    <3>2. CASE ComputeCompiler
      BY <3>2 DEF ComputeCompiler, Reasons
    <3>3. CASE Build
      BY <2>1, <3>3 DEF Build, Reasons
    <3> QED BY <2>2, <3>1, <3>2, <3>3 DEF Boot, BootNext
  <2>3. CASE UNCHANGED <<machine, ghidra, boot>>
    BY <2>3 DEF Reasons
  <2>4. ~Boot => UNCHANGED <<machine, ghidra, boot>>
    <3>1. Edit \/ Clear \/ FindRoot \/ Register \/ Leave => UNCHANGED <<machine, ghidra, boot>>
      BY DEF Edit, Clear, FindRoot, Register, Leave, bootVars
    <3>2. Question => UNCHANGED <<machine, ghidra, boot>>
      BY QuestionInquires DEF Inquiry, bootVars
    <3>3. UNCHANGED vars => UNCHANGED <<machine, ghidra, boot>>
      BY DEF vars, bootVars
    <3> QED BY <3>1, <3>2, <3>3 DEF Next
  <2> QED BY <2>2, <2>3, <2>4
<1>3. IInv /\ Reasons => DocumentedLoads
  <2> SUFFICES ASSUME IInv, Reasons, boot = "failed", ghidra,
                      Documented(machine), ~NoRealMode(machine)
               PROVE FALSE
    BY DEF DocumentedLoads
  <2>1. machine \in Machine
    BY DEF IInv, TypeOK, BootTypes
  <2>2. SleighId(CompilerOf(machine)) \in Languages
    BY <2>1, IdDocumented
  <2>3. machine.proc # "Unknown"
    BY DEF Documented
  <2> QED BY <2>2, <2>3 DEF Reasons
<1> QED BY <1>1, <1>2, <1>3, Inductive, PTL DEF Spec
=============================================================================
