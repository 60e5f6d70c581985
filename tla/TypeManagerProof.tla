-------------------------- MODULE TypeManagerProof --------------------------
(***************************************************************************)
(* Proofs about TypeManager, for every database of types and every depth   *)
(* of the native stack.                                                    *)
(*                                                                         *)
(* What the recursion needs is that a struct on the stack is in the cache, *)
(* so that no later call parses it again, and that every part a call holds *)
(* is in the cache, so that what the call returns opens no struct.         *)
(***************************************************************************)
EXTENDS TypeManager, NatLemmas, SequenceTheorems, FiniteSetTheorems

\* A cached datatype bears the name it is found by.
Named == \A t \in DOMAIN cache : cache[t].type = t

\* A struct that is being parsed is in the cache.
Registered ==
    \A i \in 1 .. Len(stack) :
        stack[i].type \in Struct => stack[i].type \in DOMAIN cache

\* So is every part that a running call has found.
PartsKnown ==
    \A i \in 1 .. Len(stack) : \A j \in 1 .. Len(stack[i].parts) :
        stack[i].parts[j].type \in DOMAIN cache

\* A call finds no more parts than it has, and waits for one while it is not
\* the latest.
Pending ==
    \A i \in 1 .. Len(stack) :
        /\ Len(stack[i].parts) <= Len(Parts[graph][stack[i].type])
        /\ i < Len(stack) => Len(stack[i].parts) < Len(Parts[graph][stack[i].type])

IInv == TypeOK /\ Named /\ Registered /\ PartsKnown /\ Pending
            /\ StructOnce /\ OpenOnStack
-----------------------------------------------------------------------------
(* The datatypes that are made *)

LEMMA CallFields ==
  ASSUME TypeOK, NEW i \in 1 .. Len(stack)
  PROVE  /\ stack[i].type \in Type
         /\ stack[i].parts \in Seq(Datatype)
         /\ Parts[graph][stack[i].type] \in Seq(Type)
<1>1. stack[i] \in Call
  BY DEF TypeOK
<1>2. stack[i].type \in Type /\ stack[i].parts \in Seq(Datatype)
  BY <1>1 DEF Call
<1> QED BY <1>2, TypeAssumption DEF TypeOK

LEMMA PartSizeTyped ==
  ASSUME TypeOK, NEW d \in Datatype
  PROVE  PartSize(d) \in Nat
BY DEF TypeOK, PartSize, Datatype

\* setFields finds a last byte, however the fields lie.
LEMMA StructSizeTyped ==
  ASSUME TypeOK, NEW t \in Struct, NEW parts \in Seq(Datatype),
         Len(parts) = Len(Parts[graph][t])
  PROVE  StructSize(t, parts) \in Nat
<1> DEFINE end(i) == Offset[graph][t][i] + PartSize(parts[i])
<1> DEFINE Ends == {end(i) : i \in DOMAIN parts}
<1>1. Offset[graph][t] \in Seq(Nat) /\ Len(Offset[graph][t]) = Len(parts)
  BY TypeAssumption DEF TypeOK
<1>2. \A i \in 1 .. Len(parts) : end(i) \in Nat
  BY <1>1, PartSizeTyped, SMTT(30)
<1>3. CASE parts = <<>>
  BY <1>3 DEF StructSize
<1>4. CASE parts # <<>>
  <2> DEFINE f == [i \in 1 .. Len(parts) |-> end(i)]
  <2>1. Len(parts) \in Nat /\ Len(parts) # 0 /\ DOMAIN parts = 1 .. Len(parts)
    BY <1>4
  <2>2. f \in [1 .. Len(parts) -> Nat]
    BY <1>2
  <2> HIDE DEF f
  <2>3. PICK j \in 1 .. Len(parts) : \A i \in 1 .. Len(parts) : f[i] <= f[j]
    BY <2>1, <2>2, MaxOfRange
  <2>4. \A i \in DOMAIN parts : f[i] = end(i)
    BY <2>1 DEF f
  <2> HIDE DEF end
  <2>5. \E m \in Ends : \A i \in DOMAIN parts : end(i) <= m
    BY <2>1, <2>3, <2>4
  <2>6. Ends \subseteq Nat
    BY <1>2, <2>1
  <2>7. (CHOOSE m \in Ends : \A i \in DOMAIN parts : end(i) <= m) \in Nat
    BY <2>5, <2>6
  <2> QED BY <1>4, <2>7 DEF StructSize, end
<1> QED BY <1>3, <1>4

LEMMA ProductTyped ==
  ASSUME NEW m \in Nat, NEW n \in Nat
  PROVE  m * n \in Nat
OBVIOUS

\* What a call returns is a datatype, and of a struct only when the call was
\* for that struct or found it as a part.
LEMMA MadeTyped ==
  ASSUME TypeOK, NEW t \in Type, NEW parts \in Seq(Datatype),
         Len(parts) = Len(Parts[graph][t])
  PROVE  /\ Made(t, parts) \in Datatype
         /\ \/ Made(t, parts).type = t
            \/ t \notin Struct /\ Len(parts) = 1 /\ Made(t, parts) = parts[1]
<1>1. IdaSize(t) \in Nat \cup {-1}
  BY TypeAssumption DEF TypeOK, IdaSize
<1>2. CASE t \in Pointer
  BY <1>2, TypeAssumption DEF Made, Datatype
<1>3. CASE t \in Array
  <2>1. t \notin Pointer /\ t \notin Struct /\ Len(parts) = 1
    BY <1>3, TypeAssumption DEF TypeOK
  <2>2. parts[1] \in Datatype
    BY <2>1
  <2>3. Elements(t) \in Nat
    BY <1>1, <1>3, TypeAssumption DEF TypeOK, IdaSize, Elements
  <2>4. Elements(t) * PartSize(parts[1]) \in Nat
    BY <2>2, <2>3, PartSizeTyped, ProductTyped
  <2> QED BY <1>3, <2>1, <2>2, <2>4 DEF Made, Datatype
<1>4. CASE t \in Struct
  BY <1>4, TypeAssumption DEF Made, Datatype
<1>5. CASE t \in Func
  BY <1>5, TypeAssumption DEF Made, Datatype
<1>6. CASE t \notin Pointer /\ t \notin Array /\ t \notin Struct /\ t \notin Func
  <2>1. t \in Void => IdaSize(t) \in Nat
    BY <1>1, TypeAssumption DEF TypeOK, IdaSize
  <2>2. BaseSize(t) \in Nat
    BY <1>1, <2>1, TypeAssumption DEF BaseSize
  <2> QED BY <1>6, <2>2 DEF Made, Datatype
<1> QED BY <1>2, <1>3, <1>4, <1>5, <1>6
-----------------------------------------------------------------------------
(* Calls and returns *)

\* A call for a type that no running call parses as a struct.
LEMMA EnterKeeps ==
  ASSUME IInv, NEW t \in Type, t \in Struct => t \notin DOMAIN cache, Enter(t),
         stack # <<>> => Len(Top.parts) < Len(Children),
         UNCHANGED <<graph, layout, broken>>, overflow' \in BOOLEAN
  PROVE  IInv'
<1> DEFINE n == Len(stack)
<1> DEFINE e == [type |-> t, parts |-> <<>>]
<1>1. /\ stack \in Seq(Call) /\ n \in Nat
      /\ e \in Call /\ stack' = Append(stack, e)
  BY DEF IInv, TypeOK, Call, Enter
<1>2. /\ stack' \in Seq(Call) /\ Len(stack') = n + 1
      /\ \A i \in 1 .. n : stack'[i] = stack[i]
      /\ stack'[n + 1] = e
  BY <1>1
<1>3. e.type = t /\ e.parts = <<>> /\ Len(e.parts) = 0
  OBVIOUS
<1> HIDE DEF e
<1>4. /\ DOMAIN cache \subseteq DOMAIN cache'
      /\ DOMAIN cache' \subseteq DOMAIN cache \cup {t}
      /\ t \in Struct => t \in DOMAIN cache'
  BY DEF Enter
<1>5. TypeOK'
  <2>1. DOMAIN cache' \subseteq Type /\ cache' \in [DOMAIN cache' -> Datatype]
    BY <1>4 DEF IInv, TypeOK, Enter, Datatype
  <2> QED BY <1>2, <2>1 DEF IInv, TypeOK
<1>6. Named'
  BY DEF IInv, Named, Enter
<1>7. Registered'
  BY <1>1, <1>2, <1>3, <1>4 DEF IInv, Registered
<1>8. PartsKnown'
  <2>1. ASSUME NEW i \in 1 .. n + 1, NEW j \in 1 .. Len(stack'[i].parts)
        PROVE  stack'[i].parts[j].type \in DOMAIN cache'
    BY <1>1, <1>2, <1>3, <1>4, <2>1 DEF IInv, PartsKnown
  <2> QED BY <1>2, <2>1 DEF PartsKnown
<1>9. Pending'
  <2>1. Len(Parts[graph][t]) \in Nat
    BY TypeAssumption DEF IInv, TypeOK
  <2>2. n # 0 => Len(stack[n].parts) < Len(Parts[graph][stack[n].type])
    BY <1>1 DEF Top, Children
  <2>3. ASSUME NEW i \in 1 .. n + 1
        PROVE  /\ Len(stack'[i].parts) <= Len(Parts[graph][stack'[i].type])
               /\ i < n + 1 =>
                    Len(stack'[i].parts) < Len(Parts[graph][stack'[i].type])
    BY <1>1, <1>2, <1>3, <2>1, <2>2, <2>3 DEF IInv, Pending
  <2> QED BY <1>2, <2>3 DEF Pending
<1>10. StructOnce'
  <2>1. t \in Struct => \A i \in 1 .. n : stack[i].type # t
    BY DEF IInv, Registered
  <2>2. ASSUME NEW i \in 1 .. n + 1, NEW j \in 1 .. n + 1,
               stack'[i].type \in Struct, stack'[i].type = stack'[j].type
        PROVE  i = j
    BY <1>1, <1>2, <1>3, <2>1, <2>2 DEF IInv, StructOnce
  <2> QED BY <1>2, <2>2 DEF StructOnce
<1>11. OpenOnStack'
  <2>1. ASSUME NEW u \in Struct \cap DOMAIN cache', u \notin DOMAIN layout,
               u \notin Refused[graph], ~broken
        PROVE  \E i \in 1 .. n + 1 : stack'[i].type = u
    <3>1. CASE u = t
      BY <1>1, <1>2, <1>3, <3>1
    <3>2. CASE u \in DOMAIN cache
      <4>1. PICK i \in 1 .. n : stack[i].type = u
        BY <2>1, <3>2 DEF IInv, OpenOnStack
      <4> QED BY <1>1, <1>2, <4>1
    <3> QED BY <1>4, <2>1, <3>1, <3>2
  <2> QED BY <1>2, <2>1 DEF OpenOnStack
<1> QED BY <1>5, <1>6, <1>7, <1>8, <1>9, <1>10, <1>11 DEF IInv

\* What a call still waits for is a type.
LEMMA NextPart ==
  ASSUME IInv, stack # <<>>, ~Ready
  PROVE  /\ Len(stack) \in 1 .. Len(stack)
         /\ Len(Top.parts) < Len(Children)
         /\ Children[Len(Top.parts) + 1] \in Type
<1>1. stack \in Seq(Call) /\ Len(stack) \in Nat /\ Len(stack) \in 1 .. Len(stack)
  BY DEF IInv, TypeOK
<1>2. Top.parts \in Seq(Datatype) /\ Children \in Seq(Type)
  BY <1>1, CallFields DEF IInv, Top, Children
<1>3. Len(Top.parts) <= Len(Children)
  BY <1>1 DEF IInv, Pending, Top, Children
<1> QED BY <1>1, <1>2, <1>3 DEF Ready

\* The latest call of a stack takes one more part.
LEMMA PutPart ==
  ASSUME NEW s \in Seq(Call), s # <<>>, NEW d \in Datatype,
         NEW q, q = [s EXCEPT ![Len(s)].parts = Append(@, d)]
  PROVE  /\ q \in Seq(Call) /\ Len(q) = Len(s)
         /\ \A i \in 1 .. Len(s) : q[i].type = s[i].type
         /\ \A i \in 1 .. Len(s) : i # Len(s) => q[i].parts = s[i].parts
         /\ q[Len(s)].parts = Append(s[Len(s)].parts, d)
<1> DEFINE n == Len(s)
<1> DEFINE e == [s[n] EXCEPT !.parts = Append(@, d)]
<1>1. n \in Nat /\ n \in 1 .. n /\ s[n] \in Call
  OBVIOUS
<1>2. Append(s[n].parts, d) \in Seq(Datatype)
  BY <1>1 DEF Call
<1>3. e \in Call /\ e.type = s[n].type /\ e.parts = Append(s[n].parts, d)
  BY <1>1, <1>2 DEF Call
<1>4. q = [s EXCEPT ![n] = e]
  OBVIOUS
<1> HIDE DEF e
<1>5. /\ q \in Seq(Call) /\ Len(q) = n /\ q[n] = e
      /\ \A i \in 1 .. n : i # n => q[i] = s[i]
  <2>1. LET r == [s EXCEPT ![n] = e] IN
        /\ r \in Seq(Call) /\ Len(r) = n
        /\ \A i \in 1 .. n : r[i] = IF i = n THEN e ELSE s[i]
    BY <1>1, <1>3, ExceptSeq
  <2> QED BY <1>1, <1>4, <2>1
<1> QED BY <1>1, <1>3, <1>5

LEMMA HitKeeps ==
  ASSUME IInv, Hit
  PROVE  IInv'
<1> DEFINE n == Len(stack)
<1> DEFINE c == Children[Len(Top.parts) + 1]
<1>1. /\ stack # <<>> /\ c \in DOMAIN cache
      /\ stack' = [stack EXCEPT ![n].parts = Append(@, cache[c])]
      /\ UNCHANGED <<graph, cache, layout, overflow, broken>>
  BY DEF Hit
<1>2. n \in 1 .. n /\ Len(Top.parts) < Len(Children)
  BY NextPart DEF Hit
<1>3. cache[c] \in Datatype /\ cache[c].type = c
  BY <1>1 DEF IInv, TypeOK, Named
<1> HIDE DEF c
<1> DEFINE d == cache[c]
<1>4. stack \in Seq(Call) /\ n \in Nat /\ stack[n] \in Call
      /\ stack[n].parts \in Seq(Datatype)
  BY <1>2, CallFields DEF IInv, TypeOK
<1> DEFINE p == Append(stack[n].parts, cache[c])
<1>5. /\ p \in Seq(Datatype) /\ Len(p) = Len(stack[n].parts) + 1
      /\ \A j \in 1 .. Len(stack[n].parts) : p[j] = stack[n].parts[j]
      /\ p[Len(p)] = cache[c]
  BY <1>3, <1>4
<1>6. /\ stack' \in Seq(Call) /\ Len(stack') = n
      /\ \A i \in 1 .. n : stack'[i].type = stack[i].type
      /\ \A i \in 1 .. n : i # n => stack'[i].parts = stack[i].parts
      /\ stack'[n].parts = p
  <2>1. stack \in Seq(Call) /\ stack # <<>> /\ d \in Datatype
    BY <1>1, <1>3, <1>4
  <2>2. stack' = [stack EXCEPT ![Len(stack)].parts = Append(@, d)]
    BY <1>1
  <2> HIDE DEF d
  <2>3. stack' \in Seq(Call) /\ Len(stack') = Len(stack)
    BY <2>1, <2>2, PutPart, ZenonT(40)
  <2>4. \A i \in 1 .. Len(stack) : stack'[i].type = stack[i].type
    BY <2>1, <2>2, PutPart
  <2>5. \A i \in 1 .. Len(stack) :
            i # Len(stack) => stack'[i].parts = stack[i].parts
    BY <2>1, <2>2, PutPart
  <2>6. stack'[Len(stack)].parts = Append(stack[Len(stack)].parts, d)
    BY <2>1, <2>2, PutPart
  <2> QED BY <2>3, <2>4, <2>5, <2>6 DEF d
<1> HIDE DEF p
<1>8. TypeOK' /\ Named' /\ Registered' /\ StructOnce' /\ OpenOnStack'
  BY <1>1, <1>6
  DEF IInv, TypeOK, Named, Registered, StructOnce, OpenOnStack
<1>9. PartsKnown'
  <2>1. ASSUME NEW j \in 1 .. Len(p) PROVE p[j].type \in DOMAIN cache
    <3>1. CASE j = Len(p)
      BY <1>1, <1>3, <1>5, <3>1
    <3>2. CASE j \in 1 .. Len(stack[n].parts)
      BY <1>2, <1>5, <3>2 DEF IInv, PartsKnown
    <3> QED BY <1>4, <1>5, <2>1, <3>1, <3>2, SMTT(30)
  <2>2. ASSUME NEW i \in 1 .. n, NEW j \in 1 .. Len(stack'[i].parts)
        PROVE  stack'[i].parts[j].type \in DOMAIN cache
    BY <1>6, <2>1, <2>2 DEF IInv, PartsKnown
  <2> QED BY <1>1, <1>6, <2>2 DEF PartsKnown
<1>10. Pending'
  <2>1. Len(p) <= Len(Parts[graph][stack[n].type])
    <3>1. Len(Children) \in Nat
      BY <1>2, CallFields DEF IInv, Children, Top
    <3> QED BY <1>2, <1>4, <1>5, <3>1 DEF Top, Children
  <2> QED BY <1>1, <1>2, <1>6, <2>1 DEF IInv, Pending
<1> QED BY <1>8, <1>9, <1>10 DEF IInv

\* A call that returns hands its datatype to the call below it.
LEMMA PopStack ==
  ASSUME TypeOK, stack # <<>>, NEW d \in Datatype, Pop(d)
  PROVE  LET n == Len(stack) IN
         /\ n \in Nat /\ n # 0 /\ Len(stack') = n - 1
         /\ stack' \in Seq(Call)
         /\ \A i \in 1 .. n - 1 : stack'[i].type = stack[i].type
         /\ \A i \in 1 .. n - 1 : i # n - 1 => stack'[i].parts = stack[i].parts
         /\ n # 1 => stack'[n - 1].parts = Append(stack[n - 1].parts, d)
<1> DEFINE n == Len(stack)
<1> DEFINE rest == SubSeq(stack, 1, n - 1)
<1>1. stack \in Seq(Call) /\ n \in Nat /\ n # 0
  BY DEF TypeOK
<1>2. /\ rest \in Seq(Call) /\ Len(rest) = n - 1
      /\ \A i \in 1 .. n - 1 : rest[i] = stack[i]
  <2>1. /\ 1 \in Int /\ n - 1 \in Int /\ n \in Int
        /\ \A i \in 1 .. n - 1 : stack[i] \in Call
    BY <1>1
  <2>2. /\ rest \in Seq(Call)
        /\ Len(rest) = IF 1 <= n - 1 THEN n - 1 - 1 + 1 ELSE 0
        /\ \A i \in 1 .. n - 1 - 1 + 1 : rest[i] = stack[1 + i - 1]
    BY <2>1, SubSeqProperties
  <2> HIDE DEF rest
  <2>3. n - 1 - 1 + 1 = n - 1 /\ \A i \in 1 .. n - 1 : 1 + i - 1 = i
    BY <2>1
  <2>4. Len(rest) = n - 1
    <3>1. CASE n = 1
      BY <2>2, <3>1
    <3>2. CASE n # 1
      <4> HIDE DEF n
      <4>1. 1 <= n - 1 /\ n - 1 - 1 + 1 = n - 1
        BY <1>1, <3>2
      <4> QED BY <2>2, <4>1
    <3> QED BY <3>1, <3>2
  <2> QED BY <2>2, <2>3, <2>4
<1>3. CASE n = 1
  <2>1. rest = <<>>
    BY <1>2, <1>3
  <2>2. stack' = <<>>
    BY <2>1 DEF Pop
  <2> QED BY <1>1, <1>3, <2>2
<1>4. CASE n # 1
  <2>1. rest # <<>> /\ n - 1 \in 1 .. n - 1
    <3> HIDE DEF rest
    <3>1. Len(rest) # 0 /\ n - 1 \in 1 .. n - 1
      BY <1>1, <1>2, <1>4
    <3>2. Len(<<>>) = 0
      OBVIOUS
    <3> QED BY <3>1, <3>2
  <2>2. stack' = [rest EXCEPT ![Len(rest)].parts = Append(@, d)]
    BY <2>1 DEF Pop
  <2> HIDE DEF rest
  <2>3. /\ stack' \in Seq(Call) /\ Len(stack') = n - 1
        /\ \A i \in 1 .. n - 1 : stack'[i].type = rest[i].type
        /\ \A i \in 1 .. n - 1 : i # n - 1 => stack'[i].parts = rest[i].parts
        /\ stack'[n - 1].parts = Append(rest[n - 1].parts, d)
    BY <1>2, <2>1, <2>2, PutPart, SMTT(30)
  <2>4. \A i \in 1 .. n - 1 : i # n - 1 => stack'[i].parts = stack[i].parts
    BY <1>2, <2>3
  <2>5. stack'[n - 1].parts = Append(stack[n - 1].parts, d)
    BY <1>2, <2>1, <2>3
  <2> QED BY <1>1, <1>2, <2>3, <2>4, <2>5
<1> QED BY <1>3, <1>4

LEMMA ReturnKeeps ==
  ASSUME IInv, Return
  PROVE  IInv'
<1> DEFINE n == Len(stack)
<1> DEFINE t == Top.type
<1> DEFINE d == Made(t, Top.parts)
<1>1. /\ stack # <<>> /\ Ready /\ Pop(d) /\ UNCHANGED <<graph, overflow, broken>>
      /\ cache' = IF d.type \in DOMAIN cache THEN cache
                  ELSE [u \in DOMAIN cache \cup {d.type} |->
                            IF u = d.type THEN d ELSE cache[u]]
      /\ layout' = IF t \in Struct \ Refused[graph]
                   THEN [u \in DOMAIN layout \cup {t} |->
                            IF u = t THEN StructSize(t, Top.parts) ELSE layout[u]]
                   ELSE layout
  BY DEF Return
<1>2. TypeOK /\ n \in Nat /\ n \in 1 .. n /\ stack \in Seq(Call)
  BY <1>1 DEF IInv, TypeOK
<1>3. /\ t \in Type /\ Top.parts \in Seq(Datatype)
      /\ Len(Top.parts) = Len(Parts[graph][t])
  BY <1>1, <1>2, CallFields DEF Ready, Top, Children
<1>4. d \in Datatype /\ d.type \in Type
  <2>1. d \in Datatype
    BY <1>2, <1>3, MadeTyped
  <2> QED BY <2>1 DEF Datatype
<1>5. d.type \in DOMAIN cache \/ (d.type = t /\ t \notin Struct)
  <2>1. CASE t \notin Struct /\ Len(Top.parts) = 1 /\ d = Top.parts[1]
    <3>1. \A j \in 1 .. Len(stack[n].parts) : stack[n].parts[j].type \in DOMAIN cache
      BY <1>2 DEF IInv, PartsKnown
    <3> QED BY <2>1, <3>1 DEF Top
  <2>2. CASE d.type = t
    <3>1. t \in Struct => t \in DOMAIN cache
      BY <1>2 DEF IInv, Registered, Top
    <3> QED BY <2>2, <3>1
  <2>3. d.type = t \/ (t \notin Struct /\ Len(Top.parts) = 1 /\ d = Top.parts[1])
    BY <1>2, <1>3, MadeTyped
  <2> QED BY <2>1, <2>2, <2>3
<1>6. t \in Struct => StructSize(t, Top.parts) \in Nat
  BY <1>2, <1>3, StructSizeTyped
<1>7. t = stack[n].type
  BY DEF Top
<1> HIDE DEF d, t
<1>8. /\ n # 0 /\ Len(stack') = n - 1 /\ stack' \in Seq(Call)
      /\ \A i \in 1 .. n - 1 : stack'[i].type = stack[i].type
      /\ \A i \in 1 .. n - 1 : i # n - 1 => stack'[i].parts = stack[i].parts
      /\ n # 1 => stack'[n - 1].parts = Append(stack[n - 1].parts, d)
  BY <1>1, <1>2, <1>4, PopStack
<1>9. /\ DOMAIN cache' = DOMAIN cache \cup {d.type}
      /\ \A u \in DOMAIN cache : cache'[u] = cache[u]
      /\ d.type \notin DOMAIN cache => cache'[d.type] = d
  BY <1>1
<1>10. DOMAIN layout' = IF t \in Struct \ Refused[graph]
                         THEN DOMAIN layout \cup {t} ELSE DOMAIN layout
  BY <1>1
<1>11. TypeOK'
  <2>1. DOMAIN cache' \subseteq Type /\ cache' \in [DOMAIN cache' -> Datatype]
    BY <1>1, <1>2, <1>4 DEF TypeOK
  <2>2. DOMAIN layout' \subseteq Struct /\ layout' \in [DOMAIN layout' -> Nat]
    BY <1>1, <1>2, <1>6 DEF TypeOK
  <2> QED BY <1>1, <1>2, <1>8, <2>1, <2>2 DEF TypeOK
<1>12. Named'
  BY <1>9 DEF IInv, Named
<1>13. Registered'
  <2>1. ASSUME NEW i \in 1 .. n - 1, stack'[i].type \in Struct
        PROVE  stack'[i].type \in DOMAIN cache'
    <3>1. i \in 1 .. n /\ stack'[i].type = stack[i].type
      BY <1>2, <1>8, <2>1
    <3> QED BY <1>9, <2>1, <3>1 DEF IInv, Registered
  <2> QED BY <1>8, <2>1 DEF Registered
<1>14. PartsKnown'
  <2>1. ASSUME NEW i \in 1 .. n - 1, NEW j \in 1 .. Len(stack'[i].parts)
        PROVE  stack'[i].parts[j].type \in DOMAIN cache'
    <3>1. CASE i # n - 1
      <4>1. i \in 1 .. n /\ stack'[i].parts = stack[i].parts
        BY <1>2, <1>8, <2>1, <3>1
      <4> QED BY <1>9, <2>1, <4>1 DEF IInv, PartsKnown
    <3>2. CASE i = n - 1
      <4>1. i \in 1 .. n /\ stack[i].parts \in Seq(Datatype)
        BY <1>2, <2>1, CallFields
      <4>2. stack'[i].parts = Append(stack[i].parts, d)
        BY <1>2, <1>8, <2>1, <3>2
      <4>3. \A k \in 1 .. Len(stack[i].parts) : stack[i].parts[k].type \in DOMAIN cache
        BY <4>1 DEF IInv, PartsKnown
      <4>4. CASE j \in 1 .. Len(stack[i].parts)
        <5>1. stack'[i].parts[j] = stack[i].parts[j]
          BY <4>1, <4>2, <4>4
        <5> QED BY <1>9, <4>3, <4>4, <5>1
      <4>5. CASE j = Len(stack[i].parts) + 1
        <5>1. stack'[i].parts[j] = d
          BY <1>4, <4>1, <4>2, <4>5
        <5> QED BY <1>9, <5>1
      <4>6. j \in 1 .. Len(stack[i].parts) + 1
        BY <1>4, <2>1, <4>1, <4>2
      <4> QED BY <4>1, <4>4, <4>5, <4>6
    <3> QED BY <3>1, <3>2
  <2> QED BY <1>8, <2>1 DEF PartsKnown
<1>15. Pending'
  <2>1. ASSUME NEW i \in 1 .. n - 1
        PROVE  /\ Len(stack'[i].parts) <= Len(Parts[graph][stack'[i].type])
               /\ i < n - 1 =>
                    Len(stack'[i].parts) < Len(Parts[graph][stack'[i].type])
    <3>1. i \in 1 .. n /\ i < n /\ stack[i].parts \in Seq(Datatype)
          /\ Len(Parts[graph][stack[i].type]) \in Nat
      BY <1>2, <2>1, CallFields
    <3>2. Len(stack[i].parts) < Len(Parts[graph][stack[i].type])
      BY <3>1 DEF IInv, Pending
    <3>3. i = n - 1 => Len(stack'[i].parts) = Len(stack[i].parts) + 1
      <4>1. i = n - 1 => stack'[i].parts = Append(stack[i].parts, d)
        BY <1>2, <1>8, <2>1
      <4> QED BY <1>4, <3>1, <4>1
    <3>4. stack'[i].type = stack[i].type
      BY <1>8, <2>1
    <3>5. i # n - 1 => stack'[i].parts = stack[i].parts
      BY <1>8, <2>1
    <3>6. Len(stack[i].parts) \in Nat
      BY <3>1
    <3>7. CASE i = n - 1
      <4>1. ~ (i < n - 1)
        BY <1>2, <3>7
      <4>2. Len(stack'[i].parts) = Len(stack[i].parts) + 1
        BY <3>3, <3>7
      <4>3. Len(stack'[i].parts) <= Len(Parts[graph][stack[i].type])
        BY <3>1, <3>2, <3>6, <4>2
      <4> QED BY <3>4, <4>1, <4>3
    <3>8. CASE i # n - 1
      <4>1. Len(stack'[i].parts) < Len(Parts[graph][stack'[i].type])
        BY <3>2, <3>4, <3>5, <3>8
      <4>2. Len(stack'[i].parts) <= Len(Parts[graph][stack'[i].type])
        BY <3>1, <3>2, <3>4, <3>5, <3>6, <3>8, SMTT(30)
      <4> QED BY <4>1, <4>2
    <3> QED BY <3>7, <3>8
  <2> QED BY <1>1, <1>8, <2>1 DEF Pending
<1>16. StructOnce'
  BY <1>2, <1>8, SMTT(30) DEF IInv, StructOnce
<1>17. OpenOnStack'
  <2>1. ASSUME NEW u \in Struct \cap DOMAIN cache', u \notin DOMAIN layout',
               u \notin Refused[graph], ~broken
        PROVE  \E i \in 1 .. n - 1 : stack'[i].type = u
    <3>1. u \in DOMAIN cache /\ u \notin DOMAIN layout /\ u # t
      BY <1>5, <1>9, <1>10, <2>1
    <3>2. PICK i \in 1 .. n : stack[i].type = u
      BY <1>2, <2>1, <3>1 DEF IInv, OpenOnStack
    <3>3. i # n
      BY <1>7, <3>1, <3>2
    <3>4. i \in 1 .. n - 1
      BY <1>2, <3>2, <3>3
    <3> QED BY <1>8, <3>2, <3>4
  <2> QED BY <1>1, <1>8, <2>1 DEF OpenOnStack
<1> QED BY <1>11, <1>12, <1>13, <1>14, <1>15, <1>16, <1>17 DEF IInv

\* Without a running call and with Ghidra's own types only, all is well.
Fresh ==
    /\ graph \in Graph
    /\ cache = CoreTypes
    /\ layout = <<>>
    /\ stack = <<>>
    /\ overflow \in BOOLEAN
    /\ broken \in BOOLEAN

LEMMA FreshKeeps == Fresh => IInv
<1> SUFFICES ASSUME Fresh PROVE IInv
  OBVIOUS
<1> USE DEF Fresh
<1>1. \A t \in Core : t \in Type /\ Size[graph][t] \in Nat
  BY TypeAssumption
<1>2. DOMAIN cache = Core /\ \A t \in Core : cache[t] = [type |-> t, size |-> Size[graph][t]]
  BY DEF CoreTypes
<1>3. cache \in [Core -> Datatype] /\ Core \subseteq Type
  BY <1>1, <1>2 DEF Datatype, CoreTypes
<1>4. Len(stack) = 0 /\ stack \in Seq(Call) /\ 1 .. 0 = {}
  OBVIOUS
<1>5. DOMAIN layout = {} /\ layout \in [{} -> Nat]
  OBVIOUS
<1>6. TypeOK
  BY <1>2, <1>3, <1>4, <1>5 DEF TypeOK
<1>7. Named
  BY <1>2 DEF Named
<1>8. Registered /\ PartsKnown /\ Pending /\ StructOnce
  BY <1>4 DEF Registered, PartsKnown, Pending, StructOnce
<1>9. OpenOnStack
  BY <1>2, TypeAssumption DEF OpenOnStack
<1> QED BY <1>6, <1>7, <1>8, <1>9 DEF IInv

-----------------------------------------------------------------------------
(* The invariants *)

\* The inductive invariant holds in every state.
THEOREM Invariant == Spec => []IInv
<1>1. Init => IInv
  BY FreshKeeps DEF Init, Fresh
<1>a. Fresh' => IInv'
  BY FreshKeeps, PTL
<1>2. ASSUME IInv, [Next]_vars
      PROVE  IInv'
  <2>1. ASSUME NEW t \in Type, Request(t)
        PROVE  IInv'
    <3>1. t \in Struct => t \notin DOMAIN cache
      BY <2>1, TypeAssumption DEF Request
    <3>2. Enter(t) /\ stack = <<>> /\ UNCHANGED <<graph, layout, broken>>
          /\ overflow' \in BOOLEAN
      BY <1>2, <2>1 DEF Request, IInv, TypeOK
    <3> QED BY <1>2, <3>1, <3>2, EnterKeeps
  <2>2. CASE Hit
    BY <1>2, <2>2, HitKeeps
  <2>3. CASE Miss
    <3> DEFINE c == Children[Len(Top.parts) + 1]
    <3>1. /\ stack # <<>> /\ ~Ready /\ c \notin DOMAIN cache
          /\ UNCHANGED <<graph, layout, broken>>
      BY <2>3 DEF Miss
    <3>2. c \in Type /\ Len(Top.parts) < Len(Children)
      BY <1>2, <3>1, NextPart
    <3>3. CASE Len(stack) < MaxDepth
      <4>1. Enter(c) /\ overflow' \in BOOLEAN
        BY <1>2, <2>3, <3>3 DEF Miss, IInv, TypeOK
      <4> HIDE DEF c
      <4> QED BY <1>2, <3>1, <3>2, <4>1, EnterKeeps
    <3>4. CASE ~(Len(stack) < MaxDepth)
      <4>1. overflow' = TRUE /\ UNCHANGED <<graph, cache, layout, stack, broken>>
        BY <2>3, <3>1, <3>4 DEF Miss
      <4> QED BY <1>2, <4>1
              DEF IInv, TypeOK, Named, Registered, PartsKnown, Pending,
                  StructOnce, OpenOnStack
    <3> QED BY <3>3, <3>4
  <2>4. CASE Return
    BY <1>2, <2>4, ReturnKeeps
  <2>5. CASE Clear
    <3>1. Fresh'
      BY <1>2, <2>5 DEF Clear, IInv, TypeOK, CoreTypes, Fresh
    <3> QED BY <1>a, <3>1
  <2>6. CASE Throw
    <3>1. stack' = <<>> /\ broken' = TRUE /\ UNCHANGED <<graph, cache, layout, overflow>>
      BY <2>6 DEF Throw
    <3>2. Len(stack') = 0 /\ stack' \in Seq(Call) /\ 1 .. 0 = {}
      BY <3>1
    <3> QED BY <1>2, <3>1, <3>2
            DEF IInv, TypeOK, Named, Registered, PartsKnown, Pending,
                StructOnce, OpenOnStack
  <2>7. CASE UNCHANGED vars
    BY <1>2, <2>7
    DEF vars, IInv, TypeOK, Named, Registered, PartsKnown, Pending,
        StructOnce, OpenOnStack
  <2> QED BY <1>2, <2>1, <2>2, <2>3, <2>4, <2>5, <2>6, <2>7 DEF Next
<1> QED BY <1>1, <1>2, PTL DEF Spec

\* The type invariant holds for every database of types: whatever IDA does
\* not know the size of, no datatype is made with IDA's -1.
THEOREM TypesCorrect == Spec => []TypeOK
<1>1. IInv => TypeOK
  BY DEF IInv
<1> QED BY <1>1, Invariant, PTL

\* On no database do the calls of parseTypeInfo parse a struct inside itself.
THEOREM ParsedOnce == Spec => []StructOnce
<1>1. IInv => StructOnce
  BY DEF IInv
<1> QED BY <1>1, Invariant, PTL

\* On no database does a decompilation meet a struct that has no fields, but for
\* those that are being parsed or were refused, whatever an exception left.
THEOREM FieldsSet == Spec => []OpenOnStack
<1>1. IInv => OpenOnStack
  BY DEF IInv
<1> QED BY <1>1, Invariant, PTL

-----------------------------------------------------------------------------
(* The depth of the recursion *)

\* The structs among the first i calls.
OpenIn(s, i) == {t \in Struct : \E j \in 1 .. i : s[j].type = t}

\* What may come on top of a call before the next struct.
Room(height, k, g, t) == IF t \in Struct THEN k ELSE height[g][t]

\* With n structs up to it, a call has that room in a nest of n structs.
DeepIn(height, k, g, s) ==
    \A i \in 1 .. Len(s) :
        i + Room(height, k, g, s[i].type) <= Nesting(Cardinality(OpenIn(s, i)), k)

LEMMA NestingGrows ==
  ASSUME NEW k \in Nat
  PROVE  \A m \in Nat :
            /\ Nesting(m, k) \in Nat /\ k <= Nesting(m, k)
            /\ Nesting(m + 1, k) = Nesting(m, k) + k + 1
            /\ \A n \in Nat : m <= n => Nesting(m, k) <= Nesting(n, k)
<1> SUFFICES ASSUME NEW m \in Nat
             PROVE  /\ Nesting(m, k) \in Nat /\ k <= Nesting(m, k)
                    /\ Nesting(m + 1, k) = Nesting(m, k) + k + 1
                    /\ \A n \in Nat : m <= n => Nesting(m, k) <= Nesting(n, k)
  OBVIOUS
<1>1. m * (k + 1) \in Nat
  OBVIOUS
<1>2. (m + 1) * (k + 1) = m * (k + 1) + k + 1
  OBVIOUS
<1>3. ASSUME NEW n \in Nat, m <= n
      PROVE  m * (k + 1) <= n * (k + 1)
  <2>1. n * (k + 1) = m * (k + 1) + (n - m) * (k + 1)
    OBVIOUS
  <2>2. n - m \in Nat
    BY <1>3
  <2>3. (n - m) * (k + 1) \in Nat
    BY <2>2
  <2> QED BY <1>1, <2>1, <2>3
<1>4. \A n \in Nat : n * (k + 1) \in Nat
  OBVIOUS
<1>5. ASSUME NEW n \in Nat, m <= n
      PROVE  Nesting(m, k) <= Nesting(n, k)
  BY <1>1, <1>3, <1>4, <1>5 DEF Nesting
<1>6. Nesting(m, k) \in Nat /\ k <= Nesting(m, k)
  BY <1>1 DEF Nesting
<1>7. Nesting(m + 1, k) = Nesting(m, k) + k + 1
  BY <1>1, <1>2 DEF Nesting
<1> QED BY <1>5, <1>6, <1>7

\* Stacks of the same types are as deep.
LEMMA SameDepth ==
  ASSUME NEW height, NEW k, NEW g, NEW s, NEW q,
         Len(q) \in Nat, Len(s) \in Nat, Len(q) <= Len(s),
         \A i \in 1 .. Len(q) : q[i].type = s[i].type,
         DeepIn(height, k, g, s)
  PROVE  DeepIn(height, k, g, q)
<1>1. ASSUME NEW i \in 1 .. Len(q)
      PROVE  i \in 1 .. Len(s) /\ q[i].type = s[i].type /\ OpenIn(q, i) = OpenIn(s, i)
  <2>1. \A j \in 1 .. i : q[j].type = s[j].type
    OBVIOUS
  <2> QED BY <2>1 DEF OpenIn
<1> QED BY <1>1 DEF DeepIn

\* One more call, for a part of the call that waits and for no struct that is
\* being parsed.
LEMMA PushDeep ==
  ASSUME NEW k \in Nat, NEW height, Layered(height, k), IsFiniteSet(Struct),
         NEW g \in Graph, NEW s \in Seq(Call), NEW t \in Type,
         s # <<>> => \E j \in DOMAIN Parts[g][s[Len(s)].type] :
                        t = Parts[g][s[Len(s)].type][j],
         t \in Struct => t \notin OpenIn(s, Len(s)),
         DeepIn(height, k, g, s),
         NEW q, q = Append(s, [type |-> t, parts |-> <<>>])
  PROVE  DeepIn(height, k, g, q) /\ Len(q) <= Nesting(Cardinality(Struct), k)
<1> DEFINE n == Len(s)
           C(i) == Cardinality(OpenIn(q, i))
<1>1. /\ n \in Nat /\ Len(q) = n + 1 /\ q[n + 1].type = t
      /\ \A i \in 1 .. n : q[i] = s[i]
  <2> DEFINE e == [type |-> t, parts |-> <<>>]
  <2>1. e \in Call /\ e.type = t
    BY DEF Call
  <2> HIDE DEF e
  <2> QED BY <2>1 DEF e
<1>2. ASSUME NEW i \in 1 .. n
      PROVE  OpenIn(q, i) = OpenIn(s, i)
  BY <1>1 DEF OpenIn
<1>3. OpenIn(q, n + 1) = OpenIn(s, n) \cup (IF t \in Struct THEN {t} ELSE {})
  <2>1. \A u : (\E j \in 1 .. n + 1 : q[j].type = u) <=>
               (u = t \/ \E j \in 1 .. n : s[j].type = u)
    BY <1>1
  <2> QED BY <2>1 DEF OpenIn
<1>4. /\ \A i \in 1 .. n + 1 : IsFiniteSet(OpenIn(q, i)) /\ C(i) \in Nat
      /\ C(n + 1) <= Cardinality(Struct) /\ Cardinality(Struct) \in Nat
      /\ IsFiniteSet(OpenIn(s, n)) /\ Cardinality(OpenIn(s, n)) \in Nat
  <2>1. \A r, i : OpenIn(r, i) \in SUBSET Struct
    BY DEF OpenIn
  <2>2. \A S \in SUBSET Struct : IsFiniteSet(S) /\ Cardinality(S) <= Cardinality(Struct)
    BY FS_Subset
  <2>3. \A S \in SUBSET Struct : Cardinality(S) \in Nat
    BY <2>2, FS_CardinalityType
  <2> QED BY <2>1, <2>2, <2>3
<1> DEFINE m == Cardinality(OpenIn(s, n))
<1>5. C(n + 1) = IF t \in Struct THEN m + 1 ELSE m
  <2>1. CASE t \in Struct
    BY <1>3, <1>4, <2>1, FS_AddElement
  <2>2. CASE t \notin Struct
    BY <1>3, <2>2
  <2> QED BY <2>1, <2>2
<1> HIDE DEF C, m
<1>m. m \in Nat
  BY <1>4 DEF m
<1> DEFINE R(u) == Room(height, k, g, u)
<1>6. \A u \in Type : R(u) \in Nat /\ (u \notin Struct => R(u) + 1 <= k)
  BY DEF Room, Layered
<1>7. /\ Nesting(m, k) \in Nat /\ k <= Nesting(m, k)
      /\ Nesting(m + 1, k) = Nesting(m, k) + k + 1
  BY <1>m, NestingGrows
<1>r. R(t) \in Nat /\ (t \notin Struct => R(t) + 1 <= k)
  BY <1>6
<1>8. n <= Nesting(m, k) /\ (t \notin Struct => n + 1 + R(t) <= Nesting(m, k))
  <2>1. CASE n = 0
    <3> HIDE DEF n, R
    <3> QED BY <1>7, <1>r, <2>1
  <2>2. CASE n # 0
    <3> DEFINE u == s[n].type
    <3>1. n \in 1 .. n /\ s # <<>> /\ s[n] \in Call
      BY <1>1, <2>2
    <3>2. u \in Type
      BY <3>1 DEF Call
    <3>3. n + R(u) <= Nesting(m, k)
      BY <3>1 DEF DeepIn, m
    <3>4. t \notin Struct => R(t) + 1 <= R(u)
      <4>1. CASE u \in Struct
        BY <1>6, <4>1 DEF Room
      <4>2. CASE u \notin Struct
        <5> SUFFICES ASSUME t \notin Struct PROVE R(t) + 1 <= R(u)
          OBVIOUS
        <5>1. PICK j \in DOMAIN Parts[g][u] : t = Parts[g][u][j]
          BY <3>1
        <5>2. height[g][t] < height[g][u]
          BY <3>2, <4>2, <5>1 DEF Layered
        <5>3. R(t) = height[g][t] /\ R(u) = height[g][u] /\ R(t) \in Nat /\ R(u) \in Nat
          BY <1>6, <3>2, <4>2 DEF Room
        <5> QED BY <5>2, <5>3
      <4> QED BY <4>1, <4>2
    <3>5. R(u) \in Nat
      BY <1>6, <3>2
    <3> HIDE DEF u, R, n
    <3> QED BY <1>1, <1>7, <1>r, <3>3, <3>4, <3>5
  <2> QED BY <2>1, <2>2
<1> HIDE DEF n
<1>9. n + 1 + R(t) <= Nesting(C(n + 1), k)
  <2>1. CASE t \in Struct
    <3>1. R(t) = k
      BY <2>1 DEF Room
    <3> HIDE DEF R
    <3> QED BY <1>1, <1>5, <1>7, <1>8, <2>1, <3>1
  <2>2. CASE t \notin Struct
    BY <1>5, <1>8, <2>2
  <2> QED BY <2>1, <2>2
<1>10. DeepIn(height, k, g, q)
  <2>1. ASSUME NEW i \in 1 .. n + 1
        PROVE  i + R(q[i].type) <= Nesting(C(i), k)
    <3>1. CASE i = n + 1
      BY <1>1, <1>9, <3>1
    <3>2. CASE i \in 1 .. n
      BY <1>1, <1>2, <3>2 DEF DeepIn, C, n
    <3> QED BY <1>1, <3>1, <3>2
  <2> QED BY <1>1, <2>1 DEF DeepIn, C
<1>11. n + 1 <= Nesting(Cardinality(Struct), k)
  <2>1. C(n + 1) \in Nat /\ C(n + 1) <= Cardinality(Struct)
    BY <1>1, <1>4 DEF C
  <2>2. Nesting(C(n + 1), k) <= Nesting(Cardinality(Struct), k)
    BY <1>4, <2>1, NestingGrows
  <2>3. Nesting(Cardinality(Struct), k) \in Nat /\ Nesting(C(n + 1), k) \in Nat
    BY <1>4, <2>1, NestingGrows
  <2> HIDE DEF R
  <2> QED BY <1>1, <1>r, <1>9, <2>2, <2>3
<1> QED BY <1>1, <1>10, <1>11

\* What the native stack has to hold is known before anything is asked: as
\* many calls as there are structs, with the longest way from struct to struct
\* before, between and behind them.  On every database the calls of
\* parseTypeInfo and findByTypeInfo fit in a stack of that depth.
THEOREM DeepEnough ==
  ASSUME NEW k \in Nat, NEW height, Layered(height, k), IsFiniteSet(Struct),
         MaxDepth >= Nesting(Cardinality(Struct), k)
  PROVE  Spec => []NoOverflow
<1> DEFINE Fits == DeepIn(height, k, graph, stack) /\ ~overflow
<1>1. Init => Fits
  BY DEF Init, DeepIn
<1>2. ASSUME IInv, Fits, [Next]_vars
      PROVE  Fits'
  <2> DEFINE n == Len(stack)
  <2>1. stack \in Seq(Call) /\ n \in Nat /\ graph \in Graph
    BY <1>2 DEF IInv, TypeOK
  <2>2. ASSUME NEW t \in Type, t \in Struct => t \notin DOMAIN cache, Enter(t),
               stack # <<>> => \E j \in DOMAIN Parts[graph][stack[n].type] :
                                    t = Parts[graph][stack[n].type][j],
               UNCHANGED <<graph, overflow>>
        PROVE  Fits'
    <3>1. t \in Struct => t \notin OpenIn(stack, n)
      BY <1>2, <2>2 DEF IInv, Registered, OpenIn
    <3>2. stack' = Append(stack, [type |-> t, parts |-> <<>>])
      BY <2>2 DEF Enter
    <3>3. DeepIn(height, k, graph, stack')
      BY <1>2, <2>1, <2>2, <3>1, <3>2, PushDeep
    <3> QED BY <1>2, <2>2, <3>3
  <2>3. ASSUME NEW t \in Type, Request(t)
        PROVE  Fits'
    <3>1. t \in Struct => t \notin DOMAIN cache
      BY <2>3, TypeAssumption DEF Request
    <3> QED BY <2>2, <2>3, <3>1 DEF Request
  <2>4. CASE Hit
    <3> DEFINE d == cache[Children[Len(Top.parts) + 1]]
    <3>1. /\ stack # <<>> /\ UNCHANGED <<graph, overflow>>
          /\ stack' = [stack EXCEPT ![Len(stack)].parts = Append(@, d)]
      BY <2>4 DEF Hit
    <3>2. d \in Datatype
      BY <1>2, <2>4 DEF Hit, IInv, TypeOK
    <3> HIDE DEF d
    <3>3. Len(stack') = n /\ \A i \in 1 .. n : stack'[i].type = stack[i].type
      BY <2>1, <3>1, <3>2, PutPart
    <3>4. DeepIn(height, k, graph, stack')
      BY <1>2, <2>1, <3>3, SameDepth
    <3> QED BY <1>2, <3>1, <3>4
  <2>5. CASE Miss
    <3> DEFINE c == Children[Len(Top.parts) + 1]
    <3>1. /\ stack # <<>> /\ ~Ready /\ c \notin DOMAIN cache /\ UNCHANGED graph
          /\ IF n < MaxDepth THEN Enter(c) /\ UNCHANGED overflow
             ELSE overflow' = TRUE /\ UNCHANGED <<cache, stack>>
      BY <2>5 DEF Miss
    <3>2. c \in Type /\ Len(Top.parts) < Len(Children) /\ n \in 1 .. n
      BY <1>2, <3>1, NextPart
    <3>3. \E j \in DOMAIN Parts[graph][stack[n].type] :
                c = Parts[graph][stack[n].type][j]
      <4>1. Top.parts \in Seq(Datatype) /\ Children \in Seq(Type)
        BY <1>2, <3>2, CallFields DEF IInv, Top, Children
      <4>2. Len(Top.parts) + 1 \in DOMAIN Children
        BY <3>2, <4>1
      <4> QED BY <4>2 DEF Top, Children
    <3> HIDE DEF c
    <3>4. n < MaxDepth
      <4> DEFINE q == Append(stack, [type |-> c, parts |-> <<>>])
      <4>1. c \in Struct => c \notin OpenIn(stack, n)
        BY <1>2, <3>1 DEF IInv, Registered, OpenIn
      <4>2. Len(q) <= Nesting(Cardinality(Struct), k)
        BY <1>2, <2>1, <3>2, <3>3, <4>1, PushDeep
      <4>3. Len(q) = n + 1
        <5> DEFINE e == [type |-> c, parts |-> <<>>]
        <5>1. e \in Call
          BY <3>2 DEF Call
        <5> HIDE DEF e
        <5> QED BY <2>1, <5>1 DEF e
      <4>4. Cardinality(Struct) \in Nat
        BY FS_CardinalityType
      <4>5. Nesting(Cardinality(Struct), k) \in Nat
        BY <4>4, NestingGrows
      <4> QED BY <2>1, <4>2, <4>3, <4>5, TypeAssumption
    <3> QED BY <1>2, <2>2, <3>1, <3>2, <3>3, <3>4
  <2>6. CASE Return
    <3> DEFINE d == Made(Top.type, Top.parts)
    <3>1. /\ stack # <<>> /\ Ready /\ Pop(d) /\ UNCHANGED <<graph, overflow>>
      BY <2>6 DEF Return
    <3>2. d \in Datatype
      <4>1. n \in 1 .. n
        BY <2>1, <3>1
      <4> QED BY <1>2, <3>1, <4>1, CallFields, MadeTyped DEF IInv, Ready, Top, Children
    <3> HIDE DEF d
    <3>3. Len(stack') = n - 1 /\ n # 0
          /\ \A i \in 1 .. n - 1 : stack'[i].type = stack[i].type
      BY <1>2, <3>1, <3>2, PopStack DEF IInv
    <3>4. DeepIn(height, k, graph, stack')
      BY <1>2, <2>1, <3>3, SameDepth
    <3> QED BY <1>2, <3>1, <3>4
  <2>7. CASE Clear
    BY <1>2, <2>7 DEF Clear
  <2>8. CASE Throw
    BY <1>2, <2>8 DEF Throw, DeepIn
  <2>9. CASE UNCHANGED vars
    BY <1>2, <2>9 DEF vars
  <2> QED BY <1>2, <2>3, <2>4, <2>5, <2>6, <2>7, <2>8, <2>9 DEF Next
<1>3. Fits => NoOverflow
  BY DEF NoOverflow
<1> QED BY <1>1, <1>2, <1>3, Invariant, PTL DEF Spec
=============================================================================
