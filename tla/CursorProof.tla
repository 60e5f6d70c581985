----------------------------- MODULE CursorProof -----------------------------
(***************************************************************************)
(* For every width, every frame and every line: what findStackVar and the  *)
(* double click make of the offset of a variable is the place of that      *)
(* variable; the line is what KeywordProof is about, so that the word is   *)
(* the token under the cursor and no other word leads anywhere.            *)
(***************************************************************************)
EXTENDS Cursor, KeywordProof

Sizes == {s \in {4, 8} \X {4, 8} : s[2] <= s[1]}

\* The remainders the conversions come to.
LEMMA ModSmall ==
  ASSUME NEW n \in Nat, NEW M \in Nat \ {0}, n < M
  PROVE  n % M = n
OBVIOUS

LEMMA ModNeg ==
  ASSUME NEW n \in Int, NEW M \in Nat \ {0}, -M <= n, n < 0
  PROVE  n % M = n + M
OBVIOUS

LEMMA ModBig ==
  ASSUME NEW n \in Nat, NEW M \in Nat \ {0}, M <= n, n < 2 * M
  PROVE  n % M = n - M
OBVIOUS

LEMMA ModMultiple ==
  ASSUME NEW n \in Nat, NEW k \in Nat, NEW M \in Nat \ {0}, n < M
  PROVE  (n + k * M) % M = n
<1> DEFINE x == n + k * M
           q == x \div M
           r == x % M
<1>1. k * M \in Nat
  OBVIOUS
<1>2. x \in Nat /\ q \in Int /\ r \in 0 .. M - 1 /\ x = M * q + r
  BY <1>1
<1>3. M * (q - k) = n - r
  BY <1>1, <1>2
<1>4. \A d \in Int : d >= 1 => M * d >= M
  OBVIOUS
<1>5. \A d \in Int : d <= -1 => M * d <= -M
  OBVIOUS
<1> HIDE DEF x, q, r
<1>6. ~ (q - k >= 1) /\ ~ (q - k <= -1)
  BY <1>2, <1>3, <1>4, <1>5
<1>7. q - k = 0
  BY <1>2, <1>6
<1> QED BY <1>2, <1>3, <1>7 DEF r, x

\* 2^64 is twice 2^32 at least, and a multiple of it.
LEMMA Widths ==
  /\ Sign \in Nat \ {0} /\ Half \in Nat \ {0} /\ Half = 2 * Sign
  /\ Half * Half \in Nat \ {0}
  /\ Half * Half >= 2 * Half
  /\ (Half - 1) * Half = Half * Half - Half
<1>1. Sign \in Nat \ {0} /\ Half \in Nat \ {0} /\ Half = 2 * Sign
  BY FrameAssumption DEF FrameAssumption, Half
<1>2. \A h \in Nat : h >= 2 => h * h \in Nat \ {0} /\ h * h >= 2 * h /\ (h - 1) * h = h * h - h
  OBVIOUS
<1> QED BY <1>1, <1>2

\* The distance of a member from the stack pointer, in 32 and in 64 bits.
LEMMA Distance ==
  ASSUME NEW s \in 0 .. Sign - 1, NEW b \in 0 .. Sign - 1
  PROVE  /\ s >= b => U32(s - b) = s - b /\ U64(s - b) = s - b
         /\ s < b => U32(s - b) = s - b + Half /\ U64(s - b) = s - b + Half * Half
<1>1. ASSUME s >= b PROVE s - b \in Nat /\ s - b < Half /\ s - b < Half * Half
  BY <1>1, Widths
<1>2. ASSUME s < b PROVE s - b \in Int /\ -Half <= s - b /\ -(Half * Half) <= s - b /\ s - b < 0
  BY <1>2, Widths
<1>3. ASSUME s >= b PROVE U32(s - b) = s - b /\ U64(s - b) = s - b
  BY <1>1, <1>3, Widths, ModSmall DEF U32, U64
<1>4. ASSUME s < b PROVE U32(s - b) = s - b + Half /\ U64(s - b) = s - b + Half * Half
  BY <1>2, <1>4, Widths, ModNeg DEF U32, U64
<1> QED BY <1>3, <1>4

\* The place that is opened for the offset of a variable is the variable's.
LEMMA PlaceExact ==
  ASSUME NEW f \in Frame, NEW s \in 0 .. Sign - 1, NEW z \in Sizes
  PROVE  FramePlace(z[1], f, StackOffset(f, s, z[2]), z[2]) = s
<1> DEFINE b == f.base
           o == StackOffset(f, s, z[2])
           e == Extended(o, z[2]) + b
<1>1. b \in 0 .. Sign - 1
  BY DEF Frame
<1>2. b \in Nat /\ s \in Nat /\ s < Sign /\ b < Sign
  BY <1>1, Widths
<1>3. z[1] \in {4, 8} /\ z[2] \in {4, 8}
  BY DEF Sizes
<1>4. e = s \/ e = s + Half * Half
  <2>1. CASE z[2] = 8
    <3>1. e = U64(s - b) + b
      BY <2>1 DEF StackOffset, Extended
    <3>2. CASE s >= b
      BY <1>1, <1>2, <3>1, <3>2, Distance
    <3>3. CASE s < b
      <4>1. U64(s - b) = s - b + Half * Half
        BY <1>1, <3>3, Distance
      <4> QED BY <1>2, <3>1, <4>1, Widths
    <3> QED BY <1>2, <3>2, <3>3
  <2>2. CASE z[2] = 4
    <3>1. o = U32(s - b)
      BY <2>2 DEF StackOffset
    <3>2. CASE s >= b
      <4>1. o = s - b
        BY <1>1, <3>1, <3>2, Distance
      <4>2. o \in Nat /\ o < Half /\ o < Sign
        BY <1>2, <3>2, <4>1, Widths
      <4>3. U32(o) = o
        BY <4>2, Widths, ModSmall DEF U32
      <4>4. Extended(o, z[2]) = o
        BY <4>2, <4>3, Widths DEF Extended
      <4> QED BY <1>2, <4>1, <4>4
    <3>3. CASE s < b
      <4>1. o = s - b + Half
        BY <1>1, <3>1, <3>3, Distance
      <4>2. o \in Nat /\ o < Half /\ o >= Sign
        BY <1>2, <3>3, <4>1, Widths
      <4>3. U32(o) = o
        BY <4>2, Widths, ModSmall DEF U32
      <4>4. Extended(o, z[2]) = (Half - 1) * Half + o
        BY <2>2, <4>2, <4>3 DEF Extended
      <4>5. Extended(o, z[2]) = Half * Half - Half + o
        BY <4>4, Widths
      <4> HIDE DEF o
      <4> QED BY <1>2, <4>1, <4>5, Widths
    <3> QED BY <1>2, <3>2, <3>3
  <2> QED BY <1>3, <2>1, <2>2
<1>5. s < Half /\ s < Half * Half
  BY <1>2, Widths
<1>6. U64(e) = s
  <2>1. CASE e = s
    BY <1>2, <1>5, <2>1, Widths, ModSmall DEF U64
  <2>2. CASE e = s + Half * Half
    <3>1. e \in Nat /\ Half * Half <= e /\ e < 2 * (Half * Half)
      BY <1>2, <1>5, <2>2, Widths
    <3>2. e % (Half * Half) = e - Half * Half
      BY <3>1, Widths, ModBig
    <3> QED BY <1>2, <2>2, <3>2, Widths DEF U64
  <2> QED BY <1>4, <2>1, <2>2
<1>7. U32(s) = s /\ U64(s) = s
  BY <1>2, <1>5, Widths, ModSmall DEF U32, U64
<1> QED BY <1>6, <1>7 DEF FramePlace, Ea

\* findStackVar takes a member for the variable if it is where the variable
\* is, and no other.
LEMMA IsAtExact ==
  ASSUME NEW f \in Frame, NEW s \in 0 .. Sign - 1, NEW z \in Sizes, NEW m \in Member
  PROVE  IsAt(z[1], f, m, StackOffset(f, s, z[2]), z[2]) <=> m.soff = s
<1> DEFINE b == f.base
           t == m.soff
           o == StackOffset(f, s, z[2])
<1>1. b \in 0 .. Sign - 1 /\ t \in 0 .. Sign - 1
  <2>1. b \in 0 .. Sign - 1
    BY DEF Frame
  <2>2. t \in 0 .. Sign - 1
    BY DEF Member
  <2> QED BY <2>1, <2>2
<1>2. b \in Nat /\ s \in Nat /\ t \in Nat /\ s < Sign /\ b < Sign /\ t < Sign
  BY <1>1, Widths
<1>3. z[1] \in {4, 8} /\ z[2] \in {4, 8} /\ z[2] <= z[1]
  BY DEF Sizes
<1> HIDE DEF b, t
<1>4. /\ \A x \in {s, t} : x >= b => U32(x - b) = x - b /\ U64(x - b) = x - b
      /\ \A x \in {s, t} :
            x < b => U32(x - b) = x - b + Half /\ U64(x - b) = x - b + Half * Half
  BY <1>1, Distance
<1> DEFINE s3 == U32(s - b)
           t3 == U32(t - b)
           s6 == U64(s - b)
           t6 == U64(t - b)
<1>5. /\ s >= b => s3 = s - b /\ s6 = s - b
      /\ t >= b => t3 = t - b /\ t6 = t - b
      /\ s < b => s3 = s - b + Half /\ s6 = s - b + Half * Half
      /\ t < b => t3 = t - b + Half /\ t6 = t - b + Half * Half
  BY <1>4
<1> HIDE DEF s3, t3, s6, t6
<1>6. /\ s3 \in Nat /\ t3 \in Nat /\ s6 \in Nat /\ t6 \in Nat
      /\ s3 < Half /\ t3 < Half
      /\ t3 = s3 <=> t = s
      /\ t6 = s6 <=> t = s
  BY <1>2, <1>5, Widths
<1>7. CASE z[2] = 8
  <2>1. z[1] = 8
    BY <1>3, <1>7
  <2>2. o = s6 /\ Ea(z[1], t - b) = t6
    BY <1>7, <2>1 DEF Ea, StackOffset, b, s6, t6
  <2> QED BY <1>6, <1>7, <2>2 DEF IsAt, t, b
<1>8. CASE z[2] = 4
  <2>1. o = s3
    BY <1>8 DEF StackOffset, b, s3
  <2>2. U32(o) = s3
    BY <1>6, <2>1, Widths, ModSmall DEF U32
  <2>3. U32(t3) = t3
    BY <1>6, Widths, ModSmall DEF U32
  <2>4. U32(t6) = t3
    <3>1. CASE t >= b
      BY <1>5, <2>3, <3>1
    <3>2. CASE t < b
      <4>1. t6 = t3 + (Half - 1) * Half
        BY <1>2, <1>5, <3>2, Widths
      <4>2. Half - 1 \in Nat
        BY Widths
      <4> QED BY <1>6, <4>1, <4>2, Widths, ModMultiple, ZenonT(40) DEF U32
    <3> QED BY <1>2, <3>1, <3>2
  <2>5. U32(Ea(z[1], t - b)) = t3
    BY <2>3, <2>4 DEF Ea, t3, t6
  <2>6. Ea(z[1], t - b) = o => t3 = s3
    BY <2>2, <2>5
  <2>7. IsAt(z[1], f, m, o, z[2]) <=> t3 = s3
    BY <1>8, <2>2, <2>5, <2>6 DEF IsAt, t, b
  <2> QED BY <1>6, <2>7 DEF t
<1> QED BY <1>3, <1>7, <1>8

\* findStackVar gives the name of the member that is where the variable is,
\* and nothing if there is none.
LEMMA FindExact ==
  ASSUME NEW f \in Frame, NEW s \in 0 .. Sign - 1, NEW z \in Sizes
  PROVE  LET found == FindStackVar(z[1], f, StackOffset(f, s, z[2]), z[2]) IN
         /\ \A i \in DOMAIN f.members :
                f.members[i].soff = s => found = f.members[i].name
         /\ (\A i \in DOMAIN f.members : f.members[i].soff # s) => found = NoMember
<1> DEFINE at == {i \in DOMAIN f.members :
                    IsAt(z[1], f, f.members[i], StackOffset(f, s, z[2]), z[2])}
           found == FindStackVar(z[1], f, StackOffset(f, s, z[2]), z[2])
<1>1. f.members \in Seq(Member)
  BY DEF Frame
<1>2. \A i \in DOMAIN f.members : f.members[i] \in Member
  BY <1>1
<1>3. \A i \in DOMAIN f.members : i \in at <=> f.members[i].soff = s
  BY <1>2, IsAtExact
<1>4. found = IF at = {} THEN NoMember
              ELSE f.members[CHOOSE i \in at : \A k \in at : i <= k].name
  BY DEF FindStackVar
<1>5. at \subseteq DOMAIN f.members /\ at \in SUBSET Nat
  BY <1>1
<1> HIDE DEF at, found
<1>6. ASSUME NEW i \in DOMAIN f.members, f.members[i].soff = s
      PROVE  found = f.members[i].name
  <2>1. i \in at
    BY <1>3, <1>6
  <2>2. at = {i}
    <3>1. \A k \in at : f.members[k].soff = f.members[i].soff
      BY <1>3, <1>5, <1>6
    <3>2. \A k \in DOMAIN f.members : k # i => f.members[k].soff # f.members[i].soff
      BY DEF Frame
    <3> QED BY <1>5, <2>1, <3>1, <3>2
  <2>3. \E x \in at : \A k \in at : x <= k
    BY <1>5, <2>1, MinNat
  <2>4. (CHOOSE x \in at : \A k \in at : x <= k) = i
    BY <2>2, <2>3
  <2> QED BY <1>4, <2>1, <2>4
<1>7. ASSUME \A i \in DOMAIN f.members : f.members[i].soff # s
      PROVE  found = NoMember
  <2>1. at = {}
    BY <1>3, <1>5, <1>7
  <2> QED BY <1>4, <2>1
<1> QED BY <1>6, <1>7 DEF found

LEMMA LocalTyped ==
  ASSUME NEW v \in View, NEW l \in DOMAIN v.locals
  PROVE  v.frame \in Frame /\ v.locals[l].soff \in 0 .. Sign - 1
<1>1. v.frame \in Frame /\ v.locals \in Seq(Local)
  BY DEF View
<1>2. v.locals[l] \in Local
  BY <1>1
<1> QED BY <1>1, <1>2 DEF Local

\* What the name of a variable says about its place.
LEMMA NamedPlace ==
  ASSUME NEW v \in Views, NEW l \in DOMAIN v.locals,
         NEW i \in DOMAIN v.frame.members,
         v.frame.members[i].name = LocalName(v, v.locals[l])
  PROVE  v.frame.members[i].soff = v.locals[l].soff
<1> DEFINE f == v.frame
           s == v.locals[l].soff
           found == FindStackVar(v.ea, f, StackOffset(f, s, v.size), v.size)
<1>1. v \in View /\ <<v.ea, v.size>> \in Sizes
  BY CursorAssumption DEF CursorAssumption, View, Sizes
<1>2. f \in Frame /\ s \in 0 .. Sign - 1
  BY <1>1, LocalTyped
<1>3. LocalName(v, v.locals[l]) = IF found = NoMember THEN v.locals[l].own ELSE found
  BY DEF LocalName, Offset
<1>4. /\ \A k \in DOMAIN f.members :
            f.members[k].soff = s => found = f.members[k].name
      /\ (\A k \in DOMAIN f.members : f.members[k].soff # s) => found = NoMember
  BY <1>1, <1>2, FindExact
<1>5. v.locals[l].own # v.frame.members[i].name
  BY CursorAssumption DEF CursorAssumption
<1>6. \A k \in DOMAIN f.members : f.members[k].name \in MemberName
  <2>1. f.members \in Seq(Member)
    BY <1>2 DEF Frame
  <2>2. \A k \in DOMAIN f.members : f.members[k] \in Member
    BY <2>1
  <2> QED BY <2>2 DEF Member
<1>7. CASE \A k \in DOMAIN f.members : f.members[k].soff # s
  BY <1>3, <1>4, <1>5, <1>7
<1>8. CASE \E k \in DOMAIN f.members : f.members[k].soff = s
  <2>1. PICK k \in DOMAIN f.members : f.members[k].soff = s
    BY <1>8
  <2>2. f.members[k].name # NoMember
    BY <1>6, <2>1, FrameAssumption DEF FrameAssumption
  <2>3. f.members[i].name = f.members[k].name
    BY <1>3, <1>4, <2>1, <2>2
  <2>4. i = k
    BY <1>2, <2>1, <2>3 DEF Frame
  <2> QED BY <2>1, <2>4
<1> QED BY <1>7, <1>8

\* The first variable of a name.
LEMMA FirstLocal ==
  ASSUME NEW v \in Views, NEW word, LocalsNamed(v, word) # {}
  PROVE  First(LocalsNamed(v, word)) \in LocalsNamed(v, word)
<1>1. v.locals \in Seq(Local)
  BY CursorAssumption DEF CursorAssumption, View
<1>2. LocalsNamed(v, word) \in SUBSET Nat
  BY <1>1 DEF LocalsNamed
<1>3. \E i \in LocalsNamed(v, word) : \A k \in LocalsNamed(v, word) : i <= k
  BY <1>2, MinNat
<1> QED BY <1>3 DEF First

\* The place of a name of a variable is that of the variable.
LEMMA LocalPlace ==
  ASSUME NEW v \in Views, NEW word, LocalsNamed(v, word) # {}
  PROVE  Place(v, word) = <<"frame", v.locals[First(LocalsNamed(v, word))].soff>>
<1> DEFINE l == First(LocalsNamed(v, word))
<1>1. l \in DOMAIN v.locals
  BY FirstLocal DEF LocalsNamed
<1>2. v \in View /\ <<v.ea, v.size>> \in Sizes
  BY CursorAssumption DEF CursorAssumption, View, Sizes
<1>3. v.frame \in Frame /\ v.locals[l].soff \in 0 .. Sign - 1
  BY <1>1, <1>2, LocalTyped
<1>4. FramePlace(v.ea, v.frame, Offset(v, v.locals[l]), v.size) = v.locals[l].soff
  BY <1>2, <1>3, PlaceExact DEF Offset
<1>5. Symbol(v, word) = [space |-> "stack", offset |-> Offset(v, v.locals[l])]
  BY DEF Symbol
<1> QED BY <1>4, <1>5 DEF Place

-----------------------------------------------------------------------------
(* Sequences one behind the other *)

\* Where each part of a flattened sequence ends.
Ends(end, seqs) ==
    /\ end \in [0 .. Len(seqs) -> Nat]
    /\ end[0] = 0
    /\ \A i \in 1 .. Len(seqs) : end[i] = end[i - 1] + Len(seqs[i])

\* Where the elements of two sequences are when one is behind the other.
LEMMA ConcatAt ==
  ASSUME NEW S, NEW s \in Seq(S), NEW t \in Seq(S)
  PROVE  /\ s \o t \in Seq(S) /\ Len(s \o t) = Len(s) + Len(t)
         /\ \A k \in 1 .. Len(s) : (s \o t)[k] = s[k]
         /\ \A k \in 1 .. Len(t) : (s \o t)[Len(s) + k] = t[k]
<1>1. s \o t \in Seq(S) /\ Len(s) \in Nat /\ Len(t) \in Nat /\ Len(s \o t) = Len(s) + Len(t)
  OBVIOUS
<1>2. ASSUME NEW k \in 1 .. Len(s) PROVE (s \o t)[k] = s[k]
  BY <1>1
<1>3. ASSUME NEW k \in 1 .. Len(t) PROVE (s \o t)[Len(s) + k] = t[k]
  BY <1>1
<1> QED BY <1>1, <1>2, <1>3

\* The recursive function of FlattenSeq exists.
LEMMA FlattenFunction ==
  ASSUME NEW S, NEW seqs \in Seq(Seq(S)), seqs # <<>>
  PROVE  \E f \in [1 .. Len(seqs) -> Seq(S)] :
            /\ \A i \in 1 .. Len(seqs) :
                    f[i] = IF i = 1 THEN seqs[i] ELSE f[i - 1] \o seqs[i]
            /\ FlattenSeq(seqs) = f[Len(seqs)]
<1> DEFINE n == Len(seqs)
           Rec(f, i) == f[i] = IF i = 1 THEN seqs[i] ELSE f[i - 1] \o seqs[i]
           P(m) == m <= n =>
                    \E f \in [1 .. m -> Seq(S)] : \A i \in 1 .. m : Rec(f, i)
<1>1. n \in Nat /\ n # 0 /\ \A i \in 1 .. n : seqs[i] \in Seq(S)
  OBVIOUS
<1> HIDE DEF n
<1>2. P(0)
  <2>1. \A i \in 1 .. 0 : FALSE
    OBVIOUS
  <2>2. [i \in 1 .. 0 |-> <<>>] \in [1 .. 0 -> Seq(S)]
    BY <2>1
  <2> QED BY <2>1, <2>2
<1>3. ASSUME NEW m \in Nat, P(m) PROVE P(m + 1)
  <2> SUFFICES ASSUME m + 1 <= n
               PROVE  \E f \in [1 .. m + 1 -> Seq(S)] : \A i \in 1 .. m + 1 : Rec(f, i)
    OBVIOUS
  <2>1. m \in Nat /\ m <= n
    BY <1>1
  <2>2. PICK f \in [1 .. m -> Seq(S)] : \A i \in 1 .. m : Rec(f, i)
    BY <1>3, <2>1
  <2> DEFINE last == IF m = 0 THEN seqs[1] ELSE f[m] \o seqs[m + 1]
             g == [i \in 1 .. m + 1 |-> IF i = m + 1 THEN last ELSE f[i]]
  <2>3. last \in Seq(S)
    <3>1. m # 0 => f[m] \in Seq(S)
      BY <2>1
    <3>2. seqs[m + 1] \in Seq(S) /\ seqs[1] \in Seq(S)
      BY <1>1, <2>1
    <3> QED BY <3>1, <3>2, ConcatProperties
  <2>4. g \in [1 .. m + 1 -> Seq(S)]
    BY <2>1, <2>3
  <2>5. ASSUME NEW i \in 1 .. m + 1 PROVE Rec(g, i)
    <3>1. CASE i = m + 1
      BY <2>1, <3>1
    <3>2. CASE i \in 1 .. m
      <4>1. i \in 1 .. m + 1 /\ i # m + 1
            /\ (i # 1 => i - 1 \in 1 .. m /\ i - 1 \in 1 .. m + 1 /\ i - 1 # m + 1)
        BY <2>1, <3>2
      <4>2. g[i] = f[i] /\ (i # 1 => g[i - 1] = f[i - 1])
        BY <4>1
      <4> HIDE DEF g
      <4> QED BY <2>2, <3>2, <4>2
    <3> QED BY <2>1, <3>1, <3>2
  <2> QED BY <2>4, <2>5
<1>4. \A m \in Nat : P(m)
  <2> HIDE DEF P
  <2> DEFINE T == {m \in Nat : P(m)}
  <2>1. T \in SUBSET Nat /\ 0 \in T /\ \A m \in T : m + 1 \in T
    BY <1>2, <1>3
  <2>2. T = Nat
    BY <2>1, AllNat
  <2> QED BY <2>2
<1>5. PICK f \in [1 .. n -> Seq(S)] : \A i \in 1 .. n : Rec(f, i)
  <2>1. n \in Nat /\ n <= n
    BY <1>1
  <2> HIDE DEF P
  <2>2. P(n)
    BY <1>4, <2>1
  <2> USE DEF P
  <2> QED BY <2>1, <2>2
<1> DEFINE Eq(g) == g = [i \in 1 .. n |-> IF i = 1 THEN seqs[i] ELSE g[i - 1] \o seqs[i]]
           h == CHOOSE g : Eq(g)
<1>6. Eq(f)
  <2>1. f = [i \in 1 .. n |-> f[i]]
    OBVIOUS
  <2> QED BY <1>5, <2>1
<1>7. Eq(h)
  BY <1>6
<1>8. FlattenSeq(seqs) = h[n]
  BY <1>1 DEF FlattenSeq, n
<1>9. \A i \in 1 .. n : Rec(h, i)
  <2> HIDE DEF h
  <2> QED BY <1>7
<1> HIDE DEF h
<1> DEFINE Q(m) == m \in 1 .. n => h[m] \in Seq(S)
<1>10. \A m \in Nat : Q(m)
  <2>1. Q(0)
    OBVIOUS
  <2>2. ASSUME NEW m \in Nat, Q(m) PROVE Q(m + 1)
    <3> SUFFICES ASSUME m + 1 \in 1 .. n PROVE h[m + 1] \in Seq(S)
      OBVIOUS
    <3>1. m \in Nat /\ seqs[m + 1] \in Seq(S)
      BY <1>1
    <3>2. CASE m = 0
      BY <1>9, <3>1, <3>2
    <3>3. CASE m # 0
      <4>1. m \in 1 .. n
        BY <1>1, <3>1, <3>3
      <4>2. h[m] \in Seq(S)
        BY <2>2, <4>1
      <4>3. (m + 1) - 1 = m /\ m + 1 # 1
        BY <3>1, <3>3
      <4>4. h[m + 1] = h[m] \o seqs[m + 1]
        BY <1>9, <4>3
      <4> QED BY <3>1, <4>2, <4>4, ConcatProperties
    <3> QED BY <3>2, <3>3
  <2> HIDE DEF Q
  <2> DEFINE T == {m \in Nat : Q(m)}
  <2>3. T \in SUBSET Nat /\ 0 \in T /\ \A m \in T : m + 1 \in T
    BY <2>1, <2>2
  <2>4. T = Nat
    BY <2>3, AllNat
  <2> QED BY <2>4
<1>11. h \in [1 .. n -> Seq(S)]
  <2>1. \A m \in 1 .. n : h[m] \in Seq(S)
    BY <1>1, <1>10
  <2> QED BY <1>7, <2>1
<1> QED BY <1>8, <1>9, <1>11 DEF n

\* Every element of a flattened sequence is one of one part, and every part is
\* found behind the ones before it.
Flattened(end, seqs, S) ==
    /\ Ends(end, seqs)
    /\ FlattenSeq(seqs) \in Seq(S)
    /\ Len(FlattenSeq(seqs)) = end[Len(seqs)]
    /\ \A i \in 1 .. Len(seqs) : \A k \in 1 .. Len(seqs[i]) :
            FlattenSeq(seqs)[end[i - 1] + k] = seqs[i][k]

LEMMA FlattenParts ==
  ASSUME NEW S, NEW seqs \in Seq(Seq(S))
  PROVE  \E end : Flattened(end, seqs, S)
<1> DEFINE n == Len(seqs)
<1>1. n \in Nat /\ \A i \in 1 .. n : seqs[i] \in Seq(S) /\ Len(seqs[i]) \in Nat
  OBVIOUS
<1> HIDE DEF n
<1>2. CASE n = 0
  <2> DEFINE end == [i \in 0 .. 0 |-> 0]
  <2>1. FlattenSeq(seqs) = seqs /\ seqs \in Seq(S)
    BY <1>2 DEF FlattenSeq, n
  <2>2. Ends(end, seqs) /\ end[n] = n
    BY <1>2 DEF Ends, n
  <2>3. \A i \in 1 .. n : FALSE
    BY <1>2
  <2> HIDE DEF end
  <2>4. Len(FlattenSeq(seqs)) = end[n]
    BY <2>1, <2>2 DEF n
  <2> QED BY <2>1, <2>2, <2>3, <2>4 DEF n, Flattened
<1>3. CASE n # 0
  <2>1. PICK f \in [1 .. n -> Seq(S)] :
            /\ \A i \in 1 .. n : f[i] = IF i = 1 THEN seqs[i] ELSE f[i - 1] \o seqs[i]
            /\ FlattenSeq(seqs) = f[n]
    <3>1. seqs # <<>>
      BY <1>3 DEF n
    <3> QED BY <3>1, FlattenFunction DEF n
  <2> DEFINE end == [i \in 0 .. n |-> IF i = 0 THEN 0 ELSE Len(f[i])]
  <2>2. \A i \in 1 .. n : f[i] \in Seq(S) /\ Len(f[i]) \in Nat
    <3>1. \A i \in 1 .. n : f[i] \in Seq(S)
      OBVIOUS
    <3> QED BY <3>1
  <2>3. \A i \in 1 .. n :
            /\ end[i] = Len(f[i])
            /\ end[i] = end[i - 1] + Len(seqs[i])
            /\ \A k \in 1 .. Len(seqs[i]) : f[i][end[i - 1] + k] = seqs[i][k]
            /\ \A k \in 1 .. end[i - 1] : f[i][k] = f[i - 1][k]
    <3> TAKE i \in 1 .. n
    <3>1. end[i] = Len(f[i])
      BY <1>1
    <3>2. CASE i = 1
      <4>1. end[i - 1] = 0 /\ f[i] = seqs[i]
        <5>1. 1 - 1 = 0 /\ 0 \in 0 .. n /\ 1 \in 1 .. n
          BY <1>1, <3>2
        <5>2. f[1] = seqs[1]
          BY <2>1, <5>1
        <5>3. end[0] = 0
          BY <5>1
        <5> HIDE DEF end
        <5> QED BY <3>2, <5>1, <5>2, <5>3
      <4> HIDE DEF end
      <4> QED BY <1>1, <3>1, <4>1
    <3>3. CASE i # 1
      <4>1. i - 1 \in 1 .. n /\ i - 1 \in 0 .. n /\ i - 1 # 0
        BY <1>1, <3>3
      <4>2. end[i - 1] = Len(f[i - 1])
        BY <4>1
      <4>3. f[i] = f[i - 1] \o seqs[i]
        BY <2>1, <3>3
      <4> HIDE DEF end
      <4>4. f[i - 1] \in Seq(S) /\ seqs[i] \in Seq(S)
        BY <1>1, <2>2, <4>1
      <4>5. /\ Len(f[i]) = Len(f[i - 1]) + Len(seqs[i])
            /\ \A k \in 1 .. Len(f[i - 1]) : f[i][k] = f[i - 1][k]
            /\ \A k \in 1 .. Len(seqs[i]) : f[i][Len(f[i - 1]) + k] = seqs[i][k]
        <5> DEFINE a == f[i - 1]
                   b == seqs[i]
        <5>1. a \in Seq(S) /\ b \in Seq(S) /\ f[i] = a \o b
          BY <4>3, <4>4
        <5> HIDE DEF a, b
        <5>2. /\ Len(a \o b) = Len(a) + Len(b)
              /\ \A k \in 1 .. Len(a) : (a \o b)[k] = a[k]
              /\ \A k \in 1 .. Len(b) : (a \o b)[Len(a) + k] = b[k]
          BY <5>1, ConcatAt
        <5> QED BY <5>1, <5>2 DEF a, b
      <4> QED BY <3>1, <4>2, <4>5
    <3> QED BY <3>2, <3>3
  <2>4. end \in [0 .. n -> Nat] /\ end[0] = 0
    BY <1>1, <2>2
  <2> HIDE DEF end
  <2>9. \A i \in 0 .. n : end[i] \in Nat
    BY <2>4
  <2>5. Ends(end, seqs)
    BY <2>3, <2>4 DEF Ends, n
  <2> DEFINE P(j) == j \in 1 .. n =>
                    \A i \in 1 .. j : \A k \in 1 .. Len(seqs[i]) :
                        /\ end[i - 1] + k \in 1 .. end[j]
                        /\ f[j][end[i - 1] + k] = seqs[i][k]
  <2>6. \A j \in Nat : P(j)
    <3>1. P(0)
      OBVIOUS
    <3>2. ASSUME NEW j \in Nat, P(j) PROVE P(j + 1)
      <4> SUFFICES ASSUME j + 1 \in 1 .. n, NEW i \in 1 .. j + 1,
                          NEW k \in 1 .. Len(seqs[i])
                   PROVE  /\ end[i - 1] + k \in 1 .. end[j + 1]
                          /\ f[j + 1][end[i - 1] + k] = seqs[i][k]
        OBVIOUS
      <4>1. j \in Nat /\ j \in 0 .. n /\ (j + 1) - 1 = j /\ end[j] \in Nat
        <5>1. j \in Nat /\ j \in 0 .. n /\ (j + 1) - 1 = j
          BY <1>1
        <5> QED BY <2>9, <5>1
      <4>2. end[j + 1] = end[j] + Len(seqs[j + 1]) /\ Len(seqs[j + 1]) \in Nat
        BY <1>1, <2>3, <4>1
      <4>3. CASE i = j + 1
        BY <2>3, <4>1, <4>2, <4>3, SMTT(30)
      <4>4. CASE i # j + 1
        <5>1. j \in 1 .. n /\ i \in 1 .. j
          BY <1>1, <4>1, <4>4
        <5>2. end[i - 1] + k \in 1 .. end[j] /\ f[j][end[i - 1] + k] = seqs[i][k]
          BY <3>2, <5>1
        <5>3. \A e \in 1 .. end[j] : f[j + 1][e] = f[j][e]
          BY <2>3, <4>1
        <5>4. end[i - 1] + k \in 1 .. end[j + 1]
          BY <4>1, <4>2, <5>2, SMTT(30)
        <5>5. f[j + 1][end[i - 1] + k] = f[j][end[i - 1] + k]
          BY <5>2, <5>3
        <5> QED BY <5>2, <5>4, <5>5
      <4> QED BY <4>3, <4>4
    <3> HIDE DEF P
    <3> DEFINE T == {j \in Nat : P(j)}
    <3>3. T \in SUBSET Nat /\ 0 \in T /\ \A j \in T : j + 1 \in T
      BY <3>1, <3>2
    <3>4. T = Nat
      BY <3>3, AllNat
    <3> QED BY <3>4
  <2>7. \A i \in 1 .. n : \A k \in 1 .. Len(seqs[i]) : f[n][end[i - 1] + k] = seqs[i][k]
    <3>1. P(n) /\ n \in 1 .. n
      BY <1>1, <1>3, <2>6
    <3> QED BY <3>1
  <2>8. end[n] = Len(f[n]) /\ f[n] \in Seq(S)
    BY <1>1, <1>3, <2>3
  <2> HIDE DEF P
  <2> WITNESS end
  <2> QED BY <2>1, <2>5, <2>7, <2>8 DEF n, Flattened
<1> QED BY <1>1, <1>2, <1>3

\* Every element lies in some part.
LEMMA EndsCover ==
  ASSUME NEW end, NEW seqs, Ends(end, seqs), Len(seqs) \in Nat,
         \A i \in 1 .. Len(seqs) : Len(seqs[i]) \in Nat,
         NEW x \in 1 .. end[Len(seqs)]
  PROVE  \E i \in 1 .. Len(seqs) : \E k \in 1 .. Len(seqs[i]) : x = end[i - 1] + k
<1> DEFINE n == Len(seqs)
           T == {i \in 0 .. n : x <= end[i]}
<1>1. /\ end \in [0 .. n -> Nat] /\ end[0] = 0
      /\ \A i \in 1 .. n : end[i] = end[i - 1] + Len(seqs[i])
  BY DEF Ends
<1>2. T \in SUBSET Nat /\ n \in T
  BY <1>1
<1>3. PICK i \in T : \A m \in T : i <= m
  BY <1>2, MinNat
<1>4. i \in 1 .. n /\ x <= end[i]
  BY <1>1, <1>3
<1>5. i - 1 \in 0 .. n /\ i - 1 \notin T
  BY <1>3, <1>4
<1>6. end[i - 1] < x /\ end[i - 1] \in Nat
  BY <1>1, <1>5
<1>7. x - end[i - 1] \in 1 .. Len(seqs[i]) /\ x = end[i - 1] + (x - end[i - 1])
  BY <1>1, <1>4, <1>6
<1> QED BY <1>4, <1>7

\* The cells of a token with tags.
LEMMA TokenCells ==
  ASSUME NEW col \in Code, NEW s \in Seq(Char)
  PROVE  LET token == <<On, col>> \o s \o <<Off, col>> IN
         /\ token \in Seq(Cell) /\ Len(token) = Len(s) + 4
         /\ token[1] = On /\ token[2] = col
         /\ \A k \in 1 .. Len(s) : token[2 + k] = s[k]
         /\ token[Len(s) + 3] = Off /\ token[Len(s) + 4] = col
<1> DEFINE before == <<On, col>>
           behind == <<Off, col>>
           head == before \o s
           token == head \o behind
<1>1. s \in Seq(Cell) /\ Len(s) \in Nat
  <2>1. \A k \in 1 .. Len(s) : s[k] \in Cell
    BY DEF Cell
  <2> QED BY <2>1
<1>2. /\ before \in Seq(Cell) /\ Len(before) = 2 /\ before[1] = On /\ before[2] = col
      /\ behind \in Seq(Cell) /\ Len(behind) = 2 /\ behind[1] = Off /\ behind[2] = col
  <2>1. On \in Cell /\ Off \in Cell /\ col \in Cell
    BY DEF Cell
  <2> QED BY <2>1
<1> HIDE DEF before, behind
<1>3. /\ head \in Seq(Cell) /\ Len(head) = Len(before) + Len(s)
      /\ \A k \in 1 .. Len(before) : head[k] = before[k]
      /\ \A k \in 1 .. Len(s) : head[Len(before) + k] = s[k]
  <2>1. before \in Seq(Cell) /\ s \in Seq(Cell)
    BY <1>1, <1>2
  <2> QED BY <2>1, ConcatAt
<1> HIDE DEF head
<1>4. /\ token \in Seq(Cell) /\ Len(token) = Len(head) + Len(behind)
      /\ \A k \in 1 .. Len(head) : token[k] = head[k]
      /\ \A k \in 1 .. Len(behind) : token[Len(head) + k] = behind[k]
  <2>1. head \in Seq(Cell) /\ behind \in Seq(Cell)
    BY <1>2, <1>3
  <2> QED BY <2>1, ConcatAt
<1> HIDE DEF token
<1>5. Len(head) = Len(s) + 2 /\ Len(head) \in Nat /\ Len(token) = Len(s) + 4
  BY <1>1, <1>2, <1>3, <1>4
<1>6. token[1] = On /\ token[2] = col
  <2>1. 1 \in 1 .. Len(before) /\ 2 \in 1 .. Len(before) /\ 1 \in 1 .. Len(head)
        /\ 2 \in 1 .. Len(head)
    BY <1>1, <1>2, <1>5
  <2> QED BY <1>2, <1>3, <1>4, <2>1
<1>7. \A k \in 1 .. Len(s) : token[2 + k] = s[k]
  <2> TAKE k \in 1 .. Len(s)
  <2>1. 2 + k \in 1 .. Len(head)
    BY <1>1, <1>5
  <2> QED BY <1>2, <1>3, <1>4, <2>1
<1>8. token[Len(s) + 3] = Off /\ token[Len(s) + 4] = col
  <2>1. /\ 1 \in 1 .. Len(behind) /\ 2 \in 1 .. Len(behind)
        /\ Len(head) + 1 = Len(s) + 3 /\ Len(head) + 2 = Len(s) + 4
    BY <1>1, <1>2, <1>5
  <2> QED BY <1>2, <1>4, <2>1
<1> QED BY <1>4, <1>5, <1>6, <1>7, <1>8 DEF token, head, before, behind

-----------------------------------------------------------------------------
(* The line of a view *)

LEMMA ViewTyped ==
  ASSUME NEW v \in Views
  PROVE  /\ v \in View /\ v.frame \in Frame /\ v.locals \in Seq(Local)
         /\ v.functions \in Seq(Function) /\ v.pieces \in Seq(Piece)
         /\ v.ea \in {4, 8} /\ v.size \in {4, 8}
         /\ Spaced(v) /\ Bound(v)
BY CursorAssumption, ViewAssumption DEF CursorAssumption, ViewAssumption, View

\* The names of a view.
LEMMA LocalNamed ==
  ASSUME NEW v \in Views, NEW i \in DOMAIN v.locals
  PROVE  LocalName(v, v.locals[i]) \in MemberName
<1> DEFINE f == v.frame
           off == Offset(v, v.locals[i])
           at == {m \in DOMAIN f.members : IsAt(v.ea, f, f.members[m], off, v.size)}
           found == FindStackVar(v.ea, f, off, v.size)
<1>1. v.locals[i] \in Local /\ f \in Frame
  BY ViewTyped
<1>2. v.locals[i].own \in MemberName
  BY <1>1 DEF Local
<1>3. found = IF at = {} THEN NoMember
              ELSE f.members[CHOOSE m \in at : \A k \in at : m <= k].name
  BY DEF FindStackVar
<1>4. f.members \in Seq(Member)
  BY <1>1 DEF Frame
<1>5. at \in SUBSET Nat /\ \A m \in at : f.members[m].name \in MemberName
  <2>1. \A m \in DOMAIN f.members : f.members[m] \in Member /\ m \in Nat
    BY <1>4
  <2> QED BY <2>1 DEF Member
<1> HIDE DEF at, found
<1>6. at # {} => found \in MemberName
  <2>1. at # {} => \E m \in at : \A k \in at : m <= k
    BY <1>5, MinNat
  <2> QED BY <1>3, <1>5, <2>1
<1> QED BY <1>2, <1>3, <1>6 DEF LocalName, found, off

LEMMA FunctionNamed ==
  ASSUME NEW v \in Views, NEW i \in DOMAIN v.functions
  PROVE  /\ v.functions[i].address \in Nat /\ v.functions[i].name \in Seq(Char)
         /\ FunctionKey(v.functions[i]) \in Seq(Char)
<1>1. v.functions[i] \in Function
  BY ViewTyped
<1>2. v.functions[i].address \in Nat /\ v.functions[i].name \in Seq(Char)
  BY <1>1 DEF Function
<1>3. v.functions[i].name # <<>> => Tail(v.functions[i].name) \in Seq(Char)
  BY <1>2
<1> QED BY <1>2, <1>3 DEF FunctionKey, IsImportText

\* The tokens of a view.
LEMMA CallTyped ==
  ASSUME NEW v \in Views, NEW i \in DOMAIN v.pieces
  PROVE  LET c == CallOf(v, v.pieces[i]) IN
         /\ c.method = v.pieces[i].method /\ c.text = TextOf(v, v.pieces[i].of)
         /\ Shown(c) \in Seq(Char)
         /\ c.method = "plain" => Emitted(c) = Shown(c) /\ Shown(c) = PlainText(v, i)
         /\ c.method # "plain" =>
                /\ Color(c) \in Code
                /\ Emitted(c) = <<On, Color(c)>> \o Shown(c) \o <<Off, Color(c)>>
<1> DEFINE p == v.pieces[i]
           c == CallOf(v, p)
           of == p.of
<1>1. p \in Piece
  BY ViewTyped
<1>2. /\ p.method \in Method /\ p.hl \in Highlight
      /\ of \in ({"local", "function"} \X Nat) \cup ({"text"} \X Seq(Char))
  BY <1>1 DEF Piece
<1>3. TextOf(v, of) \in Seq(Char)
  <2>1. Bound(v)
    BY ViewTyped
  <2>2. CASE of[1] = "local"
    <3>1. of[2] \in DOMAIN v.locals
      BY <2>1, <2>2 DEF Bound
    <3>2. LocalName(v, v.locals[of[2]]) \in Seq(Char)
      BY <3>1, LocalNamed, CursorAssumption DEF CursorAssumption
    <3> HIDE DEF of
    <3> QED BY <2>2, <3>2 DEF TextOf
  <2>3. CASE of[1] = "function"
    <3>1. of[2] \in DOMAIN v.functions
      BY <2>1, <2>3 DEF Bound
    <3>2. v.functions[of[2]].name \in Seq(Char)
      BY <3>1, FunctionNamed
    <3> HIDE DEF of
    <3> QED BY <2>3, <3>2 DEF TextOf
  <2>4. CASE of[1] = "text"
    <3>1. of[2] \in Seq(Char)
      BY <1>2, <2>4
    <3> HIDE DEF of
    <3> QED BY <2>4, <3>1 DEF TextOf
  <2>5. of[1] \in {"local", "function", "text"}
    BY <1>2
  <2> QED BY <2>2, <2>3, <2>4, <2>5
<1>4. /\ c.method = p.method /\ c.text = TextOf(v, of) /\ c.hl = p.hl
  BY DEF CallOf
<1>5. Shown(c) \in Seq(Char)
  <2>1. c.text \in Seq(Char)
    BY <1>3, <1>4
  <2>2. c.text # <<>> => Tail(c.text) \in Seq(Char)
    BY <2>1
  <2> HIDE DEF c
  <2> QED BY <2>1, <2>2 DEF Shown, IsImportText
<1> HIDE DEF c, of
<1>6. ASSUME c.method = "plain" PROVE Emitted(c) = Shown(c) /\ Shown(c) = TextOf(v, of)
  BY <1>4, <1>6 DEF Emitted, Shown
<1>7. ASSUME c.method # "plain"
      PROVE  /\ Color(c) \in Code
             /\ Emitted(c) = <<On, Color(c)>> \o Shown(c) \o <<Off, Color(c)>>
  <2>1. GuardColor(c.hl) \in Code
    BY DEF GuardColor, Code
  <2>2. TagVariable(c) \in Code /\ TagFuncName(c) \in Code /\ PrintText(c) \in Code
    BY <2>1 DEF TagVariable, TagFuncName, PrintText, Code
  <2>3. COLOR_KEYWORD \in Code
    BY DEF Code
  <2>4. c.method \in Method \ {"plain"}
    BY <1>2, <1>4, <1>7
  <2>5. Color(c) \in Code
    BY <2>1, <2>2, <2>3, <2>4 DEF Color, Method
  <2> QED BY <1>7, <2>5 DEF Emitted
<1> QED BY <1>4, <1>5, <1>6, <1>7 DEF c, of, PlainText

\* The pieces of a view.
ShownOf(v) == [i \in 1 .. Len(v.pieces) |-> Shown(CallOf(v, v.pieces[i]))]
ColorOf(v) ==
    [i \in 1 .. Len(v.pieces) |->
        IF v.pieces[i].method = "plain" THEN COLOR_DEFAULT
        ELSE Color(CallOf(v, v.pieces[i]))]
PlainOf(v) == {i \in 1 .. Len(v.pieces) : v.pieces[i].method = "plain"}

LEMMA PieceOf ==
  ASSUME NEW v \in Views
  PROVE  /\ Len(v.pieces) \in Nat /\ DOMAIN v.pieces = 1 .. Len(v.pieces)
         /\ ShownOf(v) \in [1 .. Len(v.pieces) -> Seq(Char)]
         /\ ColorOf(v) \in [1 .. Len(v.pieces) -> Code]
         /\ \A i \in 1 .. Len(v.pieces) :
                /\ ShownOf(v)[i] = Shown(CallOf(v, v.pieces[i]))
                /\ Len(ShownOf(v)[i]) \in Nat
                /\ CallOf(v, v.pieces[i]).method = v.pieces[i].method
                /\ i \notin PlainOf(v) => ColorOf(v)[i] = Color(CallOf(v, v.pieces[i]))
<1> DEFINE n == Len(v.pieces)
<1>1. n \in Nat /\ DOMAIN v.pieces = 1 .. n
  BY ViewTyped
<1> HIDE DEF n
<1>2. ASSUME NEW i \in 1 .. n
      PROVE  /\ Shown(CallOf(v, v.pieces[i])) \in Seq(Char)
             /\ CallOf(v, v.pieces[i]).method = v.pieces[i].method
             /\ v.pieces[i].method # "plain" => Color(CallOf(v, v.pieces[i])) \in Code
  BY <1>1, CallTyped
<1>3. COLOR_DEFAULT \in Code
  BY DEF Code
<1>4. ShownOf(v) \in [1 .. n -> Seq(Char)]
  BY <1>2 DEF ShownOf, n
<1>5. ColorOf(v) \in [1 .. n -> Code]
  BY <1>2, <1>3 DEF ColorOf, n
<1>6. ASSUME NEW i \in 1 .. n
      PROVE  /\ ShownOf(v)[i] = Shown(CallOf(v, v.pieces[i]))
             /\ Len(ShownOf(v)[i]) \in Nat
             /\ i \notin PlainOf(v) => ColorOf(v)[i] = Color(CallOf(v, v.pieces[i]))
  <2>1. ShownOf(v)[i] = Shown(CallOf(v, v.pieces[i]))
    BY DEF ShownOf, n
  <2>2. i \notin PlainOf(v) => ColorOf(v)[i] = Color(CallOf(v, v.pieces[i]))
    BY DEF ColorOf, PlainOf, n
  <2>3. Len(ShownOf(v)[i]) \in Nat
    BY <1>4
  <2> QED BY <2>1, <2>2, <2>3
<1> QED BY <1>1, <1>2, <1>4, <1>5, <1>6 DEF n

\* The line of a view is written piece by piece.
LEMMA LineWritten ==
  ASSUME NEW v \in Views
  PROVE  \E e :
            /\ Pieces(LineOf(v), Len(v.pieces), e, ShownOf(v), ColorOf(v), PlainOf(v))
            /\ LineOf(v) \in Seq(Cell) /\ Len(LineOf(v)) = e[Len(v.pieces)]
<1> DEFINE n == Len(v.pieces)
           s == ShownOf(v)
           c == ColorOf(v)
           plain == PlainOf(v)
           em == [i \in DOMAIN v.pieces |-> Emitted(CallOf(v, v.pieces[i]))]
<1>1. /\ n \in Nat /\ DOMAIN v.pieces = 1 .. n
      /\ \A i \in 1 .. n : s[i] \in Seq(Char) /\ c[i] \in Code /\ Len(s[i]) \in Nat
      /\ plain \subseteq 1 .. n
  <2>1. plain \subseteq 1 .. n
    BY DEF PlainOf
  <2>2. s \in [1 .. n -> Seq(Char)] /\ c \in [1 .. n -> Code]
    BY PieceOf
  <2>3. \A i \in 1 .. n : s[i] \in Seq(Char) /\ c[i] \in Code
    BY <2>2
  <2> QED BY <2>1, <2>3, PieceOf
<1>2. ASSUME NEW i \in 1 .. n
      PROVE  em[i] = IF i \in plain THEN s[i] ELSE <<On, c[i]>> \o s[i] \o <<Off, c[i]>>
  <2>1. i \in DOMAIN v.pieces
    BY <1>1
  <2>2. /\ v.pieces[i].method = "plain" =>
            Emitted(CallOf(v, v.pieces[i])) = Shown(CallOf(v, v.pieces[i]))
        /\ v.pieces[i].method # "plain" =>
            Emitted(CallOf(v, v.pieces[i])) =
                <<On, Color(CallOf(v, v.pieces[i]))>> \o Shown(CallOf(v, v.pieces[i]))
                    \o <<Off, Color(CallOf(v, v.pieces[i]))>>
    BY <2>1, CallTyped
  <2>3. i \in plain <=> v.pieces[i].method = "plain"
    BY DEF PlainOf
  <2>4. /\ s[i] = Shown(CallOf(v, v.pieces[i]))
        /\ i \notin plain => c[i] = Color(CallOf(v, v.pieces[i]))
    BY PieceOf
  <2>5. em[i] = Emitted(CallOf(v, v.pieces[i]))
    BY <2>1
  <2> HIDE DEF em, s, c, plain
  <2> QED BY <2>2, <2>3, <2>4, <2>5
<1>3. LineOf(v) = FlattenSeq(em)
  BY DEF LineOf
<1>4. DOMAIN em = 1 .. n
  BY <1>1
<1>5. em = [i \in 1 .. n |-> em[i]]
  BY <1>1
<1> HIDE DEF n, s, c, plain, em
<1>6. ASSUME NEW i \in 1 .. n, i \notin plain
      PROVE  /\ em[i] \in Seq(Cell) /\ Len(em[i]) = Len(s[i]) + 4
             /\ em[i][1] = On /\ em[i][2] = c[i]
             /\ \A k \in 1 .. Len(s[i]) : em[i][2 + k] = s[i][k]
             /\ em[i][Len(s[i]) + 3] = Off /\ em[i][Len(s[i]) + 4] = c[i]
  <2> DEFINE sh == s[i]
             col == c[i]
  <2>1. em[i] = <<On, col>> \o sh \o <<Off, col>> /\ sh \in Seq(Char) /\ col \in Code
    BY <1>1, <1>2, <1>6
  <2> HIDE DEF sh, col
  <2>2. LET token == <<On, col>> \o sh \o <<Off, col>> IN
        /\ token \in Seq(Cell) /\ Len(token) = Len(sh) + 4
        /\ token[1] = On /\ token[2] = col
        /\ \A k \in 1 .. Len(sh) : token[2 + k] = sh[k]
        /\ token[Len(sh) + 3] = Off /\ token[Len(sh) + 4] = col
    BY <2>1, TokenCells
  <2> QED BY <2>1, <2>2 DEF sh, col
<1>7. ASSUME NEW i \in 1 .. n, i \in plain
      PROVE  em[i] \in Seq(Cell) /\ em[i] = s[i]
  <2>1. em[i] = s[i] /\ s[i] \in Seq(Char)
    BY <1>1, <1>2, <1>7
  <2>2. Char \subseteq Cell
    BY DEF Cell
  <2> QED BY <2>1, <2>2
<1>8. em \in Seq(Seq(Cell)) /\ Len(em) = n
  <2>1. \A i \in 1 .. n : em[i] \in Seq(Cell)
    BY <1>6, <1>7
  <2> QED BY <1>1, <1>5, <2>1
<1>9. PICK e :
        /\ Ends(e, em) /\ FlattenSeq(em) \in Seq(Cell)
        /\ Len(FlattenSeq(em)) = e[Len(em)]
        /\ \A i \in 1 .. Len(em) : \A k \in 1 .. Len(em[i]) :
                FlattenSeq(em)[e[i - 1] + k] = em[i][k]
  <2>1. \E e : Flattened(e, em, Cell)
    BY <1>8, FlattenParts
  <2> QED BY <2>1 DEF Flattened
<1> DEFINE t == LineOf(v)
<1>10. /\ e \in [0 .. n -> Nat] /\ e[0] = 0 /\ t \in Seq(Cell) /\ Len(t) = e[n]
       /\ \A i \in 1 .. n : e[i] = e[i - 1] + Len(em[i])
       /\ \A i \in 1 .. n : \A k \in 1 .. Len(em[i]) : t[e[i - 1] + k] = em[i][k]
  BY <1>3, <1>8, <1>9 DEF Ends
<1> HIDE DEF t
<1>11. ASSUME NEW i \in 1 .. n
       PROVE  /\ e[i] = e[i - 1] + Len(s[i]) + (IF i \in plain THEN 0 ELSE 4)
              /\ i \in plain => \A k \in 1 .. Len(s[i]) : t[e[i - 1] + k] = s[i][k]
              /\ i \notin plain =>
                    /\ t[e[i - 1] + 1] = On /\ t[e[i - 1] + 2] = c[i]
                    /\ \A k \in 1 .. Len(s[i]) : t[e[i - 1] + 2 + k] = s[i][k]
                    /\ t[e[i] - 1] = Off /\ t[e[i]] = c[i]
  <2>1. i - 1 \in 0 .. n /\ i \in 0 .. n
    BY <1>1
  <2>2. e[i - 1] \in Nat /\ e[i] \in Nat /\ Len(s[i]) \in Nat
    BY <1>1, <1>10, <2>1
  <2>3. CASE i \in plain
    <3>1. em[i] = s[i]
      BY <1>7, <2>3
    <3>2. e[i] = e[i - 1] + Len(s[i])
      BY <1>10, <3>1
    <3>3. \A k \in 1 .. Len(s[i]) : t[e[i - 1] + k] = s[i][k]
      BY <1>10, <3>1
    <3> QED BY <2>2, <2>3, <3>2, <3>3
  <2>4. CASE i \notin plain
    <3> DEFINE a == e[i - 1]
               L == Len(s[i])
    <3>1. /\ e[i] = a + Len(em[i]) /\ Len(em[i]) = L + 4
          /\ \A k \in 1 .. Len(em[i]) : t[a + k] = em[i][k]
      BY <1>6, <1>10, <2>4
    <3>2. /\ em[i][1] = On /\ em[i][2] = c[i]
          /\ \A k \in 1 .. L : em[i][2 + k] = s[i][k]
          /\ em[i][L + 3] = Off /\ em[i][L + 4] = c[i]
      BY <1>6, <2>4
    <3>3. a \in Nat /\ L \in Nat
      BY <2>2
    <3> HIDE DEF a, L
    <3>4. t[a + 1] = On /\ t[a + 2] = c[i]
      BY <3>1, <3>2, <3>3
    <3>5. ASSUME NEW k \in 1 .. L PROVE t[a + 2 + k] = s[i][k]
      <4>1. 2 + k \in 1 .. Len(em[i]) /\ a + (2 + k) = a + 2 + k
        BY <3>1, <3>3
      <4> QED BY <3>1, <3>2, <4>1
    <3>6. e[i] - 1 = a + (L + 3) /\ e[i] = a + (L + 4) /\ L + 3 \in 1 .. Len(em[i])
          /\ L + 4 \in 1 .. Len(em[i])
      BY <3>1, <3>3
    <3>7. t[e[i] - 1] = Off /\ t[e[i]] = c[i]
      BY <3>1, <3>2, <3>6
    <3>8. e[i] = a + L + 4
      BY <3>3, <3>6
    <3> QED BY <2>4, <3>4, <3>5, <3>7, <3>8 DEF a, L
  <2> QED BY <2>3, <2>4
<1>12. plain \subseteq 1 .. n
  BY <1>1
<1>13. Pieces(t, n, e, s, c, plain)
  BY <1>10, <1>11, <1>12 DEF Pieces
<1> USE DEF n, s, c, plain, t
<1> WITNESS e
<1> QED BY <1>10, <1>13

\* The owners of the characters that are seen.
Owned(v, o) ==
    /\ Counts(Len(v.pieces), o, ShownOf(v))
    /\ Len(Owners(v)) = o[Len(v.pieces)]
    /\ DOMAIN Owners(v) = 1 .. o[Len(v.pieces)]
    /\ \A i \in 1 .. Len(v.pieces) : \A k \in 1 .. Len(ShownOf(v)[i]) :
            Owners(v)[o[i - 1] + k] = i
    /\ \A x \in DOMAIN Owners(v) :
        \E i \in 1 .. Len(v.pieces) : \E k \in 1 .. Len(ShownOf(v)[i]) : x = o[i - 1] + k

LEMMA OwnersWritten ==
  ASSUME NEW v \in Views
  PROVE  \E o : Owned(v, o)
<1> DEFINE n == Len(v.pieces)
           s == ShownOf(v)
           own == [i \in DOMAIN v.pieces |->
                    [k \in DOMAIN Shown(CallOf(v, v.pieces[i])) |-> i]]
<1>1. /\ n \in Nat /\ DOMAIN v.pieces = 1 .. n
      /\ \A i \in 1 .. n : /\ s[i] \in Seq(Char) /\ Len(s[i]) \in Nat
                           /\ s[i] = Shown(CallOf(v, v.pieces[i]))
  <2>1. s \in [1 .. n -> Seq(Char)]
    BY PieceOf
  <2>2. \A i \in 1 .. n : s[i] \in Seq(Char)
    BY <2>1
  <2> QED BY <2>2, PieceOf
<1>2. ASSUME NEW i \in 1 .. n PROVE own[i] = [k \in 1 .. Len(s[i]) |-> i]
  <2>1. DOMAIN s[i] = 1 .. Len(s[i])
    BY <1>1
  <2>2. own[i] = [k \in DOMAIN Shown(CallOf(v, v.pieces[i])) |-> i]
    BY <1>1
  <2> QED BY <1>1, <2>1, <2>2
<1>3. Owners(v) = FlattenSeq(own)
  BY DEF Owners
<1>4. own = [i \in 1 .. n |-> own[i]]
  BY <1>1
<1> HIDE DEF n, s, own
<1>5. ASSUME NEW i \in 1 .. n PROVE own[i] \in Seq(Nat) /\ Len(own[i]) = Len(s[i])
  <2> DEFINE L == Len(s[i])
  <2>3. i \in Nat /\ L \in Nat
    BY <1>1
  <2>4. own[i] = [k \in 1 .. L |-> i]
    BY <1>2
  <2> HIDE DEF L
  <2>1. i \in Nat /\ L \in Nat /\ own[i] = [k \in 1 .. L |-> i]
    BY <2>3, <2>4
  <2>2. own[i] \in Seq(Nat) /\ Len(own[i]) = L
    BY <2>1
  <2> QED BY <2>2 DEF L
<1>6. own \in Seq(Seq(Nat)) /\ Len(own) = n
  BY <1>1, <1>4, <1>5
<1>7. PICK o :
        /\ Ends(o, own) /\ FlattenSeq(own) \in Seq(Nat)
        /\ Len(FlattenSeq(own)) = o[Len(own)]
        /\ \A i \in 1 .. Len(own) : \A k \in 1 .. Len(own[i]) :
                FlattenSeq(own)[o[i - 1] + k] = own[i][k]
  <2>1. \E o : Flattened(o, own, Nat)
    BY <1>6, FlattenParts
  <2> QED BY <2>1 DEF Flattened
<1>8. /\ o \in [0 .. n -> Nat] /\ o[0] = 0
      /\ Len(Owners(v)) = o[n] /\ DOMAIN Owners(v) = 1 .. o[n]
      /\ \A i \in 1 .. n : o[i] = o[i - 1] + Len(s[i])
  <2>1. DOMAIN FlattenSeq(own) = 1 .. o[n]
    BY <1>6, <1>7
  <2> QED BY <1>3, <1>5, <1>6, <1>7, <2>1 DEF Ends
<1>9. ASSUME NEW i \in 1 .. n, NEW k \in 1 .. Len(s[i])
      PROVE  Owners(v)[o[i - 1] + k] = i
  <2>1. k \in 1 .. Len(own[i]) /\ i \in 1 .. Len(own)
    BY <1>5, <1>6
  <2>2. FlattenSeq(own)[o[i - 1] + k] = own[i][k]
    BY <1>7, <2>1
  <2> QED BY <1>2, <1>3, <2>2
<1>10. ASSUME NEW x \in DOMAIN Owners(v)
       PROVE  \E i \in 1 .. n : \E k \in 1 .. Len(s[i]) : x = o[i - 1] + k
  <2>1. /\ Ends(o, own) /\ Len(own) \in Nat /\ \A i \in 1 .. Len(own) : Len(own[i]) \in Nat
        /\ x \in 1 .. o[Len(own)]
    BY <1>1, <1>5, <1>6, <1>7, <1>8
  <2>2. \E i \in 1 .. Len(own) : \E k \in 1 .. Len(own[i]) : x = o[i - 1] + k
    BY <2>1, EndsCover
  <2> QED BY <1>5, <1>6, <2>2
<1> QED BY <1>8, <1>9, <1>10 DEF Owned, Counts, n, s

\* The text that is read on a double click.
Text(v, behind) == LineOf(v) \o <<Nul>> \o behind
WordOn(v, behind, x) == ComputeKeyword(Text(v, behind), Len(LineOf(v)) + 1, x)

LEMMA TextWritten ==
  ASSUME NEW v \in Views, NEW behind \in Garbage
  PROVE  \E e, o :
            /\ Written(Text(v, behind), Len(v.pieces), e, o,
                       ShownOf(v), ColorOf(v), PlainOf(v))
            /\ Len(LineOf(v)) = e[Len(v.pieces)]
            /\ Owned(v, o)
<1> DEFINE n == Len(v.pieces)
           s == ShownOf(v)
           c == ColorOf(v)
           plain == PlainOf(v)
           l == LineOf(v)
           t == Text(v, behind)
<1>1. PICK e : Pieces(l, n, e, s, c, plain) /\ l \in Seq(Cell) /\ Len(l) = e[n]
  BY LineWritten
<1>2. PICK o : Owned(v, o)
  BY OwnersWritten
<1>3. /\ n \in Nat /\ s \in [1 .. n -> Seq(Char)] /\ c \in [1 .. n -> Code]
      /\ \A i \in 1 .. n : Len(s[i]) \in Nat
      /\ plain \subseteq 1 .. n
  BY PieceOf DEF PlainOf
<1>4. /\ behind \in Seq(Cell \cup {Nul}) /\ Len(behind) = PastEnd + 1 /\ PastEnd \in {0, 1}
  BY CursorAssumption DEF CursorAssumption
<1> HIDE DEF n, s, c, plain, l
<1>5. /\ t \in Seq(Cell \cup {Nul}) /\ Len(t) = e[n] + 2 + PastEnd
      /\ t[e[n] + 1] = Nul
      /\ \A k \in 1 .. e[n] : t[k] = l[k]
  <2> DEFINE R == Cell \cup {Nul}
             nul == <<Nul>>
             first == l \o nul
  <2>1. l \in Seq(R) /\ nul \in Seq(R) /\ Len(nul) = 1 /\ nul[1] = Nul /\ behind \in Seq(R)
    BY <1>1, <1>4
  <2>9. l \in Seq(R) /\ nul \in Seq(R)
    BY <2>1
  <2>2. t = first \o behind
    BY DEF Text, l
  <2> HIDE DEF R, nul, t
  <2>3. /\ first \in Seq(R) /\ Len(first) = Len(l) + Len(nul)
        /\ \A k \in 1 .. Len(l) : first[k] = l[k]
        /\ \A k \in 1 .. Len(nul) : first[Len(l) + k] = nul[k]
    BY <2>9, ConcatAt
  <2> HIDE DEF first
  <2>4. /\ t \in Seq(R) /\ Len(t) = Len(first) + Len(behind)
        /\ \A k \in 1 .. Len(first) : t[k] = first[k]
    <3>1. first \in Seq(R) /\ behind \in Seq(R)
      BY <2>1, <2>3
    <3> QED BY <2>2, <3>1, ConcatAt
  <2>5. Len(l) = e[n] /\ Len(first) = e[n] + 1 /\ e[n] \in Nat
    BY <1>1, <1>3, <2>1, <2>3 DEF Pieces
  <2>6. Len(t) = e[n] + 2 + PastEnd
    BY <1>4, <2>4, <2>5
  <2>7. t[e[n] + 1] = Nul
    <3>1. e[n] + 1 \in 1 .. Len(first) /\ 1 \in 1 .. Len(nul)
      BY <2>1, <2>5
    <3> QED BY <2>1, <2>3, <2>4, <2>5, <3>1
  <2>8. \A k \in 1 .. e[n] : t[k] = l[k]
    <3> TAKE k \in 1 .. e[n]
    <3>1. k \in 1 .. Len(first) /\ k \in 1 .. Len(l)
      BY <2>5
    <3> QED BY <2>3, <2>4, <3>1
  <2> QED BY <2>4, <2>6, <2>7, <2>8 DEF R
<1> HIDE DEF t
<1>6. ASSUME NEW i \in 1 .. n
      PROVE  /\ e[i - 1] \in Nat /\ e[i] \in Nat /\ Len(s[i]) \in Nat
             /\ i \in plain => e[i] = e[i - 1] + Len(s[i])
             /\ i \notin plain => e[i] = e[i - 1] + Len(s[i]) + 4
             /\ e[i - 1] <= e[i]
  <2>1. i - 1 \in 0 .. n /\ i \in 0 .. n
    BY <1>3
  <2>2. e[i] \in Nat /\ e[i - 1] \in Nat /\ Len(s[i]) \in Nat
    BY <1>1, <1>3, <2>1 DEF Pieces
  <2>3. e[i] = e[i - 1] + Len(s[i]) + (IF i \in plain THEN 0 ELSE 4)
    BY <1>1 DEF Pieces
  <2> QED BY <2>2, <2>3
<1>7. ASSUME NEW i \in 1 .. n PROVE e[i] <= e[n]
  <2>1. \A h \in 0 .. n : \A m \in 0 .. h : e[m] <= e[h]
    BY <1>1, <1>3, <1>6, Grows DEF Pieces
  <2>2. n \in 0 .. n /\ i \in 0 .. n
    BY <1>3
  <2> QED BY <2>1, <2>2
<1>8. e[n] \in Nat
  BY <1>1, <1>3 DEF Pieces
<1>9. ASSUME NEW i \in plain, NEW k \in 1 .. Len(s[i]) PROVE t[e[i - 1] + k] = s[i][k]
  <2>1. i \in 1 .. n
    BY <1>3
  <2>2. e[i - 1] + k \in 1 .. e[n]
    BY <1>6, <1>7, <1>8, <2>1
  <2>3. l[e[i - 1] + k] = s[i][k]
    BY <1>1, <2>1 DEF Pieces
  <2> QED BY <1>5, <2>2, <2>3
<1>10. ASSUME NEW i \in 1 .. n \ plain
       PROVE  /\ t[e[i - 1] + 1] = On /\ t[e[i - 1] + 2] = c[i]
              /\ \A k \in 1 .. Len(s[i]) : t[e[i - 1] + 2 + k] = s[i][k]
              /\ t[e[i] - 1] = Off /\ t[e[i]] = c[i]
  <2> DEFINE a == e[i - 1]
             b == e[i]
             L == Len(s[i])
  <2>1. a \in Nat /\ b \in Nat /\ L \in Nat /\ b = a + L + 4 /\ b <= e[n]
    BY <1>6, <1>7
  <2>2. /\ l[a + 1] = On /\ l[a + 2] = c[i]
        /\ \A k \in 1 .. L : l[a + 2 + k] = s[i][k]
        /\ l[b - 1] = Off /\ l[b] = c[i]
    BY <1>1 DEF Pieces
  <2> HIDE DEF a, b, L
  <2>3. /\ a + 1 \in 1 .. e[n] /\ a + 2 \in 1 .. e[n]
        /\ b - 1 \in 1 .. e[n] /\ b \in 1 .. e[n]
        /\ \A k \in 1 .. L : a + 2 + k \in 1 .. e[n]
    BY <1>8, <2>1
  <2>4. /\ t[a + 1] = On /\ t[a + 2] = c[i]
        /\ \A k \in 1 .. L : t[a + 2 + k] = s[i][k]
        /\ t[b - 1] = Off /\ t[b] = c[i]
    BY <1>5, <2>2, <2>3
  <2> QED BY <2>4 DEF a, b, L
<1>11. Pieces(t, n, e, s, c, plain)
  BY <1>1, <1>9, <1>10 DEF Pieces
<1>12. Counts(n, o, s)
  BY <1>2 DEF Owned, n, s
<1>13. Written(t, n, e, o, s, c, plain)
  <2>1. n \in Nat /\ plain \subseteq 1 .. n
    BY <1>3
  <2>2. s \in [1 .. n -> Seq(Char)] /\ c \in [1 .. n -> Code]
    BY <1>3
  <2>3. t \in Seq(Cell \cup {Nul}) /\ Len(t) >= e[n] + 2 /\ t[e[n] + 1] = Nul
    BY <1>4, <1>5, <1>8
  <2> QED BY <1>11, <1>12, <2>1, <2>2, <2>3 DEF Written
<1> USE DEF n, s, c, plain, l, t
<1> WITNESS e, o
<1> QED BY <1>1, <1>2, <1>13

-----------------------------------------------------------------------------
(* The word of a double click *)

LEMMA ViewSpaced ==
  ASSUME NEW v \in Views
  PROVE  SpacedPieces(ShownOf(v), PlainOf(v))
<1> DEFINE n == Len(v.pieces)
           s == ShownOf(v)
           plain == PlainOf(v)
<1>1. n \in Nat /\ DOMAIN v.pieces = 1 .. n
  BY PieceOf
<1>2. \A i : IsPlain(v, i) <=> i \in plain
  BY <1>1 DEF IsPlain, PlainOf
<1>3. \A i \in plain : s[i] = PlainText(v, i)
  <2> TAKE i \in plain
  <2>1. i \in DOMAIN v.pieces /\ i \in 1 .. n /\ v.pieces[i].method = "plain"
    BY <1>1 DEF PlainOf
  <2>2. /\ CallOf(v, v.pieces[i]).method = "plain"
        /\ Shown(CallOf(v, v.pieces[i])) = PlainText(v, i)
    BY <2>1, CallTyped
  <2> QED BY <2>1, <2>2, PieceOf
<1>4. \A i \in DOMAIN v.pieces : IsPlain(v, i) =>
        /\ PlainText(v, i) # <<>>
        /\ IsPlain(v, i - 1) \/
            IF Len(PlainText(v, i)) > 1 THEN PlainText(v, i)[2] \in Blank
            ELSE IsPlain(v, i + 1) => PlainText(v, i + 1)[1] \in Blank
  BY ViewTyped DEF Spaced
<1>5. \A i \in plain : i \in DOMAIN v.pieces
  BY <1>1 DEF PlainOf
<1> HIDE DEF n, s, plain
<1>6. \A i \in plain :
        /\ s[i] # <<>>
        /\ i - 1 \in plain \/
            IF Len(s[i]) > 1 THEN s[i][2] \in Blank
            ELSE i + 1 \in plain => s[i + 1][1] \in Blank
  BY <1>2, <1>3, <1>4, <1>5
<1> QED BY <1>6 DEF SpacedPieces, s, plain

\* What a double click reads, at every column.
LEMMA WordRead ==
  ASSUME NEW v \in Views, NEW behind \in Garbage, NEW x \in 0 .. Len(Owners(v)) + PastEnd
  PROVE  LET word == WordOn(v, behind, x)
             c == CallOf(v, v.pieces[Owners(v)[x]])
         IN
         /\ word \in (Seq(Cell \cup {Nul}) \ {<<>>}) \cup {NoWord}
         /\ x \in Nat
         /\ x \notin DOMAIN Owners(v) => NoName(word)
         /\ x \in DOMAIN Owners(v) =>
                /\ c.method = "plain" => NoName(word)
                /\ c.method # "plain" =>
                    /\ Regular(c) => word = Shown(c)
                    /\ ~ Regular(c) => word = Tail(Shown(c)) \/ word = NoWord
<1> DEFINE n == Len(v.pieces)
           s == ShownOf(v)
           col == ColorOf(v)
           plain == PlainOf(v)
           t == Text(v, behind)
           word == WordOn(v, behind, x)
           c == CallOf(v, v.pieces[Owners(v)[x]])
<1>1. PICK e, o :
        /\ Written(t, n, e, o, s, col, plain) /\ Len(LineOf(v)) = e[n] /\ Owned(v, o)
  BY TextWritten
<1>2. word = ComputeKeyword(t, e[n] + 1, x)
  BY <1>1 DEF WordOn
<1>3. SpacedPieces(s, plain)
  BY ViewSpaced
<1>4. /\ o[n] \in Nat /\ Len(Owners(v)) = o[n] /\ DOMAIN Owners(v) = 1 .. o[n]
      /\ PastEnd \in {0, 1}
  BY <1>1, LineCells, CursorAssumption DEF Owned, CursorAssumption
<1>5. x \in Nat /\ (x = 0 \/ x \in DOMAIN Owners(v) \/ x = o[n] + 1)
  BY <1>4
<1>6. /\ t \in Seq(Cell \cup {Nul}) /\ e[n] + 1 \in Nat /\ (e[n] + 1) + 1 <= Len(t)
      /\ t[e[n] + 1] = Nul /\ e[n] \in Nat
  <2>1. /\ t \in Seq(Cell \cup {Nul}) /\ e[n] \in Nat /\ e[n] + 2 <= Len(t) /\ Len(t) \in Nat
        /\ t[e[n] + 1] = Nul
    BY <1>1, LineCells
  <2> HIDE DEF t, n
  <2> QED BY <2>1
<1> HIDE DEF n, s, col, plain, t, word
<1>7. /\ x = 0 => Walk(t, x) = 1
      /\ \A i \in 1 .. n : \A k \in 1 .. Len(s[i]) :
             x = o[i - 1] + k => Walk(t, x) = Tag(e, plain, i) + k + 1
      /\ x = o[n] + 1 => Walk(t, x) = e[n] + 2
  BY <1>1, <1>5, WalkEnds
<1>8. CASE x = 0 \/ x = o[n] + 1
  <2>1. Walk(t, x) = 1 \/ Walk(t, x) = e[n] + 2
    BY <1>7, <1>8
  <2>2. NoName(word)
    BY <1>1, <1>2, <1>3, <2>1, EdgeWord
  <2>3. x \notin DOMAIN Owners(v)
    BY <1>4, <1>8
  <2>4. Walk(t, x) \in 1 .. (e[n] + 1) + 1
    BY <1>6, <2>1
  <2>5. word \in (Seq(Cell \cup {Nul}) \ {<<>>}) \cup {NoWord}
    BY <1>2, <1>6, <2>4, WordTyped
  <2> QED BY <1>5, <2>2, <2>3, <2>5 DEF word
<1>9. CASE x \in DOMAIN Owners(v)
  <2>11. PICK i \in 1 .. n : \E k \in 1 .. Len(s[i]) : x = o[i - 1] + k
    BY <1>1, <1>9 DEF Owned, n, s
  <2>1. PICK k \in 1 .. Len(s[i]) : x = o[i - 1] + k
    BY <2>11
  <2>2. Owners(v)[x] = i
    BY <1>1, <2>1 DEF Owned, n, s
  <2>3. c = CallOf(v, v.pieces[i])
    BY <2>2
  <2> HIDE DEF c
  <2>4. /\ s[i] = Shown(c) /\ c.method = v.pieces[i].method
        /\ i \notin plain => col[i] = Color(c)
    BY <2>3, PieceOf DEF n, s, col, plain
  <2>5. i \in plain <=> c.method = "plain"
    BY <2>4 DEF plain, PlainOf, n
  <2>6. Walk(t, x) = Tag(e, plain, i) + k + 1
    BY <1>7, <2>1
  <2>7. Walk(t, x) \in 1 .. (e[n] + 1) + 1
    <3>1. /\ Tag(e, plain, i) \in Nat /\ Len(s[i]) \in Nat /\ e[i] \in Nat
          /\ i \in 0 .. n /\ Tag(e, plain, i) + Len(s[i]) <= e[i]
      <4>1. /\ Tag(e, plain, i) \in Nat /\ e[i - 1] \in Nat /\ Len(s[i]) \in Nat
            /\ i \in 0 .. n /\ e[i] \in Nat
            /\ i \in plain => Tag(e, plain, i) = e[i - 1] /\ e[i] = e[i - 1] + Len(s[i])
            /\ i \notin plain => /\ Tag(e, plain, i) = e[i - 1] + 2
                                 /\ e[i] = e[i - 1] + Len(s[i]) + 4
        BY <1>1, PieceCells
      <4> QED BY <4>1, SMTT(30)
    <3>2. e[i] <= e[n]
      BY <1>1, <3>1, LineCells
    <3> DEFINE p == Tag(e, plain, i)
               L == Len(s[i])
               b == e[i]
               m == e[n]
    <3>3. /\ p \in Nat /\ L \in Nat /\ b \in Nat /\ m \in Nat /\ p + L <= b /\ b <= m
          /\ k \in 1 .. L
      BY <1>6, <3>1, <3>2
    <3> HIDE DEF p, L, b, m
    <3>4. p + k + 1 \in 1 .. (m + 1) + 1
      BY <3>3
    <3> QED BY <2>6, <3>4 DEF p, m
  <2>8. word \in (Seq(Cell \cup {Nul}) \ {<<>>}) \cup {NoWord}
    BY <1>2, <1>6, <2>7, WordTyped
  <2>9. CASE c.method = "plain"
    <3>1. NoName(word)
      BY <1>1, <1>2, <1>3, <1>5, <2>1, <2>5, <2>9, PlainWord
    <3> QED BY <1>5, <1>9, <2>8, <2>9, <3>1 DEF word, c
  <2>10. CASE c.method # "plain"
    <3>1. i \notin plain /\ col[i] = Color(c)
      BY <2>4, <2>5, <2>10
    <3>2. /\ s[i][1] \in Alnum \/ col[i] # COLOR_DEFAULT => word = s[i]
          /\ ~ (s[i][1] \in Alnum \/ col[i] # COLOR_DEFAULT) =>
                word = IF Len(s[i]) = 1 THEN NoWord ELSE Tail(s[i])
      BY <1>1, <1>2, <1>5, <2>1, <3>1, TaggedWord
    <3>3. /\ Regular(c) => word = Shown(c)
          /\ ~ Regular(c) => word = Tail(Shown(c)) \/ word = NoWord
      BY <2>4, <3>1, <3>2 DEF Regular
    <3> QED BY <1>5, <1>9, <2>8, <2>10, <3>3 DEF word, c
  <2> QED BY <2>9, <2>10
<1> QED BY <1>5, <1>8, <1>9

\* No name is a word that is the name of nothing.
LEMMA NamesNothing ==
  ASSUME NEW v \in Views, NEW word \in Seq(Cell \cup {Nul}) \ {<<>>}, word # NoWord,
         NoName(word)
  PROVE  ~ HasSymbol(v, word)
<1>1. SUFFICES ASSUME HasSymbol(v, word) PROVE FALSE
  OBVIOUS
<1> DEFINE Names == MemberName \cup {FunctionKey(v.functions[i]) : i \in DOMAIN v.functions}
<1>2. word \in Names
  <2>1. CASE LocalsNamed(v, word) # {}
    <3>1. PICK i \in DOMAIN v.locals : LocalName(v, v.locals[i]) = word
      BY <2>1 DEF LocalsNamed
    <3> QED BY <3>1, LocalNamed
  <2>2. CASE FunctionsNamed(v, word) # {}
    BY <2>2 DEF FunctionsNamed
  <2> QED BY <1>1, <2>1, <2>2 DEF HasSymbol
<1>3. \A name \in Names : name \in Seq(Char) /\ (name # <<>> => name[1] \notin Blank)
  <2>1. \A name \in Names : name # <<>> => name[1] \notin Blank
    BY ViewTyped DEF Spaced
  <2>2. \A name \in Names : name \in Seq(Char)
    BY FunctionNamed, CursorAssumption DEF CursorAssumption
  <2> QED BY <2>1, <2>2
<1>4. word \in Seq(Char) /\ word # <<>> /\ word[1] \notin Blank
  BY <1>2, <1>3
<1>5. \A k \in 1 .. Len(word) : word[k] \in Char
  BY <1>4
<1> QED BY <1>4, <1>5 DEF NoName

\* Where a double click on a word leads.
PlaceOf(v, word) ==
    IF word = NoWord THEN Nowhere
    ELSE IF HasSymbol(v, word) THEN Place(v, word) ELSE Nowhere

\* The line is that of the view, and the last double click read it at one of its
\* columns.
Clicked ==
    /\ view \in Views \cup {NoView}
    /\ view = NoView => line = <<>> /\ click = NoClick
    /\ view # NoView => line = LineOf(view)
    /\ click # NoClick =>
        \E x \in 0 .. Len(Owners(view)) + PastEnd, behind \in Garbage :
            click = [column |-> x, word |-> WordOn(view, behind, x),
                     place |-> PlaceOf(view, WordOn(view, behind, x))]

LEMMA ClickedHolds == Spec => []Clicked
<1>1. Init => Clicked
  BY DEF Init, Clicked
<1>2. Clicked /\ [Next]_vars => Clicked'
  <2> SUFFICES ASSUME Clicked, [Next]_vars PROVE Clicked'
    OBVIOUS
  <2>1. CASE Show
    BY <2>1, CursorAssumption DEF Show, Clicked, CursorAssumption
  <2>2. CASE Close
    BY <2>2 DEF Close, Clicked
  <2>3. ASSUME view # NoView, NEW x \in 0 .. Len(Owners(view)) + PastEnd,
               NEW behind \in Garbage, DoubleClick(x, behind)
        PROVE  Clicked'
    <3> DEFINE word == WordOn(view, behind, x)
               place == PlaceOf(view, word)
    <3>1. view' = view /\ line' = line /\ line = LineOf(view)
      BY <2>3 DEF DoubleClick, Clicked
    <3>2. ComputeKeyword(line \o <<Nul>> \o behind, Len(line) + 1, x) = word
      BY <3>1 DEF WordOn, Text
    <3>3. click' = [column |-> x, word |-> word, place |-> place]
      BY <2>3, <3>2 DEF DoubleClick, PlaceOf
    <3> HIDE DEF word, place
    <3>4. click' = [column |-> x, word |-> WordOn(view', behind, x),
                    place |-> PlaceOf(view', WordOn(view', behind, x))]
      BY <3>1, <3>3 DEF word, place
    <3>5. x \in 0 .. Len(Owners(view')) + PastEnd
      BY <3>1
    <3>6. /\ view' \in Views \cup {NoView}
          /\ view' # NoView /\ line' = LineOf(view')
      BY <2>3, <3>1 DEF Clicked
    <3>7. click' # NoClick =>
            \E y \in 0 .. Len(Owners(view')) + PastEnd, g \in Garbage :
                click' = [column |-> y, word |-> WordOn(view', g, y),
                          place |-> PlaceOf(view', WordOn(view', g, y))]
      BY <3>4, <3>5
    <3> QED BY <3>6, <3>7 DEF Clicked
  <2>4. CASE UNCHANGED vars
    BY <2>4 DEF vars, Clicked
  <2> QED BY <2>1, <2>2, <2>3, <2>4 DEF Next
<1> QED BY <1>1, <1>2, PTL DEF Spec

\* What the last double click read, and where it led.
LEMMA ClickRead ==
  ASSUME Clicked, click # NoClick
  PROVE  LET c == CallAt(click.column) IN
         /\ view \in Views /\ view # NoView
         /\ click \in [column : Nat, word : (Seq(Cell \cup {Nul}) \ {<<>>}) \cup {NoWord},
                       place : {PlaceOf(view, click.word)}]
         /\ click.column \notin DOMAIN Owners(view) => NoName(click.word)
         /\ click.column \in DOMAIN Owners(view) =>
                /\ c.method = "plain" => NoName(click.word)
                /\ c.method # "plain" =>
                    /\ Regular(c) => click.word = Shown(c)
                    /\ ~ Regular(c) => click.word = Tail(Shown(c)) \/ click.word = NoWord
<1>1. view \in Views /\ view # NoView
  BY DEF Clicked
<1>2. PICK x \in 0 .. Len(Owners(view)) + PastEnd, behind \in Garbage :
        click = [column |-> x, word |-> WordOn(view, behind, x),
                 place |-> PlaceOf(view, WordOn(view, behind, x))]
  BY DEF Clicked
<1> DEFINE word == WordOn(view, behind, x)
           c == CallOf(view, view.pieces[Owners(view)[x]])
<1>3. /\ word \in (Seq(Cell \cup {Nul}) \ {<<>>}) \cup {NoWord}
      /\ x \in Nat
      /\ x \notin DOMAIN Owners(view) => NoName(word)
      /\ x \in DOMAIN Owners(view) =>
            /\ c.method = "plain" => NoName(word)
            /\ c.method # "plain" =>
                /\ Regular(c) => word = Shown(c)
                /\ ~ Regular(c) => word = Tail(Shown(c)) \/ word = NoWord
  BY <1>1, WordRead
<1> HIDE DEF word
<1>4. click = [column |-> x, word |-> word, place |-> PlaceOf(view, word)]
  BY <1>2 DEF word
<1>5. click.column = x /\ click.word = word
  BY <1>4
<1>6. CallAt(click.column) = c
  BY <1>5 DEF CallAt
<1> HIDE DEF c
<1>7. click \in [column : Nat, word : (Seq(Cell \cup {Nul}) \ {<<>>}) \cup {NoWord},
                 place : {PlaceOf(view, click.word)}]
  BY <1>3, <1>4, <1>5
<1> QED BY <1>1, <1>3, <1>5, <1>6, <1>7

\* Every place is one of a function or of the frame.
LEMMA PlaceTyped ==
  ASSUME NEW v \in Views, NEW word, HasSymbol(v, word)
  PROVE  Place(v, word) \in ({"ram"} \X Nat) \cup ({"frame"} \X (0 .. Sign - 1))
<1>1. CASE LocalsNamed(v, word) # {}
  <2> DEFINE l == First(LocalsNamed(v, word))
  <2>1. l \in DOMAIN v.locals
    BY <1>1, FirstLocal DEF LocalsNamed
  <2>2. v.locals[l].soff \in 0 .. Sign - 1
    BY <2>1, ViewTyped, LocalTyped
  <2>3. Place(v, word) = <<"frame", v.locals[l].soff>>
    BY <1>1, LocalPlace
  <2> HIDE DEF l
  <2> QED BY <2>2, <2>3
<1>2. CASE LocalsNamed(v, word) = {}
  <2> DEFINE T == FunctionsNamed(v, word)
             f == First(T)
  <2>1. T # {}
    BY <1>2 DEF HasSymbol
  <2>2. T \subseteq DOMAIN v.functions /\ T \in SUBSET Nat
    <3>1. DOMAIN v.functions \subseteq Nat
      BY ViewTyped
    <3> QED BY <3>1 DEF FunctionsNamed
  <2> HIDE DEF T
  <2>3. \E i \in T : \A k \in T : i <= k
    BY <2>1, <2>2, MinNat
  <2>4. f \in DOMAIN v.functions
    BY <2>2, <2>3 DEF First
  <2> HIDE DEF f
  <2>5. v.functions[f].address \in Nat
    BY <2>4, FunctionNamed
  <2>6. Symbol(v, word) = [space |-> "ram", offset |-> v.functions[f].address]
    BY <1>2 DEF Symbol, f, T
  <2>7. Place(v, word) = <<"ram", v.functions[f].address>>
    BY <2>6 DEF Place
  <2> QED BY <2>5, <2>7
<1> QED BY <1>1, <1>2

\* A line holds cells, a word is never empty, and a place in the frame is one of
\* the frame.
THEOREM CursorTyped == Spec => []TypeOK
<1>1. Clicked => TypeOK
  <2> SUFFICES ASSUME Clicked PROVE TypeOK
    OBVIOUS
  <2>1. view \in Views \cup {NoView} /\ (view = NoView => line = <<>> /\ click = NoClick)
    BY DEF Clicked
  <2>2. line \in Seq(Cell)
    <3>1. CASE view = NoView
      BY <2>1, <3>1
    <3>2. CASE view # NoView
      <4>1. view \in Views /\ line = LineOf(view)
        BY <2>1, <3>2 DEF Clicked
      <4>2. LineOf(view) \in Seq(Cell)
        BY <4>1, LineWritten
      <4> QED BY <4>1, <4>2
    <3> QED BY <3>1, <3>2
  <2>3. ASSUME click # NoClick PROVE click \in Click
    <3>1. /\ view \in Views
          /\ click \in [column : Nat,
                        word : (Seq(Cell \cup {Nul}) \ {<<>>}) \cup {NoWord},
                        place : {PlaceOf(view, click.word)}]
      BY <2>3, ClickRead
    <3>2. PlaceOf(view, click.word) \in
            {Nowhere} \cup ({"ram"} \X Nat) \cup ({"frame"} \X (0 .. Sign - 1))
      BY <3>1, PlaceTyped DEF PlaceOf
    <3> QED BY <3>1, <3>2 DEF Click
  <2> QED BY <2>1, <2>2, <2>3 DEF TypeOK
<1> QED BY <1>1, ClickedHolds, PTL

\* The word is the whole token under the cursor, for every line and whatever
\* lies behind it.
THEOREM WordIsExact == Spec => []WordExact
<1>1. Clicked => WordExact
  <2> SUFFICES ASSUME Clicked, OnCharacter PROVE
        LET c == CallAt(click.column) IN
        c.method # "plain" /\ Regular(c) => click.word = Shown(c)
    BY DEF WordExact
  <2>1. click # NoClick /\ click.column \in DOMAIN Owners(view)
    BY DEF OnCharacter
  <2> QED BY <2>1, ClickRead
<1> QED BY <1>1, ClickedHolds, PTL

\* A double click that goes anywhere goes where the token under the cursor, or
\* its rest behind the first character, leads, for every line.
THEOREM OnlyItsWord == Spec => []NoOtherWord
<1>1. Clicked => NoOtherWord
  <2> SUFFICES ASSUME Clicked, click # NoClick, click.place # Nowhere
               PROVE  /\ OnCharacter
                      /\ LET c == CallAt(click.column) IN
                          /\ c.method # "plain"
                          /\ \/ click.word = Shown(c)
                             \/ ~Regular(c) /\ click.word = Tail(Shown(c))
    BY DEF NoOtherWord
  <2> DEFINE c == CallAt(click.column)
  <2>1. /\ view \in Views
        /\ click \in [column : Nat, word : (Seq(Cell \cup {Nul}) \ {<<>>}) \cup {NoWord},
                      place : {PlaceOf(view, click.word)}]
        /\ click.column \notin DOMAIN Owners(view) => NoName(click.word)
        /\ click.column \in DOMAIN Owners(view) =>
               /\ c.method = "plain" => NoName(click.word)
               /\ c.method # "plain" =>
                   /\ Regular(c) => click.word = Shown(c)
                   /\ ~ Regular(c) => click.word = Tail(Shown(c)) \/ click.word = NoWord
    BY ClickRead
  <2> HIDE DEF c
  <2>2. click.place = PlaceOf(view, click.word)
    BY <2>1
  <2>3. click.word # NoWord /\ HasSymbol(view, click.word)
    BY <2>2 DEF PlaceOf
  <2>4. click.word \in Seq(Cell \cup {Nul}) \ {<<>>}
    BY <2>1, <2>3
  <2>5. ~ NoName(click.word)
    BY <2>1, <2>3, <2>4, NamesNothing
  <2>6. OnCharacter
    BY <2>1, <2>5 DEF OnCharacter
  <2>7. click.column \in DOMAIN Owners(view)
    BY <2>6 DEF OnCharacter
  <2>8. /\ c.method # "plain"
        /\ \/ click.word = Shown(c)
           \/ ~Regular(c) /\ click.word = Tail(Shown(c))
    BY <2>1, <2>3, <2>5, <2>7
  <2> QED BY <2>6, <2>8 DEF c
<1> QED BY <1>1, ClickedHolds, PTL

\* A double click on a token that begins with a letter or a digit, or has a color
\* of its own, goes to the place of its name if it has one, for every line.
THEOREM LettersNavigate ==
  Spec => [](OnCharacter =>
                LET c == CallAt(click.column) IN
                c.method # "plain" /\ Regular(c) /\ HasSymbol(view, Shown(c)) =>
                    click.place = Place(view, Shown(c)))
<1>1. Clicked => (OnCharacter =>
                    LET c == CallAt(click.column) IN
                    c.method # "plain" /\ Regular(c) /\ HasSymbol(view, Shown(c)) =>
                        click.place = Place(view, Shown(c)))
  <2> DEFINE c == CallAt(click.column)
  <2> SUFFICES ASSUME Clicked, OnCharacter, c.method # "plain", Regular(c),
                      HasSymbol(view, Shown(c))
               PROVE  click.place = Place(view, Shown(c))
    OBVIOUS
  <2>1. click # NoClick /\ click.column \in DOMAIN Owners(view)
    BY DEF OnCharacter
  <2>2. /\ view \in Views /\ click.word = Shown(c)
        /\ click \in [column : Nat, word : (Seq(Cell \cup {Nul}) \ {<<>>}) \cup {NoWord},
                      place : {PlaceOf(view, click.word)}]
    BY <2>1, ClickRead
  <2>3. click.place = PlaceOf(view, Shown(c))
    BY <2>2
  <2>4. Shown(c) # NoWord
    <3>1. Shown(c) \in Seq(Cell \cup {Nul})
      <4>1. Owners(view)[click.column] \in DOMAIN view.pieces
        <5>1. PICK o : Owned(view, o)
          BY <2>2, OwnersWritten
        <5>2. PICK i \in 1 .. Len(view.pieces) :
                \E k \in 1 .. Len(ShownOf(view)[i]) : click.column = o[i - 1] + k
          BY <2>1, <5>1 DEF Owned
        <5>3. Owners(view)[click.column] = i
          BY <5>1, <5>2 DEF Owned
        <5> QED BY <2>2, <5>3, PieceOf
      <4>2. Shown(c) \in Seq(Char)
        BY <2>2, <4>1, CallTyped DEF CallAt
      <4>3. Char \subseteq Cell \cup {Nul}
        BY DEF Cell
      <4> HIDE DEF c
      <4> QED BY <4>2, <4>3
    <3> QED BY <3>1, KeywordAssumption DEF KeywordAssumption
  <2> QED BY <2>3, <2>4 DEF PlaceOf
<1> QED BY <1>1, ClickedHolds, PTL

\* A double click on a variable of the stack opens the frame at its place,
\* for every frame and every width.
THEOREM FrameIsExact == Spec => []FrameExact
<1>1. Clicked => FrameExact
  <2> SUFFICES ASSUME Clicked, click # NoClick, click.place # Nowhere,
                      LocalsNamed(view, click.word) # {}
               PROVE  /\ click.place =
                            <<"frame", view.locals[First(LocalsNamed(view, click.word))].soff>>
                      /\ \A i \in DOMAIN view.frame.members :
                            view.frame.members[i].name = click.word =>
                                click.place = <<"frame", view.frame.members[i].soff>>
    BY DEF FrameExact
  <2> DEFINE l == First(LocalsNamed(view, click.word))
  <2>1. view \in Views /\ click.place = Place(view, click.word)
    <3>1. /\ view \in Views
          /\ click \in [column : Nat,
                        word : (Seq(Cell \cup {Nul}) \ {<<>>}) \cup {NoWord},
                        place : {PlaceOf(view, click.word)}]
      BY ClickRead
    <3>2. click.place = PlaceOf(view, click.word)
      BY <3>1
    <3> QED BY <3>1, <3>2 DEF PlaceOf
  <2>2. click.place = <<"frame", view.locals[l].soff>>
    BY <2>1, LocalPlace
  <2>3. l \in DOMAIN view.locals /\ LocalName(view, view.locals[l]) = click.word
    BY <2>1, FirstLocal DEF LocalsNamed
  <2>4. ASSUME NEW i \in DOMAIN view.frame.members,
               view.frame.members[i].name = click.word
        PROVE  click.place = <<"frame", view.frame.members[i].soff>>
    <3>1. view.frame.members[i].soff = view.locals[l].soff
      BY <2>1, <2>3, <2>4, NamedPlace
    <3> QED BY <2>2, <3>1
  <2> QED BY <2>2, <2>4
<1> QED BY <1>1, ClickedHolds, PTL
=============================================================================
