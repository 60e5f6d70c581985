---------------------------- MODULE KeywordProof ----------------------------
(***************************************************************************)
(* What _ComputeKeyword reads at each column of a line that the emitter    *)
(* wrote, whatever its tokens, its blanks and the cells behind it: on a    *)
(* token with tags the token or the rest of it, and anywhere else a word   *)
(* that is the name of nothing.                                            *)
(***************************************************************************)
EXTENDS Keyword, NatLemmas, SequenceTheorems, TLAPS

\* The cells of a sequence that are another.
LEMMA SubSeqIs ==
  ASSUME NEW S, NEW R, NEW text \in Seq(S), NEW s \in Seq(R), NEW a \in Nat,
         a + Len(s) <= Len(text), \A k \in 1 .. Len(s) : text[a + k] = s[k]
  PROVE  SubSeq(text, a + 1, a + Len(s)) = s
<1> DEFINE u == SubSeq(text, a + 1, a + Len(s))
<1>1. Len(s) \in Nat /\ Len(text) \in Nat
  OBVIOUS
<1>2. \A k \in a + 1 .. a + Len(s) : text[k] \in S
  BY <1>1
<1>3. u = [k \in 1 .. Len(s) |-> text[a + k]]
  <2>1. (a + Len(s)) - (a + 1) + 1 = Len(s)
    BY <1>1
  <2>2. \A k \in 1 .. Len(s) : (a + 1) + k - 1 = a + k
    BY <1>1
  <2> QED BY <1>1, <2>1, <2>2
<1>4. s = [k \in 1 .. Len(s) |-> s[k]]
  OBVIOUS
<1> QED BY <1>3, <1>4

LEMMA SubSeqAt ==
  ASSUME NEW S, NEW text \in Seq(S), NEW a \in 1 .. Len(text), NEW b \in a .. Len(text)
  PROVE  /\ SubSeq(text, a, b) \in Seq(S)
         /\ Len(SubSeq(text, a, b)) = b - a + 1
         /\ \A k \in 1 .. b - a + 1 : SubSeq(text, a, b)[k] = text[a + k - 1]
<1>1. Len(text) \in Nat /\ \A k \in a .. b : text[k] \in S
  OBVIOUS
<1> QED BY <1>1, SubSeqProperties

-----------------------------------------------------------------------------
(* A walk over a line *)

\* The function that Walk computes with: all steps of a walk.
IsWalk(w, text, x) ==
    \A p \in 1 .. Len(text) + 2, left \in 0 .. x :
        w[p][left] =
            IF left = 0 \/ p > Len(text) THEN p
            ELSE IF text[p] \in Escape THEN w[p + 2][left]
            ELSE w[p + 1][left - 1]

LEMMA WalkFunction ==
  ASSUME NEW S, NEW text \in Seq(S), NEW x \in Nat
  PROVE  \E w : IsWalk(w, text, x) /\ Walk(text, x) = w[1][x]
<1> DEFINE N == Len(text)
           Body(w, p, left) ==
                IF left = 0 \/ p > N THEN p
                ELSE IF text[p] \in Escape THEN w[p + 2][left]
                ELSE w[p + 1][left - 1]
           D == (1 .. N + 2) \X (0 .. x)
           Eq(w) == w = [p \in 1 .. N + 2 |-> [left \in 0 .. x |-> Body(w, p, left)]]
           walk == CHOOSE w : Eq(w)
           P(q) == \E w : \A p \in 1 .. N + 2, left \in 0 .. x :
                        p + q > N => w[p][left] = Body(w, p, left)
<1>1. N \in Nat
  OBVIOUS
<1> HIDE DEF N
<1>2. P(0)
  <2> DEFINE w == [p \in 1 .. N + 2 |-> [left \in 0 .. x |-> p]]
  <2>1. \A p \in 1 .. N + 2, left \in 0 .. x : w[p][left] = p
    OBVIOUS
  <2> HIDE DEF w
  <2> QED BY <1>1, <2>1
<1>3. ASSUME NEW q \in Nat, P(q) PROVE P(q + 1)
  <2>1. PICK w : \A p \in 1 .. N + 2, left \in 0 .. x :
                    p + q > N => w[p][left] = Body(w, p, left)
    BY <1>3
  <2> DEFINE u == [p \in 1 .. N + 2 |-> [left \in 0 .. x |->
                    IF p + q > N THEN w[p][left] ELSE Body(w, p, left)]]
  <2>2. \A p \in 1 .. N + 2, left \in 0 .. x :
            u[p][left] = IF p + q > N THEN w[p][left] ELSE Body(w, p, left)
    OBVIOUS
  <2> HIDE DEF u
  <2>3. ASSUME NEW p \in 1 .. N + 2, NEW left \in 0 .. x, p + (q + 1) > N
        PROVE  u[p][left] = Body(u, p, left)
    <3>1. u[p][left] = Body(w, p, left)
      BY <2>1, <2>2
    <3>2. CASE left = 0 \/ p > N
      BY <3>1, <3>2
    <3>3. CASE ~ (left = 0 \/ p > N)
      <4>1. p + 1 \in 1 .. N + 2 /\ p + 2 \in 1 .. N + 2 /\ left - 1 \in 0 .. x
            /\ (p + 1) + q > N /\ (p + 2) + q > N
        BY <1>1, <2>3, <3>3
      <4>2. u[p + 1][left - 1] = w[p + 1][left - 1] /\ u[p + 2][left] = w[p + 2][left]
        BY <2>2, <4>1
      <4> QED BY <3>1, <4>2
    <3> QED BY <3>2, <3>3
  <2> QED BY <2>3
<1>4. P(N)
  <2> HIDE DEF P
  <2> DEFINE T == {q \in Nat : P(q)}
  <2>1. T \in SUBSET Nat /\ 0 \in T /\ \A q \in T : q + 1 \in T
    BY <1>2, <1>3
  <2>2. T = Nat
    BY <2>1, AllNat
  <2> QED BY <1>1, <2>2
<1>5. PICK w : \A p \in 1 .. N + 2, left \in 0 .. x : w[p][left] = Body(w, p, left)
  <2>1. PICK w : \A p \in 1 .. N + 2, left \in 0 .. x :
                    p + N > N => w[p][left] = Body(w, p, left)
    BY <1>4
  <2>2. \A p \in 1 .. N + 2 : p + N > N
    BY <1>1
  <2> HIDE DEF Body
  <2> QED BY <2>1, <2>2
<1> DEFINE u == [p \in 1 .. N + 2 |-> [left \in 0 .. x |-> w[p][left]]]
<1>6. \A p \in 1 .. N + 2, left \in 0 .. x : u[p][left] = w[p][left]
  OBVIOUS
<1> HIDE DEF u
<1>7. ASSUME NEW p \in 1 .. N + 2, NEW left \in 0 .. x
      PROVE  Body(u, p, left) = w[p][left]
  <2>1. CASE left = 0 \/ p > N
    BY <1>5, <2>1
  <2>2. CASE ~ (left = 0 \/ p > N)
    <3>1. p + 1 \in 1 .. N + 2 /\ p + 2 \in 1 .. N + 2 /\ left - 1 \in 0 .. x
      BY <1>1, <2>2
    <3>2. u[p + 1][left - 1] = w[p + 1][left - 1] /\ u[p + 2][left] = w[p + 2][left]
      BY <1>6, <3>1
    <3> QED BY <1>5, <3>2
  <2> QED BY <2>1, <2>2
<1>8. Eq(u)
  BY <1>7 DEF u
<1>9. Eq(walk)
  <2> HIDE DEF Eq
  <2> QED BY <1>8
<1>10. Walk(text, x) = walk[1][x]
  BY DEF Walk, N
<1>11. \A p \in 1 .. N + 2, left \in 0 .. x : walk[p][left] = Body(walk, p, left)
  <2> HIDE DEF walk, Body
  <2> TAKE p \in 1 .. N + 2, left \in 0 .. x
  <2>1. walk[p] = [k \in 0 .. x |-> Body(walk, p, k)]
    BY <1>9
  <2> QED BY <2>1
<1>12. IsWalk(walk, text, x)
  BY <1>11 DEF IsWalk, N
<1> HIDE DEF walk
<1> QED BY <1>10, <1>12

\* Piece i of a text shows s[i], in the color c[i], the plain ones without tags,
\* and ends at cell e[i].
Pieces(t, n, e, s, c, plain) ==
    /\ e \in [0 .. n -> Nat] /\ e[0] = 0
    /\ \A i \in 1 .. n : e[i] = e[i - 1] + Len(s[i]) + (IF i \in plain THEN 0 ELSE 4)
    /\ \A i \in plain : \A k \in 1 .. Len(s[i]) : t[e[i - 1] + k] = s[i][k]
    /\ \A i \in 1 .. n \ plain :
        /\ t[e[i - 1] + 1] = On /\ t[e[i - 1] + 2] = c[i]
        /\ \A k \in 1 .. Len(s[i]) : t[e[i - 1] + 2 + k] = s[i][k]
        /\ t[e[i] - 1] = Off /\ t[e[i]] = c[i]

\* It shows o[i] characters up to there.
Counts(n, o, s) ==
    /\ o \in [0 .. n -> Nat] /\ o[0] = 0
    /\ \A i \in 1 .. n : o[i] = o[i - 1] + Len(s[i])

\* A line, its NUL and what lies behind.
Written(t, n, e, o, s, c, plain) ==
    /\ n \in Nat /\ plain \subseteq 1 .. n
    /\ s \in [1 .. n -> Seq(Char)]
    /\ c \in [1 .. n -> Code]
    /\ Pieces(t, n, e, s, c, plain)
    /\ Counts(n, o, s)
    /\ t \in Seq(Cell \cup {Nul}) /\ Len(t) >= e[n] + 2
    /\ t[e[n] + 1] = Nul

\* The cell before the first character of piece i.
Tag(e, plain, i) == IF i \in plain THEN e[i - 1] ELSE e[i - 1] + 2

\* The m cells behind cell p are no escapes: a walk takes them one by one.
NoEscape(text, p, m) == \A k \in 1 .. m : text[p + k] \notin Escape

LEMMA WalkChars ==
  ASSUME NEW text, Len(text) \in Nat, NEW x \in Nat, NEW w, IsWalk(w, text, x),
         NEW p \in 0 .. Len(text), NEW left \in 0 .. x, NEW m \in 0 .. left,
         p + m <= Len(text), NoEscape(text, p, m)
  PROVE  w[p + 1][left] = w[p + m + 1][left - m]
<1> DEFINE Q(q) == q <= m => w[p + 1][left] = w[p + q + 1][left - q]
<1>1. Q(0)
  OBVIOUS
<1>2. ASSUME NEW q \in Nat, Q(q) PROVE Q(q + 1)
  <2> SUFFICES ASSUME q + 1 <= m
               PROVE  w[p + 1][left] = w[p + (q + 1) + 1][left - (q + 1)]
    OBVIOUS
  <2>1. /\ p + q + 1 \in 1 .. Len(text) + 2 /\ left - q \in 0 .. x
        /\ left - q # 0 /\ ~ (p + q + 1 > Len(text))
        /\ q + 1 \in 1 .. m /\ p + (q + 1) = p + q + 1
        /\ (p + q + 1) + 1 = p + (q + 1) + 1
        /\ (left - q) - 1 = left - (q + 1)
    OBVIOUS
  <2>2. text[p + q + 1] \notin Escape
    BY <2>1 DEF NoEscape
  <2>3. w[p + q + 1][left - q] = w[(p + q + 1) + 1][(left - q) - 1]
    BY <2>1, <2>2 DEF IsWalk
  <2>4. w[p + 1][left] = w[p + q + 1][left - q]
    BY <1>2
  <2> QED BY <2>1, <2>3, <2>4
<1> HIDE DEF Q
<1> DEFINE T == {q \in Nat : Q(q)}
<1>3. T \in SUBSET Nat /\ 0 \in T /\ \A q \in T : q + 1 \in T
  BY <1>1, <1>2
<1>4. T = Nat
  BY <1>3, AllNat
<1>5. m \in T
  BY <1>4
<1> QED BY <1>5 DEF Q

\* Cells and characters of a piece.
LEMMA PieceCells ==
  ASSUME NEW t, NEW n, NEW e, NEW o, NEW s, NEW c, NEW plain,
         Written(t, n, e, o, s, c, plain), NEW i \in 1 .. n
  PROVE  /\ i - 1 \in 0 .. n /\ i \in 0 .. n
         /\ e[i - 1] \in Nat /\ e[i] \in Nat /\ o[i - 1] \in Nat /\ o[i] \in Nat
         /\ s[i] \in Seq(Char) /\ Len(s[i]) \in Nat /\ c[i] \in Code
         /\ Tag(e, plain, i) \in Nat
         /\ o[i] = o[i - 1] + Len(s[i])
         /\ i \in plain => Tag(e, plain, i) = e[i - 1] /\ e[i] = e[i - 1] + Len(s[i])
         /\ i \notin plain => /\ Tag(e, plain, i) = e[i - 1] + 2
                              /\ e[i] = e[i - 1] + Len(s[i]) + 4
         /\ \A k \in 1 .. Len(s[i]) : t[Tag(e, plain, i) + k] = s[i][k]
<1>1. n \in Nat /\ i - 1 \in 0 .. n /\ i \in 0 .. n
  BY DEF Written, Pieces, Counts
<1>2. e[i - 1] \in Nat /\ e[i] \in Nat /\ o[i - 1] \in Nat /\ o[i] \in Nat
  BY <1>1 DEF Written, Pieces, Counts
<1>3. s[i] \in Seq(Char) /\ c[i] \in Code
  BY DEF Written, Pieces, Counts
<1>4. Len(s[i]) \in Nat
  BY <1>3
<1>5. o[i] = o[i - 1] + Len(s[i])
  BY DEF Written, Pieces, Counts
<1>6. e[i] = e[i - 1] + Len(s[i]) + (IF i \in plain THEN 0 ELSE 4)
  BY DEF Written, Pieces, Counts
<1>7. /\ i \in plain => Tag(e, plain, i) = e[i - 1] /\ e[i] = e[i - 1] + Len(s[i])
      /\ i \notin plain => /\ Tag(e, plain, i) = e[i - 1] + 2
                           /\ e[i] = e[i - 1] + Len(s[i]) + 4
  BY <1>2, <1>4, <1>6 DEF Tag
<1>8. Tag(e, plain, i) \in Nat
  BY <1>2, <1>7
<1>9. \A k \in 1 .. Len(s[i]) : t[Tag(e, plain, i) + k] = s[i][k]
  <2>1. CASE i \in plain
    <3>1. \A k \in 1 .. Len(s[i]) : t[e[i - 1] + k] = s[i][k]
      BY <2>1 DEF Written, Pieces, Counts
    <3> QED BY <1>7, <2>1, <3>1
  <2>2. CASE i \notin plain
    <3>1. \A k \in 1 .. Len(s[i]) : t[e[i - 1] + 2 + k] = s[i][k]
      BY <2>2 DEF Written, Pieces, Counts
    <3> QED BY <1>7, <2>2, <3>1
  <2> QED BY <2>1, <2>2
<1> QED BY <1>1, <1>2, <1>3, <1>4, <1>5, <1>7, <1>8, <1>9

\* Pieces follow each other up to the NUL.
LEMMA PieceOrder ==
  ASSUME NEW t, NEW n, NEW e, NEW o, NEW s, NEW c, NEW plain,
         Written(t, n, e, o, s, c, plain)
  PROVE  \A j \in 0 .. n : \A i \in 0 .. j : e[i] <= e[j]
<1>1. n \in Nat /\ e \in [0 .. n -> Nat]
  BY DEF Written, Pieces, Counts
<1>2. ASSUME NEW i \in 1 .. n PROVE e[i - 1] <= e[i]
  <2>1. /\ e[i - 1] \in Nat /\ e[i] \in Nat /\ Len(s[i]) \in Nat
        /\ e[i] = e[i - 1] + Len(s[i]) \/ e[i] = e[i - 1] + Len(s[i]) + 4
    BY PieceCells
  <2> QED BY <2>1
<1> QED BY <1>1, <1>2, Grows

\* No character is an escape or the NUL.
LEMMA CharCells ==
  ASSUME NEW t, NEW n, NEW e, NEW o, NEW s, NEW c, NEW plain,
         Written(t, n, e, o, s, c, plain), NEW i \in 1 .. n, NEW k \in 1 .. Len(s[i])
  PROVE  /\ t[Tag(e, plain, i) + k] \in Char
         /\ t[Tag(e, plain, i) + k] \notin Escape \cup {Nul}
<1>1. s[i] \in Seq(Char) /\ t[Tag(e, plain, i) + k] = s[i][k]
  BY PieceCells
<1>2. s[i][k] \in Char
  BY <1>1
<1> QED BY <1>1, <1>2, KeywordAssumption DEF KeywordAssumption, Escape

\* A walk inside a piece, and over it.
LEMMA WalkPiece ==
  ASSUME NEW t, NEW n, NEW e, NEW o, NEW s, NEW c, NEW plain,
         Written(t, n, e, o, s, c, plain), NEW x \in Nat, NEW w, IsWalk(w, t, x),
         NEW i \in 1 .. n, NEW left \in 1 .. x
  PROVE  /\ left <= Len(s[i]) => w[e[i - 1] + 1][left] = Tag(e, plain, i) + left + 1
         /\ left > Len(s[i]) => w[e[i - 1] + 1][left] = w[e[i] + 1][left - Len(s[i])]
<1> DEFINE L == Len(s[i])
           N == Len(t)
           p == Tag(e, plain, i)
           a == e[i - 1]
           b == e[i]
<1>1. /\ a \in Nat /\ b \in Nat /\ L \in Nat /\ p \in Nat
      /\ i \in plain => p = a /\ b = a + L
      /\ i \notin plain => p = a + 2 /\ b = a + L + 4
  BY PieceCells
<1> HIDE DEF L, N, p, a, b
<1>2. N \in Nat /\ b + 2 <= N /\ t \in Seq(Cell \cup {Nul})
  <2>1. n \in Nat /\ n \in 0 .. n /\ i \in 0 .. n /\ e[n] \in Nat
    BY DEF Written, Pieces, Counts
  <2>2. b <= e[n]
    BY <2>1, PieceOrder DEF b
  <2>3. N >= e[n] + 2 /\ t \in Seq(Cell \cup {Nul})
    BY DEF Written, N
  <2>4. N \in Nat
    BY <2>3 DEF N
  <2> QED BY <1>1, <2>1, <2>2, <2>3, <2>4
<1>3. \A k \in 1 .. L : t[p + k] \notin Escape
  BY CharCells DEF L, p
<1>4. w[a + 1][left] = w[p + 1][left]
  <2>1. CASE i \in plain
    BY <1>1, <2>1
  <2>2. CASE i \notin plain
    <3>1. t[a + 1] \in Escape
      BY <2>2 DEF Written, Pieces, Counts, Escape, a
    <3>2. a + 1 \in 1 .. N + 2 /\ left \in 0 .. x /\ left # 0 /\ ~ (a + 1 > N)
          /\ (a + 1) + 2 = p + 1
      BY <1>1, <1>2, <2>2
    <3>3. w[a + 1][left] = w[(a + 1) + 2][left]
      BY <3>1, <3>2 DEF IsWalk, N
    <3> QED BY <3>2, <3>3
  <2> QED BY <2>1, <2>2
<1>5. ASSUME NEW m \in 0 .. L, m <= left
      PROVE  w[p + 1][left] = w[p + m + 1][left - m]
  <2>1. p \in 0 .. N /\ left \in 0 .. x /\ m \in 0 .. left /\ p + m <= N
    BY <1>1, <1>2, <1>5
  <2>2. NoEscape(t, p, m)
    BY <1>1, <1>3 DEF NoEscape
  <2>3. /\ Len(t) \in Nat /\ p \in 0 .. Len(t) /\ left \in 0 .. x /\ m \in 0 .. left
        /\ p + m <= Len(t)
    BY <1>2, <2>1 DEF N
  <2>4. \A f \in 0 .. Len(t), k \in 0 .. left :
            f + k <= Len(t) /\ NoEscape(t, f, k) => w[f + 1][left] = w[f + k + 1][left - k]
    BY <2>3, WalkChars
  <2> QED BY <2>2, <2>3, <2>4
<1>6. ASSUME left <= L PROVE w[a + 1][left] = p + left + 1
  <2>1. w[p + 1][left] = w[p + left + 1][left - left]
    BY <1>5, <1>6
  <2>2. left - left = 0 /\ p + left + 1 \in 1 .. N + 2 /\ 0 \in 0 .. x
    BY <1>1, <1>2, <1>6
  <2>3. w[p + left + 1][0] = p + left + 1
    BY <2>2 DEF IsWalk, N
  <2> QED BY <1>4, <2>1, <2>2, <2>3
<1>7. ASSUME left > L PROVE w[a + 1][left] = w[b + 1][left - L]
  <2>1. w[p + 1][left] = w[p + L + 1][left - L]
    BY <1>1, <1>5, <1>7
  <2>2. CASE i \in plain
    BY <1>1, <1>4, <2>1, <2>2
  <2>3. CASE i \notin plain
    <3>1. t[b - 1] \in Escape
      BY <2>3 DEF Written, Pieces, Counts, Escape, b
    <3>2. /\ p + L + 1 = b - 1 /\ b - 1 \in 1 .. N + 2 /\ left - L \in 0 .. x
          /\ left - L # 0 /\ ~ (b - 1 > N) /\ (b - 1) + 2 = b + 1
      BY <1>1, <1>2, <1>7, <2>3
    <3>3. w[b - 1][left - L] = w[(b - 1) + 2][left - L]
      BY <3>1, <3>2 DEF IsWalk, N
    <3> QED BY <1>4, <2>1, <3>2, <3>3
  <2> QED BY <2>2, <2>3
<1> QED BY <1>1, <1>6, <1>7 DEF L, p, a, b

\* Where a walk ends.
LEMMA WalkEnds ==
  ASSUME NEW t, NEW n, NEW e, NEW o, NEW s, NEW c, NEW plain,
         Written(t, n, e, o, s, c, plain), NEW x \in Nat
  PROVE  /\ x = 0 => Walk(t, x) = 1
         /\ \A i \in 1 .. n : \A k \in 1 .. Len(s[i]) :
                x = o[i - 1] + k => Walk(t, x) = Tag(e, plain, i) + k + 1
         /\ x = o[n] + 1 => Walk(t, x) = e[n] + 2
<1>1. t \in Seq(Cell \cup {Nul}) /\ Len(t) >= e[n] + 2
      /\ n \in Nat /\ e[n] \in Nat /\ Len(t) \in Nat
  <2>1. t \in Seq(Cell \cup {Nul}) /\ Len(t) >= e[n] + 2 /\ n \in Nat
    BY DEF Written
  <2>2. e[n] \in Nat
    BY <2>1 DEF Written, Pieces
  <2> QED BY <2>1, <2>2
<1>2. PICK w : IsWalk(w, t, x) /\ Walk(t, x) = w[1][x]
  BY <1>1, WalkFunction
<1>7. \A i \in 1 .. n, left \in 1 .. x :
        /\ left <= Len(s[i]) => w[e[i - 1] + 1][left] = Tag(e, plain, i) + left + 1
        /\ left > Len(s[i]) => w[e[i - 1] + 1][left] = w[e[i] + 1][left - Len(s[i])]
  <2> TAKE i \in 1 .. n, left \in 1 .. x
  <2>1. IsWalk(w, t, x) /\ Written(t, n, e, o, s, c, plain)
    BY <1>2
  <2> QED BY <2>1, WalkPiece, SMTT(30)
<1> DEFINE P(i) == i \in 0 .. n /\ o[i] < x => w[1][x] = w[e[i] + 1][x - o[i]]
<1>3. \A i \in Nat : P(i)
  <2>1. P(0)
    BY DEF Written, Pieces, Counts
  <2>2. ASSUME NEW i \in Nat, P(i) PROVE P(i + 1)
    <3> SUFFICES ASSUME i + 1 \in 0 .. n, o[i + 1] < x
                 PROVE  w[1][x] = w[e[i + 1] + 1][x - o[i + 1]]
      OBVIOUS
    <3>1. i + 1 \in 1 .. n /\ (i + 1) - 1 = i /\ i \in 0 .. n
      BY <1>1
    <3>2. /\ o[i] \in Nat /\ o[i + 1] \in Nat /\ Len(s[i + 1]) \in Nat
          /\ o[i + 1] = o[i] + Len(s[i + 1])
      BY <3>1, PieceCells
    <3>3. w[1][x] = w[e[i] + 1][x - o[i]]
      BY <2>2, <3>1, <3>2
    <3>4. x - o[i] \in 1 .. x /\ x - o[i] > Len(s[i + 1])
          /\ (x - o[i]) - Len(s[i + 1]) = x - o[i + 1]
      BY <3>2, SMTT(30)
    <3>5. w[e[i] + 1][x - o[i]] = w[e[i + 1] + 1][(x - o[i]) - Len(s[i + 1])]
      BY <1>7, <3>1, <3>4
    <3> QED BY <3>3, <3>4, <3>5
  <2> HIDE DEF P
  <2> DEFINE T == {i \in Nat : P(i)}
  <2>3. T \in SUBSET Nat /\ 0 \in T /\ \A i \in T : i + 1 \in T
    BY <2>1, <2>2
  <2>4. T = Nat
    BY <2>3, AllNat
  <2> QED BY <2>4
<1>4. ASSUME x = 0 PROVE Walk(t, x) = 1
  <2>1. 1 \in 1 .. Len(t) + 2 /\ 0 \in 0 .. x
    BY <1>1
  <2> QED BY <1>2, <1>4, <2>1 DEF IsWalk
<1>5. ASSUME NEW i \in 1 .. n, NEW k \in 1 .. Len(s[i]), x = o[i - 1] + k
      PROVE  Walk(t, x) = Tag(e, plain, i) + k + 1
  <2>1. i - 1 \in 0 .. n /\ i - 1 \in Nat /\ o[i - 1] \in Nat /\ Len(s[i]) \in Nat
    BY PieceCells
  <2>2. o[i - 1] < x /\ x - o[i - 1] = k /\ k \in 1 .. x /\ k <= Len(s[i])
    BY <1>5, <2>1
  <2>3. w[1][x] = w[e[i - 1] + 1][x - o[i - 1]]
    BY <1>3, <2>1, <2>2
  <2>4. w[e[i - 1] + 1][k] = Tag(e, plain, i) + k + 1
    BY <1>7, <2>2
  <2> QED BY <1>2, <2>2, <2>3, <2>4
<1>6. ASSUME x = o[n] + 1 PROVE Walk(t, x) = e[n] + 2
  <2>1. n \in 0 .. n /\ o[n] \in Nat
    BY <1>1 DEF Written, Pieces, Counts
  <2>2. o[n] < x /\ x - o[n] = 1
    BY <1>6, <2>1
  <2>3. w[1][x] = w[e[n] + 1][1]
    BY <1>1, <1>3, <2>1, <2>2
  <2>4. t[e[n] + 1] \notin Escape
    BY KeywordAssumption DEF Written, Pieces, Counts, Escape, Nul, On, Off
  <2>5. /\ e[n] + 1 \in 1 .. Len(t) + 2 /\ 1 \in 0 .. x /\ ~ (e[n] + 1 > Len(t))
        /\ (e[n] + 1) + 1 = e[n] + 2 /\ 1 - 1 = 0
        /\ e[n] + 2 \in 1 .. Len(t) + 2 /\ 0 \in 0 .. x
    <3>1. 1 \in 0 .. x
      BY <1>6, <2>1
    <3>2. e[n] \in Nat /\ Len(t) \in Nat /\ e[n] + 2 <= Len(t)
      BY <1>1
    <3> QED BY <3>1, <3>2
  <2>6. w[e[n] + 1][1] = w[e[n] + 2][0]
    BY <1>2, <2>4, <2>5 DEF IsWalk
  <2>7. w[e[n] + 2][0] = e[n] + 2
    BY <1>2, <2>5 DEF IsWalk
  <2> QED BY <1>2, <2>3, <2>6, <2>7
<1> QED BY <1>4, <1>5, <1>6

-----------------------------------------------------------------------------
(* The ends of a word *)

\* The end of the word is the first cell from start on that ends one.
LEMMA WordEndFound ==
  ASSUME NEW text, NEW nul \in Nat, NEW start \in 1 .. nul + 1,
         Len(text) \in Nat, nul + 1 <= Len(text), text[nul] = Nul
  PROVE  LET end == WordEnd(text, nul, start) IN
         /\ end \in start .. nul + 1
         /\ start <= nul => end <= nul
         /\ end > nul \/ text[end] \in Escape \cup {Nul}
         /\ \A k \in start .. end - 1 : text[k] \notin Escape \cup {Nul}
<1> DEFINE Ends1(k) == k > nul \/ text[k] \in Escape \cup {Nul}
           T == {k \in start .. nul + 1 : Ends1(k)}
           Is(k) == /\ Ends1(k)
                    /\ \A m \in start .. k - 1 : m <= nul /\ text[m] \notin Escape \cup {Nul}
           end == CHOOSE k \in start .. Len(text) : Is(k)
<1>1. nul + 1 \in T /\ (start <= nul => nul \in T) /\ T \in SUBSET Nat
  OBVIOUS
<1>2. PICK k \in T : \A m \in T : k <= m
  BY <1>1, MinNat
<1>3. k \in start .. Len(text) /\ Is(k)
  <2>1. k \in start .. nul + 1 /\ Ends1(k)
    BY <1>2
  <2>2. ASSUME NEW m \in start .. k - 1 PROVE m <= nul /\ text[m] \notin Escape \cup {Nul}
    <3>1. m \in start .. nul + 1 /\ ~ (k <= m)
      BY <2>1, <2>2
    <3>2. ~ Ends1(m)
      BY <1>2, <3>1
    <3> QED BY <3>1, <3>2
  <2> QED BY <2>1, <2>2
<1>4. end \in start .. Len(text) /\ Is(end)
  BY <1>3
<1>5. WordEnd(text, nul, start) = end
  BY DEF WordEnd
<1> HIDE DEF end
<1>6. end \in Nat /\ end >= start
  BY <1>4
<1>7. \A m \in start .. end - 1 : ~ Ends1(m)
  BY <1>4
<1>8. end <= nul + 1
  <2>1. SUFFICES ASSUME nul + 1 < end PROVE FALSE
    BY <1>6
  <2>2. nul + 1 \in start .. end - 1
    BY <1>6, <2>1
  <2> QED BY <1>1, <1>7, <2>2
<1>9. start <= nul => end <= nul
  <2>1. SUFFICES ASSUME start <= nul, nul < end PROVE FALSE
    BY <1>6
  <2>2. nul \in start .. end - 1
    BY <1>6, <2>1
  <2> QED BY <1>1, <1>7, <2>1, <2>2
<1>10. end \in start .. nul + 1
  BY <1>6, <1>8
<1> QED BY <1>4, <1>5, <1>9, <1>10

\* The tag before the word is the last one up to start.
LEMMA TagBeforeFound ==
  ASSUME NEW text, NEW start \in Nat
  PROVE  LET tag == TagBefore(text, start) IN
         /\ tag \in 0 .. start
         /\ tag = 0 \/ IsTag(text, tag)
         /\ \A k \in tag + 1 .. start : ~ IsTag(text, k)
<1> DEFINE T == {b \in 0 .. start : b = 0 \/ IsTag(text, b)}
           Is(b) == /\ b = 0 \/ IsTag(text, b)
                    /\ \A k \in b + 1 .. start : ~ IsTag(text, k)
           tag == CHOOSE b \in 0 .. start : Is(b)
<1>1. T \in SUBSET (0 .. start) /\ T # {}
  <2>1. 0 \in T
    OBVIOUS
  <2> QED BY <2>1
<1>2. PICK b \in T : \A k \in T : k <= b
  BY <1>1, MaxNat
<1>3. b \in 0 .. start /\ Is(b)
  <2>1. b \in 0 .. start /\ (b = 0 \/ IsTag(text, b))
    BY <1>2
  <2>2. ASSUME NEW k \in b + 1 .. start PROVE ~ IsTag(text, k)
    <3>1. k \in 0 .. start /\ ~ (k <= b)
      BY <2>1
    <3> QED BY <1>2, <3>1
  <2> QED BY <2>1, <2>2
<1>4. tag \in 0 .. start /\ Is(tag)
  BY <1>3
<1>5. TagBefore(text, start) = tag
  BY DEF TagBefore
<1> HIDE DEF tag
<1> QED BY <1>4, <1>5


\* The ends of the word that is read from cell start on.
WordAt(t, nul, start, tag, end) ==
    /\ end \in start .. nul + 1
    /\ start <= nul => end <= nul
    /\ end > nul \/ t[end] \in Escape \cup {Nul}
    /\ \A k \in start .. end - 1 : t[k] \notin Escape \cup {Nul}
    /\ tag \in 0 .. start
    /\ tag = 0 \/ IsTag(t, tag)
    /\ \A k \in tag + 1 .. start : ~ IsTag(t, k)

LEMMA WordFound ==
  ASSUME NEW t, NEW nul \in Nat, NEW x, Walk(t, x) \in 1 .. nul + 1,
         Len(t) \in Nat, nul + 1 <= Len(t), t[nul] = Nul
  PROVE  \E tag, end :
            /\ WordAt(t, nul, Walk(t, x), tag, end)
            /\ ComputeKeyword(t, nul, x) =
                IF tag + 2 >= end \/ tag >= nul THEN NoWord
                ELSE SubSeq(t, tag + 2, end - 1)
<1> DEFINE start == Walk(t, x)
           end == WordEnd(t, nul, start)
           tag == TagBefore(t, start)
<1>1. start \in 1 .. nul + 1 /\ start \in Nat
  OBVIOUS
<1>2. ComputeKeyword(t, nul, x) =
        IF tag + 2 >= end \/ tag >= nul THEN NoWord ELSE SubSeq(t, tag + 2, end - 1)
  BY DEF ComputeKeyword
<1> HIDE DEF start
<1>3. /\ end \in start .. nul + 1 /\ (start <= nul => end <= nul)
      /\ end > nul \/ t[end] \in Escape \cup {Nul}
      /\ \A m \in start .. end - 1 : t[m] \notin Escape \cup {Nul}
  BY <1>1, WordEndFound
<1>4. /\ tag \in 0 .. start
      /\ tag = 0 \/ IsTag(t, tag)
      /\ \A m \in tag + 1 .. start : ~ IsTag(t, m)
  BY <1>1, TagBeforeFound
<1> HIDE DEF end, tag
<1>5. WordAt(t, nul, start, tag, end)
  BY <1>3, <1>4 DEF WordAt
<1> QED BY <1>2, <1>5 DEF start

\* A word that is read is a part of the text, and not empty.
LEMMA WordTyped ==
  ASSUME NEW S, NEW t \in Seq(S), NEW nul \in Nat, NEW x, Walk(t, x) \in 1 .. nul + 1,
         nul + 1 <= Len(t), t[nul] = Nul
  PROVE  ComputeKeyword(t, nul, x) \in (Seq(S) \ {<<>>}) \cup {NoWord}
<1> DEFINE start == Walk(t, x)
           word == ComputeKeyword(t, nul, x)
<1>1. Len(t) \in Nat
  OBVIOUS
<1>2. PICK tag, end :
        /\ WordAt(t, nul, start, tag, end)
        /\ word = IF tag + 2 >= end \/ tag >= nul THEN NoWord
                  ELSE SubSeq(t, tag + 2, end - 1)
  BY <1>1, WordFound
<1> HIDE DEF start, word
<1>3. start \in 1 .. nul + 1
  BY DEF start
<1>4. end \in start .. nul + 1 /\ tag \in 0 .. start
  BY <1>2 DEF WordAt
<1>5. tag \in Nat /\ end \in Nat /\ end <= Len(t)
  BY <1>1, <1>3, <1>4
<1>6. ASSUME ~ (tag + 2 >= end) PROVE SubSeq(t, tag + 2, end - 1) \in Seq(S) \ {<<>>}
  <2> DEFINE a == tag + 2
             b == end - 1
  <2>1. a \in 1 .. Len(t) /\ b \in a .. Len(t) /\ b - a + 1 # 0
    BY <1>1, <1>5, <1>6
  <2> HIDE DEF a, b
  <2>2. SubSeq(t, a, b) \in Seq(S) /\ Len(SubSeq(t, a, b)) = b - a + 1
    BY <2>1, SubSeqAt
  <2> QED BY <2>1, <2>2 DEF a, b
<1>7. word \in (Seq(S) \ {<<>>}) \cup {NoWord}
  BY <1>2, <1>6
<1> QED BY <1>7 DEF word


-----------------------------------------------------------------------------
(* The word on a token *)

\* The cells of a line around one of its pieces.
LEMMA LineCells ==
  ASSUME NEW t, NEW n, NEW e, NEW o, NEW s, NEW c, NEW plain,
         Written(t, n, e, o, s, c, plain)
  PROVE  /\ n \in Nat /\ e[0] = 0 /\ e[n] \in Nat /\ o[n] \in Nat
         /\ \A i \in 0 .. n : e[i] \in Nat /\ e[i] <= e[n]
         /\ t \in Seq(Cell \cup {Nul}) /\ Len(t) \in Nat
         /\ e[n] + 2 <= Len(t)
         /\ t[e[n] + 1] = Nul
<1>1. n \in Nat /\ \A i \in 0 .. n : e[i] \in Nat /\ o[i] \in Nat
  BY DEF Written, Pieces, Counts
<1>2. \A i \in 0 .. n : e[i] <= e[n]
  <2>1. n \in 0 .. n
    BY <1>1
  <2> QED BY <2>1, PieceOrder
<1>3. t \in Seq(Cell \cup {Nul}) /\ Len(t) >= e[n] + 2
  BY DEF Written
<1>4. Len(t) \in Nat /\ n \in 0 .. n
  BY <1>1, <1>3
<1>5. e[n] + 2 <= Len(t)
  BY <1>1, <1>3, <1>4
<1> QED BY <1>1, <1>2, <1>3, <1>4, <1>5 DEF Written, Pieces, Counts

\* The word on a character of a token with tags.
LEMMA TaggedWord ==
  ASSUME NEW t, NEW n, NEW e, NEW o, NEW s, NEW c, NEW plain,
         Written(t, n, e, o, s, c, plain),
         NEW i \in 1 .. n, i \notin plain, NEW k \in 1 .. Len(s[i]), NEW x \in Nat,
         x = o[i - 1] + k
  PROVE  LET word == ComputeKeyword(t, e[n] + 1, x) IN
         /\ s[i][1] \in Alnum \/ c[i] # COLOR_DEFAULT => word = s[i]
         /\ ~ (s[i][1] \in Alnum \/ c[i] # COLOR_DEFAULT) =>
                word = IF Len(s[i]) = 1 THEN NoWord ELSE Tail(s[i])
<1> DEFINE a == e[i - 1]
           L == Len(s[i])
           nul == e[n] + 1
           start == a + 3 + k
           end == WordEnd(t, nul, start)
           tag == TagBefore(t, start)
<1>1. /\ a \in Nat /\ L \in Nat /\ e[n] \in Nat /\ s[i] \in Seq(Char) /\ c[i] \in Code
      /\ Tag(e, plain, i) = a + 2
      /\ a + L + 4 <= e[n]
  <2>1. /\ a \in Nat /\ L \in Nat /\ s[i] \in Seq(Char) /\ c[i] \in Code /\ i \in 0 .. n
        /\ Tag(e, plain, i) = a + 2 /\ e[i] = a + L + 4
    BY PieceCells
  <2> QED BY <2>1, LineCells
<1>2. /\ t \in Seq(Cell \cup {Nul}) /\ Len(t) \in Nat /\ nul + 1 <= Len(t) /\ t[nul] = Nul
      /\ nul \in Nat
  <2>1. /\ t \in Seq(Cell \cup {Nul}) /\ Len(t) \in Nat /\ e[n] + 2 <= Len(t)
        /\ t[e[n] + 1] = Nul
    BY LineCells
  <2>2. nul \in Nat /\ nul + 1 = e[n] + 2
    <3>1. e[n] \in Nat
      BY <1>1
    <3> QED BY <3>1
  <2> HIDE DEF nul
  <2> QED BY <2>1, <2>2 DEF nul
<1>3. /\ t[a + 1] = On /\ t[a + 2] = c[i] /\ t[a + L + 3] = Off
  <2>1. t[e[i] - 1] = Off /\ e[i] - 1 = a + L + 3
    <3>1. e[i] = a + L + 4 /\ a \in Nat /\ L \in Nat
      BY <1>1, PieceCells
    <3>2. e[i] - 1 = a + L + 3
      BY <3>1
    <3> QED BY <3>2 DEF Written, Pieces, Counts
  <2> QED BY <2>1 DEF Written, Pieces, Counts
<1>4. ASSUME NEW m \in 1 .. L
      PROVE  /\ t[a + 2 + m] = s[i][m]
             /\ t[a + 2 + m] \in Char
             /\ t[a + 2 + m] \notin Escape \cup {Nul}
  <2>1. t[Tag(e, plain, i) + m] = s[i][m]
    BY <1>4, PieceCells
  <2>2. /\ t[Tag(e, plain, i) + m] \in Char
        /\ t[Tag(e, plain, i) + m] \notin Escape \cup {Nul}
    BY <1>4, CharCells
  <2> QED BY <1>1, <2>1, <2>2
<1>5. Walk(t, x) = start
  <2>1. Walk(t, x) = Tag(e, plain, i) + k + 1
    BY WalkEnds
  <2> QED BY <1>1, <2>1
<1>6. ComputeKeyword(t, nul, x) =
        IF tag + 2 >= end \/ tag >= nul THEN NoWord ELSE SubSeq(t, tag + 2, end - 1)
  BY <1>5 DEF ComputeKeyword
<1>7. k \in 1 .. L
  OBVIOUS
<1> HIDE DEF a, L, nul
<1>8. start \in 1 .. nul /\ start \in Nat /\ start <= a + L + 3 /\ a + L + 3 < nul
  BY <1>1, <1>7 DEF nul
<1>9. /\ end \in start .. nul
      /\ t[end] \in Escape \cup {Nul}
      /\ \A m \in start .. end - 1 : t[m] \notin Escape \cup {Nul}
  <2>1. start \in 1 .. nul + 1
    BY <1>2, <1>8
  <2> HIDE DEF start
  <2>2. /\ end \in start .. nul + 1 /\ (start <= nul => end <= nul)
        /\ end > nul \/ t[end] \in Escape \cup {Nul}
        /\ \A m \in start .. end - 1 : t[m] \notin Escape \cup {Nul}
    BY <1>2, <2>1, WordEndFound
  <2> HIDE DEF end
  <2> QED BY <1>2, <1>8, <2>2
<1>10. /\ tag \in 0 .. start
       /\ tag = 0 \/ IsTag(t, tag)
       /\ \A m \in tag + 1 .. start : ~ IsTag(t, m)
  BY <1>8, TagBeforeFound
<1> HIDE DEF end, tag
<1>11. end = a + L + 3
  <2>1. ASSUME end < a + L + 3 PROVE FALSE
    <3>1. end - (a + 2) \in 1 .. L /\ a + 2 + (end - (a + 2)) = end
      BY <1>1, <1>7, <1>9, <2>1
    <3> QED BY <1>4, <1>9, <3>1
  <2>2. ASSUME end > a + L + 3 PROVE FALSE
    <3>1. a + L + 3 \in start .. end - 1
      BY <1>1, <1>8, <1>9, <2>2
    <3> QED BY <1>3, <1>9, <3>1 DEF Escape
  <2> QED BY <1>1, <1>9, <2>1, <2>2
<1>12. \A m \in a + 3 .. start : ~ IsTag(t, m)
  <2> TAKE m \in a + 3 .. start
  <2>1. CASE m = a + L + 3
    BY <1>3, <2>1 DEF IsTag, On, Off
  <2>2. CASE m # a + L + 3
    <3>1. m - (a + 2) \in 1 .. L /\ a + 2 + (m - (a + 2)) = m
      BY <1>1, <1>7, <1>8, <2>2
    <3> QED BY <1>4, <3>1 DEF IsTag, Escape
  <2> QED BY <2>1, <2>2
<1>13. IsTag(t, a + 1)
  <2>1. (a + 1) + 1 = a + 2
    BY <1>1
  <2> QED BY <1>1, <1>3, <2>1, KeywordAssumption DEF IsTag, KeywordAssumption
<1>14. IsTag(t, a + 2) <=> c[i] = COLOR_DEFAULT /\ s[i][1] \notin Alnum
  <2>1. (a + 2) + 1 = a + 2 + 1 /\ 1 \in 1 .. L
    BY <1>1, <1>7
  <2>2. t[(a + 2) + 1] = s[i][1]
    BY <1>4, <2>1
  <2> QED BY <1>3, <2>2 DEF IsTag, COLOR_DEFAULT
<1>15. ASSUME s[i][1] \in Alnum \/ c[i] # COLOR_DEFAULT
       PROVE  ComputeKeyword(t, nul, x) = s[i]
  <2>1. tag = a + 1
    <3>1. ASSUME tag > a + 1 PROVE FALSE
      <4>1. tag = a + 2 \/ tag \in a + 3 .. start
        BY <1>1, <1>10, <3>1
      <4>2. IsTag(t, tag)
        BY <1>1, <1>10, <3>1
      <4> QED BY <1>12, <1>14, <1>15, <4>1, <4>2
    <3>2. ASSUME tag < a + 1 PROVE FALSE
      <4>1. a + 1 \in tag + 1 .. start
        BY <1>1, <1>7, <1>10, <3>2
      <4> QED BY <1>10, <1>13, <4>1
    <3> QED BY <1>1, <1>10, <3>1, <3>2
  <2>2. SubSeq(t, (a + 2) + 1, (a + 2) + L) = s[i]
    <3>1. /\ a + 2 \in Nat /\ (a + 2) + L <= Len(t)
          /\ \A m \in 1 .. L : t[(a + 2) + m] = s[i][m]
      BY <1>1, <1>2, <1>4, <1>8
    <3> QED BY <1>1, <1>2, <3>1, SubSeqIs DEF L
  <2>3. /\ tag + 2 = (a + 2) + 1 /\ end - 1 = (a + 2) + L
        /\ ~ (tag + 2 >= end \/ tag >= nul)
    <3>1. L >= 1 /\ nul \in Nat /\ nul > a + L + 3
      BY <1>1, <1>2, <1>7, <1>8
    <3> QED BY <1>1, <1>11, <2>1, <3>1
  <2> QED BY <1>6, <2>2, <2>3
<1>16. ASSUME ~ (s[i][1] \in Alnum \/ c[i] # COLOR_DEFAULT)
       PROVE  ComputeKeyword(t, nul, x) = IF L = 1 THEN NoWord ELSE Tail(s[i])
  <2>1. tag = a + 2
    <3>1. ASSUME tag > a + 2 PROVE FALSE
      <4>1. tag \in a + 3 .. start /\ IsTag(t, tag)
        BY <1>1, <1>10, <3>1
      <4> QED BY <1>12, <4>1
    <3>2. ASSUME tag < a + 2 PROVE FALSE
      <4>1. a + 2 \in tag + 1 .. start
        BY <1>1, <1>7, <1>10, <3>2
      <4> QED BY <1>10, <1>14, <1>16, <4>1
    <3> QED BY <1>1, <1>10, <3>1, <3>2
  <2>2. CASE L = 1
    <3>1. tag + 2 >= end
      BY <1>1, <1>11, <2>1, <2>2
    <3> QED BY <1>6, <2>2, <3>1
  <2>3. CASE L # 1
    <3>1. /\ Tail(s[i]) \in Seq(Char) /\ Len(Tail(s[i])) = L - 1
          /\ \A m \in 1 .. L - 1 : Tail(s[i])[m] = s[i][m + 1]
      <4>1. s[i] # <<>>
        BY <1>1, <1>7 DEF L
      <4> QED BY <1>1, <4>1, HeadTailProperties DEF L
    <3>2. /\ a + 3 \in Nat /\ (a + 3) + (L - 1) <= Len(t)
          /\ \A m \in 1 .. L - 1 : t[(a + 3) + m] = Tail(s[i])[m]
      <4>1. a + 3 \in Nat /\ (a + 3) + (L - 1) <= Len(t)
        BY <1>1, <1>2, <1>8
      <4>2. ASSUME NEW m \in 1 .. L - 1 PROVE t[(a + 3) + m] = Tail(s[i])[m]
        <5>1. m + 1 \in 1 .. L /\ a + 2 + (m + 1) = (a + 3) + m
          BY <1>1
        <5> QED BY <1>4, <3>1, <5>1
      <4> QED BY <4>1, <4>2
    <3>3. SubSeq(t, (a + 3) + 1, (a + 3) + (L - 1)) = Tail(s[i])
      <4> DEFINE u == Tail(s[i])
      <4>1. u \in Seq(Char) /\ L - 1 = Len(u)
        BY <3>1
      <4>2. (a + 3) + Len(u) <= Len(t) /\ \A m \in 1 .. Len(u) : t[(a + 3) + m] = u[m]
        BY <3>2, <4>1
      <4> HIDE DEF u
      <4>3. SubSeq(t, (a + 3) + 1, (a + 3) + Len(u)) = u
        BY <1>2, <3>2, <4>1, <4>2, SubSeqIs
      <4> QED BY <4>1, <4>3 DEF u
    <3>4. /\ tag + 2 = (a + 3) + 1 /\ end - 1 = (a + 3) + (L - 1)
          /\ ~ (tag + 2 >= end \/ tag >= nul)
      <4>1. L >= 2 /\ nul \in Nat /\ nul > a + L + 3
        BY <1>1, <1>2, <1>7, <1>8, <2>3
      <4> QED BY <1>1, <1>11, <2>1, <4>1
    <3> QED BY <1>6, <2>3, <3>3, <3>4
  <2> QED BY <2>2, <2>3
<1> QED BY <1>15, <1>16 DEF nul, L

-----------------------------------------------------------------------------
(* Words that are no names *)

\* What Spaced says of pieces.
SpacedPieces(s, plain) ==
    \A i \in plain :
        /\ s[i] # <<>>
        /\ i - 1 \in plain \/
            IF Len(s[i]) > 1 THEN s[i][2] \in Blank
            ELSE i + 1 \in plain => s[i + 1][1] \in Blank

\* A word that is the name of nothing.
NoName(word) ==
    \/ word = NoWord
    \/ \E k \in 1 .. Len(word) : word[k] \notin Char
    \/ word[1] \in Blank

\* A cell of a word that has one.
LEMMA WordCell ==
  ASSUME NEW S, NEW t \in Seq(S), NEW tag \in Nat, NEW end \in Nat, end <= Len(t),
         NEW m \in tag + 2 .. end - 1
  PROVE  LET word == SubSeq(t, tag + 2, end - 1) IN
         m - tag - 1 \in 1 .. Len(word) /\ word[m - tag - 1] = t[m]
<1>1. tag + 2 \in 1 .. Len(t) /\ end - 1 \in tag + 2 .. Len(t) /\ Len(t) \in Nat
  OBVIOUS
<1> DEFINE a == tag + 2
           b == end - 1
<1>2. /\ Len(SubSeq(t, a, b)) = b - a + 1
      /\ \A k \in 1 .. b - a + 1 : SubSeq(t, a, b)[k] = t[a + k - 1]
  <2> HIDE DEF a, b
  <2>1. a \in 1 .. Len(t) /\ b \in a .. Len(t)
    BY <1>1 DEF a, b
  <2> QED BY <2>1, SubSeqAt
<1>3. m - tag - 1 \in 1 .. b - a + 1 /\ a + (m - tag - 1) - 1 = m
  BY <1>1
<1> QED BY <1>2, <1>3

\* The cells of blanks in a row are characters.
LEMMA RunCells ==
  ASSUME NEW t, NEW n, NEW e, NEW o, NEW s, NEW c, NEW plain,
         Written(t, n, e, o, s, c, plain),
         NEW j \in 1 .. n, NEW i \in j .. n, \A m \in j .. i : m \in plain
  PROVE  \A m \in e[j - 1] + 1 .. e[i] : t[m] \notin Escape \cup {Nul}
<1> DEFINE a == e[j - 1]
           P(h) == h \in j .. i => \A m \in a + 1 .. e[h] : t[m] \notin Escape \cup {Nul}
<1>1. n \in Nat /\ j \in Nat /\ i \in Nat /\ a \in Nat
  <2>1. n \in Nat
    BY LineCells
  <2> QED BY <2>1, PieceCells
<1>2. P(0)
  BY <1>1
<1>3. ASSUME NEW h \in Nat, P(h) PROVE P(h + 1)
  <2> SUFFICES ASSUME h + 1 \in j .. i, NEW m \in a + 1 .. e[h + 1]
               PROVE  t[m] \notin Escape \cup {Nul}
    OBVIOUS
  <2>1. h + 1 \in plain /\ h + 1 \in 1 .. n /\ (h + 1) - 1 = h
    BY <1>1
  <2>2. /\ e[h] \in Nat /\ Len(s[h + 1]) \in Nat /\ e[h + 1] = e[h] + Len(s[h + 1])
        /\ Tag(e, plain, h + 1) = e[h]
    BY <2>1, PieceCells, SMTT(30)
  <2>3. CASE m > e[h]
    <3>1. m - e[h] \in 1 .. Len(s[h + 1]) /\ e[h] + (m - e[h]) = m
      BY <1>1, <2>2, <2>3, SMTT(30)
    <3> QED BY <2>1, <2>2, <3>1, CharCells
  <2>4. CASE m <= e[h]
    <3>1. h # j - 1
      BY <1>1, <2>2, <2>4
    <3>2. h \in j .. i /\ m \in a + 1 .. e[h]
      BY <1>1, <2>2, <2>4, <3>1
    <3> QED BY <1>3, <3>2
  <2> QED BY <1>1, <2>2, <2>3, <2>4
<1> HIDE DEF P
<1> DEFINE T == {h \in Nat : P(h)}
<1>4. T \in SUBSET Nat /\ 0 \in T /\ \A h \in T : h + 1 \in T
  BY <1>2, <1>3
<1>5. T = Nat
  BY <1>4, AllNat
<1>6. P(i)
  BY <1>1, <1>5
<1> USE DEF P
<1> QED BY <1>1, <1>6

\* The second cell of blanks in a row, if it is a character, is blank.
LEMMA SecondCell ==
  ASSUME NEW t, NEW n, NEW e, NEW o, NEW s, NEW c, NEW plain,
         Written(t, n, e, o, s, c, plain), SpacedPieces(s, plain),
         NEW j \in plain, j - 1 \notin plain, t[e[j - 1] + 2] \notin Escape \cup {Nul}
  PROVE  t[e[j - 1] + 2] \in Blank
<1> DEFINE a == e[j - 1]
           L == Len(s[j])
<1>1. j \in 1 .. n /\ n \in Nat
  BY LineCells DEF Written, Pieces, Counts
<1>2. /\ a \in Nat /\ s[j] \in Seq(Char) /\ L \in Nat /\ e[j] = a + L
      /\ Tag(e, plain, j) = a /\ \A k \in 1 .. L : t[Tag(e, plain, j) + k] = s[j][k]
  BY <1>1, PieceCells
<1>3. L # 0
  BY <1>2 DEF SpacedPieces
<1>4. IF L > 1 THEN s[j][2] \in Blank ELSE j + 1 \in plain => s[j + 1][1] \in Blank
  BY DEF SpacedPieces
<1>5. CASE L > 1
  <2>1. t[a + 2] = s[j][2]
    <3>1. 2 \in 1 .. L
      BY <1>2, <1>5
    <3> QED BY <1>2, <3>1
  <2> QED BY <1>4, <1>5, <2>1
<1>6. CASE ~ (L > 1)
  <2>1. e[j] + 1 = a + 2
    BY <1>2, <1>3, <1>6
  <2>2. j # n
    <3>1. t[e[n] + 1] = Nul
      BY LineCells
    <3> QED BY <2>1, <3>1
  <2>3. j + 1 \in 1 .. n /\ (j + 1) - 1 = j
    BY <1>1, <2>2
  <2>4. j + 1 \in plain
    <3>1. SUFFICES ASSUME j + 1 \notin plain PROVE FALSE
      OBVIOUS
    <3>2. t[e[j] + 1] = On
      <4>1. t[e[(j + 1) - 1] + 1] = On
        BY <2>3, <3>1 DEF Written, Pieces, Counts
      <4> QED BY <2>3, <4>1
    <3> QED BY <2>1, <3>2 DEF Escape
  <2>5. /\ s[j + 1] \in Seq(Char) /\ Tag(e, plain, j + 1) = e[j]
        /\ \A k \in 1 .. Len(s[j + 1]) : t[Tag(e, plain, j + 1) + k] = s[j + 1][k]
    BY <2>3, <2>4, PieceCells
  <2>6. 1 \in 1 .. Len(s[j + 1])
    <3>1. s[j + 1] # <<>>
      BY <2>4 DEF SpacedPieces
    <3> QED BY <2>5, <3>1
  <2>7. t[e[j] + 1] = s[j + 1][1]
    BY <2>5, <2>6
  <2> QED BY <1>4, <1>6, <2>1, <2>4, <2>7
<1> QED BY <1>5, <1>6

\* The last cells of a token with tags.
LEMMA TokenEnd ==
  ASSUME NEW t, NEW n, NEW e, NEW o, NEW s, NEW c, NEW plain,
         Written(t, n, e, o, s, c, plain), NEW i \in 1 .. n, i \notin plain
  PROVE  /\ e[i] >= 4
         /\ t[e[i]] = c[i] /\ t[e[i] - 1] = Off
         /\ t[e[i] - 2] = On => t[e[i]] = On
<1> DEFINE a == e[i - 1]
           b == e[i]
           L == Len(s[i])
<1>1. a \in Nat /\ L \in Nat /\ b = a + L + 4 /\ Tag(e, plain, i) = a + 2
  BY PieceCells
<1>2. t[b] = c[i] /\ t[b - 1] = Off /\ t[a + 2] = c[i]
  BY DEF Written, Pieces, Counts
<1> HIDE DEF a, b, L
<1>3. CASE L = 0
  <2>1. b - 2 = a + 2
    BY <1>1, <1>3
  <2> QED BY <1>1, <1>2, <2>1 DEF b
<1>4. CASE L # 0
  <2>1. L \in 1 .. L /\ b - 2 = (a + 2) + L
    BY <1>1, <1>4
  <2>2. t[Tag(e, plain, i) + L] \notin Escape
    BY <2>1, CharCells DEF L
  <2>3. t[b - 2] # On
    BY <1>1, <2>1, <2>2 DEF Escape
  <2> QED BY <1>1, <1>2, <2>3 DEF b
<1> QED BY <1>3, <1>4

\* No word that begins among blanks in a row is a name.
LEMMA BlankWord ==
  ASSUME NEW t, NEW n, NEW e, NEW o, NEW s, NEW c, NEW plain,
         Written(t, n, e, o, s, c, plain), SpacedPieces(s, plain),
         NEW j \in plain, j - 1 \notin plain, NEW i \in j .. n,
         \A m \in j .. i : m \in plain,
         NEW x, Walk(t, x) \in e[j - 1] + 1 .. e[i] + 1
  PROVE  NoName(ComputeKeyword(t, e[n] + 1, x))
<1> DEFINE a == e[j - 1]
           b == e[i]
           nul == e[n] + 1
           start == Walk(t, x)
           word == ComputeKeyword(t, nul, x)
<1>1. j \in 1 .. n /\ i \in 1 .. n /\ n \in Nat /\ j \in Nat
  BY LineCells DEF Written, Pieces, Counts
<1>2. a \in Nat /\ b \in Nat /\ b <= e[n] /\ e[n] \in Nat /\ nul \in Nat
  <2>1. a \in Nat /\ b \in Nat /\ i \in 0 .. n
    BY <1>1, PieceCells
  <2>2. b <= e[n] /\ e[n] \in Nat
    BY <2>1, LineCells
  <2> QED BY <2>1, <2>2
<1>3. t \in Seq(Cell \cup {Nul}) /\ Len(t) \in Nat /\ nul + 1 <= Len(t) /\ t[nul] = Nul
  <2>1. /\ t \in Seq(Cell \cup {Nul}) /\ Len(t) \in Nat /\ e[n] + 2 <= Len(t)
        /\ t[e[n] + 1] = Nul
    BY LineCells
  <2> QED BY <1>2, <2>1
<1>4. \A m \in a + 1 .. b : t[m] \notin Escape \cup {Nul}
  BY <1>1, RunCells
<1>5. start \in a + 1 .. b + 1
  OBVIOUS
<1>6. t[a + 2] \notin Escape \cup {Nul} => t[a + 2] \in Blank
  BY SecondCell
<1> HIDE DEF a, b, nul
<1>7. start \in 1 .. nul /\ start \in 1 .. nul + 1
  BY <1>2, <1>5 DEF nul
<1>8. PICK tag, end :
        /\ WordAt(t, nul, start, tag, end)
        /\ word = IF tag + 2 >= end \/ tag >= nul THEN NoWord
                  ELSE SubSeq(t, tag + 2, end - 1)
  BY <1>2, <1>3, <1>7, WordFound
<1> HIDE DEF start, word
<1>9. /\ end \in start .. nul
      /\ \A k \in start .. end - 1 : t[k] \notin Escape \cup {Nul}
      /\ tag \in 0 .. start /\ (tag = 0 \/ t[tag] = On)
  BY <1>7, <1>8 DEF WordAt, IsTag
<1>10. tag \in Nat /\ end \in Nat /\ start \in Nat /\ end <= Len(t) /\ start <= end
  <2>1. end \in start .. nul /\ tag \in 0 .. start
    BY <1>9
  <2>2. Len(t) \in Nat /\ nul + 1 <= Len(t) /\ nul \in Nat /\ start \in 1 .. nul
    BY <1>2, <1>3, <1>7
  <2> QED BY <2>1, <2>2
<1>11. ASSUME word # NoWord PROVE NoName(word)
  <2>1. tag + 2 < end /\ word = SubSeq(t, tag + 2, end - 1)
    BY <1>8, <1>10, <1>11
  <2>2. ASSUME NEW m \in tag + 2 .. end - 1
        PROVE  m - tag - 1 \in 1 .. Len(word) /\ word[m - tag - 1] = t[m]
    BY <1>3, <1>10, <2>1, WordCell
  <2>3. tag <= a
    <3>1. SUFFICES ASSUME tag > a PROVE FALSE
      BY <1>2, <1>10
    <3>2. t[tag] = On
      BY <1>2, <1>9, <1>10, <3>1
    <3>3. tag = start
      <4>1. SUFFICES ASSUME tag < start PROVE FALSE
        BY <1>9, <1>10
      <4>2. tag \in a + 1 .. b
        BY <1>2, <1>5, <1>10, <3>1, <4>1
      <4> QED BY <1>4, <3>2, <4>2 DEF Escape
    <3>4. start \in start .. end - 1
      BY <1>10, <2>1, <3>3
    <3> QED BY <1>9, <3>2, <3>3, <3>4 DEF Escape
  <2>4. CASE tag = a
    <3>1. t[a + 2] \notin Escape \cup {Nul}
      <4>1. a + 2 \in a + 1 .. b \/ a + 2 \in start .. end - 1
        BY <1>2, <1>5, <1>10, <2>1, <2>4
      <4> QED BY <1>4, <1>9, <4>1
    <3>2. a + 2 \in tag + 2 .. end - 1 /\ (a + 2) - tag - 1 = 1
      BY <1>2, <1>10, <2>1, <2>4
    <3>3. word[1] = t[a + 2]
      BY <2>2, <3>2
    <3> QED BY <1>6, <3>1, <3>3 DEF NoName
  <2>5. CASE tag < a
    <3>1. j - 1 \in 1 .. n
      <4>1. j # 1
        <5>1. e[0] = 0
          BY LineCells
        <5> QED BY <1>10, <2>5, <5>1 DEF a
      <4> QED BY <1>1, <4>1
    <3>2. a >= 4 /\ t[a - 1] = Off /\ (t[a - 2] = On => t[a] = On)
      BY <3>1, TokenEnd DEF a
    <3>3. \A m \in tag + 2 .. end - 1 : t[m] \notin Char => NoName(word)
      BY <2>2 DEF NoName
    <3>4. On \notin Char /\ Off \notin Char /\ On # Off
      BY KeywordAssumption DEF KeywordAssumption, On, Off
    <3>5. a <= end - 1
      BY <1>2, <1>5, <1>10
    <3>6. CASE tag <= a - 3
      <4>1. a - 1 \in tag + 2 .. end - 1
        BY <1>2, <1>10, <3>5, <3>6
      <4> QED BY <3>2, <3>3, <3>4, <4>1
    <3>7. CASE tag = a - 2
      <4>1. tag # 0 /\ a \in tag + 2 .. end - 1
        BY <1>2, <1>10, <3>2, <3>5, <3>7
      <4>2. t[a] = On
        BY <1>9, <3>2, <3>7, <4>1
      <4> QED BY <3>3, <3>4, <4>1, <4>2
    <3>8. CASE tag = a - 1
      <4>1. tag # 0
        BY <1>2, <3>2, <3>8
      <4> QED BY <1>9, <3>2, <3>4, <3>8, <4>1
    <3> QED BY <1>2, <1>10, <2>5, <3>6, <3>7, <3>8
  <2> QED BY <1>2, <1>10, <2>3, <2>4, <2>5
<1> QED BY <1>11 DEF NoName, word, nul

\* No word from before the line or from behind it is a name.
LEMMA EdgeWord ==
  ASSUME NEW t, NEW n, NEW e, NEW o, NEW s, NEW c, NEW plain,
         Written(t, n, e, o, s, c, plain), SpacedPieces(s, plain), NEW x,
         \/ Walk(t, x) = 1
         \/ Walk(t, x) = e[n] + 2
  PROVE  NoName(ComputeKeyword(t, e[n] + 1, x))
<1> DEFINE nul == e[n] + 1
           start == Walk(t, x)
           word == ComputeKeyword(t, nul, x)
<1>1. n \in Nat /\ e[n] \in Nat /\ nul \in Nat
  <2>1. n \in Nat /\ e[n] \in Nat
    BY LineCells
  <2> QED BY <2>1
<1>2. t \in Seq(Cell \cup {Nul}) /\ Len(t) \in Nat /\ nul + 1 <= Len(t) /\ t[nul] = Nul
  <2>1. /\ t \in Seq(Cell \cup {Nul}) /\ Len(t) \in Nat /\ e[n] + 2 <= Len(t)
        /\ t[e[n] + 1] = Nul
    BY LineCells
  <2> QED BY <1>1, <2>1
<1>3. start = 1 \/ start = nul + 1
  BY <1>1
<1> HIDE DEF nul
<1>4. start \in 1 .. nul + 1
  BY <1>1, <1>3
<1>5. PICK tag, end :
        /\ WordAt(t, nul, start, tag, end)
        /\ word = IF tag + 2 >= end \/ tag >= nul THEN NoWord
                  ELSE SubSeq(t, tag + 2, end - 1)
  BY <1>1, <1>2, <1>4, WordFound
<1>6. CASE start = 1 /\ t[1] \in Escape \cup {Nul}
  <2>1. /\ end \in 1 .. nul + 1 /\ tag \in 0 .. 1
        /\ \A k \in 1 .. end - 1 : t[k] \notin Escape \cup {Nul}
    BY <1>5, <1>6 DEF WordAt
  <2>2. end = 1
    <3>1. SUFFICES ASSUME end # 1 PROVE FALSE
      OBVIOUS
    <3>2. 1 \in 1 .. end - 1
      BY <1>1, <2>1, <3>1
    <3> QED BY <1>6, <2>1, <3>2
  <2>3. word = NoWord
    <3>1. tag + 2 >= end
      BY <2>1, <2>2
    <3> HIDE DEF word
    <3> QED BY <1>5, <3>1
  <2> QED BY <2>3 DEF NoName, nul
<1>7. CASE start = 1 /\ t[1] \notin Escape \cup {Nul}
  <2>1. e[0] = 0
    BY LineCells
  <2>2. n # 0
    BY <1>2, <1>7, <2>1 DEF nul
  <2>3. 1 \in 1 .. n /\ 1 \in Nat /\ 1 - 1 = 0 /\ 0 + 1 = 1
    BY <1>1, <2>2
  <2>4. 1 \in plain
    <3>1. 1 \notin plain => t[e[1 - 1] + 1] = On
      BY <2>3 DEF Written, Pieces, Counts
    <3>2. 1 - 1 = 0 /\ 0 + 1 = 1
      OBVIOUS
    <3> QED BY <1>7, <2>1, <3>1, <3>2 DEF Escape
  <2>5. 0 \notin plain
    BY DEF Written, Pieces, Counts
  <2>6. e[1] \in Nat
    BY <2>3, PieceCells
  <2>7. start \in e[1 - 1] + 1 .. e[1] + 1
    BY <1>7, <2>1, <2>6
  <2>8. 1 \in 1 .. n /\ 1 - 1 \notin plain /\ \A m \in 1 .. 1 : m \in plain
    BY <2>3, <2>4, <2>5
  <2> QED BY <2>4, <2>7, <2>8, BlankWord
<1>8. CASE start = nul + 1
  <2>1. /\ end = nul + 1 /\ tag \in 0 .. nul + 1
    BY <1>1, <1>5, <1>8 DEF WordAt
  <2>2. ASSUME word # NoWord PROVE NoName(word)
    <3> HIDE DEF start, word
    <3>1. tag + 2 < end /\ word = SubSeq(t, tag + 2, end - 1)
      BY <1>1, <1>5, <2>1, <2>2
    <3>2. nul \in tag + 2 .. end - 1 /\ tag \in Nat /\ end \in Nat /\ end <= Len(t)
      BY <1>1, <1>2, <2>1, <3>1
    <3>3. nul - tag - 1 \in 1 .. Len(word) /\ word[nul - tag - 1] = t[nul]
      BY <1>2, <3>1, <3>2, WordCell
    <3> QED BY <1>2, <3>3, KeywordAssumption DEF KeywordAssumption, NoName
  <2> QED BY <2>2 DEF NoName, nul
<1> QED BY <1>3, <1>6, <1>7, <1>8

\* No word on a blank is a name.
LEMMA PlainWord ==
  ASSUME NEW t, NEW n, NEW e, NEW o, NEW s, NEW c, NEW plain,
         Written(t, n, e, o, s, c, plain), SpacedPieces(s, plain),
         NEW i \in plain, NEW k \in 1 .. Len(s[i]), NEW x \in Nat, x = o[i - 1] + k
  PROVE  NoName(ComputeKeyword(t, e[n] + 1, x))
<1>1. i \in 1 .. n /\ n \in Nat
  BY LineCells DEF Written, Pieces, Counts
<1> DEFINE T == {h \in 1 .. i : \A m \in h .. i : m \in plain}
<1>2. T \in SUBSET Nat /\ i \in T
  BY <1>1
<1>3. PICK j \in T : \A h \in T : j <= h
  BY <1>2, MinNat
<1>4. j \in 1 .. i /\ \A m \in j .. i : m \in plain
  BY <1>3
<1>5. j \in plain /\ j \in 1 .. n /\ i \in j .. n
  BY <1>1, <1>4
<1>6. j - 1 \notin plain
  <2>1. SUFFICES ASSUME j - 1 \in plain PROVE FALSE
    OBVIOUS
  <2>2. j - 1 \in 1 .. n
    BY <2>1 DEF Written, Pieces, Counts
  <2>3. j - 1 \in 1 .. i /\ \A m \in j - 1 .. i : m = j - 1 \/ m \in j .. i
    BY <1>1, <1>4, <2>2
  <2>4. j - 1 \in T
    BY <1>4, <2>1, <2>3
  <2>5. ~ (j <= j - 1)
    BY <1>4
  <2> QED BY <1>3, <2>4, <2>5
<1>7. Walk(t, x) = e[i - 1] + k + 1
  <2>1. Walk(t, x) = Tag(e, plain, i) + k + 1
    BY <1>1, WalkEnds
  <2>2. Tag(e, plain, i) = e[i - 1]
    BY <1>1, PieceCells
  <2> QED BY <2>1, <2>2
<1>8. e[i - 1] \in Nat /\ e[j - 1] \in Nat /\ e[i] = e[i - 1] + Len(s[i]) /\ Len(s[i]) \in Nat
  BY <1>1, <1>5, PieceCells
<1>9. e[j - 1] <= e[i - 1]
  <2>1. i - 1 \in 0 .. n /\ j - 1 \in 0 .. i - 1
    BY <1>1, <1>4
  <2> QED BY <2>1, PieceOrder
<1>10. Walk(t, x) \in e[j - 1] + 1 .. e[i] + 1
  BY <1>7, <1>8, <1>9, SMTT(30)
<1> QED BY <1>4, <1>5, <1>6, <1>10, BlankWord
=============================================================================
