---------------------------- MODULE PipelineProof ---------------------------
(***************************************************************************)
(* Proofs about Pipeline, for every language's actions.  The invariant     *)
(* says how far the performed groups have come: what has been applied is   *)
(* what the stages before made, and the part of the present group that is  *)
(* done, in order.  It needs nothing of what was left behind by the        *)
(* decompilations before, since Reset sets every status anew.              *)
(***************************************************************************)
EXTENDS Pipeline, SequenceTheorems, TLAPS

\* The actions of a stage: the main group's are split at the breakpoint.
Part ==
    <<InitActions, <<Flow>>, ArchActions, RetypeActions, <<Simplify>>,
      RenameActions>>

\* The actions of the stages before.
Prefix ==
    << <<>>,
       InitActions,
       InitActions \o <<Flow>>,
       InitActions \o <<Flow>> \o ArchActions,
       InitActions \o <<Flow>> \o ArchActions \o RetypeActions,
       InitActions \o <<Flow>> \o ArchActions \o RetypeActions \o <<Simplify>>,
       Order >>

First(k) == IF k = 5 THEN Break ELSE 1

\* What the groups still to be performed stand at.
Statuses ==
    /\ stage = 1 => status["init"] = "start"
    /\ stage \in 1 .. 2 => status["main"] = "start"
    /\ stage \in 3 .. 5 => status["main"] = "break"
    /\ stage \in 1 .. 3 => status["arch"] = "start"
    /\ stage \in 1 .. 4 => status["retype"] = "start"
    /\ stage \in 1 .. 6 => status["rename"] = "start"
    /\ stage = 6 => status["main"] = "end"

Progress ==
    stage \in 1 .. 6 =>
        /\ pos \in First(stage) .. First(stage) + Len(Part[stage])
        /\ applied = Prefix[stage]
                        \o SubSeq(Part[stage], 1, pos - First(stage))

Types ==
    /\ db \in 0 .. MaxEdits
    /\ out \in {NoResult} \cup [symbols : SUBSET Nat, applied : Seq(Action)]
    /\ stage \in 0 .. Printing
    /\ pos \in Nat
    /\ status \in [Group -> {"start", "break", "end"}]
    /\ symbols \subseteq 0 .. MaxEdits

IInv ==
    /\ Types /\ Statuses /\ Progress
    /\ stage = Found => applied = <<>>
    /\ stage = Printing => applied = Order
    /\ stage # Idle => symbols = {db}
    /\ applied \in Seq(Action) /\ Len(applied) <= Len(Order)
-----------------------------------------------------------------------------
(* The order of the actions *)

LEMMA StageValues ==
  /\ Len(Stage) = 6 /\ DOMAIN Stage = 1 .. 6
  /\ Stage[1] = "init" /\ Stage[2] = "main" /\ Stage[3] = "arch"
  /\ Stage[4] = "retype" /\ Stage[5] = "main" /\ Stage[6] = "rename"
BY DEF Stage

LEMMA Parts ==
  /\ Part[1] = InitActions /\ Part[2] = <<Flow>> /\ Part[3] = ArchActions
  /\ Part[4] = RetypeActions /\ Part[5] = <<Simplify>> /\ Part[6] = RenameActions
BY DEF Part

LEMMA PartTyped ==
  ASSUME NEW k \in 1 .. 6
  PROVE  Part[k] \in Seq(Action) /\ Len(Part[k]) \in Nat
<1>1. /\ Part[1] \in Seq(Action) /\ Part[2] \in Seq(Action)
      /\ Part[3] \in Seq(Action) /\ Part[4] \in Seq(Action)
      /\ Part[5] \in Seq(Action) /\ Part[6] \in Seq(Action)
  BY Parts, PipelineAssumption
<1>2. k = 1 \/ k = 2 \/ k = 3 \/ k = 4 \/ k = 5 \/ k = 6
  OBVIOUS
<1>3. Part[k] \in Seq(Action)
  BY <1>1, <1>2
<1> QED BY <1>3

LEMMA Prefixes ==
  /\ Prefix[1] = <<>> /\ Prefix[2] = InitActions
  /\ Prefix[3] = Prefix[2] \o Part[2] /\ Prefix[4] = Prefix[3] \o Part[3]
  /\ Prefix[5] = Prefix[4] \o Part[4] /\ Prefix[6] = Prefix[5] \o Part[5]
  /\ Prefix[7] = Prefix[6] \o Part[6] /\ Prefix[7] = Order
<1>1. /\ Prefix[1] = <<>> /\ Prefix[2] = InitActions
      /\ Prefix[3] = InitActions \o <<Flow>>
      /\ Prefix[4] = InitActions \o <<Flow>> \o ArchActions
      /\ Prefix[5] = InitActions \o <<Flow>> \o ArchActions \o RetypeActions
      /\ Prefix[6] = InitActions \o <<Flow>> \o ArchActions \o RetypeActions
                        \o <<Simplify>>
      /\ Prefix[7] = Order
  BY DEF Prefix
<1> QED BY <1>1, Parts DEF Order

LEMMA ConcatTyped ==
  ASSUME NEW p \in Seq(Action), NEW q \in Seq(Action)
  PROVE  /\ p \o q \in Seq(Action)
         /\ Len(p) \in Nat /\ Len(q) \in Nat /\ Len(p \o q) = Len(p) + Len(q)
OBVIOUS

LEMMA PrefixTyped ==
  ASSUME NEW k \in 1 .. 7
  PROVE  Prefix[k] \in Seq(Action) /\ Len(Prefix[k]) \in Nat
<1>1. Prefix[1] \in Seq(Action) /\ Prefix[2] \in Seq(Action)
  BY Prefixes, PipelineAssumption
<1>a. /\ Part[2] \in Seq(Action) /\ Part[3] \in Seq(Action)
      /\ Part[4] \in Seq(Action) /\ Part[5] \in Seq(Action)
      /\ Part[6] \in Seq(Action)
  BY PartTyped
<1>2. Prefix[3] \in Seq(Action)
  <2>1. Prefix[2] \o Part[2] \in Seq(Action)
    BY <1>a, <1>1, ConcatTyped
  <2>2. Prefix[3] = Prefix[2] \o Part[2]
    BY Prefixes
  <2> QED BY <2>1, <2>2
<1>3. Prefix[4] \in Seq(Action)
  <2>1. Prefix[3] \o Part[3] \in Seq(Action)
    BY <1>a, <1>2, ConcatTyped
  <2>2. Prefix[4] = Prefix[3] \o Part[3]
    BY Prefixes
  <2> QED BY <2>1, <2>2
<1>4. Prefix[5] \in Seq(Action)
  <2>1. Prefix[4] \o Part[4] \in Seq(Action)
    BY <1>a, <1>3, ConcatTyped
  <2>2. Prefix[5] = Prefix[4] \o Part[4]
    BY Prefixes
  <2> QED BY <2>1, <2>2
<1>5. Prefix[6] \in Seq(Action)
  <2>1. Prefix[5] \o Part[5] \in Seq(Action)
    BY <1>a, <1>4, ConcatTyped
  <2>2. Prefix[6] = Prefix[5] \o Part[5]
    BY Prefixes
  <2> QED BY <2>1, <2>2
<1>6. Prefix[7] \in Seq(Action)
  <2>1. Prefix[6] \o Part[6] \in Seq(Action)
    BY <1>a, <1>5, ConcatTyped
  <2>2. Prefix[7] = Prefix[6] \o Part[6]
    BY Prefixes
  <2> QED BY <2>1, <2>2
<1>7. k = 1 \/ k = 2 \/ k = 3 \/ k = 4 \/ k = 5 \/ k = 6 \/ k = 7
  OBVIOUS
<1>8. Prefix[k] \in Seq(Action)
  BY <1>1, <1>2, <1>3, <1>4, <1>5, <1>6, <1>7
<1> QED BY <1>8

\* A stage's part ends where the next stage begins.
LEMMA NextPrefix ==
  ASSUME NEW k \in 1 .. 6
  PROVE  Prefix[k + 1] = Prefix[k] \o Part[k]
<1>1. Prefix[2] = Prefix[1] \o Part[1]
  BY Prefixes, Parts, PipelineAssumption
<1>2. CASE k = 1
  <2>1. k + 1 = 2
    BY <1>2
  <2>2. Prefix[2] = Prefix[1] \o Part[1]
    BY <1>1
  <2> QED BY <1>2, <2>1, <2>2, Zenon
<1>3. CASE k = 2
  <2>1. k + 1 = 3
    BY <1>3
  <2>2. Prefix[3] = Prefix[2] \o Part[2]
    BY Prefixes
  <2> QED BY <1>3, <2>1, <2>2, Zenon
<1>4. CASE k = 3
  <2>1. k + 1 = 4
    BY <1>4
  <2>2. Prefix[4] = Prefix[3] \o Part[3]
    BY Prefixes
  <2> QED BY <1>4, <2>1, <2>2, Zenon
<1>5. CASE k = 4
  <2>1. k + 1 = 5
    BY <1>5
  <2>2. Prefix[5] = Prefix[4] \o Part[4]
    BY Prefixes
  <2> QED BY <1>5, <2>1, <2>2, Zenon
<1>6. CASE k = 5
  <2>1. k + 1 = 6
    BY <1>6
  <2>2. Prefix[6] = Prefix[5] \o Part[5]
    BY Prefixes
  <2> QED BY <1>6, <2>1, <2>2, Zenon
<1>7. CASE k = 6
  <2>1. k + 1 = 7
    BY <1>7
  <2>2. Prefix[7] = Prefix[6] \o Part[6]
    BY Prefixes
  <2> QED BY <1>7, <2>1, <2>2, Zenon
<1>8. k = 1 \/ k = 2 \/ k = 3 \/ k = 4 \/ k = 5 \/ k = 6
  OBVIOUS
<1> QED BY <1>2, <1>3, <1>4, <1>5, <1>6, <1>7, <1>8

\* One more action of a part.
LEMMA OneMore ==
  ASSUME NEW p \in Seq(Action), NEW q \in Seq(Action), NEW i \in 0 .. Len(q) - 1
  PROVE  Append(p \o SubSeq(q, 1, i), q[i + 1]) = p \o SubSeq(q, 1, i + 1)
<1>1. /\ SubSeq(q, 1, i) \in Seq(Action) /\ Len(SubSeq(q, 1, i)) = i
      /\ \A j \in 1 .. i : SubSeq(q, 1, i)[j] = q[j]
  <2>1. i \in 0 .. Len(q) /\ \A j \in 1 .. i : q[j] \in Action
    OBVIOUS
  <2> QED BY <2>1, SubSeqProperties
<1>2. /\ SubSeq(q, 1, i + 1) \in Seq(Action) /\ Len(SubSeq(q, 1, i + 1)) = i + 1
      /\ \A j \in 1 .. i + 1 : SubSeq(q, 1, i + 1)[j] = q[j]
  <2>1. i + 1 \in 1 .. Len(q) /\ \A j \in 1 .. i + 1 : q[j] \in Action
    OBVIOUS
  <2> QED BY <2>1, SubSeqProperties
<1> DEFINE l == Append(p \o SubSeq(q, 1, i), q[i + 1])
<1> DEFINE r == p \o SubSeq(q, 1, i + 1)
<1>3. q[i + 1] \in Action
  OBVIOUS
<1>4. l \in Seq(Action) /\ Len(l) = Len(p) + i + 1
  BY <1>1, <1>3
<1>5. r \in Seq(Action) /\ Len(r) = Len(p) + i + 1
  BY <1>2
<1>6. \A j \in 1 .. Len(p) + i + 1 : l[j] = r[j]
  BY <1>1, <1>2, <1>3
<1> HIDE DEF l, r
<1>7. l = r
  BY <1>4, <1>5, <1>6, SeqEqual
<1> QED BY <1>7 DEF l, r

\* None of a part, and all of it.
LEMMA NoneAndAll ==
  ASSUME NEW p \in Seq(Action), NEW q \in Seq(Action)
  PROVE  /\ p \o SubSeq(q, 1, 0) = p
         /\ p \o SubSeq(q, 1, Len(q)) = p \o q
<1>1. SubSeq(q, 1, 0) = <<>>
  BY SubSeqEmpty
<1>2. SubSeq(q, 1, Len(q)) = q
  BY SubSeqFull
<1> QED BY <1>1, <1>2

LEMMA Ends ==
  ASSUME NEW a \in Nat, NEW b \in Nat, NEW c \in Nat, NEW d \in Nat,
         NEW i \in 0 .. b, c = a + b, c <= d
  PROVE  a + i <= d
OBVIOUS

\* What is applied is never more than the order has.
LEMMA Bounded ==
  ASSUME NEW k \in 1 .. 6, NEW i \in 0 .. Len(Part[k])
  PROVE  Len(Prefix[k] \o SubSeq(Part[k], 1, i)) <= Len(Order)
<1>1. /\ Prefix[k] \in Seq(Action) /\ Part[k] \in Seq(Action)
      /\ Len(Part[k]) \in Nat
  <2>1. k \in 1 .. 7
    OBVIOUS
  <2> QED BY <2>1, PrefixTyped, PartTyped
<1>2. SubSeq(Part[k], 1, i) \in Seq(Action) /\ Len(SubSeq(Part[k], 1, i)) = i
  <2>1. i \in Int /\ \A j \in 1 .. i : Part[k][j] \in Action
    BY <1>1
  <2> QED BY <2>1, SubSeqProperties
<1>3. Len(Prefix[k] \o SubSeq(Part[k], 1, i)) = Len(Prefix[k]) + i
  BY <1>1, <1>2, ConcatTyped, ZenonT(40)
<1>4. ASSUME NEW j \in 1 .. 6
      PROVE  /\ Len(Prefix[j]) \in Nat /\ Len(Prefix[j + 1]) \in Nat
             /\ Len(Prefix[j + 1]) = Len(Prefix[j]) + Len(Part[j])
             /\ Len(Part[j]) \in Nat
  <2>1. /\ Prefix[j] \in Seq(Action) /\ Part[j] \in Seq(Action)
        /\ Prefix[j + 1] = Prefix[j] \o Part[j]
    <3>1. j \in 1 .. 7
      OBVIOUS
    <3> QED BY <3>1, PrefixTyped, PartTyped, NextPrefix
  <2> QED BY <2>1, ConcatTyped
<1>5. /\ Len(Prefix[2]) <= Len(Prefix[3]) /\ Len(Prefix[3]) <= Len(Prefix[4])
      /\ Len(Prefix[4]) <= Len(Prefix[5]) /\ Len(Prefix[5]) <= Len(Prefix[6])
      /\ Len(Prefix[6]) <= Len(Prefix[7])
  <2>1. ASSUME NEW p \in Seq(Action), NEW q \in Seq(Action)
        PROVE  Len(p) <= Len(p \o q)
    OBVIOUS
  <2>2. /\ Prefix[2] \in Seq(Action) /\ Prefix[3] \in Seq(Action)
        /\ Prefix[4] \in Seq(Action) /\ Prefix[5] \in Seq(Action)
        /\ Prefix[6] \in Seq(Action)
    BY PrefixTyped
  <2>3. /\ Part[2] \in Seq(Action) /\ Part[3] \in Seq(Action)
        /\ Part[4] \in Seq(Action) /\ Part[5] \in Seq(Action)
        /\ Part[6] \in Seq(Action)
    BY PartTyped
  <2>4. /\ Len(Prefix[2]) <= Len(Prefix[2] \o Part[2])
        /\ Len(Prefix[3]) <= Len(Prefix[3] \o Part[3])
        /\ Len(Prefix[4]) <= Len(Prefix[4] \o Part[4])
        /\ Len(Prefix[5]) <= Len(Prefix[5] \o Part[5])
        /\ Len(Prefix[6]) <= Len(Prefix[6] \o Part[6])
    BY <2>1, <2>2, <2>3
  <2> QED BY <2>4, Prefixes
<1>a. /\ Len(Prefix[2]) \in Nat /\ Len(Prefix[3]) \in Nat
      /\ Len(Prefix[4]) \in Nat /\ Len(Prefix[5]) \in Nat
      /\ Len(Prefix[6]) \in Nat /\ Len(Prefix[7]) \in Nat
  BY PrefixTyped
<1>6. Len(Prefix[k + 1]) <= Len(Prefix[7])
  <2>1. /\ Len(Prefix[2]) <= Len(Prefix[7]) /\ Len(Prefix[3]) <= Len(Prefix[7])
        /\ Len(Prefix[4]) <= Len(Prefix[7]) /\ Len(Prefix[5]) <= Len(Prefix[7])
        /\ Len(Prefix[6]) <= Len(Prefix[7]) /\ Len(Prefix[7]) <= Len(Prefix[7])
    <3> DEFINE l(n) == Len(Prefix[n])
    <3>1. /\ l(2) \in Nat /\ l(3) \in Nat /\ l(4) \in Nat
          /\ l(5) \in Nat /\ l(6) \in Nat /\ l(7) \in Nat
          /\ l(2) <= l(3) /\ l(3) <= l(4) /\ l(4) <= l(5) /\ l(5) <= l(6)
          /\ l(6) <= l(7)
      BY <1>5, <1>a
    <3> HIDE DEF l
    <3>2. /\ l(2) <= l(7) /\ l(3) <= l(7) /\ l(4) <= l(7)
          /\ l(5) <= l(7) /\ l(6) <= l(7) /\ l(7) <= l(7)
      BY <3>1, SMTT(30)
    <3> QED BY <3>2 DEF l
  <2>2. k + 1 = 2 \/ k + 1 = 3 \/ k + 1 = 4 \/ k + 1 = 5 \/ k + 1 = 6 \/ k + 1 = 7
    OBVIOUS
  <2> QED BY <2>1, <2>2, Zenon
<1>7. Len(Prefix[k]) \in Nat /\ Len(Prefix[7]) \in Nat /\ Prefix[7] = Order
  BY <1>4, <1>a, Prefixes
<1>8. /\ Len(Prefix[k + 1]) \in Nat
      /\ Len(Prefix[k + 1]) = Len(Prefix[k]) + Len(Part[k])
  BY <1>4, Zenon
<1> QED BY <1>1, <1>3, <1>6, <1>7, <1>8, Ends
-----------------------------------------------------------------------------
(* The steps of performActions *)

LEMMA MembersValues ==
  /\ Members["init"] = InitActions /\ Members["main"] = <<Flow, Simplify>>
  /\ Members["arch"] = ArchActions /\ Members["retype"] = RetypeActions
  /\ Members["rename"] = RenameActions
BY DEF Members, Group

\* The present stage, its group and what the group stands at.
LEMMA NowValues ==
  ASSUME IInv, Performing
  PROVE  /\ stage \in 1 .. 6
         /\ stage # 2 /\ stage # 5 => Members[Now] = Part[stage]
         /\ stage \in {2, 5} => Members[Now] = <<Flow, Simplify>>
         /\ stage # 5 => status[Now] = "start"
         /\ stage = 5 => status[Now] = "break"
         /\ Now \in Group
<1>1. stage \in 1 .. 6
  BY StageValues DEF Performing
<1>2. CASE stage = 1
  BY <1>2, StageValues, MembersValues, Parts DEF IInv, Statuses, Now, Group
<1>3. CASE stage = 2
  BY <1>3, StageValues, MembersValues, Parts DEF IInv, Statuses, Now, Group
<1>4. CASE stage = 3
  BY <1>4, StageValues, MembersValues, Parts DEF IInv, Statuses, Now, Group
<1>5. CASE stage = 4
  BY <1>5, StageValues, MembersValues, Parts DEF IInv, Statuses, Now, Group
<1>6. CASE stage = 5
  BY <1>6, StageValues, MembersValues, Parts DEF IInv, Statuses, Now, Group
<1>7. CASE stage = 6
  BY <1>7, StageValues, MembersValues, Parts DEF IInv, Statuses, Now, Group
<1> QED BY <1>1, <1>2, <1>3, <1>4, <1>5, <1>6, <1>7

\* A part that is done brings the next prefix.
LEMMA PartDone ==
  ASSUME IInv, stage \in 1 .. 6, pos = First(stage) + Len(Part[stage])
  PROVE  applied = Prefix[stage + 1]
<1>1. stage \in 1 .. 7
  OBVIOUS
<1>2. /\ Prefix[stage] \in Seq(Action) /\ Part[stage] \in Seq(Action)
      /\ Len(Part[stage]) \in Nat
  BY <1>1, PrefixTyped, PartTyped
<1>3. pos - First(stage) = Len(Part[stage])
  BY <1>2 DEF First, Break
<1>4. applied = Prefix[stage] \o SubSeq(Part[stage], 1, Len(Part[stage]))
  BY <1>3 DEF IInv, Progress
<1>5. applied = Prefix[stage] \o Part[stage]
  BY <1>2, <1>4, NoneAndAll
<1> QED BY <1>5, NextPrefix

\* A stage begins with nothing of its part done.
LEMMA StageBegins ==
  ASSUME NEW k \in 1 .. 6
  PROVE  /\ Prefix[k] = Prefix[k] \o SubSeq(Part[k], 1, First(k) - First(k))
         /\ First(k) \in First(k) .. First(k) + Len(Part[k])
<1>1. k \in 1 .. 7 /\ First(k) - First(k) = 0 /\ First(k) \in Nat
  BY DEF First, Break
<1>2. /\ Prefix[k] \in Seq(Action) /\ Part[k] \in Seq(Action)
      /\ Len(Part[k]) \in Nat
  BY <1>1, PrefixTyped, PartTyped
<1>3. Prefix[k] = Prefix[k] \o SubSeq(Part[k], 1, 0)
  BY <1>2, NoneAndAll
<1> QED BY <1>1, <1>2, <1>3

LEMMA ApplyKeeps ==
  ASSUME IInv, Apply
  PROVE  IInv'
<1> DEFINE k == stage
<1> DEFINE i == pos - First(k)
<1>1. /\ Performing /\ pos \in DOMAIN Members[Now]
      /\ ~(stage = FirstMain /\ status[Now] = "start" /\ pos = Break)
      /\ applied' = Append(applied, Members[Now][pos])
      /\ pos' = pos + 1
      /\ UNCHANGED <<db, out, stage, status, symbols>>
  BY DEF Apply
<1>2. /\ k \in 1 .. 6 /\ pos \in First(k) .. First(k) + Len(Part[k])
      /\ applied = Prefix[k] \o SubSeq(Part[k], 1, i) /\ k \in 1 .. 7
  <2>1. stage \in 1 .. 6
    BY <1>1, NowValues
  <2>2. Progress
    BY DEF IInv
  <2>3. /\ pos \in First(stage) .. First(stage) + Len(Part[stage])
        /\ applied = Prefix[stage]
                        \o SubSeq(Part[stage], 1, pos - First(stage))
    BY <2>1, <2>2, Zenon DEF Progress
  <2>4. stage \in 1 .. 7
    BY <2>1
  <2> QED BY <2>1, <2>3, <2>4
<1>3. /\ Prefix[k] \in Seq(Action) /\ Part[k] \in Seq(Action)
      /\ Len(Part[k]) \in Nat
  BY <1>2, PrefixTyped, PartTyped
<1>4. i \in 0 .. Len(Part[k]) - 1 /\ Members[Now][pos] = Part[k][i + 1]
  <2>1. CASE stage = 2
    <3>1. pos = 1 /\ Part[k] = <<Flow>> /\ i = 0
      BY <1>1, <1>2, <2>1, NowValues, Parts DEF First, FirstMain, Break
    <3> QED BY <1>1, <2>1, <3>1, NowValues
  <2>2. CASE stage = 5
    <3>1. DOMAIN Members[Now] = 1 .. 2 /\ Members[Now][2] = Simplify
      BY <1>1, <2>2, NowValues
    <3>2. pos = 2 /\ Part[k] = <<Simplify>> /\ i = 0
      BY <1>1, <1>2, <2>2, <3>1, Parts DEF First, Break
    <3> QED BY <3>1, <3>2
  <2>3. CASE stage # 2 /\ stage # 5
    <3>1. First(k) = 1 /\ Members[Now] = Part[k]
      BY <1>1, <2>3, NowValues DEF First
    <3> QED BY <1>1, <1>3, <3>1
  <2> QED BY <2>1, <2>2, <2>3
<1>5. applied' = Prefix[k] \o SubSeq(Part[k], 1, i + 1)
  BY <1>1, <1>2, <1>3, <1>4, OneMore
<1>6. /\ pos' - First(k) = i + 1 /\ pos' \in First(k) .. First(k) + Len(Part[k])
      /\ pos' \in Nat
  <2>1. First(k) \in Nat
    BY DEF First, Break
  <2>2. ASSUME NEW f \in Nat, NEW n \in Nat, NEW p \in f .. f + n,
               p - f \in 0 .. n - 1
        PROVE  /\ p + 1 - f = p - f + 1 /\ p + 1 \in f .. f + n
               /\ p + 1 \in Nat
    BY <2>2
  <2>3. /\ pos + 1 - First(k) = pos - First(k) + 1
        /\ pos + 1 \in First(k) .. First(k) + Len(Part[k]) /\ pos + 1 \in Nat
    BY <1>2, <1>3, <1>4, <2>1, <2>2
  <2>4. pos' = pos + 1
    BY <1>1
  <2>5. pos' - First(k) = i + 1
    <3>1. pos \in Nat
      BY DEF IInv, Types
    <3> QED BY <2>1, <2>4, <3>1
  <2>6. pos' \in First(k) .. First(k) + Len(Part[k])
    BY <2>3, <2>4
  <2>7. pos' \in Nat
    BY <2>3, <2>4
  <2> QED BY <2>5, <2>6, <2>7
<1>7. Progress'
  BY <1>1, <1>5, <1>6 DEF Progress, First
<1>8. applied' \in Seq(Action)
  <2>1. Part[k][i + 1] \in Action
    BY <1>3, <1>4
  <2> QED BY <1>1, <1>4, <2>1 DEF IInv
<1>9. Len(applied') <= Len(Order)
  <2>1. i + 1 \in 0 .. Len(Part[k])
    BY <1>3, <1>4
  <2> QED BY <1>2, <1>5, <2>1, Bounded
<1>10. Types' /\ Statuses' /\ (stage # Idle => symbols = {db})'
  BY <1>1, <1>6 DEF IInv, Types, Statuses
<1>11. stage' # Found /\ stage' # Printing
  BY <1>1, <1>2 DEF Found, Printing
<1> QED BY <1>7, <1>8, <1>9, <1>10, <1>11 DEF IInv

\* A perform that returns leaves its group ended, or at its breakpoint.
LEMMA LeaveKeeps ==
  ASSUME IInv, Performing, pos = First(stage) + Len(Part[stage]),
         NEW s \in {"break", "end"}, s = "break" <=> stage = 2,
         LeaveWith(s)
  PROVE  IInv'
<1>1. stage \in 1 .. 6 /\ Now \in Group
  BY NowValues
<1>2. /\ status' = [status EXCEPT ![Now] = s]
      /\ UNCHANGED <<db, out, symbols, applied>>
      /\ stage = 6 => stage' = Printing /\ pos' = pos
      /\ stage # 6 => stage' = stage + 1 /\ pos' = Entry(stage + 1, status')
  BY StageValues DEF LeaveWith, Now
<1>3. applied = Prefix[stage + 1]
  BY <1>1, PartDone
<1>4. Statuses' /\ (stage' \in 1 .. 6 => Entry(stage', status') = First(stage'))
  <2>1. status \in [Group -> {"start", "break", "end"}]
    BY DEF IInv, Types
  <2>2. /\ \A g \in Group : g # Now => status'[g] = status[g]
        /\ status'[Now] = s
    BY <1>1, <1>2, <2>1
  <2>3. CASE stage = 1
    BY <1>2, <2>2, <2>3, StageValues
       DEF IInv, Statuses, Entry, First, Break, Now, Group
  <2>4. CASE stage = 2
    BY <1>2, <2>2, <2>4, StageValues
       DEF IInv, Statuses, Entry, First, Break, Now, Group
  <2>5. CASE stage = 3
    BY <1>2, <2>2, <2>5, StageValues
       DEF IInv, Statuses, Entry, First, Break, Now, Group
  <2>6. CASE stage = 4
    BY <1>2, <2>2, <2>6, StageValues
       DEF IInv, Statuses, Entry, First, Break, Now, Group
  <2>7. CASE stage = 5
    BY <1>2, <2>2, <2>7, StageValues
       DEF IInv, Statuses, Entry, First, Break, Now, Group
  <2>8. CASE stage = 6
    BY <1>2, <2>8 DEF Statuses, Printing
  <2> QED BY <1>1, <2>3, <2>4, <2>5, <2>6, <2>7, <2>8
<1>5. Types'
  <2>1. stage' \in 0 .. Printing /\ pos' \in Nat
    <3>1. CASE stage = 6
      BY <1>2, <3>1 DEF IInv, Types, Printing
    <3>2. CASE stage # 6
      BY <1>1, <1>2, <3>2 DEF IInv, Types, Printing, Entry, Break
    <3> QED BY <3>1, <3>2
  <2>2. status' \in [Group -> {"start", "break", "end"}]
    BY <1>1, <1>2 DEF IInv, Types
  <2> QED BY <1>2, <2>1, <2>2 DEF IInv, Types
<1>6. Progress'
  <2>1. ASSUME stage' \in 1 .. 6
        PROVE  /\ pos' \in First(stage') .. First(stage') + Len(Part[stage'])
               /\ applied' = Prefix[stage']
                        \o SubSeq(Part[stage'], 1, pos' - First(stage'))
    <3>1. stage # 6 /\ stage' = stage + 1 /\ pos' = First(stage')
      BY <1>2, <1>4, <2>1 DEF Printing
    <3>2. applied' = Prefix[stage']
      BY <1>2, <1>3, <3>1
    <3>3. /\ Prefix[stage'] = Prefix[stage'] \o
                SubSeq(Part[stage'], 1, First(stage') - First(stage'))
          /\ First(stage') \in First(stage') .. First(stage') + Len(Part[stage'])
      BY <2>1, StageBegins
    <3> QED BY <3>1, <3>2, <3>3
  <2> QED BY <2>1 DEF Progress, First
<1>7. stage' = Printing => applied' = Order
  <2>1. stage' = Printing => stage = 6
    BY <1>1, <1>2 DEF Printing
  <2>2. stage = 6 => applied = Prefix[7]
    BY <1>3
  <2> QED BY <1>2, <2>1, <2>2, Prefixes
<1>8. stage' # Found
  BY <1>1, <1>2 DEF Found, Printing
<1>9. /\ (stage # Idle => symbols = {db})'
      /\ applied' \in Seq(Action) /\ Len(applied') <= Len(Order)
  BY <1>1, <1>2 DEF IInv, Idle
<1> QED BY <1>4, <1>5, <1>6, <1>7, <1>8, <1>9 DEF IInv

\* Leave: the group has come to its end.
LEMMA LeaveDone ==
  ASSUME IInv, Leave
  PROVE  /\ Performing /\ stage # 2
         /\ pos = First(stage) + Len(Part[stage]) /\ LeaveWith("end")
<1>1. Performing /\ pos > Len(Members[Now]) /\ LeaveWith("end")
  BY NowValues DEF Leave
<1>2. stage \in 1 .. 6 /\ Progress
  BY <1>1, NowValues DEF IInv
<1>3. pos \in First(stage) .. First(stage) + Len(Part[stage])
  BY <1>2, Zenon DEF Progress
<1>4. CASE stage = 2
  <2>1. Members[Now] = <<Flow, Simplify>> /\ Part[stage] = <<Flow>>
    BY <1>1, <1>4, NowValues, Parts
  <2>2. First(stage) = 1
    BY <1>4 DEF First
  <2>3. Len(<<Flow, Simplify>>) = 2 /\ Len(<<Flow>>) = 1
    OBVIOUS
  <2> QED BY <1>1, <1>3, <2>1, <2>2, <2>3
<1>5. CASE stage = 5
  <2>1. Len(Members[Now]) = 2 /\ Len(Part[stage]) = 1 /\ First(stage) = 2
    BY <1>1, <1>5, NowValues, Parts DEF First, Break
  <2> QED BY <1>1, <1>3, <1>5, <2>1
<1>6. CASE stage # 2 /\ stage # 5
  <2>1. /\ Members[Now] = Part[stage] /\ Len(Part[stage]) \in Nat
        /\ First(stage) = 1
    BY <1>1, <1>2, <1>6, NowValues, PartTyped DEF First
  <2> QED BY <1>1, <1>3, <1>6, <2>1
<1> QED BY <1>4, <1>5, <1>6
-----------------------------------------------------------------------------
(* The invariant *)

LEMMA InitInvariant == Init => IInv
<1> SUFFICES ASSUME Init PROVE IInv
  OBVIOUS
<1>1. stage = 0 /\ applied = <<>>
  BY DEF Init, Idle
<1>2. Types
  BY PipelineAssumption DEF Init, Types, Idle, Printing
<1>3. Len(Order) \in Nat
  BY Prefixes, PrefixTyped
<1> QED BY <1>1, <1>2, <1>3 DEF IInv, Statuses, Progress, Found, Printing, Idle

\* performActions starts with every group at its start.
LEMMA ResetKeeps ==
  ASSUME IInv, Reset
  PROVE  IInv'
<1>1. /\ status' = [g \in Group |-> "start"] /\ stage' = 1 /\ pos' = 1
      /\ UNCHANGED <<db, out, symbols, applied>> /\ applied = <<>>
      /\ stage # Idle
  BY DEF Reset, Entry, Stage, Group, IInv, Found, Idle
<1>2. Types'
  BY <1>1 DEF IInv, Types, Printing
<1>3. Statuses'
  BY <1>1 DEF Statuses, Group
<1>4. Progress'
  <2>1. First(1) = 1 /\ Prefix[1] = <<>> /\ 1 \in 1 .. 6
    BY Prefixes DEF First
  <2>a. /\ Prefix[1] = Prefix[1] \o SubSeq(Part[1], 1, First(1) - First(1))
        /\ First(1) \in First(1) .. First(1) + Len(Part[1])
    BY <2>1, StageBegins
  <2>2. /\ applied' = Prefix[1] \o SubSeq(Part[1], 1, 1 - First(1))
        /\ 1 \in First(1) .. First(1) + Len(Part[1])
    BY <1>1, <2>1, <2>a, Zenon
  <2> QED BY <1>1, <2>2 DEF Progress, First
<1> QED BY <1>1, <1>2, <1>3, <1>4 DEF IInv, Found, Printing, Idle

LEMMA StepInvariant == IInv /\ [Next]_vars => IInv'
<1> SUFFICES ASSUME IInv, [Next]_vars PROVE IInv'
  OBVIOUS
<1> USE DEF Idle, Found, Printing
<1>n. MaxEdits \in Nat /\ Len(Order) \in Nat
  BY PipelineAssumption, Prefixes, PrefixTyped
<1>1. CASE Edit
  BY <1>1, <1>n DEF Edit, IInv, Types, Statuses, Progress
<1>2. CASE NotFound
  BY <1>2 DEF NotFound, IInv, Types, Statuses, Progress
<1>3. CASE Find
  BY <1>3, <1>n DEF Find, IInv, Types, Statuses, Progress
<1>4. CASE Throw
  BY <1>4 DEF Throw, IInv, Types, Statuses, Progress
<1>5. CASE Reset
  BY <1>5, ResetKeeps
<1>6. CASE BreakHit
  <2>1. /\ Performing /\ stage = 2 /\ pos = 2 /\ LeaveWith("break")
    BY <1>6 DEF BreakHit, FirstMain, Break
  <2>2. pos = First(stage) + Len(Part[stage])
    BY <2>1, Parts DEF First
  <2> QED BY <2>1, <2>2, LeaveKeeps
<1>7. CASE Apply
  BY <1>7, ApplyKeeps
<1>8. CASE Leave
  BY <1>8, LeaveDone, LeaveKeeps
<1>9. CASE PrintDoc
  <2>1. /\ out' = [symbols |-> symbols, applied |-> applied] /\ stage' = 0
        /\ UNCHANGED <<db, pos, status, symbols, applied>>
    BY <1>9 DEF PrintDoc
  <2>2. out' \in [symbols : SUBSET Nat, applied : Seq(Action)]
    BY <1>n, <2>1 DEF IInv, Types
  <2> QED BY <2>1, <2>2 DEF IInv, Types, Statuses, Progress
<1>10. CASE UNCHANGED vars
  BY <1>10, ZenonT(40) DEF vars, IInv, Types, Statuses, Progress, First
<1> QED BY <1>1, <1>2, <1>3, <1>4, <1>5, <1>6, <1>7, <1>8, <1>9, <1>10 DEF Next

\* The inductive invariant holds of every reachable state of a decompilation.
THEOREM Invariant == Spec => []IInv
BY InitInvariant, StepInvariant, PTL DEF Spec

\* Every variable of a decompilation keeps its type.
THEOREM PipelineTypes == Spec => []TypeOK
<1>1. IInv => TypeOK
  BY DEF IInv, Types, TypeOK
<1> QED BY <1>1, Invariant, PTL

\* After the first call of the main group and until the second returns, the
\* group stands at its breakpoint.
THEOREM SplitAtBreak == Spec => []Breaks
<1>1. IInv => Breaks
  <2> SUFFICES ASSUME IInv, Performing, stage > FirstMain
               PROVE  status["main"] = "break" <=> stage \in 3 .. 5
    BY DEF Breaks
  <2>1. stage \in 3 .. 6
    BY NowValues DEF FirstMain
  <2> QED BY <2>1 DEF IInv, Statuses
<1> QED BY <1>1, Invariant, PTL
-----------------------------------------------------------------------------
(* The interface *)

\* Every decompilation, whatever failed before it, gives nothing or a result
\* of the database as it is with each action applied once and in order.
THEOREM Refines == Spec => ImplementsDecompiler
<1>1. Init => Interface!Init
  BY DEF Init, Interface!Init
<1>2. IInv /\ [Next]_vars => [Interface!Next]_<<db, out>>
  <2> SUFFICES ASSUME IInv, [Next]_vars
               PROVE  [Interface!Next]_<<db, out>>
    OBVIOUS
  <2>1. CASE Edit
    BY <2>1 DEF Edit, Interface!Next, Interface!Edit
  <2>2. CASE NotFound
    BY <2>2 DEF NotFound, Interface!Next, Interface!Fail
  <2>3. CASE Find
    BY <2>3 DEF Find
  <2>4. CASE Throw
    BY <2>4 DEF Throw, Interface!Next, Interface!Fail
  <2>5. CASE Reset
    BY <2>5 DEF Reset
  <2>6. CASE BreakHit
    BY <2>6 DEF BreakHit, LeaveWith
  <2>7. CASE Apply
    BY <2>7 DEF Apply
  <2>8. CASE Leave
    BY <2>8 DEF Leave, LeaveWith
  <2>9. CASE PrintDoc
    <3>1. symbols = {db} /\ applied = Order
      BY <2>9 DEF PrintDoc, IInv, Idle, Printing
    <3> QED BY <2>9, <3>1 DEF PrintDoc, Interface!Next, Interface!Succeed
  <2>10. CASE UNCHANGED vars
    BY <2>10 DEF vars
  <2> QED BY <2>1, <2>2, <2>3, <2>4, <2>5, <2>6, <2>7, <2>8, <2>9, <2>10
          DEF Next
<1>3. Spec => Interface!Spec
  BY <1>1, <1>2, Invariant, PTL DEF Spec, Interface!Spec
<1> QED BY <1>3 DEF ImplementsDecompiler
=============================================================================
