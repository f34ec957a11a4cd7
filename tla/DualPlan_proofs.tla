---------------------------- MODULE DualPlan_proofs ----------------------------
(***************************************************************************)
(* Lemmas about DualContract: what a plan is, which board each prefix of a *)
(* plan leaves, and that something whole boots from every one of them.     *)
(***************************************************************************)
EXTENDS DualContract, FiniteSetTheorems, SequenceTheorems, TLAPS

-----------------------------------------------------------------------------
\* Blocks.

LEMMA BlockSet ==
  Block = {"f0", "f1", "p0", "p1", "s0", "s1", "l0", "l1", "fs", "apps", "sys", "img"}
BY DEF Block, Control, Stream, Layout, UserData

LEMMA BlockParts ==
  /\ Control = {"f0", "f1"} /\ Layout = {"l0", "l1"} /\ UserData = {"fs", "apps"}
  /\ DOMAIN Stream = {"p0", "p1", "s0", "s1"}
BY DEF Control, Stream, Layout, UserData

\* There are twelve blocks.
LEMMA BlockCount == IsFiniteSet(Block) /\ Cardinality(Block) = 12
<1> DEFINE s1 == {"f0"} s2 == s1 \cup {"f1"} s3 == s2 \cup {"p0"} s4 == s3 \cup {"p1"}
           s5 == s4 \cup {"s0"} s6 == s5 \cup {"s1"} s7 == s6 \cup {"l0"} s8 == s7 \cup {"l1"}
           s9 == s8 \cup {"fs"} s10 == s9 \cup {"apps"} s11 == s10 \cup {"sys"} s12 == s11 \cup {"img"}
<1>1. IsFiniteSet(s1) /\ Cardinality(s1) = 1
  BY FS_Singleton
<1>2. IsFiniteSet(s2) /\ Cardinality(s2) = 2
  BY <1>1, FS_AddElement
<1>3. IsFiniteSet(s3) /\ Cardinality(s3) = 3
  BY <1>2, FS_AddElement
<1>4. IsFiniteSet(s4) /\ Cardinality(s4) = 4
  BY <1>3, FS_AddElement
<1>a. "s0" \notin s4
  OBVIOUS
<1>5. IsFiniteSet(s5) /\ Cardinality(s5) = 5
  <2> HIDE DEF s4
  <2> QED
    BY <1>4, <1>a, FS_AddElement DEF s5
<1>6. IsFiniteSet(s6) /\ Cardinality(s6) = 6
  <2>1. "s1" \notin s5
    OBVIOUS
  <2> HIDE DEF s5
  <2> QED
    BY <1>5, <2>1, FS_AddElement DEF s6
<1>7. IsFiniteSet(s7) /\ Cardinality(s7) = 7
  <2>1. "l0" \notin s6
    OBVIOUS
  <2> HIDE DEF s6
  <2> QED
    BY <1>6, <2>1, FS_AddElement DEF s7
<1>8. IsFiniteSet(s8) /\ Cardinality(s8) = 8
  <2>1. "l1" \notin s7
    OBVIOUS
  <2> HIDE DEF s7
  <2> QED
    BY <1>7, <2>1, FS_AddElement DEF s8
<1>9. IsFiniteSet(s9) /\ Cardinality(s9) = 9
  <2>1. "fs" \notin s8
    OBVIOUS
  <2> HIDE DEF s8
  <2> QED
    BY <1>8, <2>1, FS_AddElement DEF s9
<1>10. IsFiniteSet(s10) /\ Cardinality(s10) = 10
  <2>1. "apps" \notin s9
    OBVIOUS
  <2> HIDE DEF s9
  <2> QED
    BY <1>9, <2>1, FS_AddElement DEF s10
<1>11. IsFiniteSet(s11) /\ Cardinality(s11) = 11
  <2>1. "sys" \notin s10
    OBVIOUS
  <2> HIDE DEF s10
  <2> QED
    BY <1>10, <2>1, FS_AddElement DEF s11
<1>12. IsFiniteSet(s12) /\ Cardinality(s12) = 12
  <2>1. "img" \notin s11
    OBVIOUS
  <2> HIDE DEF s11
  <2> QED
    BY <1>11, <2>1, FS_AddElement DEF s12
<1>13. s12 = Block
  BY BlockSet
<1> QED
  BY <1>12, <1>13

-----------------------------------------------------------------------------
Phase == {"stage-recovery", "redirect-rom", "migrate-data", "stage-images", "commit-layout",
          "restore-hp-system", "disable-boot", "restore-data", "restore-rom", "restore-cleanup"}

\* Plans.  rk is the place of each block in the order, beyond 12 if it has none.

Ranked(order, rk) ==
  /\ Len(order) \in 0..12
  /\ \A k \in 1..Len(order) :
       order[k][1] \in Block /\ order[k][2] \in Phase /\ rk[order[k][1]] = k
  /\ rk \in [Block -> 1..13]
  /\ \A b \in Block : rk[b] # 13 => rk[b] <= Len(order) /\ order[rk[b]][1] = b

ChangeOf(Content) == [block : Block, phase : Phase, before : Content, after : Content]

\* What the changes of a plan say, in the order of their blocks.
ChangesAre(c, nand, desired, rk) ==
  /\ \A k \in 1..Len(c) :
       /\ c[k].block \in Block
       /\ c[k].before = nand[c[k].block]
       /\ c[k].after = desired[c[k].block]
       /\ c[k].before # c[k].after
  /\ \A k, l \in 1..Len(c) : k < l => rk[c[k].block] < rk[c[l].block]

\* The plan of an order's first m steps.
PlanTo(c, nand, desired, rk, m) ==
  /\ ChangesAre(c, nand, desired, rk)
  /\ \A k \in 1..Len(c) : rk[c[k].block] <= m
  /\ \A b \in Block : rk[b] <= m /\ nand[b] # desired[b] => \E k \in 1..Len(c) : c[k].block = b
  /\ Len(c) <= m

LEMMA AppendOne ==
  ASSUME NEW S, NEW c \in Seq(S), NEW e \in S
  PROVE  /\ c \o <<e>> \in Seq(S) /\ Len(c \o <<e>>) = Len(c) + 1
         /\ \A i \in 1..Len(c) : (c \o <<e>>)[i] = c[i]
         /\ (c \o <<e>>)[Len(c) + 1] = e
OBVIOUS

LEMMA RankNat ==
  ASSUME NEW order, NEW rk, Ranked(order, rk)
  PROVE  \A b \in Block : rk[b] \in 1..13 /\ rk[b] \in Nat
BY DEF Ranked

\* d is c with the change of step k added.
Added(c, d, nand, desired, order, k) ==
  /\ Len(d) = Len(c) + 1
  /\ \A i \in 1..Len(c) : d[i] = c[i]
  /\ LET e == d[Len(c) + 1]
     IN  /\ e.block = order[k][1] /\ e.before = nand[e.block] /\ e.after = desired[e.block]
         /\ e.before # e.after

\* One more change at the end of a plan's first m.
LEMMA OneMore ==
  ASSUME NEW nand, NEW desired,
         NEW order, NEW rk, Ranked(order, rk),
         NEW m \in 0..11, NEW k, k = m + 1, k \in 1..Len(order),
         NEW c, Len(c) \in Nat, PlanTo(c, nand, desired, rk, m),
         NEW d, Added(c, d, nand, desired, order, k)
  PROVE  PlanTo(d, nand, desired, rk, k)
<1> DEFINE e == d[Len(c) + 1]
<1>a. e.block = order[k][1] /\ e.before = nand[e.block] /\ e.after = desired[e.block] /\ e.before # e.after
  BY DEF Added
<1>b. Len(d) = Len(c) + 1 /\ (\A i \in 1..Len(c) : d[i] = c[i]) /\ d[Len(c) + 1] = e
  BY DEF Added
<1> HIDE DEF e
<1>0. m \in Nat /\ k \in Nat /\ k = m + 1 /\ m < k
  OBVIOUS
<1>1. e.block \in Block /\ rk[e.block] = k
  BY <1>a DEF Ranked
<1>2. Len(c) \in Nat
  OBVIOUS
<1>3. \A i \in 1..Len(d) : (i \in 1..Len(c) /\ d[i] = c[i]) \/ (i = Len(c) + 1 /\ d[i] = e)
  BY <1>2, <1>b
<1>4. \A i \in 1..Len(c) : c[i].block \in Block /\ rk[c[i].block] \in 1..13 /\ rk[c[i].block] <= m
  BY DEF PlanTo, ChangesAre, Ranked
<1>5. \A i \in 1..Len(d) : /\ d[i].block \in Block /\ d[i].before = nand[d[i].block]
                           /\ d[i].after = desired[d[i].block] /\ d[i].before # d[i].after
  BY <1>1, <1>3, <1>a DEF PlanTo, ChangesAre
<1>6. \A i \in 1..Len(d) : rk[d[i].block] \in Nat /\ rk[d[i].block] <= k
  <2> SUFFICES ASSUME NEW i \in 1..Len(d)
               PROVE  rk[d[i].block] \in Nat /\ rk[d[i].block] <= k
    OBVIOUS
  <2>1. CASE i \in 1..Len(c) /\ d[i] = c[i]
    <3>1. d[i].block = c[i].block
      BY <2>1
    <3> DEFINE r == rk[c[i].block]
    <3>2. r \in 1..13 /\ r <= m
      BY <2>1, <1>4
    <3> HIDE DEF r
    <3>3. r \in Nat /\ r <= k
      BY <3>2, <1>0
    <3> QED
      BY <3>1, <3>3 DEF r
  <2>2. CASE i = Len(c) + 1 /\ d[i] = e
    <3>1. d[i].block = e.block
      BY <2>2
    <3> QED
      BY <3>1, <1>0, <1>1
  <2> QED
    BY <2>1, <2>2, <1>3
<1>7. \A i, l \in 1..Len(d) : i < l => rk[d[i].block] < rk[d[l].block]
  <2> SUFFICES ASSUME NEW i \in 1..Len(d), NEW l \in 1..Len(d), i < l
               PROVE  rk[d[i].block] < rk[d[l].block]
    OBVIOUS
  <2>1. i \in 1..Len(c) /\ d[i] = c[i]
    BY <1>2, <1>b
  <2>2. CASE l \in 1..Len(c)
    BY <2>1, <2>2, <1>b DEF PlanTo, ChangesAre
  <2>3. CASE l = Len(c) + 1
    <3> DEFINE ri == rk[d[i].block] rl == rk[d[l].block]
    <3>1. ri \in 1..13 /\ ri <= m
      BY <2>1, <1>4
    <3>2. rl = m + 1
      BY <2>3, <1>1, <1>b
    <3> HIDE DEF ri, rl
    <3>3. ri < rl
      BY <3>1, <3>2, <1>0
    <3> QED
      BY <3>3 DEF ri, rl
  <2> QED
    BY <2>2, <2>3, <1>2, <1>b
<1>8. \A b \in Block : rk[b] <= k /\ nand[b] # desired[b] => \E i \in 1..Len(d) : d[i].block = b
  <2> SUFFICES ASSUME NEW b \in Block, rk[b] <= k, nand[b] # desired[b]
               PROVE  \E i \in 1..Len(d) : d[i].block = b
    OBVIOUS
  <2>1. CASE rk[b] <= m
    <3>1. PICK i \in 1..Len(c) : c[i].block = b
      BY <2>1 DEF PlanTo
    <3> QED
      BY <3>1, <1>2, <1>b
  <2>2. CASE rk[b] = k
    <3>1. b = e.block
      BY <2>2, <1>a DEF Ranked
    <3> QED
      BY <3>1, <1>2, <1>b
  <2>3. rk[b] \in Nat
    BY RankNat
  <2> QED
    BY <2>1, <2>2, <2>3, <1>0
<1>9. ChangesAre(d, nand, desired, rk)
  BY <1>5, <1>7 DEF ChangesAre
<1>10. Len(d) <= k
  BY <1>2, <1>b DEF PlanTo
<1> QED
  BY <1>6, <1>8, <1>9, <1>10 DEF PlanTo

\* A step adds its change, if there is one.
LEMMA KeptStep ==
  ASSUME NEW Content, NEW nand \in [Block -> Content], NEW desired \in [Block -> Content],
         NEW order, NEW rk, Ranked(order, rk),
         NEW m \in 0..11, NEW k, k = m + 1,
         NEW c \in Seq(ChangeOf(Content)), PlanTo(c, nand, desired, rk, m)
  PROVE  /\ c \o Kept(nand, desired, order, k) \in Seq(ChangeOf(Content))
         /\ PlanTo(c \o Kept(nand, desired, order, k), nand, desired, rk, k)
<1>1. CASE ~(k \in 1..Len(order) /\ nand[order[k][1]] # desired[order[k][1]])
  <2>1. Kept(nand, desired, order, k) = <<>>
    BY <1>1 DEF Kept
  <2>2. c \o Kept(nand, desired, order, k) = c
    BY <2>1
  <2>3. \A b \in Block : rk[b] = k => nand[b] = desired[b]
    BY <1>1 DEF Ranked
  <2>r. \A i \in Nat : (i <= k => i <= m \/ i = k) /\ (i <= m => i <= k)
    OBVIOUS
  <2>4. \A b \in Block : rk[b] <= k => (rk[b] <= m \/ rk[b] = k)
    BY <2>r, RankNat
  <2>5. \A b \in Block : rk[b] <= m => rk[b] <= k
    BY <2>r, RankNat
  <2>6. Len(c) <= k
    BY DEF PlanTo
  <2>7. \A i \in 1..Len(c) : rk[c[i].block] <= k
    BY <2>5 DEF PlanTo, ChangesAre
  <2>8. \A b \in Block : rk[b] <= k /\ nand[b] # desired[b] => \E i \in 1..Len(c) : c[i].block = b
    BY <2>3, <2>4 DEF PlanTo
  <2>9. PlanTo(c, nand, desired, rk, k)
    BY <2>6, <2>7, <2>8 DEF PlanTo
  <2> QED
    BY <2>2, <2>9
<1>2. CASE k \in 1..Len(order) /\ nand[order[k][1]] # desired[order[k][1]]
  <2> DEFINE e == Change(nand, desired, order[k])
             d == c \o <<e>>
  <2>1. order[k][1] \in Block /\ order[k][2] \in Phase
    BY <1>2 DEF Ranked
  <2>2. e \in ChangeOf(Content) /\ e.block = order[k][1] /\ e.before = nand[e.block]
        /\ e.after = desired[e.block] /\ e.before # e.after
    BY <1>2, <2>1 DEF Change, ChangeOf
  <2>3. Kept(nand, desired, order, k) = <<e>>
    BY <1>2 DEF Kept
  <2> HIDE DEF e
  <2>4. /\ d \in Seq(ChangeOf(Content)) /\ Len(d) = Len(c) + 1
        /\ \A i \in 1..Len(c) : d[i] = c[i]
        /\ d[Len(c) + 1] = e
    BY <2>2, AppendOne
  <2> HIDE DEF d
  <2>5. Added(c, d, nand, desired, order, k)
    BY <2>2, <2>4 DEF Added
  <2>6. PlanTo(d, nand, desired, rk, k)
    BY <1>2, <2>5, OneMore, Len(c) \in Nat
  <2> QED
    BY <2>3, <2>4, <2>6 DEF d
<1> QED
  BY <1>1, <1>2

\* A plan has the changes its order asks for, each block once, in that order.
LEMMA PlanIs ==
  ASSUME NEW Content, NEW nand \in [Block -> Content], NEW desired \in [Block -> Content],
         NEW order, NEW rk, Ranked(order, rk)
  PROVE  /\ Plan(nand, desired, order) \in Seq(ChangeOf(Content))
         /\ PlanTo(Plan(nand, desired, order), nand, desired, rk, 12)
<1> DEFINE ok(c, m) == c \in Seq(ChangeOf(Content)) /\ PlanTo(c, nand, desired, rk, m)
           kept(k) == Kept(nand, desired, order, k)
<1>0. ok(<<>>, 0)
  BY DEF PlanTo, ChangesAre, Ranked
<1> DEFINE c1 == <<>> \o kept(1)
<1>1. ok(c1, 1)
  <2> DEFINE c0 == <<>>
  <2>1. ok(c0, 0)
    BY <1>0
  <2> HIDE DEF c0
  <2>2. ok(c0 \o kept(1), 1)
    BY <2>1, KeptStep, 0 + 1 = 1
  <2> QED
    BY <2>2 DEF c0
<1>a. c1 = kept(1)
  BY DEF Kept
<1> DEFINE c2 == c1 \o kept(2)
<1> HIDE DEF c1
<1>2. ok(c2, 2)
  BY <1>1, KeptStep, 1 + 1 = 2
<1> DEFINE c3 == c2 \o kept(3)
<1> HIDE DEF c2
<1>3. ok(c3, 3)
  BY <1>2, KeptStep, 2 + 1 = 3
<1> DEFINE c4 == c3 \o kept(4)
<1> HIDE DEF c3
<1>4. ok(c4, 4)
  BY <1>3, KeptStep, 3 + 1 = 4
<1> DEFINE c5 == c4 \o kept(5)
<1> HIDE DEF c4
<1>5. ok(c5, 5)
  BY <1>4, KeptStep, 4 + 1 = 5
<1> DEFINE c6 == c5 \o kept(6)
<1> HIDE DEF c5
<1>6. ok(c6, 6)
  BY <1>5, KeptStep, 5 + 1 = 6
<1> DEFINE c7 == c6 \o kept(7)
<1> HIDE DEF c6
<1>7. ok(c7, 7)
  BY <1>6, KeptStep, 6 + 1 = 7
<1> DEFINE c8 == c7 \o kept(8)
<1> HIDE DEF c7
<1>8. ok(c8, 8)
  BY <1>7, KeptStep, 7 + 1 = 8
<1> DEFINE c9 == c8 \o kept(9)
<1> HIDE DEF c8
<1>9. ok(c9, 9)
  BY <1>8, KeptStep, 8 + 1 = 9
<1> DEFINE c10 == c9 \o kept(10)
<1> HIDE DEF c9
<1>10. ok(c10, 10)
  BY <1>9, KeptStep, 9 + 1 = 10
<1> DEFINE c11 == c10 \o kept(11)
<1> HIDE DEF c10
<1>11. ok(c11, 11)
  BY <1>10, KeptStep, 10 + 1 = 11
<1> DEFINE c12 == c11 \o kept(12)
<1> HIDE DEF c11
<1>12. ok(c12, 12)
  BY <1>11, KeptStep, 11 + 1 = 12
<1>13. Plan(nand, desired, order) = c12
  BY <1>a DEF Plan, c1, c2, c3, c4, c5, c6, c7, c8, c9, c10, c11
<1> QED
  BY <1>12, <1>13

-----------------------------------------------------------------------------
\* The four orders: the place of each block in them.

PartRanked(order, rk, n) ==
  /\ order \in Seq(Block \X Phase) /\ Len(order) = n
  /\ \A k \in 1..n : rk[order[k][1]] = k

LEMMA FunIsSeq ==
  ASSUME NEW S, NEW n \in Nat, NEW f \in [1..n -> S]
  PROVE  f \in Seq(S) /\ Len(f) = n
BY LenProperties

LEMMA CatIs ==
  ASSUME NEW S, NEW n \in Nat, NEW s \in Seq(S), NEW t \in Seq(S), Len(s) = n
  PROVE  /\ s \o t \in Seq(S) /\ Len(s \o t) = n + Len(t)
         /\ \A i \in 1..n : (s \o t)[i] = s[i]
         /\ \A i \in 1..Len(t) : (s \o t)[n + i] = t[i]
OBVIOUS

\* The blocks of a phase have the places after the first n, up to k.
Follows(p, bs, rk, n, m, k) ==
  /\ p \in Phase /\ n \in Nat /\ m \in Nat /\ k = n + m
  /\ bs \in Seq(Block) /\ Len(bs) = m
  /\ \A i \in 1..m : rk[bs[i]] = n + i

Placed(t, rk, n, m) ==
  /\ t \in Seq(Block \X Phase) /\ Len(t) = m
  /\ \A i \in 1..m : rk[t[i][1]] = n + i

LEMMA PhasedIs ==
  ASSUME NEW p, NEW bs, NEW rk, NEW n, NEW m, NEW k, Follows(p, bs, rk, n, m, k)
  PROVE  Placed(Phased(p, bs), rk, n, m)
<1> DEFINE f == [i \in 1..m |-> <<bs[i], p>>]
           S == Block \X Phase
<1>0. p \in Phase /\ m \in Nat
  BY DEF Follows
<1>1. \A i \in 1..m : bs[i] \in Block
  BY DEF Follows
<1>2. f \in [1..m -> S] /\ \A i \in 1..m : f[i][1] = bs[i]
  BY <1>0, <1>1
<1>3. Phased(p, bs) = f
  BY DEF Phased, Follows
<1> HIDE DEF S, f
<1>4. f \in Seq(S) /\ Len(f) = m
  BY <1>0, <1>2, FunIsSeq
<1>5. \A i \in 1..m : rk[f[i][1]] = n + i
  BY <1>2 DEF Follows
<1> QED
  BY <1>3, <1>4, <1>5 DEF S, Placed

LEMMA FirstPhase ==
  ASSUME NEW p, NEW bs, NEW rk, NEW m, Follows(p, bs, rk, 0, m, m)
  PROVE  PartRanked(Phased(p, bs), rk, m)
<1>1. Placed(Phased(p, bs), rk, 0, m)
  BY PhasedIs, Zenon
<1>2. \A i \in 1..m : 0 + i = i
  BY DEF Follows
<1> QED
  BY <1>1, <1>2 DEF PartRanked, Placed

\* A phase is added to an order.
LEMMA NextPhase ==
  ASSUME NEW n, NEW order, NEW rk, PartRanked(order, rk, n),
         NEW p, NEW bs, NEW m, NEW k, Follows(p, bs, rk, n, m, k)
  PROVE  PartRanked(order \o Phased(p, bs), rk, k)
<1> DEFINE S == Block \X Phase
           t == Phased(p, bs)
           r == order \o t
<1>0. n \in Nat /\ m \in Nat /\ k = n + m
  BY DEF Follows
<1>a. Placed(t, rk, n, m)
  BY PhasedIs, Zenon
<1>1. t \in Seq(S) /\ Len(t) = m /\ \A i \in 1..m : rk[t[i][1]] = n + i
  BY <1>a DEF Placed
<1>2. order \in Seq(S) /\ Len(order) = n /\ \A i \in 1..n : rk[order[i][1]] = i
  BY DEF PartRanked
<1>b. t \in Seq(S) /\ Len(t) = m /\ order \in Seq(S) /\ Len(order) = n
  BY <1>1, <1>2
<1> HIDE DEF S, t
<1>3. /\ r \in Seq(S) /\ Len(r) = n + m
      /\ \A i \in 1..n : r[i] = order[i]
      /\ \A i \in 1..m : r[n + i] = t[i]
  BY <1>0, <1>b
<1> HIDE DEF r
<1>4. ASSUME NEW i \in 1..(n + m)
      PROVE  rk[r[i][1]] = i
  <2>1. CASE i \in 1..n
    BY <2>1, <1>2, <1>3
  <2>2. CASE i - n \in 1..m
    <3>1. r[n + (i - n)] = t[i - n] /\ n + (i - n) = i
      BY <2>2, <1>0, <1>3
    <3>2. rk[t[i - n][1]] = n + (i - n)
      BY <2>2, <1>1
    <3> QED
      BY <3>1, <3>2
  <2> QED
    BY <2>1, <2>2, <1>0
<1> QED
  BY <1>0, <1>3, <1>4 DEF PartRanked, r, t, S

LEMMA WholeOrder ==
  ASSUME NEW n \in 0..12, NEW order, NEW rk \in [Block -> 1..13], PartRanked(order, rk, n),
         \A a, b \in Block : rk[a] = rk[b] /\ rk[a] # 13 => a = b,
         \A b \in Block : rk[b] # 13 => rk[b] <= n
  PROVE  Ranked(order, rk)
<1>1. \A k \in 1..n : order[k][1] \in Block /\ order[k][2] \in Phase /\ rk[order[k][1]] = k
  BY DEF PartRanked
<1>2. ASSUME NEW b \in Block, rk[b] # 13
      PROVE  order[rk[b]][1] = b
  <2>1. rk[b] \in 1..n
    BY <1>2
  <2>2. order[rk[b]][1] \in Block /\ rk[order[rk[b]][1]] = rk[b]
    BY <2>1, <1>1
  <2> QED
    BY <2>2, <1>2
<1> QED
  BY <1>1, <1>2 DEF Ranked, PartRanked

\* A migration: streams, control copies, data, images, layout.
MigrateRank ==
  [b \in Block |-> CASE b = "p0" -> 1 [] b = "p1" -> 2 [] b = "s0" -> 3 [] b = "s1" -> 4
                     [] b = "f1" -> 5 [] b = "f0" -> 6 [] b = "fs" -> 7 [] b = "apps" -> 8
                     [] b = "img" -> 9 [] b = "l0" -> 10 [] b = "l1" -> 11 [] OTHER -> 13]

LEMMA MigrateRanked == Ranked(MigrateOrder, MigrateRank)
<1> DEFINE rk == MigrateRank
           t1 == <<"p0", "p1", "s0", "s1">>
           t2 == <<"f1", "f0">>
           t3 == <<"fs", "apps">>
           t4 == <<"img">>
           t5 == <<"l0", "l1">>
           o1 == Phased("stage-recovery", t1)
           o2 == o1 \o Phased("redirect-rom", t2)
           o3 == o2 \o Phased("migrate-data", t3)
           o4 == o3 \o Phased("stage-images", t4)
           o5 == o4 \o Phased("commit-layout", t5)
<1>1. rk \in [Block -> 1..13]
  BY BlockSet DEF MigrateRank
<1>2. /\ rk["p0"] = 1 /\ rk["p1"] = 2 /\ rk["s0"] = 3 /\ rk["s1"] = 4
      /\ rk["f1"] = 5 /\ rk["f0"] = 6 /\ rk["fs"] = 7 /\ rk["apps"] = 8
      /\ rk["img"] = 9 /\ rk["l0"] = 10 /\ rk["l1"] = 11
  BY BlockSet DEF MigrateRank
<1>3. \A a, b \in Block : rk[a] = rk[b] /\ rk[a] # 13 => a = b
  BY BlockSet DEF MigrateRank
<1>4. \A b \in Block : rk[b] # 13 => rk[b] <= 11
  BY BlockSet DEF MigrateRank
<1> HIDE DEF rk
<1>5. Follows("stage-recovery", t1, rk, 0, 4, 4)
  BY <1>2, BlockSet DEF Follows, Phase
<1>6. Follows("redirect-rom", t2, rk, 4, 2, 6)
  BY <1>2, BlockSet DEF Follows, Phase
<1>7. Follows("migrate-data", t3, rk, 6, 2, 8)
  BY <1>2, BlockSet DEF Follows, Phase
<1>8. Follows("stage-images", t4, rk, 8, 1, 9)
  BY <1>2, BlockSet DEF Follows, Phase
<1>9. Follows("commit-layout", t5, rk, 9, 2, 11)
  BY <1>2, BlockSet DEF Follows, Phase
<1> HIDE DEF t1, t2, t3, t4, t5
<1>10. PartRanked(o1, rk, 4)
  BY <1>5, FirstPhase, Zenon
<1> HIDE DEF o1
<1>11. PartRanked(o2, rk, 6)
  BY <1>6, <1>10, NextPhase, Zenon
<1> HIDE DEF o2
<1>12. PartRanked(o3, rk, 8)
  BY <1>7, <1>11, NextPhase, Zenon
<1> HIDE DEF o3
<1>13. PartRanked(o4, rk, 9)
  BY <1>8, <1>12, NextPhase, Zenon
<1> HIDE DEF o4
<1>14. PartRanked(o5, rk, 11)
  BY <1>9, <1>13, NextPhase, Zenon
<1> HIDE DEF o5
<1>15. MigrateOrder = o5
  BY DEF MigrateOrder, o1, o2, o3, o4, o5, t1, t2, t3, t4, t5
<1> QED
  BY <1>1, <1>3, <1>4, <1>14, <1>15, WholeOrder DEF rk

\* HP's system beside a legacy installation.
AddHpRank ==
  [b \in Block |-> CASE b = "p0" -> 1 [] b = "p1" -> 2 [] b = "s0" -> 3 [] b = "s1" -> 4
                     [] b = "f1" -> 5 [] b = "f0" -> 6 [] b = "sys" -> 7 [] b = "fs" -> 8
                     [] b = "img" -> 9 [] b = "l0" -> 10 [] b = "l1" -> 11 [] OTHER -> 13]

LEMMA AddHpRanked == Ranked(AddHpOrder, AddHpRank)
<1> DEFINE rk == AddHpRank
           t1 == <<"p0", "p1", "s0", "s1">>
           t2 == <<"f1", "f0">>
           t3 == <<"sys">>
           t4 == <<"fs">>
           t5 == <<"img">>
           t6 == <<"l0", "l1">>
           o1 == Phased("stage-recovery", t1)
           o2 == o1 \o Phased("redirect-rom", t2)
           o3 == o2 \o Phased("restore-hp-system", t3)
           o4 == o3 \o Phased("migrate-data", t4)
           o5 == o4 \o Phased("stage-images", t5)
           o6 == o5 \o Phased("commit-layout", t6)
<1>1. rk \in [Block -> 1..13]
  BY BlockSet DEF AddHpRank
<1>2. /\ rk["p0"] = 1 /\ rk["p1"] = 2 /\ rk["s0"] = 3 /\ rk["s1"] = 4
      /\ rk["f1"] = 5 /\ rk["f0"] = 6 /\ rk["sys"] = 7 /\ rk["fs"] = 8
      /\ rk["img"] = 9 /\ rk["l0"] = 10 /\ rk["l1"] = 11
  BY BlockSet DEF AddHpRank
<1>3. \A a, b \in Block : rk[a] = rk[b] /\ rk[a] # 13 => a = b
  BY BlockSet DEF AddHpRank
<1>4. \A b \in Block : rk[b] # 13 => rk[b] <= 11
  BY BlockSet DEF AddHpRank
<1> HIDE DEF rk
<1>5. Follows("stage-recovery", t1, rk, 0, 4, 4)
  BY <1>2, BlockSet DEF Follows, Phase
<1>6. Follows("redirect-rom", t2, rk, 4, 2, 6)
  BY <1>2, BlockSet DEF Follows, Phase
<1>7. Follows("restore-hp-system", t3, rk, 6, 1, 7)
  BY <1>2, BlockSet DEF Follows, Phase
<1>8. Follows("migrate-data", t4, rk, 7, 1, 8)
  BY <1>2, BlockSet DEF Follows, Phase
<1>9. Follows("stage-images", t5, rk, 8, 1, 9)
  BY <1>2, BlockSet DEF Follows, Phase
<1>10. Follows("commit-layout", t6, rk, 9, 2, 11)
  BY <1>2, BlockSet DEF Follows, Phase
<1> HIDE DEF t1, t2, t3, t4, t5, t6
<1>11. PartRanked(o1, rk, 4)
  BY <1>5, FirstPhase, Zenon
<1> HIDE DEF o1
<1>12. PartRanked(o2, rk, 6)
  BY <1>6, <1>11, NextPhase, Zenon
<1> HIDE DEF o2
<1>13. PartRanked(o3, rk, 7)
  BY <1>7, <1>12, NextPhase, Zenon
<1> HIDE DEF o3
<1>14. PartRanked(o4, rk, 8)
  BY <1>8, <1>13, NextPhase, Zenon
<1> HIDE DEF o4
<1>15. PartRanked(o5, rk, 9)
  BY <1>9, <1>14, NextPhase, Zenon
<1> HIDE DEF o5
<1>16. PartRanked(o6, rk, 11)
  BY <1>10, <1>15, NextPhase, Zenon
<1> HIDE DEF o6
<1>17. AddHpOrder = o6
  BY DEF AddHpOrder, o1, o2, o3, o4, o5, o6, t1, t2, t3, t4, t5, t6
<1> QED
  BY <1>1, <1>3, <1>4, <1>16, <1>17, WholeOrder DEF rk

\* A restore goes back in the opposite order.
RestoreRank ==
  [b \in Block |-> CASE b = "l0" -> 1 [] b = "l1" -> 2 [] b = "sys" -> 3 [] b = "fs" -> 4
                     [] b = "img" -> 5 [] b = "apps" -> 6 [] b = "f1" -> 7 [] b = "f0" -> 8
                     [] b = "p0" -> 9 [] b = "p1" -> 10 [] b = "s0" -> 11 [] b = "s1" -> 12
                     [] OTHER -> 13]

LEMMA RestoreRanked == Ranked(RestoreOrder, RestoreRank)
<1> DEFINE rk == RestoreRank
           t1 == <<"l0", "l1">>
           t2 == <<"sys", "fs", "img", "apps">>
           t3 == <<"f1", "f0">>
           t4 == <<"p0", "p1", "s0", "s1">>
           o1 == Phased("disable-boot", t1)
           o2 == o1 \o Phased("restore-data", t2)
           o3 == o2 \o Phased("restore-rom", t3)
           o4 == o3 \o Phased("restore-cleanup", t4)
<1>1. rk \in [Block -> 1..13]
  BY BlockSet DEF RestoreRank
<1>2. /\ rk["l0"] = 1 /\ rk["l1"] = 2 /\ rk["sys"] = 3 /\ rk["fs"] = 4
      /\ rk["img"] = 5 /\ rk["apps"] = 6 /\ rk["f1"] = 7 /\ rk["f0"] = 8
      /\ rk["p0"] = 9 /\ rk["p1"] = 10 /\ rk["s0"] = 11 /\ rk["s1"] = 12
  BY BlockSet DEF RestoreRank
<1>3. \A a, b \in Block : rk[a] = rk[b] /\ rk[a] # 13 => a = b
  BY BlockSet DEF RestoreRank
<1>4. \A b \in Block : rk[b] # 13 => rk[b] <= 12
  BY BlockSet DEF RestoreRank
<1> HIDE DEF rk
<1>5. Follows("disable-boot", t1, rk, 0, 2, 2)
  BY <1>2, BlockSet DEF Follows, Phase
<1>6. Follows("restore-data", t2, rk, 2, 4, 6)
  BY <1>2, BlockSet DEF Follows, Phase
<1>7. Follows("restore-rom", t3, rk, 6, 2, 8)
  BY <1>2, BlockSet DEF Follows, Phase
<1>8. Follows("restore-cleanup", t4, rk, 8, 4, 12)
  BY <1>2, BlockSet DEF Follows, Phase
<1> HIDE DEF t1, t2, t3, t4
<1>9. PartRanked(o1, rk, 2)
  BY <1>5, FirstPhase, Zenon
<1> HIDE DEF o1
<1>10. PartRanked(o2, rk, 6)
  BY <1>6, <1>9, NextPhase, Zenon
<1> HIDE DEF o2
<1>11. PartRanked(o3, rk, 8)
  BY <1>7, <1>10, NextPhase, Zenon
<1> HIDE DEF o3
<1>12. PartRanked(o4, rk, 12)
  BY <1>8, <1>11, NextPhase, Zenon
<1> HIDE DEF o4
<1>13. RestoreOrder = o4
  BY DEF RestoreOrder, o1, o2, o3, o4, t1, t2, t3, t4
<1> QED
  BY <1>1, <1>3, <1>4, <1>12, <1>13, WholeOrder DEF rk

\* A refresh: the second stream before the first.
RefreshRank ==
  [b \in Block |-> CASE b = "f1" -> 1 [] b = "f0" -> 2 [] b = "s0" -> 3 [] b = "s1" -> 4
                     [] b = "p0" -> 5 [] b = "p1" -> 6 [] b = "img" -> 7 [] b = "l1" -> 8
                     [] b = "l0" -> 9 [] OTHER -> 13]

LEMMA RefreshRanked == Ranked(RefreshOrder, RefreshRank)
<1> DEFINE rk == RefreshRank
           t1 == <<"f1", "f0">>
           t2 == <<"s0", "s1", "p0", "p1">>
           t3 == <<"img">>
           t4 == <<"l1", "l0">>
           o1 == Phased("redirect-rom", t1)
           o2 == o1 \o Phased("stage-recovery", t2)
           o3 == o2 \o Phased("stage-images", t3)
           o4 == o3 \o Phased("commit-layout", t4)
<1>1. rk \in [Block -> 1..13]
  BY BlockSet DEF RefreshRank
<1>2. /\ rk["f1"] = 1 /\ rk["f0"] = 2 /\ rk["s0"] = 3 /\ rk["s1"] = 4
      /\ rk["p0"] = 5 /\ rk["p1"] = 6 /\ rk["img"] = 7 /\ rk["l1"] = 8
      /\ rk["l0"] = 9
  BY BlockSet DEF RefreshRank
<1>3. \A a, b \in Block : rk[a] = rk[b] /\ rk[a] # 13 => a = b
  BY BlockSet DEF RefreshRank
<1>4. \A b \in Block : rk[b] # 13 => rk[b] <= 9
  BY BlockSet DEF RefreshRank
<1> HIDE DEF rk
<1>5. Follows("redirect-rom", t1, rk, 0, 2, 2)
  BY <1>2, BlockSet DEF Follows, Phase
<1>6. Follows("stage-recovery", t2, rk, 2, 4, 6)
  BY <1>2, BlockSet DEF Follows, Phase
<1>7. Follows("stage-images", t3, rk, 6, 1, 7)
  BY <1>2, BlockSet DEF Follows, Phase
<1>8. Follows("commit-layout", t4, rk, 7, 2, 9)
  BY <1>2, BlockSet DEF Follows, Phase
<1> HIDE DEF t1, t2, t3, t4
<1>9. PartRanked(o1, rk, 2)
  BY <1>5, FirstPhase, Zenon
<1> HIDE DEF o1
<1>10. PartRanked(o2, rk, 6)
  BY <1>6, <1>9, NextPhase, Zenon
<1> HIDE DEF o2
<1>11. PartRanked(o3, rk, 7)
  BY <1>7, <1>10, NextPhase, Zenon
<1> HIDE DEF o3
<1>12. PartRanked(o4, rk, 9)
  BY <1>8, <1>11, NextPhase, Zenon
<1> HIDE DEF o4
<1>13. RefreshOrder = o4
  BY DEF RefreshOrder, o1, o2, o3, o4, t1, t2, t3, t4
<1> QED
  BY <1>1, <1>3, <1>4, <1>12, <1>13, WholeOrder DEF rk

-----------------------------------------------------------------------------
\* How far a board has followed a list of changes: the first i read as written,
\* the later ones as captured, the next one too unless it is open.

ChangeList(c, n0) ==
  /\ \A k \in 1..Len(c) : /\ c[k].block \in Block /\ c[k].before = n0[c[k].block]
                          /\ c[k].before # c[k].after
  /\ \A k, l \in 1..Len(c) : c[k].block = c[l].block => k = l

Upto(n, n0, c, i, open) ==
  /\ \A k \in 1..Len(c) : k <= i => n[c[k].block] = c[k].after
  /\ \A k \in 1..Len(c) : k > i + 1 \/ (k = i + 1 /\ ~open) => n[c[k].block] = c[k].before
  /\ \A b \in Block : (\A k \in 1..Len(c) : c[k].block # b) => n[b] = n0[b]

\* A plan is such a list.
LEMMA PlanList ==
  ASSUME NEW n0, NEW d, NEW order, NEW rk, Ranked(order, rk),
         NEW c, Len(c) \in Nat, NEW m, PlanTo(c, n0, d, rk, m)
  PROVE  ChangeList(c, n0)
<1>1. \A k \in 1..Len(c) : c[k].block \in Block /\ rk[c[k].block] \in Nat
  BY RankNat DEF PlanTo, ChangesAre
<1>2. ASSUME NEW k \in 1..Len(c), NEW l \in 1..Len(c), c[k].block = c[l].block, k # l
      PROVE  FALSE
  <2>1. CASE k < l
    BY <1>1, <1>2, <2>1 DEF PlanTo, ChangesAre
  <2>2. CASE l < k
    BY <1>1, <1>2, <2>2 DEF PlanTo, ChangesAre
  <2> QED
    BY <1>2, <2>1, <2>2
<1> QED
  BY <1>2 DEF ChangeList, PlanTo, ChangesAre

LEMMA FirstOnes ==
  ASSUME NEW S, NEW c \in Seq(S), NEW i \in 0..Len(c)
  PROVE  /\ SubSeq(c, 1, i) \in Seq(S) /\ Len(SubSeq(c, 1, i)) = i
         /\ \A k \in 1..i : SubSeq(c, 1, i)[k] = c[k]
OBVIOUS

\* What the first i changes promise.
LEMMA PromisedIs ==
  ASSUME NEW S, NEW c \in Seq(S), NEW n0, ChangeList(c, n0), NEW i \in 0..Len(c),
         NEW b \in Block
  PROVE  LET P == Promised(n0, SubSeq(c, 1, i))
         IN  /\ \A k \in 1..i : c[k].block = b => P[b] = c[k].after
             /\ (\A k \in 1..i : c[k].block # b) => P[b] = n0[b]
<1> DEFINE s == SubSeq(c, 1, i)
           P == Promised(n0, s)
<1>1. Len(s) = i /\ \A k \in 1..i : s[k] = c[k]
  BY FirstOnes
<1> HIDE DEF s
<1>2. ASSUME NEW k \in 1..i, c[k].block = b
      PROVE  P[b] = c[k].after
  <2> DEFINE all == {s[l] : l \in 1..Len(s)}
             e == CHOOSE x \in all : x.block = b
  <2>1. s[k] \in all /\ s[k].block = b
    BY <1>1, <1>2
  <2>2. e \in all /\ e.block = b
    BY <2>1
  <2>3. PICK l \in 1..i : e = s[l]
    BY <2>2, <1>1
  <2>4. c[l].block = b
    BY <2>2, <2>3, <1>1
  <2>5. k \in 1..Len(c) /\ l \in 1..Len(c)
    OBVIOUS
  <2>6. k = l
    BY <1>2, <2>4, <2>5 DEF ChangeList
  <2>7. P[b] = e.after
    BY <1>1, <1>2 DEF Promised
  <2> QED
    BY <2>3, <2>6, <2>7, <1>1
<1>3. (\A k \in 1..i : c[k].block # b) => P[b] = n0[b]
  BY <1>1 DEF Promised
<1> QED
  BY <1>2, <1>3 DEF s

\* The board of the first i changes, the next one's block left open or not.
Agrees(n, n0, c, i, mutable) ==
  \A b \in Block \ mutable : n[b] = Promised(n0, SubSeq(c, 1, i))[b]

LEMMA AgreesUpto ==
  ASSUME NEW S, NEW c \in Seq(S), NEW n0, ChangeList(c, n0), NEW i \in 0..Len(c),
         NEW n, NEW open \in BOOLEAN, open => i < Len(c)
  PROVE  Agrees(n, n0, c, i, IF open THEN {c[i + 1].block} ELSE {}) <=> Upto(n, n0, c, i, open)
<1> DEFINE P == Promised(n0, SubSeq(c, 1, i))
           mutable == IF open THEN {c[i + 1].block} ELSE {}
<1>1. \A k \in 1..Len(c) : c[k].block \in Block /\ c[k].before = n0[c[k].block]
  BY DEF ChangeList
<1>2. \A k, l \in 1..Len(c) : c[k].block = c[l].block => k = l
  BY DEF ChangeList
<1>3. \A b \in Block : /\ \A k \in 1..i : c[k].block = b => P[b] = c[k].after
                       /\ (\A k \in 1..i : c[k].block # b) => P[b] = n0[b]
  BY PromisedIs
<1> HIDE DEF P
<1>4. Len(c) \in Nat /\ i \in Nat /\ i <= Len(c)
  OBVIOUS
<1>5. \A k \in 1..i : k \in 1..Len(c)
  BY <1>4
<1>6. ASSUME Agrees(n, n0, c, i, mutable)
      PROVE  Upto(n, n0, c, i, open)
  <2>0. \A b \in Block : b \notin mutable => n[b] = P[b]
    BY <1>6 DEF Agrees, P
  <2>1. ASSUME NEW k \in 1..Len(c), k <= i
        PROVE  n[c[k].block] = c[k].after
    <3>1. c[k].block \notin mutable
      BY <2>1, <1>2, <1>4
    <3>2. k \in 1..i
      BY <2>1, <1>4
    <3> QED
      BY <3>1, <3>2, <2>0, <1>1, <1>3
  <2>2. ASSUME NEW k \in 1..Len(c), k > i + 1 \/ (k = i + 1 /\ ~open)
        PROVE  n[c[k].block] = c[k].before
    <3>1. c[k].block \notin mutable
      BY <2>2, <1>2, <1>4
    <3>2. \A l \in 1..i : c[l].block # c[k].block
      BY <2>2, <1>2, <1>4, <1>5
    <3> QED
      BY <3>1, <3>2, <2>0, <1>1, <1>3
  <2>3. ASSUME NEW b \in Block, \A k \in 1..Len(c) : c[k].block # b
        PROVE  n[b] = n0[b]
    <3>1. b \notin mutable
      BY <2>3, <1>4
    <3> QED
      BY <3>1, <2>3, <2>0, <1>3, <1>5
  <2> QED
    BY <2>1, <2>2, <2>3 DEF Upto
<1>7. ASSUME Upto(n, n0, c, i, open)
      PROVE  Agrees(n, n0, c, i, mutable)
  <2> SUFFICES ASSUME NEW b \in Block, b \notin mutable
               PROVE  n[b] = P[b]
    BY DEF Agrees, P
  <2>1. CASE \E k \in 1..i : c[k].block = b
    <3>1. PICK k \in 1..i : c[k].block = b
      BY <2>1
    <3>2. P[b] = c[k].after
      BY <3>1, <1>3
    <3>3. k \in 1..Len(c) /\ k <= i
      BY <1>4
    <3> QED
      BY <1>7, <3>1, <3>2, <3>3 DEF Upto
  <2>2. CASE \A k \in 1..i : c[k].block # b
    <3>1. P[b] = n0[b]
      BY <2>2, <1>3
    <3>2. CASE \A k \in 1..Len(c) : c[k].block # b
      BY <3>1, <3>2, <1>7 DEF Upto
    <3>3. CASE \E k \in 1..Len(c) : c[k].block = b
      <4>1. PICK k \in 1..Len(c) : c[k].block = b
        BY <3>3
      <4>2. ~(k <= i)
        BY <4>1, <2>2, <1>4
      <4>3. k = i + 1 => ~open
        BY <4>1, <1>4
      <4>4. n[b] = c[k].before
        BY <4>1, <4>2, <4>3, <1>4, <1>7 DEF Upto
      <4> QED
        BY <4>1, <4>4, <3>1, <1>1
    <3> QED
      BY <3>2, <3>3
  <2> QED
    BY <2>1, <2>2
<1> QED
  BY <1>6, <1>7

-----------------------------------------------------------------------------
\* Steps along a list of changes.

LEMMA UptoStart ==
  ASSUME NEW n, NEW n0, NEW c, Len(c) \in Nat, ChangeList(c, n0),
         \A b \in Block : n[b] = n0[b], NEW open
  PROVE  Upto(n, n0, c, 0, open)
BY DEF Upto, ChangeList

LEMMA UptoOpen ==
  ASSUME NEW n, NEW n0, NEW c, NEW i, Upto(n, n0, c, i, FALSE)
  PROVE  \A open \in BOOLEAN : Upto(n, n0, c, i, open)
BY DEF Upto

LEMMA UptoDone ==
  ASSUME NEW n, NEW n0, NEW c, Len(c) \in Nat, NEW i \in Nat, i < Len(c),
         Upto(n, n0, c, i, TRUE), n[c[i + 1].block] = c[i + 1].after
  PROVE  Upto(n, n0, c, i + 1, FALSE)
<1>1. ASSUME NEW k \in 1..Len(c), k <= i + 1
      PROVE  n[c[k].block] = c[k].after
  <2>1. k <= i \/ k = i + 1
    BY <1>1
  <2> QED
    BY <2>1 DEF Upto
<1>2. ASSUME NEW k \in 1..Len(c), k > (i + 1) + 1 \/ k = (i + 1) + 1
      PROVE  n[c[k].block] = c[k].before
  <2>1. k > i + 1
    BY <1>2
  <2> QED
    BY <2>1 DEF Upto
<1> QED
  BY <1>1, <1>2 DEF Upto

LEMMA UptoWrite ==
  ASSUME NEW n0, NEW S, NEW n \in [Block -> S], NEW c, Len(c) \in Nat, ChangeList(c, n0),
         NEW i \in Nat, i < Len(c), Upto(n, n0, c, i, TRUE), NEW x
  PROVE  Upto([n EXCEPT ![c[i + 1].block] = x], n0, c, i, TRUE)
<1> DEFINE m == [n EXCEPT ![c[i + 1].block] = x]
<1>1. i + 1 \in 1..Len(c)
  OBVIOUS
<1>2. \A b \in Block : b # c[i + 1].block => m[b] = n[b]
  OBVIOUS
<1> HIDE DEF m
<1>3. ASSUME NEW k \in 1..Len(c), k # i + 1
      PROVE  m[c[k].block] = n[c[k].block]
  BY <1>1, <1>2, <1>3 DEF ChangeList
<1>4. ASSUME NEW k \in 1..Len(c), k <= i
      PROVE  m[c[k].block] = c[k].after
  BY <1>3, <1>4 DEF Upto
<1>5. ASSUME NEW k \in 1..Len(c), k > i + 1
      PROVE  m[c[k].block] = c[k].before
  BY <1>3, <1>5 DEF Upto
<1>6. ASSUME NEW b \in Block, \A k \in 1..Len(c) : c[k].block # b
      PROVE  m[b] = n0[b]
  <2>1. b # c[i + 1].block
    BY <1>1, <1>6
  <2> QED
    BY <2>1, <1>2, <1>6 DEF Upto
<1>7. Upto(m, n0, c, i, TRUE)
  BY <1>4, <1>5, <1>6 DEF Upto
<1> QED
  BY <1>7 DEF m

\* A board that has begun is not the captured one.
LEMMA UptoBegun ==
  ASSUME NEW n, NEW n0, NEW c, Len(c) \in Nat, ChangeList(c, n0),
         NEW i \in Nat, 0 < i, 0 < Len(c), NEW open, Upto(n, n0, c, i, open)
  PROVE  n[c[1].block] = c[1].after /\ n[c[1].block] # n0[c[1].block] /\ c[1].block \in Block
<1>1. 1 \in 1..Len(c) /\ 1 <= i
  OBVIOUS
<1> QED
  BY <1>1 DEF Upto, ChangeList

\* A board that reads complete has at most its last record to come.
LEMMA UptoAll ==
  ASSUME NEW n, NEW n0, NEW c, Len(c) \in Nat, 0 < Len(c), ChangeList(c, n0),
         NEW i \in 0..Len(c), NEW open \in BOOLEAN, Upto(n, n0, c, i, open),
         Upto(n, n0, c, Len(c), FALSE)
  PROVE  i = Len(c) \/ (i = Len(c) - 1 /\ open)
<1>1. ASSUME NEW k \in 1..Len(c)
      PROVE  ~(k > i + 1 \/ (k = i + 1 /\ ~open))
  BY <1>1 DEF Upto, ChangeList
<1>2. CASE i < Len(c) - 1
  <2>1. Len(c) \in 1..Len(c) /\ Len(c) > i + 1
    BY <1>2
  <2> QED
    BY <2>1, <1>1
<1>3. CASE i = Len(c) - 1
  <2>1. Len(c) \in 1..Len(c) /\ Len(c) = i + 1
    BY <1>3
  <2> QED
    BY <2>1, <1>1, <1>3
<1> QED
  BY <1>2, <1>3

LEMMA UptoLast ==
  ASSUME NEW n, NEW n0, NEW c, Len(c) \in Nat, 0 < Len(c), Upto(n, n0, c, Len(c), FALSE)
  PROVE  Upto(n, n0, c, Len(c) - 1, TRUE)
<1>1. \A k \in 1..Len(c) : ~(k > (Len(c) - 1) + 1)
  OBVIOUS
<1> QED
  BY <1>1 DEF Upto

LEMMA UptoSame ==
  ASSUME NEW n, NEW n0, NEW c, Len(c) \in Nat, ChangeList(c, n0), NEW open,
         Upto(n, n0, c, 0, FALSE)
  PROVE  \A b \in Block : n[b] = n0[b]
<1> SUFFICES ASSUME NEW b \in Block
             PROVE  n[b] = n0[b]
  OBVIOUS
<1>1. CASE \A k \in 1..Len(c) : c[k].block # b
  BY <1>1 DEF Upto
<1>2. CASE \E k \in 1..Len(c) : c[k].block = b
  <2>1. PICK k \in 1..Len(c) : c[k].block = b
    BY <1>2
  <2>2. k > 0 + 1 \/ k = 0 + 1
    OBVIOUS
  <2> QED
    BY <2>1, <2>2 DEF Upto, ChangeList
<1> QED
  BY <1>1, <1>2

-----------------------------------------------------------------------------
\* Such a board by rank: the places before r are done, those after it are not.

Prefix(n, n0, d, rk, r) ==
  \A b \in Block : /\ rk[b] < r => n[b] = d[b]
                   /\ rk[b] > r \/ rk[b] = 13 => n[b] = n0[b]

LEMMA UptoPrefix ==
  ASSUME NEW n, NEW n0, NEW d, NEW order, NEW rk, Ranked(order, rk),
         NEW c, Len(c) \in Nat, PlanTo(c, n0, d, rk, 12), NEW i \in Nat, i < Len(c),
         NEW open, Upto(n, n0, c, i, open)
  PROVE  /\ c[i + 1].block \in Block /\ rk[c[i + 1].block] \in 1..12
         /\ Prefix(n, n0, d, rk, rk[c[i + 1].block])
<1> DEFINE x == c[i + 1].block
<1>0. i + 1 \in 1..Len(c)
  OBVIOUS
<1>1. x \in Block /\ rk[x] \in 1..13 /\ rk[x] <= 12
  BY <1>0, RankNat DEF PlanTo, ChangesAre
<1>2. \A k \in 1..Len(c) : /\ rk[c[k].block] \in Nat
                           /\ c[k].before = n0[c[k].block] /\ c[k].after = d[c[k].block]
  BY RankNat DEF PlanTo, ChangesAre
<1>3. ASSUME NEW b \in Block, rk[b] < rk[x]
      PROVE  n[b] = d[b]
  <2>0. rk[b] \in Nat /\ rk[x] \in Nat /\ rk[b] <= 12
    BY RankNat, <1>1, <1>3
  <2>1. CASE \E k \in 1..Len(c) : c[k].block = b
    <3>1. PICK k \in 1..Len(c) : c[k].block = b
      BY <2>1
    <3>2. ~(i + 1 < k) /\ k # i + 1
      BY <1>0, <1>3, <2>0, <3>1 DEF PlanTo, ChangesAre
    <3>3. k <= i
      BY <3>2
    <3> QED
      BY <3>1, <3>3, <1>2 DEF Upto
  <2>2. CASE \A k \in 1..Len(c) : c[k].block # b
    BY <2>0, <2>2 DEF Upto, PlanTo
  <2> QED
    BY <2>1, <2>2
<1>4. ASSUME NEW b \in Block, rk[b] > rk[x] \/ rk[b] = 13
      PROVE  n[b] = n0[b]
  <2>0. rk[b] \in Nat /\ rk[x] \in Nat /\ rk[b] > rk[x]
    BY RankNat, <1>1, <1>4
  <2>1. CASE \E k \in 1..Len(c) : c[k].block = b
    <3>1. PICK k \in 1..Len(c) : c[k].block = b
      BY <2>1
    <3>2. ~(k < i + 1) /\ k # i + 1
      BY <1>0, <2>0, <3>1 DEF PlanTo, ChangesAre
    <3>3. k > i + 1
      BY <3>2
    <3> QED
      BY <3>1, <3>3, <1>2 DEF Upto
  <2>2. CASE \A k \in 1..Len(c) : c[k].block # b
    BY <2>2 DEF Upto
  <2> QED
    BY <2>1, <2>2
<1>5. Prefix(n, n0, d, rk, rk[x])
  BY <1>3, <1>4 DEF Prefix
<1> QED
  BY <1>1, <1>5

\* The board of a whole plan.
LEMMA UptoWhole ==
  ASSUME NEW n, NEW n0, NEW d, NEW order, NEW rk, Ranked(order, rk),
         NEW c, Len(c) \in Nat, PlanTo(c, n0, d, rk, 12), Upto(n, n0, c, Len(c), FALSE)
  PROVE  Prefix(n, n0, d, rk, 13)
<1>2. \A k \in 1..Len(c) : /\ rk[c[k].block] \in Nat /\ rk[c[k].block] <= 12
                           /\ c[k].after = d[c[k].block]
  BY RankNat DEF PlanTo, ChangesAre
<1>3. ASSUME NEW b \in Block, rk[b] < 13
      PROVE  n[b] = d[b]
  <2>0. rk[b] \in Nat /\ rk[b] <= 12
    BY RankNat, <1>3
  <2>1. CASE \E k \in 1..Len(c) : c[k].block = b
    <3>1. PICK k \in 1..Len(c) : c[k].block = b
      BY <2>1
    <3> QED
      BY <3>1, <1>2 DEF Upto
  <2>2. CASE \A k \in 1..Len(c) : c[k].block # b
    BY <2>0, <2>2 DEF Upto, PlanTo
  <2> QED
    BY <2>1, <2>2
<1>4. ASSUME NEW b \in Block, rk[b] > 13 \/ rk[b] = 13
      PROVE  n[b] = n0[b]
  <2>0. rk[b] \in Nat /\ ~(rk[b] <= 12)
    BY RankNat, <1>4
  <2>2. \A k \in 1..Len(c) : c[k].block # b
    BY <1>2, <2>0
  <2> QED
    BY <2>2 DEF Upto
<1> QED
  BY <1>3, <1>4 DEF Prefix

-----------------------------------------------------------------------------
\* Boards something whole boots from.

SysOf(n, S) == \A b \in UserData \cup {"img", "sys"} : n[b].is = S
Gone(x) == x.is \in {"blank", "torn"}

\* If the loader would start its system, the data is that system's.
NoBadData(n) ==
  (\E l \in Layout : n[l].is = "dual") /\ n["img"].is = "dual" => DualData(n)

OldBoots(n, S) ==
  /\ n["f0"].is = S \/ (Gone(n["f0"]) /\ n["f1"].is = S)
  /\ SysOf(n, S)

LoaderWhole(n) ==
  /\ NoBadData(n)
  /\ \/ n["f0"].is = "dual" /\ StreamWhole(n, "f0", 1)
     \/ Gone(n["f0"]) /\ n["f1"].is = "dual" /\ StreamWhole(n, "f1", 1)

Whole(n) == (\E S \in {"stock", "legacy"} : OldBoots(n, S)) \/ LoaderWhole(n)

\* An installed loader under a refresh: some control copy and some stream, over
\* data of its own.
Routed(n) ==
  /\ n["sys"].is = "stock" /\ n["fs"].is = "dual" /\ n["apps"].is = "dual"
  /\ \A f \in Control : n[f].is = "dual" \/ Gone(n[f])
  /\ \E f \in Control : n[f].is = "dual"
  /\ StreamLoads(n, 1) \/ StreamLoads(n, 2)

LEMMA FirstLoading ==
  ASSUME NEW n, NEW k \in Loading(n), \A j \in Loading(n) : k <= j
  PROVE  (CHOOSE i \in Loading(n) : \A j \in Loading(n) : i <= j) = k
<1>1. \A i \in Loading(n) : i \in Nat
  BY DEF Loading
<1> DEFINE e == CHOOSE i \in Loading(n) : \A j \in Loading(n) : i <= j
<1>2. e \in Loading(n) /\ \A j \in Loading(n) : e <= j
  BY Zenon
<1> HIDE DEF e
<1>3. e = k
  BY <1>1, <1>2
<1> QED
  BY <1>3 DEF e

LEMMA SearchIs ==
  /\ Search[1][1] = "f0" /\ Search[2][1] = "f0" /\ Search[3][1] = "f1" /\ Search[4][1] = "f1"
  /\ Search[1][2] = 1 /\ Search[2][2] = 2 /\ Search[3][2] = 1 /\ Search[4][2] = 2
BY DEF Search

\* Boot, without its LET.
BootOf(n, fcb, copy) ==
  IF n[fcb].is # "dual"
  THEN IF \A b \in UserData \cup {"img"} : n[b].is = n[fcb].is THEN n[fcb].is ELSE "broken"
  ELSE IF ~StreamWhole(n, fcb, copy) THEN "mixed"
  ELSE IF ~LoaderBoots(n) THEN "recovery"
  ELSE IF DualData(n) THEN "dual" ELSE "broken"

LEMMA BootIs ==
  ASSUME NEW n, NEW k \in Loading(n), \A j \in Loading(n) : k <= j
  PROVE  Boot(n) = BootOf(n, Search[k][1], Search[k][2])
<1> DEFINE e == CHOOSE i \in Loading(n) : \A j \in Loading(n) : i <= j
<1>1. e = k
  BY FirstLoading
<1>2. Loading(n) # {}
  OBVIOUS
<1>3. Boot(n) = IF Loading(n) = {} THEN "none" ELSE BootOf(n, Search[e][1], Search[e][2])
  BY DEF Boot, BootOf
<1> HIDE DEF e
<1> QED
  BY <1>1, <1>2, <1>3

LEMMA OldBootsItself ==
  ASSUME NEW n, NEW S \in {"stock", "legacy"}, OldBoots(n, S)
  PROVE  Boot(n) = S
<1>1. \A b \in UserData \cup {"img"} : n[b].is = S
  BY DEF OldBoots, SysOf
<1>2. n["sys"].is = S
  BY DEF OldBoots, SysOf
<1>3. CASE n["f0"].is = S
  <2>1. FirmwareLoads(n, "f0", 1)
    BY <1>2, <1>3 DEF FirmwareLoads
  <2>2. 1 \in Loading(n) /\ \A j \in Loading(n) : 1 <= j
    BY <2>1, SearchIs DEF Loading
  <2>3. Boot(n) = BootOf(n, "f0", 1)
    BY <2>2, BootIs, SearchIs
  <2> QED
    BY <2>3, <1>1, <1>3 DEF BootOf
<1>4. CASE Gone(n["f0"]) /\ n["f1"].is = S
  <2>1. FirmwareLoads(n, "f1", 1) /\ ~FirmwareLoads(n, "f0", 1) /\ ~FirmwareLoads(n, "f0", 2)
    BY <1>2, <1>4 DEF FirmwareLoads, Gone
  <2>2. 3 \in Loading(n) /\ \A j \in Loading(n) : 3 <= j
    BY <2>1, SearchIs DEF Loading
  <2>3. Boot(n) = BootOf(n, "f1", 1)
    BY <2>2, BootIs, SearchIs
  <2> QED
    BY <2>3, <1>1, <1>4 DEF BootOf
<1> QED
  BY <1>3, <1>4 DEF OldBoots

LEMMA WholeLoads ==
  ASSUME NEW n, NEW f, StreamWhole(n, f, 1)
  PROVE  StreamLoads(n, 1)
BY DEF StreamWhole, StreamLoads, StreamBlocks

LEMMA CommittedRecord ==
  ASSUME NEW n, Committed(n)
  PROVE  \E l \in Layout : n[l].is = "dual"
BY DEF Committed, SelectedRelease, ValidRecords

\* A whole loader starts its own system or falls back to its recovery.
LEMMA LoaderBootsWhole ==
  ASSUME NEW n, LoaderWhole(n)
  PROVE  Boot(n) = IF LoaderBoots(n) THEN "dual" ELSE "recovery"
<1>1. LoaderBoots(n) => DualData(n)
  BY CommittedRecord DEF LoaderWhole, NoBadData, LoaderBoots, Of
<1>2. CASE n["f0"].is = "dual" /\ StreamWhole(n, "f0", 1)
  <2>1. FirmwareLoads(n, "f0", 1)
    BY <1>2, WholeLoads DEF FirmwareLoads
  <2>2. 1 \in Loading(n) /\ \A j \in Loading(n) : 1 <= j
    BY <2>1, SearchIs DEF Loading
  <2>3. Boot(n) = BootOf(n, "f0", 1)
    BY <2>2, BootIs, SearchIs
  <2> QED
    BY <2>3, <1>1, <1>2 DEF BootOf
<1>3. CASE Gone(n["f0"]) /\ n["f1"].is = "dual" /\ StreamWhole(n, "f1", 1)
  <2>1. FirmwareLoads(n, "f1", 1) /\ ~FirmwareLoads(n, "f0", 1) /\ ~FirmwareLoads(n, "f0", 2)
    BY <1>3, WholeLoads DEF FirmwareLoads, Gone
  <2>2. 3 \in Loading(n) /\ \A j \in Loading(n) : 3 <= j
    BY <2>1, SearchIs DEF Loading
  <2>3. Boot(n) = BootOf(n, "f1", 1)
    BY <2>2, BootIs, SearchIs
  <2> QED
    BY <2>3, <1>1, <1>3 DEF BootOf
<1> QED
  BY <1>2, <1>3 DEF LoaderWhole

LEMMA WholeBoots ==
  ASSUME NEW n, Whole(n)
  PROVE  Boot(n) \notin {"none", "broken", "mixed"}
BY OldBootsItself, LoaderBootsWhole DEF Whole

LEMMA LeastLoading ==
  ASSUME NEW n, Loading(n) # {}
  PROVE  \E k \in Loading(n) : \A j \in Loading(n) : k <= j
<1>1. Loading(n) \subseteq 1..4
  BY DEF Loading
<1>2. CASE 1 \in Loading(n)
  BY <1>1, <1>2
<1>3. CASE 1 \notin Loading(n) /\ 2 \in Loading(n)
  BY <1>1, <1>3
<1>4. CASE 1 \notin Loading(n) /\ 2 \notin Loading(n) /\ 3 \in Loading(n)
  BY <1>1, <1>4
<1>5. CASE 1 \notin Loading(n) /\ 2 \notin Loading(n) /\ 3 \notin Loading(n)
  BY <1>1, <1>5
<1> QED
  BY <1>2, <1>3, <1>4, <1>5

LEMMA RoutedBoots ==
  ASSUME NEW n, Routed(n)
  PROVE  Boot(n) \notin {"none", "broken"}
<1>1. DualData(n)
  BY DEF Routed, DualData
<1>2. Loading(n) # {}
  <2>1. PICK f \in Control : n[f].is = "dual"
    BY DEF Routed
  <2>2. FirmwareLoads(n, f, 1) \/ FirmwareLoads(n, f, 2)
    BY <2>1 DEF Routed, FirmwareLoads
  <2>3. f = "f0" \/ f = "f1"
    BY BlockParts
  <2>4. 1 \in 1..4 /\ 2 \in 1..4 /\ 3 \in 1..4 /\ 4 \in 1..4
    OBVIOUS
  <2>5. 1 \in Loading(n) \/ 2 \in Loading(n) \/ 3 \in Loading(n) \/ 4 \in Loading(n)
    BY <2>2, <2>3, <2>4, SearchIs DEF Loading
  <2> QED
    BY <2>5
<1>3. PICK k \in Loading(n) : \A j \in Loading(n) : k <= j
  BY <1>2, LeastLoading
<1>4. Boot(n) = BootOf(n, Search[k][1], Search[k][2])
  BY <1>3, BootIs
<1>5. n[Search[k][1]].is = "dual"
  <2>1. k \in 1..4 /\ FirmwareLoads(n, Search[k][1], Search[k][2])
    BY DEF Loading
  <2>2. Search[k][1] \in Control
    BY <2>1, SearchIs, BlockParts
  <2> QED
    BY <2>1, <2>2 DEF FirmwareLoads, Routed, Gone
<1> QED
  BY <1>1, <1>4, <1>5 DEF BootOf

-----------------------------------------------------------------------------
\* The calculator in use: a system writes its own data.

\* m is n after the booted system wrote block b.
Used(n, m, b) ==
  /\ \A x \in Block : x # b => m[x] = n[x]
  /\ \/ Boot(n) = "dual" /\ m[b].is = "dual"
     \/ Boot(n) \in {"stock", "legacy"} /\ m[b].is = n[b].is

LEMMA UseSame ==
  ASSUME NEW n, NEW m, NEW b \in UserData, Used(n, m, b)
  PROVE  /\ \A x \in Block \ UserData : m[x] = n[x]
         /\ \A f, copy : f \in Control /\ copy \in {1, 2} => (StreamWhole(m, f, copy) <=> StreamWhole(n, f, copy))
         /\ \A copy \in {1, 2} : StreamLoads(m, copy) <=> StreamLoads(n, copy)
<1>1. \A x \in Block \ UserData : m[x] = n[x]
  BY BlockSet, BlockParts DEF Used
<1>2. /\ m["p0"] = n["p0"] /\ m["p1"] = n["p1"] /\ m["s0"] = n["s0"] /\ m["s1"] = n["s1"]
      /\ m["f0"] = n["f0"] /\ m["f1"] = n["f1"]
  BY <1>1, BlockSet, BlockParts
<1> QED
  BY <1>1, <1>2, BlockParts DEF StreamWhole, StreamLoads, StreamBlocks

LEMMA UseWhole ==
  ASSUME NEW n, NEW m, NEW b \in UserData, Used(n, m, b), Whole(n)
  PROVE  Whole(m)
<1>1. /\ \A x \in {"f0", "f1", "l0", "l1", "img", "sys"} : m[x] = n[x]
      /\ \A x \in UserData : x # b => m[x] = n[x]
  BY BlockSet, BlockParts DEF Used
<1>2. CASE \E S \in {"stock", "legacy"} : OldBoots(n, S)
  <2>1. PICK S \in {"stock", "legacy"} : OldBoots(n, S)
    BY <1>2
  <2>2. Boot(n) = S
    BY <2>1, OldBootsItself
  <2>3. m[b].is = n[b].is
    BY <2>1, <2>2 DEF Used
  <2>4. SysOf(m, S)
    BY <1>1, <2>1, <2>3 DEF OldBoots, SysOf
  <2>5. OldBoots(m, S)
    BY <1>1, <2>1, <2>4 DEF OldBoots
  <2> QED
    BY <2>5 DEF Whole
<1>3. CASE LoaderWhole(n)
  <2>1. Boot(n) = "dual"
    BY <1>3, LoaderBootsWhole DEF Used
  <2>2. LoaderBoots(n)
    BY <1>3, <2>1, LoaderBootsWhole
  <2>3. DualData(n)
    BY <1>3, <2>2, CommittedRecord DEF LoaderWhole, NoBadData, LoaderBoots, Of
  <2>4. m[b].is = "dual"
    BY <2>1 DEF Used
  <2>5. DualData(m)
    BY <1>1, <2>3, <2>4, BlockParts DEF DualData
  <2>6. \A f \in {"f0", "f1"} : StreamWhole(n, f, 1) => StreamWhole(m, f, 1)
    BY UseSame, BlockParts
  <2>7. LoaderWhole(m)
    BY <1>1, <1>3, <2>5, <2>6 DEF LoaderWhole, NoBadData
  <2> QED
    BY <2>7 DEF Whole
<1> QED
  BY <1>2, <1>3 DEF Whole

LEMMA UseRouted ==
  ASSUME NEW n, NEW m, NEW b \in UserData, Used(n, m, b), Routed(n)
  PROVE  Routed(m)
<1>1. /\ \A x \in {"f0", "f1", "l0", "l1", "img", "sys"} : m[x] = n[x]
      /\ \A x \in UserData : x # b => m[x] = n[x]
  BY BlockSet, BlockParts DEF Used
<1>2. m[b].is = "dual"
  BY BlockParts DEF Used, Routed
<1>3. m["fs"].is = "dual" /\ m["apps"].is = "dual"
  BY <1>1, <1>2, BlockParts DEF Routed
<1>4. \A f \in Control : m[f] = n[f]
  BY <1>1, BlockParts
<1>5. StreamLoads(m, 1) \/ StreamLoads(m, 2)
  BY UseSame DEF Routed
<1> QED
  BY <1>1, <1>3, <1>4, <1>5 DEF Routed

LEMMA UseRoutes ==
  ASSUME NEW n, NEW m, NEW b \in UserData, Used(n, m, b)
  PROVE  RoutesVerify(m) <=> RoutesVerify(n)
<1>1. \A f \in Control : m[f] = n[f]
  BY UseSame, BlockSet, BlockParts
<1>2. \A copy \in 1..2 : copy \in {1, 2}
  OBVIOUS
<1> QED
  BY <1>1, <1>2, UseSame DEF RoutesVerify

\* With its routes whole and no layout record the loader stays in its recovery.
LEMMA RoutesBoot ==
  ASSUME NEW n, RoutesVerify(n), \A l \in Layout : n[l] = Blank
  PROVE  Boot(n) = "recovery"
<1>1. n["f0"].is = "dual" /\ StreamWhole(n, "f0", 1)
  BY BlockParts, 1 \in 1..2 DEF RoutesVerify
<1>2. ~(\E l \in Layout : n[l].is = "dual")
  BY DEF Blank, Of
<1>3. LoaderWhole(n)
  BY <1>1, <1>2 DEF LoaderWhole, NoBadData
<1>4. ~LoaderBoots(n)
  BY <1>2, CommittedRecord DEF LoaderBoots
<1> QED
  BY <1>3, <1>4, LoaderBootsWhole

-----------------------------------------------------------------------------
\* The installations.

LEMMA ContentIs ==
  /\ Blank.is = "blank" /\ Torn.is = "torn" /\ Blank.n = 0
  /\ \A x : Short(x).is = "short" /\ Short(x).n = x.n
  /\ \A s, k : Of(s, k).is = s /\ Of(s, k).n = k
BY DEF Blank, Torn, Short, Of

LEMMA OldBoard ==
  /\ \A b \in {"f0", "f1", "fs", "apps", "sys", "img"} :
       StockBoard[b] = Of("stock", 0) /\ LegacyBoard[b] = Of("legacy", 0)
  /\ \A b \in DOMAIN Stream \cup Layout : StockBoard[b] = Blank /\ LegacyBoard[b] = Blank
BY BlockSet, BlockParts DEF StockBoard, LegacyBoard

LEMMA NewBoard ==
  ASSUME NEW k
  PROVE  /\ DualBoard(k)["sys"] = Of("stock", 0)
         /\ \A b \in UserData : DualBoard(k)[b] = Of("dual", 0)
         /\ \A b \in {"f0", "f1", "img"} \cup DOMAIN Stream \cup Layout :
              DualBoard(k)[b] = Of("dual", k)
BY BlockSet, BlockParts DEF DualBoard

LEMMA BoardFunctions ==
  ASSUME NEW k
  PROVE  /\ StockBoard = [b \in Block |-> StockBoard[b]]
         /\ LegacyBoard = [b \in Block |-> LegacyBoard[b]]
         /\ DualBoard(k) = [b \in Block |-> DualBoard(k)[b]]
BY DEF StockBoard, LegacyBoard, DualBoard

-----------------------------------------------------------------------------
\* Every board on the way: what its plan has done, one block half done.

OpenAt(b, x, before, after) ==
  \/ x \in {before, after, Blank, Torn}
  \/ b \in DOMAIN Stream /\ after # Blank /\ x = Short(after)

Between(n, n0, d, rk, r) ==
  /\ Prefix(n, n0, d, rk, r)
  /\ \A b \in Block : rk[b] = r /\ r # 13 => OpenAt(b, n[b], n0[b], d[b])

\* A control copy half replaced is erased, torn, or one of the two systems'.
LEMMA OpenControl ==
  ASSUME NEW x, NEW before, NEW after, NEW b \in Control, OpenAt(b, x, before, after)
  PROVE  x = before \/ x = after \/ Gone(x)
BY BlockParts, ContentIs DEF OpenAt, Gone

MigrateBoard == [DualBoard(1) EXCEPT !["apps"] = Blank]

LEMMA MigrateBoardIs ==
  /\ MigrateBoard["sys"] = Of("stock", 0) /\ MigrateBoard["fs"] = Of("dual", 0)
  /\ MigrateBoard["apps"] = Blank
  /\ \A b \in {"f0", "f1", "img"} \cup DOMAIN Stream \cup Layout : MigrateBoard[b] = Of("dual", 1)
BY BlockSet, BlockParts DEF DualBoard, MigrateBoard

\* Two streams of release 1 and a control copy of it.
LEMMA StreamsOfOne ==
  ASSUME NEW n, NEW k \in Nat, n["p0"] = Of("dual", k), n["p1"] = Of("dual", k),
         NEW f, n[f] = Of("dual", k)
  PROVE  n[f].is = "dual" /\ StreamWhole(n, f, 1)
<1>1. StreamBlocks(1) = <<"p0", "p1">>
  BY DEF StreamBlocks
<1> QED
  BY <1>1, ContentIs DEF StreamWhole

LEMMA NoRecords ==
  ASSUME NEW n, n["l0"].is # "dual", n["l1"].is # "dual"
  PROVE  NoBadData(n)
BY BlockParts DEF NoBadData

LEMMA MigrateGood ==
  ASSUME NEW n, NEW r \in 1..13, Between(n, StockBoard, MigrateBoard, MigrateRank, r)
  PROVE  Whole(n)
<1> DEFINE rk == MigrateRank
<1>1. /\ rk["p0"] = 1 /\ rk["p1"] = 2 /\ rk["s0"] = 3 /\ rk["s1"] = 4
      /\ rk["f1"] = 5 /\ rk["f0"] = 6 /\ rk["fs"] = 7 /\ rk["apps"] = 8
      /\ rk["img"] = 9 /\ rk["l0"] = 10 /\ rk["l1"] = 11 /\ rk["sys"] = 13
  BY BlockSet DEF MigrateRank
<1>2. \A b \in Block : /\ rk[b] < r => n[b] = MigrateBoard[b]
                       /\ rk[b] > r \/ rk[b] = 13 => n[b] = StockBoard[b]
                       /\ rk[b] = r /\ r # 13 => OpenAt(b, n[b], StockBoard[b], MigrateBoard[b])
  BY DEF Between, Prefix
<1> HIDE DEF rk
<1>3. n["sys"] = Of("stock", 0)
  BY <1>1, <1>2, BlockSet, OldBoard
<1>4. CASE r <= 6
  <2>1. n["fs"] = Of("stock", 0) /\ n["apps"] = Of("stock", 0) /\ n["img"] = Of("stock", 0)
    BY <1>1, <1>2, <1>4, BlockSet, OldBoard
  <2>2. n["l0"] = Blank /\ n["l1"] = Blank
    BY <1>1, <1>2, <1>4, BlockSet, BlockParts, OldBoard
  <2>3. SysOf(n, "stock")
    BY <1>3, <2>1, BlockParts, ContentIs DEF SysOf
  <2>4. CASE r < 6
    <3>1. n["f0"].is = "stock"
      BY <1>1, <1>2, <2>4, BlockSet, OldBoard, ContentIs
    <3> QED
      BY <2>3, <3>1 DEF Whole, OldBoots
  <2>5. CASE r = 6
    <3>1. n["f1"] = Of("dual", 1) /\ n["p0"] = Of("dual", 1) /\ n["p1"] = Of("dual", 1)
      BY <1>1, <1>2, <2>5, BlockSet, BlockParts, MigrateBoardIs
    <3>2. n["f0"] = Of("stock", 0) \/ n["f0"] = Of("dual", 1) \/ Gone(n["f0"])
      BY <1>1, <1>2, <2>5, BlockSet, BlockParts, MigrateBoardIs, OldBoard, OpenControl
    <3>3. NoBadData(n)
      BY <2>2, ContentIs, NoRecords
    <3>4. CASE n["f0"] = Of("stock", 0)
      BY <3>4, <2>3, ContentIs DEF Whole, OldBoots
    <3>5. CASE n["f0"] = Of("dual", 1)
      BY <3>1, <3>3, <3>5, StreamsOfOne, 1 \in Nat DEF Whole, LoaderWhole
    <3>6. CASE Gone(n["f0"])
      BY <3>1, <3>3, <3>6, StreamsOfOne, 1 \in Nat DEF Whole, LoaderWhole
    <3> QED
      BY <3>2, <3>4, <3>5, <3>6
  <2> QED
    BY <1>4, <2>4, <2>5
<1>5. CASE r > 6
  <2>1. n["f0"] = Of("dual", 1) /\ n["p0"] = Of("dual", 1) /\ n["p1"] = Of("dual", 1)
    BY <1>1, <1>2, <1>5, BlockSet, BlockParts, MigrateBoardIs
  <2>2. NoBadData(n)
    <3>1. CASE r < 10
      <4>1. n["l0"] = Blank /\ n["l1"] = Blank
        BY <1>1, <1>2, <3>1, BlockSet, BlockParts, OldBoard
      <4> QED
        BY <4>1, ContentIs, NoRecords
    <3>2. CASE r >= 10
      <4>1. n["fs"] = Of("dual", 0) /\ n["apps"] = Blank
        BY <1>1, <1>2, <3>2, BlockSet, MigrateBoardIs
      <4> QED
        BY <4>1, <1>3, ContentIs DEF NoBadData, DualData
    <3> QED
      BY <3>1, <3>2
  <2> QED
    BY <2>1, <2>2, StreamsOfOne, 1 \in Nat DEF Whole, LoaderWhole
<1> QED
  BY <1>4, <1>5

\* The source of an added HP system.
LegacyCapture(n0) ==
  /\ \A b \in Control \cup {"sys"} : n0[b].is = "legacy"
  /\ \A b \in DOMAIN Stream \cup Layout : n0[b] = Blank

LEMMA LegacyWhole ==
  ASSUME NEW n0, LegacyCapture(n0), Whole(n0)
  PROVE  SysOf(n0, "legacy")
<1>1. n0["f0"].is = "legacy"
  BY BlockParts DEF LegacyCapture
<1> QED
  BY <1>1 DEF Whole, OldBoots, LoaderWhole, Gone

LEMMA AddHpGood ==
  ASSUME NEW n0, LegacyCapture(n0), Whole(n0),
         NEW n, NEW r \in 1..13, Between(n, n0, DualBoard(1), AddHpRank, r)
  PROVE  Whole(n)
<1> DEFINE rk == AddHpRank
<1>1. /\ rk["p0"] = 1 /\ rk["p1"] = 2 /\ rk["s0"] = 3 /\ rk["s1"] = 4
      /\ rk["f1"] = 5 /\ rk["f0"] = 6 /\ rk["sys"] = 7 /\ rk["fs"] = 8
      /\ rk["img"] = 9 /\ rk["l0"] = 10 /\ rk["l1"] = 11 /\ rk["apps"] = 13
  BY BlockSet DEF AddHpRank
<1>2. \A b \in Block : /\ rk[b] < r => n[b] = DualBoard(1)[b]
                       /\ rk[b] > r \/ rk[b] = 13 => n[b] = n0[b]
                       /\ rk[b] = r /\ r # 13 => OpenAt(b, n[b], n0[b], DualBoard(1)[b])
  BY DEF Between, Prefix
<1> HIDE DEF rk
<1>a. SysOf(n0, "legacy") /\ n0["f0"].is = "legacy" /\ n0["l0"] = Blank /\ n0["l1"] = Blank
  BY LegacyWhole, BlockParts DEF LegacyCapture
<1>3. n["apps"] = n0["apps"] /\ n["apps"].is = "legacy"
  BY <1>1, <1>2, <1>a, BlockSet, BlockParts DEF SysOf
<1>4. CASE r <= 6
  <2>1. n["fs"] = n0["fs"] /\ n["sys"] = n0["sys"] /\ n["img"] = n0["img"]
    BY <1>1, <1>2, <1>4, BlockSet
  <2>2. n["l0"] = Blank /\ n["l1"] = Blank
    BY <1>1, <1>2, <1>4, <1>a, BlockSet
  <2>3. SysOf(n, "legacy")
    BY <1>3, <1>a, <2>1, BlockParts DEF SysOf
  <2>4. CASE r < 6
    <3>1. n["f0"].is = "legacy"
      BY <1>1, <1>2, <1>a, <2>4, BlockSet
    <3> QED
      BY <2>3, <3>1 DEF Whole, OldBoots
  <2>5. CASE r = 6
    <3>1. n["f1"] = Of("dual", 1) /\ n["p0"] = Of("dual", 1) /\ n["p1"] = Of("dual", 1)
      BY <1>1, <1>2, <2>5, BlockSet, BlockParts, NewBoard
    <3>2. n["f0"] = n0["f0"] \/ n["f0"] = Of("dual", 1) \/ Gone(n["f0"])
      BY <1>1, <1>2, <2>5, BlockSet, BlockParts, NewBoard, OpenControl
    <3>3. NoBadData(n)
      BY <2>2, ContentIs, NoRecords
    <3>4. CASE n["f0"] = n0["f0"]
      BY <3>4, <2>3, <1>a DEF Whole, OldBoots
    <3>5. CASE n["f0"] = Of("dual", 1)
      BY <3>1, <3>3, <3>5, StreamsOfOne, 1 \in Nat DEF Whole, LoaderWhole
    <3>6. CASE Gone(n["f0"])
      BY <3>1, <3>3, <3>6, StreamsOfOne, 1 \in Nat DEF Whole, LoaderWhole
    <3> QED
      BY <3>2, <3>4, <3>5, <3>6
  <2> QED
    BY <1>4, <2>4, <2>5
<1>5. CASE r > 6
  <2>1. n["f0"] = Of("dual", 1) /\ n["p0"] = Of("dual", 1) /\ n["p1"] = Of("dual", 1)
    BY <1>1, <1>2, <1>5, BlockSet, BlockParts, NewBoard
  <2>2. NoBadData(n)
    <3>1. CASE r < 10
      <4>1. n["l0"] = Blank /\ n["l1"] = Blank
        BY <1>1, <1>2, <1>a, <3>1, BlockSet, BlockParts
      <4> QED
        BY <4>1, ContentIs, NoRecords
    <3>2. CASE r >= 10
      <4>1. n["fs"] = Of("dual", 0) /\ n["sys"] = Of("stock", 0)
        BY <1>1, <1>2, <3>2, BlockSet, BlockParts, NewBoard
      <4> QED
        BY <4>1, <1>3, ContentIs DEF NoBadData, DualData
    <3> QED
      BY <3>1, <3>2
  <2> QED
    BY <2>1, <2>2, StreamsOfOne, 1 \in Nat DEF Whole, LoaderWhole
<1> QED
  BY <1>4, <1>5

LEMMA RoutesParts ==
  ASSUME NEW n, RoutesVerify(n)
  PROVE  /\ n["f0"].is = "dual" /\ n["f1"].is = "dual"
         /\ \A f \in {"f0", "f1"} : StreamWhole(n, f, 1) /\ StreamWhole(n, f, 2)
         /\ \A b \in DOMAIN Stream : n[b].is = "dual"
<1>1. /\ n["f0"].is = "dual" /\ n["f1"].is = "dual"
      /\ \A f \in {"f0", "f1"} : StreamWhole(n, f, 1) /\ StreamWhole(n, f, 2)
  BY BlockParts, 1 \in 1..2, 2 \in 1..2 DEF RoutesVerify
<1>2. StreamBlocks(1) = <<"p0", "p1">> /\ StreamBlocks(2) = <<"s0", "s1">>
  BY DEF StreamBlocks
<1>3. n["p0"].is = "dual" /\ n["p1"].is = "dual" /\ n["s0"].is = "dual" /\ n["s1"].is = "dual"
  BY <1>1, <1>2 DEF StreamWhole
<1> QED
  BY <1>1, <1>3, BlockParts

LEMMA SameStream ==
  ASSUME NEW n, NEW m, NEW f, n["p0"] = m["p0"], n["p1"] = m["p1"], n[f] = m[f],
         StreamWhole(m, f, 1)
  PROVE  StreamWhole(n, f, 1)
<1>1. StreamBlocks(1) = <<"p0", "p1">>
  BY DEF StreamBlocks
<1> QED
  BY <1>1 DEF StreamWhole

\* A system put back whole.
OldInstallation(d, S) ==
  /\ S \in {"stock", "legacy"}
  /\ \A b \in {"f0", "f1", "fs", "apps", "sys", "img"} : d[b].is = S
  /\ \A b \in DOMAIN Stream \cup Layout : d[b] = Blank

LEMMA OldInstallations ==
  OldInstallation(StockBoard, "stock") /\ OldInstallation(LegacyBoard, "legacy")
BY OldBoard, ContentIs DEF OldInstallation

LEMMA RestoreGood ==
  ASSUME NEW n0, RoutesVerify(n0), Whole(n0), NEW S, NEW d, OldInstallation(d, S),
         NEW n, NEW r \in 1..13, Between(n, n0, d, RestoreRank, r)
  PROVE  Whole(n)
<1> DEFINE rk == RestoreRank
<1>1. /\ rk["l0"] = 1 /\ rk["l1"] = 2 /\ rk["sys"] = 3 /\ rk["fs"] = 4
      /\ rk["img"] = 5 /\ rk["apps"] = 6 /\ rk["f1"] = 7 /\ rk["f0"] = 8
      /\ rk["p0"] = 9 /\ rk["p1"] = 10 /\ rk["s0"] = 11 /\ rk["s1"] = 12
  BY BlockSet DEF RestoreRank
<1>2. \A b \in Block : /\ rk[b] < r => n[b] = d[b]
                       /\ rk[b] > r \/ rk[b] = 13 => n[b] = n0[b]
                       /\ rk[b] = r /\ r # 13 => OpenAt(b, n[b], n0[b], d[b])
  BY DEF Between, Prefix
<1> HIDE DEF rk
<1>3. n0["f0"].is = "dual" /\ StreamWhole(n0, "f0", 1)
  BY RoutesParts
<1>4. NoBadData(n0)
  BY <1>3 DEF Whole, OldBoots, LoaderWhole, Gone
<1>5. d["l0"] = Blank /\ d["l1"] = Blank
  BY BlockParts DEF OldInstallation
<1>6. CASE r <= 7
  <2>1. n["f0"] = n0["f0"] /\ n["p0"] = n0["p0"] /\ n["p1"] = n0["p1"]
    BY <1>1, <1>2, <1>6, BlockSet
  <2>2. StreamWhole(n, "f0", 1)
    BY <2>1, <1>3, SameStream
  <2>3. NoBadData(n)
    <3>1. CASE r <= 2
      <4>1. \A b \in {"sys", "fs", "img", "apps"} : n[b] = n0[b]
        BY <1>1, <1>2, <3>1, BlockSet
      <4>2. \A l \in {"l0", "l1"} : n[l] = n0[l] \/ n[l] = Blank \/ n[l] = Torn
        BY <1>1, <1>2, <1>5, <3>1, BlockSet, BlockParts DEF OpenAt
      <4>3. \A l \in Layout : n[l].is = "dual" => n0[l].is = "dual"
        BY <4>2, BlockParts, ContentIs
      <4> QED
        BY <4>1, <4>3, <1>4 DEF NoBadData, DualData
    <3>2. CASE r > 2
      <4>1. n["l0"] = Blank /\ n["l1"] = Blank
        BY <1>1, <1>2, <1>5, <3>2, BlockSet
      <4> QED
        BY <4>1, ContentIs, NoRecords
    <3> QED
      BY <3>1, <3>2
  <2> QED
    BY <2>1, <2>2, <2>3, <1>3 DEF Whole, LoaderWhole
<1>7. CASE r > 7
  <2>1. \A b \in {"l0", "l1", "sys", "fs", "img", "apps", "f1"} : n[b] = d[b]
    BY <1>1, <1>2, <1>7, BlockSet
  <2>2. SysOf(n, S)
    BY <2>1, BlockParts DEF SysOf, OldInstallation
  <2>3. NoBadData(n)
    BY <2>1, <1>5, ContentIs, NoRecords
  <2>4. n["f1"].is = S /\ S \in {"stock", "legacy"}
    BY <2>1 DEF OldInstallation
  <2>5. n["f0"] = n0["f0"] \/ n["f0"] = d["f0"] \/ Gone(n["f0"])
    BY <1>1, <1>2, <1>7, BlockSet, BlockParts, OpenControl
  <2>6. CASE n["f0"] = n0["f0"] /\ r = 8
    <3>1. n["p0"] = n0["p0"] /\ n["p1"] = n0["p1"]
      BY <1>1, <1>2, <2>6, BlockSet
    <3>2. StreamWhole(n, "f0", 1)
      BY <3>1, <2>6, <1>3, SameStream
    <3> QED
      BY <3>2, <2>3, <2>6, <1>3 DEF Whole, LoaderWhole
  <2>7. CASE n["f0"] = d["f0"]
    BY <2>2, <2>7 DEF Whole, OldBoots, OldInstallation
  <2>8. CASE Gone(n["f0"])
    BY <2>2, <2>4, <2>8 DEF Whole, OldBoots
  <2>9. CASE r > 8
    BY <1>1, <1>2, <2>7, <2>9, BlockSet
  <2> QED
    BY <1>7, <2>5, <2>6, <2>7, <2>8, <2>9
<1> QED
  BY <1>6, <1>7

LEMMA RefreshGood ==
  ASSUME NEW n0, RoutesVerify(n0), Routed(n0), NEW k \in Nat,
         NEW n, NEW r \in 1..13, Between(n, n0, DualBoard(k), RefreshRank, r)
  PROVE  Routed(n)
<1> DEFINE rk == RefreshRank
           d == DualBoard(k)
<1>1. /\ rk["f1"] = 1 /\ rk["f0"] = 2 /\ rk["s0"] = 3 /\ rk["s1"] = 4
      /\ rk["p0"] = 5 /\ rk["p1"] = 6 /\ rk["img"] = 7 /\ rk["l1"] = 8
      /\ rk["l0"] = 9 /\ rk["sys"] = 13 /\ rk["fs"] = 13 /\ rk["apps"] = 13
  BY BlockSet DEF RefreshRank
<1>d. \A b \in {"f0", "f1", "img"} \cup DOMAIN Stream \cup Layout : d[b] = Of("dual", k)
  BY NewBoard
<1> HIDE DEF d
<1>2. \A b \in Block : /\ rk[b] < r => n[b] = d[b]
                       /\ rk[b] > r \/ rk[b] = 13 => n[b] = n0[b]
                       /\ rk[b] = r /\ r # 13 => OpenAt(b, n[b], n0[b], d[b])
  BY DEF Between, Prefix, d
<1> HIDE DEF rk
<1>3. n["sys"] = n0["sys"] /\ n["fs"] = n0["fs"] /\ n["apps"] = n0["apps"]
  BY <1>1, <1>2, BlockSet
<1>4. n0["f0"].is = "dual" /\ n0["f1"].is = "dual" /\ \A b \in DOMAIN Stream : n0[b].is = "dual"
  BY RoutesParts
<1>5. d["f0"].is = "dual" /\ d["f1"].is = "dual" /\ \A b \in DOMAIN Stream : d[b].is = "dual"
  <2>1. Of("dual", k).is = "dual"
    BY ContentIs
  <2> QED
    BY <1>d, <2>1, Zenon
<1>6. \A b \in Block : rk[b] # r => n[b] = n0[b] \/ n[b] = d[b]
  BY <1>2, RefreshRanked, RankNat DEF rk
<1>7. \A f \in {"f0", "f1"} : n[f].is = "dual" \/ (Gone(n[f]) /\ rk[f] = r)
  <2> SUFFICES ASSUME NEW f \in {"f0", "f1"}
               PROVE  n[f].is = "dual" \/ (Gone(n[f]) /\ rk[f] = r)
    OBVIOUS
  <2>1. CASE rk[f] = r
    <3>1. r # 13 /\ f \in Block /\ f \in Control
      BY <2>1, <1>1, BlockSet, BlockParts
    <3>2. OpenAt(f, n[f], n0[f], d[f])
      BY <2>1, <3>1, <1>2
    <3> QED
      BY <2>1, <3>1, <3>2, <1>4, <1>5, OpenControl
  <2>2. CASE rk[f] # r
    BY <2>2, <1>4, <1>5, <1>6, BlockSet
  <2> QED
    BY <2>1, <2>2
<1>8. n["f0"].is = "dual" \/ n["f1"].is = "dual"
  BY <1>1, <1>7
<1>9. StreamLoads(n, 1) \/ StreamLoads(n, 2)
  <2>1. StreamBlocks(1) = <<"p0", "p1">> /\ StreamBlocks(2) = <<"s0", "s1">>
    BY DEF StreamBlocks
  <2>2. CASE r <= 4
    <3>1. n["p0"].is = "dual" /\ n["p1"].is = "dual"
      BY <1>1, <1>4, <1>5, <1>6, <2>2, BlockSet, BlockParts
    <3> QED
      BY <2>1, <3>1 DEF StreamLoads
  <2>3. CASE r > 4
    <3>1. n["s0"].is = "dual" /\ n["s1"].is = "dual"
      BY <1>1, <1>4, <1>5, <1>6, <2>3, BlockSet, BlockParts
    <3> QED
      BY <2>1, <3>1 DEF StreamLoads
  <2> QED
    BY <2>2, <2>3
<1> QED
  BY <1>3, <1>7, <1>8, <1>9, BlockParts DEF Routed

-----------------------------------------------------------------------------
\* What the finished boards boot.

LEMMA ReleaseBoots ==
  ASSUME NEW n, NEW k \in Nat \ {0},
         \A b \in {"f0", "p0", "p1", "img", "l0", "l1"} : n[b] = Of("dual", k),
         DualData(n)
  PROVE  Boot(n) = "dual"
<1>1. n["f0"].is = "dual" /\ StreamWhole(n, "f0", 1)
  BY StreamsOfOne
<1>2. LoaderWhole(n)
  BY <1>1 DEF LoaderWhole, NoBadData
<1>3. ValidRecords(n) = Layout /\ n["l0"].n = k /\ n["l1"].n = k
  BY BlockParts, ContentIs DEF ValidRecords
<1>4. {n[b].n : b \in ValidRecords(n)} = {k}
  BY <1>3, BlockParts
<1>5. SelectedRelease(n) = k
  BY <1>4 DEF SelectedRelease
<1>6. LoaderBoots(n)
  BY <1>5 DEF LoaderBoots, Committed
<1> QED
  BY <1>2, <1>6, LoaderBootsWhole

LEMMA MigrateBoots ==
  ASSUME NEW n, Prefix(n, StockBoard, MigrateBoard, MigrateRank, 13)
  PROVE  Boot(n) = "dual"
<1>1. \A b \in Block : /\ MigrateRank[b] # 13 => MigrateRank[b] < 13
                       /\ MigrateRank[b] = 13 <=> b = "sys"
  BY BlockSet DEF MigrateRank
<1>2. \A b \in Block \ {"sys"} : n[b] = MigrateBoard[b]
  BY <1>1 DEF Prefix
<1>3. n["sys"] = Of("stock", 0)
  BY <1>1, BlockSet, OldBoard DEF Prefix
<1>4. \A b \in {"f0", "p0", "p1", "img", "l0", "l1"} : n[b] = Of("dual", 1)
  BY <1>2, BlockSet, BlockParts, MigrateBoardIs
<1>5. n["fs"] = Of("dual", 0) /\ n["apps"] = Blank
  BY <1>2, BlockSet, MigrateBoardIs
<1>6. DualData(n)
  BY <1>3, <1>5, ContentIs DEF DualData
<1> QED
  BY <1>4, <1>6, ReleaseBoots, 1 \in Nat \ {0}

LEMMA AddHpBoots ==
  ASSUME NEW n0, SysOf(n0, "legacy"), NEW n, Prefix(n, n0, DualBoard(1), AddHpRank, 13)
  PROVE  Boot(n) = "dual"
<1>1. \A b \in Block : /\ AddHpRank[b] # 13 => AddHpRank[b] < 13
                       /\ AddHpRank[b] = 13 <=> b = "apps"
  BY BlockSet DEF AddHpRank
<1>2. \A b \in Block \ {"apps"} : n[b] = DualBoard(1)[b]
  BY <1>1 DEF Prefix
<1>3. n["apps"].is = "legacy"
  BY <1>1, BlockSet, BlockParts DEF Prefix, SysOf
<1>4. \A b \in {"f0", "p0", "p1", "img", "l0", "l1"} : n[b] = Of("dual", 1)
  BY <1>2, BlockSet, BlockParts, NewBoard
<1>5. n["fs"] = Of("dual", 0) /\ n["sys"] = Of("stock", 0)
  BY <1>2, BlockSet, BlockParts, NewBoard
<1>6. DualData(n)
  BY <1>3, <1>5, ContentIs DEF DualData
<1> QED
  BY <1>4, <1>6, ReleaseBoots, 1 \in Nat \ {0}

LEMMA RefreshBoots ==
  ASSUME NEW n0, Routed(n0), NEW k \in Nat \ {0},
         NEW n, Prefix(n, n0, DualBoard(k), RefreshRank, 13)
  PROVE  Boot(n) = "dual"
<1>1. \A b \in Block : /\ RefreshRank[b] # 13 => RefreshRank[b] < 13
                       /\ RefreshRank[b] = 13 <=> b \in {"fs", "apps", "sys"}
  BY BlockSet DEF RefreshRank
<1>2. \A b \in Block \ {"fs", "apps", "sys"} : n[b] = DualBoard(k)[b]
  BY <1>1 DEF Prefix
<1>3. n["apps"] = n0["apps"] /\ n["fs"] = n0["fs"] /\ n["sys"] = n0["sys"]
  BY <1>1, BlockSet DEF Prefix
<1>4. \A b \in {"f0", "p0", "p1", "img", "l0", "l1"} : n[b] = Of("dual", k)
  BY <1>2, BlockSet, BlockParts, NewBoard
<1>6. DualData(n)
  BY <1>3 DEF DualData, Routed
<1> QED
  BY <1>4, <1>6, ReleaseBoots

LEMMA RestoreBoots ==
  ASSUME NEW S, NEW d, OldInstallation(d, S), NEW n0,
         NEW n, Prefix(n, n0, d, RestoreRank, 13)
  PROVE  Boot(n) = S /\ \A b \in Block : n[b] = d[b]
<1>1. \A b \in Block : RestoreRank[b] < 13
  BY BlockSet DEF RestoreRank
<1>2. \A b \in Block : n[b] = d[b]
  BY <1>1 DEF Prefix
<1>3. OldBoots(n, S) /\ S \in {"stock", "legacy"}
  BY <1>2, BlockSet, BlockParts DEF OldInstallation, OldBoots, SysOf
<1> QED
  BY <1>2, <1>3, OldBootsItself

-----------------------------------------------------------------------------
\* A plan that has begun cannot be reviewed again.

LEMMA FirstChange ==
  ASSUME NEW n0, NEW d, NEW order, NEW rk, Ranked(order, rk), NEW c, Len(c) \in Nat,
         PlanTo(c, n0, d, rk, 12), NEW b \in Block, rk[b] # 13, n0[b] # d[b],
         \A x \in Block : rk[x] < rk[b] => n0[x] = d[x]
  PROVE  0 < Len(c) /\ c[1].block = b
<1>1. rk[b] \in Nat /\ rk[b] <= 12
  BY RankNat
<1>2. PICK k \in 1..Len(c) : c[k].block = b
  BY <1>1 DEF PlanTo
<1>3. ~(1 < k)
  <2> SUFFICES ASSUME 1 < k PROVE FALSE
    OBVIOUS
  <2>1. 1 \in 1..Len(c)
    BY <1>2
  <2>2. rk[c[1].block] < rk[b] /\ c[1].block \in Block
    BY <1>2, <2>1 DEF PlanTo, ChangesAre
  <2> QED
    BY <2>1, <2>2 DEF PlanTo, ChangesAre
<1> QED
  BY <1>2, <1>3

\* A refresh begins with the control copies, unless they are newer than the
\* images.
LEMMA RefreshFirst ==
  ASSUME NEW n0, n0["f1"].n # DualBoard(n0["img"].n + 1)["f1"].n, NEW c, Len(c) \in Nat,
         PlanTo(c, n0, DualBoard(n0["img"].n + 1), RefreshRank, 12)
  PROVE  0 < Len(c) /\ c[1].block = "f1"
<1>1. RefreshRank["f1"] = 1 /\ "f1" \in Block
  BY BlockSet DEF RefreshRank
<1>2. \A x \in Block : ~(RefreshRank[x] < 1)
  BY RefreshRanked, RankNat
<1> QED
  BY <1>1, <1>2, FirstChange, RefreshRanked

\* A restore whose first change is not a layout record captured none.
LEMMA RestoreFirst ==
  ASSUME NEW n0, NEW d, NEW S, OldInstallation(d, S), NEW c, Len(c) \in Nat, 0 < Len(c),
         PlanTo(c, n0, d, RestoreRank, 12), c[1].block \notin Layout
  PROVE  \A l \in Layout : n0[l] = Blank /\ \A k \in 1..Len(c) : c[k].block # l
<1>1. \A l \in Layout : l \in Block /\ RestoreRank[l] <= 2 /\ d[l] = Blank
  BY BlockSet, BlockParts DEF RestoreRank, OldInstallation
<1>2. 1 \in 1..Len(c)
  OBVIOUS
<1>3. c[1].block \in Block /\ RestoreRank[c[1].block] > 2
  <2>1. c[1].block \in Block
    BY <1>2 DEF PlanTo, ChangesAre
  <2>2. \A b \in Block \ Layout : RestoreRank[b] > 2
    BY BlockSet, BlockParts DEF RestoreRank
  <2> QED
    BY <2>1, <2>2
<1>4. ASSUME NEW l \in Layout, NEW k \in 1..Len(c), c[k].block = l
      PROVE  FALSE
  <2>1. k = 1 \/ 1 < k
    OBVIOUS
  <2>2. CASE 1 < k
    <3>1. RestoreRank[c[1].block] < RestoreRank[c[k].block]
      BY <1>2, <2>2 DEF PlanTo, ChangesAre
    <3>2. RestoreRank[c[1].block] \in Nat /\ RestoreRank[l] \in Nat
      BY <1>1, <1>3, RankNat, RestoreRanked
    <3> QED
      BY <3>1, <3>2, <1>1, <1>3, <1>4
  <2> QED
    BY <2>1, <2>2, <1>4
<1>5. ASSUME NEW l \in Layout
      PROVE  n0[l] = d[l]
  <2>1. RestoreRank[l] \in Nat /\ RestoreRank[l] <= 12
    BY <1>1, RankNat, RestoreRanked
  <2> QED
    BY <2>1, <1>1, <1>4 DEF PlanTo
<1> QED
  BY <1>1, <1>4, <1>5

=============================================================================
