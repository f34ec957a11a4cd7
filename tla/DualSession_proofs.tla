--------------------------- MODULE DualSession_proofs ---------------------------
(***************************************************************************)
(* The dual-boot transaction under its service: the inductive invariant of *)
(* DualSession, and the properties of its runs as theorems.                *)
(*                                                                         *)
(* The invariant says, for the job that runs, how far the flash has        *)
(* followed its plan and what its journals say of that; for a job that     *)
(* stopped and that nobody disturbed since, that the board is still there; *)
(* and of every board that something whole boots from it, which is true of *)
(* every place a plan can stop at (DualPlan_proofs).                       *)
(***************************************************************************)
EXTENDS DualSession, DualPlan_proofs, WellFoundedInduction

-----------------------------------------------------------------------------
\* Types.

Content(m) == [is : System \cup {"blank", "torn", "short"}, n : 0..m]
Copy(m) == [is : {"ok", "blank", "torn"}, owner : 0..m, gen : Nat, index : 0..12,
            pending : BOOLEAN]
ReviewType(m, l) ==
  [mode : {"migrate", "add-hp", "restore", "refresh-dual"}, backup : [Block -> Content(m)],
   changes : Seq(ChangeOf(Content(m))), initial : [Block -> Content(m)],
   initialJournal : [{0, 1} -> Copy(l)]]
SessionType ==
  [action : {"install", "restore-original", "restore-hp", "refresh"},
   state : {"review", "working", "reconnect", "verified", "complete", "recovery-required"},
   used : BOOLEAN, dir : {"absent", "empty", "reviewed"}, snap : {"none", "final", "both"},
   confirmed : SUBSET {"lefony", "hp"}, alone : BOOLEAN]
Labels == {"idle", "refused", "clear0", "clear1", "prepare", "saving", "begin", "check",
           "write", "program", "advance", "final", "retire0", "retire1", "verified", "qualify"}

\* Only a review and a use of the calculator count a release or a use further.
Bound == Len(plans) + faults + 1

TypeInv ==
  /\ source \in {"stock-hp", "lefony-menu1", "dual"} /\ kind \in {"physical", "offline"}
  /\ nand \in [Block -> Content(Bound)]
  /\ journal \in [{0, 1} -> Copy(Len(plans))] /\ record \in Copy(Len(plans))
  /\ plans \in Seq(ReviewType(Bound, Len(plans))) /\ sessions \in Seq(SessionType)
  /\ Len(plans) = Len(sessions) /\ Len(plans) <= MaxJobs
  /\ faults \in 0..MaxFaults
  /\ job \in 0..Len(plans) /\ lock \in 0..Len(plans)
  /\ pc \in Labels /\ pos \in 0..12 /\ pending \in BOOLEAN /\ slot \in {0, 1}

-----------------------------------------------------------------------------
\* Journals.

ValidIn(J) == {s \in {0, 1} : J[s].is = "ok"}
NewestIn(J) == CHOOSE s \in ValidIn(J) :
                 \A t \in ValidIn(J) : \/ J[t].gen < J[s].gen
                                       \/ J[t].gen = J[s].gen /\ t <= s
NewestOf(J) == J[NewestIn(J)]
OwnerIn(P, j) ==
  CHOOSE i \in 1..j : /\ Identity(P[i]) = Identity(P[j])
                      /\ \A k \in 1..j : Identity(P[k]) = Identity(P[j]) => i <= k

\* A record speaks of a reviewed plan (or of the installation found there) and
\* stays inside it.
RecordOK(x, P, src) ==
  /\ x.gen > 0
  /\ x.owner # 0 => /\ x.owner \in 1..Len(P) /\ x.owner = OwnerIn(P, x.owner)
                    /\ x.index <= Len(P[x.owner].changes)
                    /\ x.pending => x.index < Len(P[x.owner].changes)
  /\ x.owner = 0 => src = "dual" /\ x.index = 0 /\ ~x.pending

\* y was written after x: it opens the next change or closes the open one.
Succeeds(x, y) ==
  IF y.pending THEN ~x.pending /\ y.index = x.index ELSE x.pending /\ y.index = x.index + 1

JournalsOK(J, P, src) ==
  /\ \A s \in ValidIn(J) : RecordOK(J[s], P, src)
  /\ ValidIn(J) = {0, 1} =>
       /\ J[0].owner = J[1].owner
       /\ J[0].gen = J[1].gen => J[0] = J[1]
       /\ \A s, t \in {0, 1} : J[s].owner # 0 /\ J[s].gen < J[t].gen => Succeeds(J[s], J[t])

\* The journals of the installation found there outlive only uses of its data.
FoundOK(J, n) ==
  (\E s \in ValidIn(J) : J[s].owner = 0) =>
     \A b \in Block \ UserData : n[b] = DualBoard(1)[b]

\* Once a journal calls its first change done, no review can make that plan again.
BegunOn(n, p) ==
  p.mode \in {"restore", "refresh-dual"} =>
    \/ ~RoutesVerify(n)
    \/ LET first == p.changes[1]
       IN  /\ n[first.block] # first.before
           /\ first.block \notin Layout \cup {"f1"} => \A l \in Layout : n[l] = Blank

BegunOK(J, n, P) ==
  \A s \in ValidIn(J) : J[s].owner # 0 /\ J[s].index > 0 => BegunOn(n, P[J[s].owner])

-----------------------------------------------------------------------------
\* Reviews.

GoodIn(src, n) == IF src = "dual" THEN Routed(n) ELSE Whole(n)

\* What a review found and what it planned, by mode.
PlanOK(p, src, action) ==
  /\ GoodIn(src, p.initial) /\ p.changes # <<>>
  /\ \/ /\ p.mode = "migrate" /\ src = "stock-hp" /\ action = "install"
        /\ p.initial = StockBoard /\ ValidIn(p.initialJournal) = {}
        /\ p.changes = MigratePlan(p.initial)
     \/ /\ p.mode = "add-hp" /\ src = "lefony-menu1" /\ action = "install"
        /\ LegacyCapture(p.initial) /\ ValidIn(p.initialJournal) = {}
        /\ p.changes = AddHpPlan(p.initial)
     \/ /\ p.mode = "restore" /\ src # "dual" /\ action \in {"restore-original", "restore-hp"}
        /\ RoutesVerify(p.initial)
        /\ p.backup = (IF action = "restore-hp" THEN StockBoard ELSE Board(src))
        /\ p.changes = RestorePlan(p.initial, p.backup)
     \/ /\ p.mode = "refresh-dual" /\ src = "dual" /\ action = "refresh"
        /\ RoutesVerify(p.initial) /\ p.initial["f1"].n <= p.initial["img"].n
        /\ p.backup = p.initial
        /\ p.changes = RefreshPlan(p.initial)

\* A captured journal of the same plan calls none of its changes done.
CaptureOK(p, o) ==
  \A s \in ValidIn(p.initialJournal) :
    p.initialJournal[s].owner = o => p.initialJournal[s].index = 0

PlansOK(P, src, S) ==
  \A j \in 1..Len(P) : PlanOK(P[j], src, S[j].action) /\ CaptureOK(P[j], OwnerIn(P, j))

-----------------------------------------------------------------------------
\* Where a job that only its own process has disturbed can stand: before its
\* first record, on the way, or restored with its journals still to retire.

FreshOn(n, J, p, o) ==
  /\ n = p.initial
  /\ \A s \in ValidIn(J) : \/ J[s].owner = o /\ J[s].index = 0
                           \/ J[s].owner # o /\ J[s] = p.initialJournal[s]

GoingOn(n, J, p, o) ==
  /\ ValidIn(J) # {} /\ \A s \in ValidIn(J) : J[s].owner = o
  /\ Upto(n, p.initial, p.changes, NewestOf(J).index, NewestOf(J).pending)

\* A file's executor resumes by the journal alone, so there it is at the end too.
AtEnd(x, p) == x.index = Len(p.changes) - (IF x.pending THEN 1 ELSE 0)

FinishedOn(n, J, p, o, k) ==
  /\ p.mode = "restore" /\ Upto(n, p.initial, p.changes, Len(p.changes), FALSE)
  /\ \A s \in ValidIn(J) : J[s].owner = o /\ (k = "offline" => AtEnd(J[s], p))

AloneOn(n, J, p, o, k, dir) ==
  IF dir = "reviewed" THEN FreshOn(n, J, p, o) \/ GoingOn(n, J, p, o) \/ FinishedOn(n, J, p, o, k)
  ELSE n = p.initial /\ J = p.initialJournal

AloneInv ==
  \A j \in Jobs : sessions[j].alone =>
    AloneOn(nand, journal, plans[j], OwnerIn(plans, j), kind, sessions[j].dir)

SessionOK(x, j, l, k, last) ==
  /\ ~x.used => x.dir = "absent"
  /\ x.state = "review" <=> ~x.used
  /\ x.state = "working" <=> j = l
  /\ x.alone /\ l # 0 => j = l
  /\ k = "offline" => /\ j = last => x.alone
                      /\ j < last => x.state \in {"verified", "complete"}

SessionInv == \A j \in Jobs : SessionOK(sessions[j], j, lock, kind, Len(plans))

-----------------------------------------------------------------------------
\* The executor, by where it stands.

Blanks(J, slots) == \A s \in slots : J[s].is = "blank"

\* The newest record says i changes are done and whether the next has begun.
StandsOn(n, J, p, o, i, open) ==
  GoingOn(n, J, p, o) /\ NewestOf(J).index = i /\ NewestOf(J).pending = open

FirstOn(n, J, p, o, x, s) ==
  /\ x = Record(o, 1, 0, FALSE) /\ n = p.initial
  /\ IF s = 0 THEN Blanks(J, {0, 1}) ELSE J[0] = x /\ Blanks(J, {1})

\* The newest record is the only one while the other copy is being written.
SaveOn(n, J, p, o, x, s, i) ==
  /\ StandsOn(n, J, p, o, i, ~x.pending) /\ i < Len(p.changes)
  /\ s = 1 - NewestIn(J) /\ ValidIn(J) = {NewestIn(J)}
  /\ x = Record(o, NewestOf(J).gen + 1, IF x.pending THEN i ELSE i + 1, x.pending)
  /\ ~x.pending => n[p.changes[i + 1].block] = p.changes[i + 1].after

WriteOn(n, J, p, o, i) == StandsOn(n, J, p, o, i, TRUE) /\ i < Len(p.changes)

DoneOn(n, p) == Upto(n, p.initial, p.changes, Len(p.changes), FALSE)

\* What a finished plan's journals can be.
EndOn(J, p, o, k) ==
  k = "offline" => \A s \in ValidIn(J) : J[s].owner = o /\ AtEnd(J[s], p)

EngineOn(n, J, p, o, k) ==
  /\ pc \in {"clear0", "clear1", "prepare"} => n = p.initial
  /\ pc = "clear1" => Blanks(J, {0})
  /\ pc = "saving" => IF record.gen = 1 THEN FirstOn(n, J, p, o, record, slot)
                      ELSE SaveOn(n, J, p, o, record, slot, pos) /\ ~pending
  /\ pc = "begin" => GoingOn(n, J, p, o)
  /\ pc = "check" => StandsOn(n, J, p, o, pos, pending)
  /\ pc \in {"write", "program", "advance"} => WriteOn(n, J, p, o, pos) /\ ~pending
  /\ pc = "advance" => n[p.changes[pos + 1].block] = p.changes[pos + 1].after
  /\ pc \in {"final", "retire0", "retire1", "verified", "qualify"} => DoneOn(n, p)
  /\ pc \in {"final", "retire0", "retire1"} => EndOn(J, p, o, k)
  /\ pc \in {"retire0", "retire1"} => p.mode = "restore"
  /\ pc = "retire1" => Blanks(J, {0})
  /\ pc \in {"verified", "qualify"} /\ p.mode = "restore" => Blanks(J, {0, 1})

EngineInv ==
  /\ pc = "idle" => job = 0
  /\ pc # "idle" => /\ lock \in Jobs /\ job = lock /\ sessions[job].dir = "reviewed"
                    /\ EngineOn(nand, journal, plans[job], OwnerIn(plans, job), kind)

FlashInv ==
  /\ GoodIn(source, nand) /\ JournalsOK(journal, plans, source) /\ FoundOK(journal, nand)
  /\ BegunOK(journal, nand, plans)

\* The inductive invariant.
IInv == TypeInv /\ PlansOK(plans, source, sessions) /\ FlashInv /\ SessionInv /\ AloneInv /\ EngineInv

-----------------------------------------------------------------------------
\* Owners: the first review of the same plan.

LEMMA LeastOf ==
  ASSUME NEW T, T \subseteq Nat, T # {}
  PROVE  \E i \in T : \A k \in T : i <= k
<1>1. PICK i \in T : \A k \in T : ~(<<k, i>> \in OpToRel(<, Nat))
  BY WFMin, NatLessThanWellFounded, Zenon
<1>2. ASSUME NEW k \in T
      PROVE  i <= k
  <2>1. i \in Nat /\ k \in Nat
    OBVIOUS
  <2>2. ~(k < i)
    BY <1>1, <2>1, Zenon DEF OpToRel
  <2> QED
    BY <2>1, <2>2
<1> QED
  BY <1>2

LEMMA OwnerIs ==
  ASSUME NEW P, NEW j \in Nat \ {0}
  PROVE  /\ OwnerIn(P, j) \in 1..j /\ Identity(P[OwnerIn(P, j)]) = Identity(P[j])
         /\ \A k \in 1..j : Identity(P[k]) = Identity(P[j]) => OwnerIn(P, j) <= k
<1> DEFINE T == {i \in 1..j : Identity(P[i]) = Identity(P[j])}
<1>1. T \subseteq Nat /\ j \in T
  OBVIOUS
<1>2. PICK i \in T : \A k \in T : i <= k
  BY <1>1, LeastOf
<1>3. \E x \in 1..j : /\ Identity(P[x]) = Identity(P[j])
                      /\ \A k \in 1..j : Identity(P[k]) = Identity(P[j]) => x <= k
  BY <1>2
<1> QED
  BY <1>3, Zenon DEF OwnerIn

LEMMA IdentityParts ==
  ASSUME NEW p, NEW q, Identity(p) = Identity(q)
  PROVE  p.mode = q.mode /\ p.backup = q.backup /\ p.changes = q.changes
BY DEF Identity

LEMMA OwnerChanges ==
  ASSUME NEW P, NEW j \in Nat \ {0}
  PROVE  LET o == OwnerIn(P, j)
         IN  /\ o \in 1..j /\ o # 0
             /\ P[o].mode = P[j].mode /\ P[o].backup = P[j].backup /\ P[o].changes = P[j].changes
BY OwnerIs, IdentityParts

LEMMA OwnerOwner ==
  ASSUME NEW P, NEW j \in Nat \ {0}
  PROVE  OwnerIn(P, OwnerIn(P, j)) = OwnerIn(P, j)
<1> DEFINE o == OwnerIn(P, j)
           q == OwnerIn(P, o)
<1>1. /\ o \in 1..j /\ Identity(P[o]) = Identity(P[j])
      /\ \A k \in 1..j : Identity(P[k]) = Identity(P[j]) => o <= k
  BY OwnerIs
<1> HIDE DEF o
<1>2. q \in 1..o /\ Identity(P[q]) = Identity(P[o])
  BY <1>1, OwnerIs
<1> HIDE DEF q
<1>3. o <= q
  BY <1>1, <1>2
<1>4. q = o
  BY <1>1, <1>2, <1>3
<1> QED
  BY <1>4 DEF o, q

\* Jobs with the same plan have the same owner.
LEMMA OwnerSame ==
  ASSUME NEW P, NEW j \in Nat \ {0}, NEW i \in Nat \ {0}, Identity(P[i]) = Identity(P[j])
  PROVE  OwnerIn(P, i) = OwnerIn(P, j)
<1> DEFINE a == OwnerIn(P, i)
           b == OwnerIn(P, j)
<1>1. /\ a \in 1..i /\ Identity(P[a]) = Identity(P[i])
      /\ \A k \in 1..i : Identity(P[k]) = Identity(P[i]) => a <= k
  BY OwnerIs
<1>2. /\ b \in 1..j /\ Identity(P[b]) = Identity(P[j])
      /\ \A k \in 1..j : Identity(P[k]) = Identity(P[j]) => b <= k
  BY OwnerIs
<1> HIDE DEF a, b
<1>3. a <= j => b <= a
  BY <1>1, <1>2
<1>4. b <= i => a <= b
  BY <1>1, <1>2
<1>5. a = b
  BY <1>1, <1>2, <1>3, <1>4
<1> QED
  BY <1>5 DEF a, b

\* A review added later changes no owner.
LEMMA OwnerKept ==
  ASSUME NEW P, NEW Q, NEW j \in Nat \ {0}, \A i \in 1..j : Q[i] = P[i]
  PROVE  OwnerIn(Q, j) = OwnerIn(P, j)
<1> DEFINE a == OwnerIn(P, j)
           b == OwnerIn(Q, j)
<1>0. \A i \in 1..j : Identity(Q[i]) = Identity(P[i])
  OBVIOUS
<1>j. j \in 1..j
  OBVIOUS
<1>1. /\ a \in 1..j /\ Identity(P[a]) = Identity(P[j])
      /\ \A k \in 1..j : Identity(P[k]) = Identity(P[j]) => a <= k
  BY OwnerIs
<1>2. /\ b \in 1..j /\ Identity(Q[b]) = Identity(Q[j])
      /\ \A k \in 1..j : Identity(Q[k]) = Identity(Q[j]) => b <= k
  BY OwnerIs
<1> HIDE DEF a, b
<1>3. b <= a /\ a <= b
  BY <1>0, <1>1, <1>2, <1>j
<1>4. a = b
  BY <1>1, <1>2, <1>3
<1> QED
  BY <1>4 DEF a, b

\* The state operators are these, of the state.
LEMMA StateOps ==
  /\ ValidSlots = ValidIn(journal) /\ NewestSlot = NewestIn(journal) /\ Newest = NewestOf(journal)
  /\ \A j : Owner(j) = OwnerIn(plans, j) /\ Changes(j) = plans[j].changes
BY DEF ValidSlots, ValidIn, NewestSlot, NewestIn, Newest, NewestOf, Owner, OwnerIn, Changes

LEMMA StateOpsNext ==
  /\ ValidSlots' = ValidIn(journal') /\ NewestSlot' = NewestIn(journal')
  /\ Newest' = NewestOf(journal')
  /\ \A j : Owner(j)' = OwnerIn(plans', j) /\ Changes(j)' = plans'[j].changes
BY DEF ValidSlots, ValidIn, NewestSlot, NewestIn, Newest, NewestOf, Owner, OwnerIn, Changes

-----------------------------------------------------------------------------
\* The newest copy.

LEMMA NewestPick ==
  ASSUME NEW m, NEW J \in [{0, 1} -> Copy(m)], ValidIn(J) # {}
  PROVE  /\ NewestIn(J) \in ValidIn(J) /\ NewestIn(J) \in {0, 1}
         /\ \A t \in ValidIn(J) : \/ J[t].gen < J[NewestIn(J)].gen
                                  \/ J[t].gen = J[NewestIn(J)].gen /\ t <= NewestIn(J)
<1>1. \A s \in {0, 1} : J[s].gen \in Nat
  BY DEF Copy
<1>2. ValidIn(J) \subseteq {0, 1}
  BY DEF ValidIn
<1> DEFINE best(s) == \A t \in ValidIn(J) : \/ J[t].gen < J[s].gen
                                            \/ J[t].gen = J[s].gen /\ t <= s
<1>3. \E s \in ValidIn(J) : best(s)
  <2>1. CASE 1 \notin ValidIn(J)
    BY <1>1, <1>2, <2>1
  <2>2. CASE 0 \notin ValidIn(J)
    BY <1>1, <1>2, <2>2
  <2>3. CASE 0 \in ValidIn(J) /\ 1 \in ValidIn(J)
    <3>1. CASE J[1].gen < J[0].gen
      BY <1>1, <1>2, <2>3, <3>1
    <3>2. CASE ~(J[1].gen < J[0].gen)
      BY <1>1, <1>2, <2>3, <3>2
    <3> QED
      BY <3>1, <3>2
  <2> QED
    BY <2>1, <2>2, <2>3
<1>4. NewestIn(J) = CHOOSE s \in ValidIn(J) : best(s)
  BY DEF NewestIn
<1> HIDE DEF best
<1>5. NewestIn(J) \in ValidIn(J) /\ best(NewestIn(J))
  BY <1>3, <1>4, Zenon
<1> QED
  BY <1>2, <1>5 DEF best

LEMMA NewestIs ==
  ASSUME NEW m, NEW J \in [{0, 1} -> Copy(m)], NEW s \in ValidIn(J),
         \A t \in ValidIn(J) : t # s => J[t].gen < J[s].gen
  PROVE  NewestIn(J) = s
<1>1. \A t \in {0, 1} : J[t].gen \in Nat
  BY DEF Copy
<1>2. s \in {0, 1}
  BY DEF ValidIn
<1>3. /\ NewestIn(J) \in ValidIn(J) /\ NewestIn(J) \in {0, 1}
      /\ \A t \in ValidIn(J) : \/ J[t].gen < J[NewestIn(J)].gen
                               \/ J[t].gen = J[NewestIn(J)].gen /\ t <= NewestIn(J)
  BY NewestPick
<1> QED
  BY <1>1, <1>2, <1>3

\* An unreadable copy.
LEMMA CopyLost ==
  ASSUME NEW m, NEW J \in [{0, 1} -> Copy(m)], NEW s \in {0, 1}, NEW x \in Copy(m), x.is # "ok",
         NEW K, K = [J EXCEPT ![s] = x]
  PROVE  /\ K \in [{0, 1} -> Copy(m)] /\ ValidIn(K) = ValidIn(J) \ {s}
         /\ \A t \in ValidIn(K) : K[t] = J[t]
BY DEF ValidIn

\* The copy that is not the newest, lost.
LosesOlder(J, m, o, x, K) ==
  /\ J \in [{0, 1} -> Copy(m)] /\ ValidIn(J) # {} /\ x \in Copy(m) /\ x.is # "ok"
  /\ o = 1 - NewestIn(J) /\ K = [J EXCEPT ![o] = x]

LEMMA OtherLost ==
  ASSUME NEW J, NEW m, NEW w, NEW x, NEW K, LosesOlder(J, m, w, x, K)
  PROVE  /\ K \in [{0, 1} -> Copy(m)] /\ ValidIn(K) = {NewestIn(J)}
         /\ NewestIn(K) = NewestIn(J) /\ NewestOf(K) = NewestOf(J)
<1>0. /\ J \in [{0, 1} -> Copy(m)] /\ ValidIn(J) # {} /\ x \in Copy(m) /\ x.is # "ok"
      /\ K = [J EXCEPT ![1 - NewestIn(J)] = x]
  BY DEF LosesOlder
<1> USE <1>0
<1> DEFINE s == NewestIn(J)
           o == 1 - s
<1>1. s \in ValidIn(J) /\ s \in {0, 1}
  BY NewestPick
<1>2. K = [J EXCEPT ![o] = x]
  OBVIOUS
<1> HIDE DEF s
<1>3. o \in {0, 1} /\ o # s /\ \A t \in {0, 1} : t = s \/ t = o
  BY <1>1
<1> HIDE DEF o
<1>4. K \in [{0, 1} -> Copy(m)] /\ K[o] = x /\ K[s] = J[s]
  <2>1. K \in [{0, 1} -> Copy(m)]
    BY <1>2
  <2> QED
    BY <2>1, <1>1, <1>2, <1>3
<1>5. ValidIn(K) = {s}
  <2>1. \A t : t \in ValidIn(K) <=> t = s
    BY <1>1, <1>3, <1>4 DEF ValidIn
  <2> QED
    BY <2>1
<1>6. NewestIn(K) = s
  <2>1. \A t \in ValidIn(K) : t # s => K[t].gen < K[s].gen
    BY <1>5
  <2>2. s \in ValidIn(K)
    BY <1>5
  <2> QED
    BY <2>1, <2>2, <1>4, NewestIs
<1> QED
  BY <1>4, <1>5, <1>6 DEF s, NewestOf

\* A newer record in the other copy.
WritesNewer(J, m, o, x, K) ==
  /\ J \in [{0, 1} -> Copy(m)] /\ ValidIn(J) = {NewestIn(J)} /\ x \in Copy(m) /\ x.is = "ok"
  /\ x.gen = NewestOf(J).gen + 1 /\ o = 1 - NewestIn(J) /\ K = [J EXCEPT ![o] = x]

LEMMA NewerWritten ==
  ASSUME NEW J, NEW m, NEW o, NEW x, NEW K, WritesNewer(J, m, o, x, K)
  PROVE  /\ K \in [{0, 1} -> Copy(m)] /\ ValidIn(K) = {0, 1}
         /\ NewestIn(K) = o /\ NewestOf(K) = x /\ K[NewestIn(J)] = NewestOf(J)
         /\ \A t \in {0, 1} : t = NewestIn(J) \/ t = o
<1>0. /\ J \in [{0, 1} -> Copy(m)] /\ ValidIn(J) = {NewestIn(J)} /\ x \in Copy(m) /\ x.is = "ok"
      /\ x.gen = NewestOf(J).gen + 1 /\ o = 1 - NewestIn(J)
      /\ K = [J EXCEPT ![1 - NewestIn(J)] = x]
  BY DEF WritesNewer
<1> USE <1>0
<1> DEFINE s == NewestIn(J)
<1>1. s \in ValidIn(J) /\ s \in {0, 1}
  BY NewestPick
<1>2. K = [J EXCEPT ![1 - s] = x] /\ x.gen = J[s].gen + 1
  BY DEF NewestOf
<1> HIDE DEF s
<1>3. 1 - s \in {0, 1} /\ 1 - s # s /\ \A t \in {0, 1} : t = s \/ t = 1 - s
  BY <1>1
<1>4. K \in [{0, 1} -> Copy(m)] /\ K[1 - s] = x /\ K[s] = J[s]
  BY <1>1, <1>2, <1>3
<1>5. ValidIn(K) = {0, 1}
  BY <1>1, <1>3, <1>4 DEF ValidIn
<1>6. J[s].gen \in Nat /\ J[s].gen < x.gen
  BY <1>1, <1>2 DEF Copy
<1>7. NewestIn(K) = 1 - s
  <2>1. \A t \in ValidIn(K) : t # 1 - s => K[t].gen < K[1 - s].gen
    BY <1>3, <1>4, <1>5, <1>6
  <2> QED
    BY <2>1, <1>3, <1>4, <1>5, NewestIs
<1> QED
  BY <1>3, <1>4, <1>5, <1>7 DEF s, NewestOf

-----------------------------------------------------------------------------
\* Reviewed plans.

LEMMA ContentGrows ==
  ASSUME NEW m \in Nat, NEW k \in Nat, m <= k
  PROVE  Content(m) \subseteq Content(k)
<1>1. 0..m \subseteq 0..k
  OBVIOUS
<1> QED
  BY <1>1 DEF Content

LEMMA CopyGrows ==
  ASSUME NEW m \in Nat, NEW k \in Nat, m <= k
  PROVE  Copy(m) \subseteq Copy(k)
<1>1. 0..m \subseteq 0..k
  OBVIOUS
<1> QED
  BY <1>1 DEF Copy

LEMMA ContentHas ==
  ASSUME NEW m \in Nat
  PROVE  /\ Blank \in Content(m) /\ Torn \in Content(m)
         /\ \A s \in System, k \in 0..m : Of(s, k) \in Content(m)
         /\ \A x \in Content(m) : Short(x) \in Content(m) /\ x.n \in 0..m /\ x.n \in Nat
BY DEF Content, Blank, Torn, Short, Of, System

LEMMA BoardTypes ==
  ASSUME NEW m \in Nat, m > 0
  PROVE  /\ StockBoard \in [Block -> Content(m)] /\ LegacyBoard \in [Block -> Content(m)]
         /\ MigrateBoard \in [Block -> Content(m)]
         /\ \A k \in 0..m : DualBoard(k) \in [Block -> Content(m)]
<1> DEFINE C == Content(m)
<1>1. /\ Blank \in C /\ Of("stock", 0) \in C /\ Of("legacy", 0) \in C
      /\ \A k \in 0..m : Of("dual", k) \in C
  BY ContentHas DEF System
<1> HIDE DEF C
<1>2. StockBoard \in [Block -> C]
  BY <1>1 DEF StockBoard
<1>3. LegacyBoard \in [Block -> C]
  BY <1>1 DEF LegacyBoard
<1>4. ASSUME NEW k \in 0..m
      PROVE  DualBoard(k) \in [Block -> C]
  <2>1. Of("dual", 0) \in C /\ Of("dual", k) \in C
    BY <1>1
  <2> QED
    BY <1>1, <2>1 DEF DualBoard
<1>5. MigrateBoard \in [Block -> C]
  <2>1. DualBoard(1) \in [Block -> C]
    BY <1>4
  <2> QED
    BY <1>1, <2>1 DEF MigrateBoard
<1> QED
  BY <1>2, <1>3, <1>4, <1>5 DEF C

\* The four plans, with the board each is made for.
LEMMA PlanBoards ==
  ASSUME NEW n
  PROVE  /\ MigratePlan(n) = Plan(n, MigrateBoard, MigrateOrder)
         /\ AddHpPlan(n) = Plan(n, DualBoard(1), AddHpOrder)
         /\ RefreshPlan(n) = Plan(n, DualBoard(n["img"].n + 1), RefreshOrder)
         /\ \A d : RestorePlan(n, d) = Plan(n, d, RestoreOrder)
BY DEF MigratePlan, AddHpPlan, RefreshPlan, RestorePlan, MigrateBoard

\* A plan between two boards of a type.
LEMMA PlanTyped ==
  ASSUME NEW m \in Nat, NEW n \in [Block -> Content(m)], NEW d \in [Block -> Content(m)],
         NEW order, NEW rk, Ranked(order, rk)
  PROVE  /\ Plan(n, d, order) \in Seq(ChangeOf(Content(m)))
         /\ PlanTo(Plan(n, d, order), n, d, rk, 12)
BY PlanIs

\* Two boards and an order a plan can be made of.
Fits(n, d, order, rk, C) ==
  n \in [Block -> C] /\ d \in [Block -> C] /\ Ranked(order, rk)

LEMMA PlanFits ==
  ASSUME NEW C, NEW n, NEW d, NEW order, NEW rk, Fits(n, d, order, rk, C)
  PROVE  PlanTo(Plan(n, d, order), n, d, rk, 12)
BY PlanIs DEF Fits

GoodPlan(p, src) ==
  \E d, order, rk :
    /\ Ranked(order, rk) /\ PlanTo(p.changes, p.initial, d, rk, 12)
    /\ \A n, r : r \in 1..13 /\ Between(n, p.initial, d, rk, r) => GoodIn(src, n)

LEMMA RestoreTarget ==
  ASSUME NEW p, NEW src \in {"stock-hp", "lefony-menu1", "dual"}, src # "dual",
         NEW action,
         p.backup = (IF action = "restore-hp" THEN StockBoard ELSE Board(src))
  PROVE  \E S : OldInstallation(p.backup, S)
BY OldInstallations DEF Board

LEMMA Lengths ==
  /\ \A x \in Nat : x <= 12 /\ x # 0 => x \in 1..12
  /\ \A x \in 1..12 : x \in Nat /\ 0 < x /\ x <= 12
OBVIOUS

\* What holds of every reviewed plan, whichever it is.
LEMMA PlanGood ==
  ASSUME NEW m \in Nat, m > 0, NEW l, NEW p \in ReviewType(m, l),
         NEW src \in {"stock-hp", "lefony-menu1", "dual"}, NEW action, PlanOK(p, src, action)
  PROVE  /\ GoodPlan(p, src) /\ ChangeList(p.changes, p.initial)
         /\ Len(p.changes) \in 1..12
<1> DEFINE c == p.changes
           n0 == p.initial
           C == Content(m + 1)
<1>1. c # <<>> /\ GoodIn(src, n0) /\ c \in Seq(ChangeOf(Content(m))) /\ Len(c) \in Nat
  BY DEF PlanOK, ReviewType
<1>2. n0 \in [Block -> C]
  BY ContentGrows, m + 1 \in Nat, m <= m + 1 DEF ReviewType
<1>3. /\ StockBoard \in [Block -> C] /\ LegacyBoard \in [Block -> C]
      /\ MigrateBoard \in [Block -> C] /\ \A k \in 0..(m + 1) : DualBoard(k) \in [Block -> C]
  BY BoardTypes, m + 1 \in Nat, m + 1 > 0
<1> DEFINE good(d, order, rk) ==
             /\ Ranked(order, rk) /\ PlanTo(c, n0, d, rk, 12)
             /\ \A n, r : r \in 1..13 /\ Between(n, n0, d, rk, r) => GoodIn(src, n)
<1>4. \E d, order, rk : good(d, order, rk)
  <2>1. CASE p.mode = "migrate"
    <3>1. /\ src = "stock-hp" /\ n0 = StockBoard /\ c = Plan(n0, MigrateBoard, MigrateOrder)
      BY <2>1, PlanBoards DEF PlanOK
    <3>2. PlanTo(c, n0, MigrateBoard, MigrateRank, 12)
      <4>1. Fits(n0, MigrateBoard, MigrateOrder, MigrateRank, C)
        BY <1>2, <1>3, MigrateRanked DEF Fits
      <4> QED
        BY <3>1, <4>1, PlanFits, Zenon
    <3>3. \A n, r : r \in 1..13 /\ Between(n, n0, MigrateBoard, MigrateRank, r) => GoodIn(src, n)
      BY <3>1, MigrateGood DEF GoodIn
    <3> QED
      BY <3>2, <3>3, MigrateRanked
  <2>2. CASE p.mode = "add-hp"
    <3>1. /\ src = "lefony-menu1" /\ LegacyCapture(n0) /\ c = Plan(n0, DualBoard(1), AddHpOrder)
      BY <2>2, PlanBoards DEF PlanOK
    <3>2. PlanTo(c, n0, DualBoard(1), AddHpRank, 12)
      <4>1. Fits(n0, DualBoard(1), AddHpOrder, AddHpRank, C)
        BY <3>1, <1>2, <1>3, 1 \in 0..(m + 1), AddHpRanked DEF Fits
      <4> QED
        BY <3>1, <4>1, PlanFits, Zenon
    <3>3. \A n, r : r \in 1..13 /\ Between(n, n0, DualBoard(1), AddHpRank, r) => GoodIn(src, n)
      BY <3>1, <1>1, AddHpGood DEF GoodIn
    <3> QED
      BY <3>2, <3>3, AddHpRanked
  <2>3. CASE p.mode = "restore"
    <3>1. /\ src # "dual" /\ RoutesVerify(n0) /\ c = Plan(n0, p.backup, RestoreOrder)
          /\ p.backup = (IF action = "restore-hp" THEN StockBoard ELSE Board(src))
      BY <2>3, PlanBoards DEF PlanOK
    <3>2. p.backup \in [Block -> C]
      BY <3>1, <1>3 DEF Board
    <3>3. PICK S : OldInstallation(p.backup, S)
      BY <3>1, RestoreTarget
    <3>4. PlanTo(c, n0, p.backup, RestoreRank, 12)
      <4>1. Fits(n0, p.backup, RestoreOrder, RestoreRank, C)
        BY <3>1, <3>2, <1>2, RestoreRanked DEF Fits
      <4> QED
        BY <3>1, <4>1, PlanFits, Zenon
    <3>5. Whole(n0)
      BY <3>1, <1>1 DEF GoodIn
    <3>6. \A n, r : r \in 1..13 /\ Between(n, n0, p.backup, RestoreRank, r) => GoodIn(src, n)
      BY <3>1, <3>3, <3>5, RestoreGood DEF GoodIn
    <3> QED
      BY <3>4, <3>6, RestoreRanked
  <2>4. CASE p.mode = "refresh-dual"
    <3> DEFINE k == n0["img"].n + 1
    <3>1. /\ src = "dual" /\ RoutesVerify(n0) /\ c = Plan(n0, DualBoard(k), RefreshOrder)
      BY <2>4, PlanBoards DEF PlanOK
    <3>2. n0["img"] \in Content(m)
      BY BlockSet DEF ReviewType
    <3>3. k \in 0..(m + 1) /\ k \in Nat
      BY <3>2, ContentHas
    <3> HIDE DEF k
    <3>4. PlanTo(c, n0, DualBoard(k), RefreshRank, 12)
      <4>1. Fits(n0, DualBoard(k), RefreshOrder, RefreshRank, C)
        BY <3>1, <3>3, <1>2, <1>3, RefreshRanked DEF Fits
      <4> QED
        BY <3>1, <4>1, PlanFits, Zenon
    <3>5. Routed(n0)
      BY <3>1, <1>1 DEF GoodIn
    <3>6. \A n, r : r \in 1..13 /\ Between(n, n0, DualBoard(k), RefreshRank, r) => GoodIn(src, n)
      BY <3>1, <3>3, <3>5, RefreshGood DEF GoodIn
    <3> QED
      BY <3>4, <3>6, RefreshRanked
  <2> QED
    BY <2>1, <2>2, <2>3, <2>4 DEF PlanOK
<1>5. PICK d, order, rk : good(d, order, rk)
  BY <1>4
<1>6. ChangeList(c, n0)
  BY <1>1, <1>5, PlanList
<1>7. Len(c) <= 12 /\ Len(c) # 0
  BY <1>1, <1>5 DEF PlanTo
<1>8. GoodPlan(p, src)
  BY <1>4 DEF GoodPlan
<1>9. Len(c) \in 1..12
  BY <1>1, <1>7, Lengths, Zenon
<1> QED
  BY <1>6, <1>8, <1>9

\* Two blocks of an order are not replaced at once.
LEMMA RankOnce ==
  ASSUME NEW order, NEW rk, Ranked(order, rk), NEW b \in Block, NEW e \in Block,
         rk[b] = rk[e], rk[e] \in 1..12
  PROVE  b = e
<1>1. rk[e] # 13 /\ rk[b] # 13
  OBVIOUS
<1>2. \A c \in Block : rk[c] # 13 => order[rk[c]][1] = c
  BY DEF Ranked
<1>3. order[rk[b]][1] = b /\ order[rk[e]][1] = e
  BY <1>1, <1>2
<1> QED
  BY <1>3

\* Wherever a plan is, its open block half written, something good boots.
LEMMA OpenGood ==
  ASSUME NEW p, NEW src, GoodPlan(p, src), Len(p.changes) \in Nat,
         NEW i \in Nat, i < Len(p.changes), NEW n, Upto(n, p.initial, p.changes, i, TRUE),
         LET e == p.changes[i + 1] IN OpenAt(e.block, n[e.block], e.before, e.after)
  PROVE  GoodIn(src, n)
<1> DEFINE c == p.changes
           n0 == p.initial
           e == c[i + 1]
<1>1. PICK d, order, rk : /\ Ranked(order, rk) /\ PlanTo(c, n0, d, rk, 12)
                          /\ \A m, r : r \in 1..13 /\ Between(m, n0, d, rk, r) => GoodIn(src, m)
  BY DEF GoodPlan
<1>2. e.block \in Block /\ rk[e.block] \in 1..12 /\ Prefix(n, n0, d, rk, rk[e.block])
  BY <1>1, UptoPrefix
<1>3. i + 1 \in 1..Len(c)
  OBVIOUS
<1>4. e.before = n0[e.block] /\ e.after = d[e.block]
  BY <1>1, <1>3 DEF PlanTo, ChangesAre
<1>5. \A b \in Block : rk[b] = rk[e.block] => b = e.block
  <2> HIDE DEF e
  <2> QED
    BY <1>1, <1>2, RankOnce
<1>6. Between(n, n0, d, rk, rk[e.block])
  BY <1>2, <1>4, <1>5 DEF Between
<1> QED
  BY <1>1, <1>2, <1>6

\* A plan that has begun cannot be made again over the board.
LEMMA BegunPlan ==
  ASSUME NEW m \in Nat, m > 0, NEW l, NEW p \in ReviewType(m, l),
         NEW src \in {"stock-hp", "lefony-menu1", "dual"}, NEW action, PlanOK(p, src, action),
         NEW i \in Nat, 0 < i, NEW open, NEW n, Upto(n, p.initial, p.changes, i, open)
  PROVE  BegunOn(n, p)
<1> DEFINE c == p.changes
           n0 == p.initial
           C == Content(m + 1)
<1>0. ChangeList(c, n0) /\ Len(c) \in 1..12
  BY PlanGood
<1>1. ChangeList(c, n0) /\ Len(c) \in 1..12 /\ Len(c) \in Nat /\ 0 < Len(c)
  BY <1>0, Lengths, Zenon
<1>2. n0 \in [Block -> C]
  BY ContentGrows, m + 1 \in Nat, m <= m + 1 DEF ReviewType
<1>3. /\ StockBoard \in [Block -> C] /\ LegacyBoard \in [Block -> C]
      /\ \A k \in 0..(m + 1) : DualBoard(k) \in [Block -> C]
  BY BoardTypes, m + 1 \in Nat, m + 1 > 0
<1>4. n[c[1].block] # n0[c[1].block] /\ c[1].before = n0[c[1].block] /\ c[1].block \in Block
  <2>0. Upto(n, n0, c, i, open) /\ 1 <= i
    OBVIOUS
  <2> HIDE DEF c, n0
  <2>2. 1 \in 1..Len(c)
    BY <1>1
  <2>1. n[c[1].block] # n0[c[1].block] /\ c[1].block \in Block
    <3>1. n[c[1].block] = c[1].after
      BY <2>0, <2>2 DEF Upto
    <3> QED
      BY <3>1, <2>2, <1>1 DEF ChangeList
  <2> QED
    BY <2>1, <2>2, <1>1 DEF ChangeList
<1>5. CASE p.mode = "refresh-dual"
  <2> DEFINE k == n0["img"].n + 1
  <2>1. c = Plan(n0, DualBoard(k), RefreshOrder) /\ n0["f1"].n <= n0["img"].n
    BY <1>5, PlanBoards DEF PlanOK
  <2>2. n0["img"] \in Content(m) /\ n0["f1"] \in Content(m)
    BY BlockSet DEF ReviewType
  <2>3. k \in 0..(m + 1) /\ n0["f1"].n \in Nat /\ n0["img"].n \in Nat
    BY <2>2, ContentHas
  <2>4. n0["f1"].n # k
    BY <2>1, <2>3
  <2>5. DualBoard(k)["f1"].n = k
    BY NewBoard, ContentIs
  <2>6. PlanTo(c, n0, DualBoard(k), RefreshRank, 12)
    <3> HIDE DEF k
    <3>1. Fits(n0, DualBoard(k), RefreshOrder, RefreshRank, C)
      BY <2>3, <1>2, <1>3, RefreshRanked DEF Fits
    <3> QED
      BY <2>1, <3>1, PlanFits, Zenon
  <2>7. c[1].block = "f1"
    BY <2>4, <2>5, <2>6, <1>1, RefreshFirst
  <2> QED
    BY <2>7, <1>4 DEF BegunOn
<1>6. CASE p.mode = "restore"
  <2>1. /\ src # "dual" /\ c = Plan(n0, p.backup, RestoreOrder)
        /\ p.backup = (IF action = "restore-hp" THEN StockBoard ELSE Board(src))
    BY <1>6, PlanBoards DEF PlanOK
  <2>2. p.backup \in [Block -> C]
    BY <2>1, <1>3 DEF Board
  <2>3. PICK S : OldInstallation(p.backup, S)
    BY <2>1, RestoreTarget
  <2>4. PlanTo(c, n0, p.backup, RestoreRank, 12)
    <3>1. Fits(n0, p.backup, RestoreOrder, RestoreRank, C)
      BY <2>1, <2>2, <1>2, RestoreRanked DEF Fits
    <3> QED
      BY <2>1, <3>1, PlanFits, Zenon
  <2>5. CASE c[1].block \in Layout
    BY <2>5, <1>4 DEF BegunOn
  <2>6. CASE c[1].block \notin Layout
    <3>1. \A x \in Layout : n0[x] = Blank /\ \A k \in 1..Len(c) : c[k].block # x
      BY <2>3, <2>4, <2>6, <1>1, RestoreFirst
    <3>2. \A x \in Layout : n[x] = Blank
      BY <3>1, BlockSet, BlockParts DEF Upto
    <3> QED
      BY <3>2, <1>4 DEF BegunOn
  <2> QED
    BY <2>5, <2>6
<1> QED
  BY <1>5, <1>6 DEF BegunOn

\* What a finished plan boots.
LEMMA FinishedBoots ==
  ASSUME NEW m \in Nat, m > 0, NEW l, NEW p \in ReviewType(m, l),
         NEW src \in {"stock-hp", "lefony-menu1", "dual"}, NEW action, PlanOK(p, src, action),
         NEW n, Upto(n, p.initial, p.changes, Len(p.changes), FALSE)
  PROVE  /\ p.mode # "restore" => Boot(n) = "dual"
         /\ p.mode = "restore" => /\ Boot(n) = p.backup["sys"].is
                                  /\ \A b \in Block : n[b] = p.backup[b]
<1> DEFINE c == p.changes
           n0 == p.initial
           C == Content(m + 1)
<1>1. Len(c) \in Nat /\ GoodIn(src, n0)
  BY PlanGood DEF PlanOK
<1>2. n0 \in [Block -> C]
  BY ContentGrows, m + 1 \in Nat, m <= m + 1 DEF ReviewType
<1>3. /\ StockBoard \in [Block -> C] /\ LegacyBoard \in [Block -> C]
      /\ MigrateBoard \in [Block -> C] /\ \A k \in 0..(m + 1) : DualBoard(k) \in [Block -> C]
  BY BoardTypes, m + 1 \in Nat, m + 1 > 0
<1>4. CASE p.mode = "migrate"
  <2>1. n0 = StockBoard /\ c = Plan(n0, MigrateBoard, MigrateOrder)
    BY <1>4, PlanBoards DEF PlanOK
  <2>2. PlanTo(c, n0, MigrateBoard, MigrateRank, 12)
    <3>1. Fits(n0, MigrateBoard, MigrateOrder, MigrateRank, C)
      BY <1>2, <1>3, MigrateRanked DEF Fits
    <3> QED
      BY <2>1, <3>1, PlanFits, Zenon
  <2>3. Prefix(n, n0, MigrateBoard, MigrateRank, 13)
    BY <2>2, <1>1, MigrateRanked, UptoWhole
  <2> QED
    BY <2>1, <2>3, <1>4, MigrateBoots
<1>5. CASE p.mode = "add-hp"
  <2>1. /\ src = "lefony-menu1" /\ LegacyCapture(n0) /\ c = Plan(n0, DualBoard(1), AddHpOrder)
    BY <1>5, PlanBoards DEF PlanOK
  <2>2. PlanTo(c, n0, DualBoard(1), AddHpRank, 12)
    <3>1. Fits(n0, DualBoard(1), AddHpOrder, AddHpRank, C)
      BY <2>1, <1>2, <1>3, 1 \in 0..(m + 1), AddHpRanked DEF Fits
    <3> QED
      BY <2>1, <3>1, PlanFits, Zenon
  <2>3. Prefix(n, n0, DualBoard(1), AddHpRank, 13)
    BY <2>2, <1>1, AddHpRanked, UptoWhole
  <2>4. SysOf(n0, "legacy")
    BY <2>1, <1>1, LegacyWhole DEF GoodIn
  <2> QED
    BY <2>3, <2>4, <1>5, AddHpBoots
<1>6. CASE p.mode = "restore"
  <2>1. /\ src # "dual" /\ c = Plan(n0, p.backup, RestoreOrder)
        /\ p.backup = (IF action = "restore-hp" THEN StockBoard ELSE Board(src))
    BY <1>6, PlanBoards DEF PlanOK
  <2>2. p.backup \in [Block -> C]
    BY <2>1, <1>3 DEF Board
  <2>3. PICK S : OldInstallation(p.backup, S)
    BY <2>1, RestoreTarget
  <2>4. PlanTo(c, n0, p.backup, RestoreRank, 12)
    <3>1. Fits(n0, p.backup, RestoreOrder, RestoreRank, C)
      BY <2>1, <2>2, <1>2, RestoreRanked DEF Fits
    <3> QED
      BY <2>1, <3>1, PlanFits, Zenon
  <2>5. Prefix(n, n0, p.backup, RestoreRank, 13)
    BY <2>4, <1>1, RestoreRanked, UptoWhole
  <2>6. Boot(n) = S /\ \A b \in Block : n[b] = p.backup[b]
    BY <2>3, <2>5, RestoreBoots
  <2>7. p.backup["sys"].is = S
    BY <2>3 DEF OldInstallation
  <2> QED
    BY <2>6, <2>7, <1>6
<1>7. CASE p.mode = "refresh-dual"
  <2> DEFINE k == n0["img"].n + 1
  <2>1. /\ src = "dual" /\ c = Plan(n0, DualBoard(k), RefreshOrder)
    BY <1>7, PlanBoards DEF PlanOK
  <2>2. n0["img"] \in Content(m)
    BY BlockSet DEF ReviewType
  <2>3. k \in 0..(m + 1) /\ k \in Nat \ {0}
    BY <2>2, ContentHas
  <2> HIDE DEF k
  <2>4. PlanTo(c, n0, DualBoard(k), RefreshRank, 12)
    <3>1. Fits(n0, DualBoard(k), RefreshOrder, RefreshRank, C)
      BY <2>1, <2>3, <1>2, <1>3, RefreshRanked DEF Fits
    <3> QED
      BY <2>1, <3>1, PlanFits, Zenon
  <2>5. Prefix(n, n0, DualBoard(k), RefreshRank, 13)
    BY <2>4, <1>1, RefreshRanked, UptoWhole
  <2>6. Routed(n0)
    BY <2>1, <1>1 DEF GoodIn
  <2> QED
    BY <2>3, <2>5, <2>6, <1>7, RefreshBoots
<1> QED
  BY <1>4, <1>5, <1>6, <1>7 DEF PlanOK

-----------------------------------------------------------------------------
\* Journals of one plan.

Own(J, o) == ValidIn(J) # {} /\ \A s \in ValidIn(J) : J[s].owner = o

\* K holds some of J's valid copies.
Less(K, J) == ValidIn(K) \subseteq ValidIn(J) /\ \A s \in ValidIn(K) : K[s] = J[s]

LEMMA ValidSides == \A J : ValidIn(J) \subseteq {0, 1}
BY DEF ValidIn

LEMMA NewestFacts ==
  ASSUME NEW m, NEW J \in [{0, 1} -> Copy(m)], NEW P, NEW src, JournalsOK(J, P, src),
         NEW o, o # 0, Own(J, o)
  PROVE  LET x == NewestOf(J)
         IN  /\ x \in Copy(m) /\ x.owner = o /\ x.is = "ok" /\ x.gen \in Nat /\ x.gen > 0
             /\ x.index \in Nat /\ x.index <= Len(P[o].changes) /\ x.pending \in BOOLEAN
             /\ x.pending => x.index < Len(P[o].changes)
             /\ \A s \in ValidIn(J) : J[s] = x \/ Succeeds(J[s], x)
             /\ \A s \in ValidIn(J) : J[s].index \in Nat
<1> DEFINE s == NewestIn(J)
           x == J[s]
<1>1. /\ s \in ValidIn(J) /\ s \in {0, 1}
      /\ \A t \in ValidIn(J) : J[t].gen < J[s].gen \/ (J[t].gen = J[s].gen /\ t <= s)
  BY NewestPick DEF Own
<1> HIDE DEF s
<1>2. x \in Copy(m) /\ x.owner = o /\ x.is = "ok"
  BY <1>1 DEF Own, ValidIn
<1>3. x.gen \in Nat /\ x.index \in 0..12 /\ x.pending \in BOOLEAN
  BY <1>2 DEF Copy
<1>4. RecordOK(x, P, src)
  BY <1>1 DEF JournalsOK
<1>5. /\ x.gen > 0 /\ x.index <= Len(P[o].changes)
      /\ x.pending => x.index < Len(P[o].changes)
  BY <1>2, <1>4 DEF RecordOK
<1>6. ASSUME NEW t \in ValidIn(J)
      PROVE  (J[t] = x \/ Succeeds(J[t], x)) /\ J[t].index \in Nat
  <2>1. t \in {0, 1} /\ J[t] \in Copy(m) /\ J[t].owner = o
    BY ValidSides DEF Own
  <2>2. J[t].index \in Nat
    BY <2>1 DEF Copy
  <2>3. CASE t = s
    BY <2>2, <2>3
  <2>4. CASE t # s
    <3>1. ValidIn(J) = {0, 1}
      BY <1>1, <2>1, <2>4, ValidSides
    <3>2. /\ J[0].gen = J[1].gen => J[0] = J[1]
          /\ J[t].gen < J[s].gen => Succeeds(J[t], J[s])
      BY <1>1, <2>1, <3>1 DEF JournalsOK
    <3>3. J[t].gen = J[s].gen => J[0].gen = J[1].gen
      BY <1>1, <2>1, <2>4
    <3>4. J[0] = J[1] => J[t] = J[s]
      BY <1>1, <2>1
    <3> QED
      BY <1>1, <2>2, <3>2, <3>3, <3>4
  <2> QED
    BY <2>3, <2>4
<1>7. x.index \in Nat
  BY <1>3
<1> QED
  BY <1>2, <1>3, <1>5, <1>6, <1>7 DEF NewestOf, s

LEMMA LessCopies ==
  ASSUME NEW m, NEW J \in [{0, 1} -> Copy(m)], NEW s \in {0, 1}, NEW x \in Copy(m), x.is # "ok",
         NEW K, K = [J EXCEPT ![s] = x]
  PROVE  K \in [{0, 1} -> Copy(m)] /\ Less(K, J) /\ ValidIn(K) = ValidIn(J) \ {s} /\ K[s] = x
<1>1. K \in [{0, 1} -> Copy(m)]
  OBVIOUS
<1>2. K[s] = x /\ \A t \in {0, 1} : t # s => K[t] = J[t]
  OBVIOUS
<1>3. \A t : t \in ValidIn(K) <=> t \in ValidIn(J) /\ t # s
  BY <1>2 DEF ValidIn
<1>4. ValidIn(K) = ValidIn(J) \ {s}
  BY <1>3
<1> QED
  BY <1>1, <1>2, <1>3, <1>4, ValidSides DEF Less

LEMMA JournalsLess ==
  ASSUME NEW J, NEW K, Less(K, J), NEW P, NEW src, JournalsOK(J, P, src)
  PROVE  JournalsOK(K, P, src)
<1>1. \A s \in ValidIn(K) : RecordOK(K[s], P, src)
  BY DEF Less, JournalsOK
<1>2. ValidIn(K) = {0, 1} => ValidIn(J) = {0, 1} /\ K[0] = J[0] /\ K[1] = J[1]
  BY ValidSides DEF Less
<1>3. ASSUME ValidIn(K) = {0, 1}
      PROVE  /\ K[0].owner = K[1].owner
             /\ K[0].gen = K[1].gen => K[0] = K[1]
             /\ \A s, t \in {0, 1} : K[s].owner # 0 /\ K[s].gen < K[t].gen => Succeeds(K[s], K[t])
  BY <1>2, <1>3 DEF JournalsOK
<1> QED
  BY <1>1, <1>3 DEF JournalsOK

LEMMA FoundLess ==
  ASSUME NEW J, NEW K, Less(K, J), NEW n, FoundOK(J, n)
  PROVE  FoundOK(K, n)
BY DEF Less, FoundOK

LEMMA BegunLess ==
  ASSUME NEW J, NEW K, Less(K, J), NEW n, NEW P, BegunOK(J, n, P)
  PROVE  BegunOK(K, n, P)
BY DEF Less, BegunOK

LEMMA FreshLess ==
  ASSUME NEW J, NEW K, Less(K, J), NEW n, NEW p, NEW o, FreshOn(n, J, p, o)
  PROVE  FreshOn(n, K, p, o)
BY DEF Less, FreshOn

LEMMA FinishedLess ==
  ASSUME NEW J, NEW K, Less(K, J), NEW n, NEW p, NEW o, NEW k, FinishedOn(n, J, p, o, k)
  PROVE  FinishedOn(n, K, p, o, k)
BY DEF Less, FinishedOn

\* A reviewed plan, as the executor needs it.
Runs(p, m) ==
  /\ ChangeList(p.changes, p.initial) /\ p.changes \in Seq(ChangeOf(Content(m)))
  /\ Len(p.changes) \in Nat /\ 0 < Len(p.changes) /\ Len(p.changes) <= 12
  /\ p.initial \in [Block -> Content(m)]

\* P's journals of p's owner o.
Owns(P, p, o) ==
  /\ o # 0 /\ o \in 1..Len(P) /\ o = OwnerIn(P, o)
  /\ P[o].changes = p.changes /\ P[o].mode = p.mode

\* A board that no longer is its plan's first, or is its last.
LEMMA NotFirst ==
  ASSUME NEW p, NEW m, Runs(p, m), NEW n, NEW i, i \in Nat, 0 < i, NEW open,
         Upto(n, p.initial, p.changes, i, open)
  PROVE  n # p.initial
<1> DEFINE c == p.changes
<1>1. 1 \in 1..Len(c) /\ 1 <= i
  BY DEF Runs
<1>2. n[c[1].block] = c[1].after
  BY <1>1 DEF Upto
<1>3. c[1].before = p.initial[c[1].block] /\ c[1].before # c[1].after
  BY <1>1 DEF Runs, ChangeList
<1> QED
  BY <1>2, <1>3

LEMMA DoneNotFirst ==
  ASSUME NEW p, NEW m, Runs(p, m), NEW n, DoneOn(n, p)
  PROVE  n # p.initial
BY NotFirst DEF DoneOn, Runs

\* A journal that says nothing is done has not gone further.
LEMMA GoingFirst ==
  ASSUME NEW m, NEW J \in [{0, 1} -> Copy(m)], NEW P, NEW src, JournalsOK(J, P, src),
         NEW p, NEW k, Runs(p, k), NEW o, Owns(P, p, o), NEW n, GoingOn(n, J, p, o), n = p.initial
  PROVE  FreshOn(n, J, p, o)
<1> DEFINE x == NewestOf(J)
<1>1. Own(J, o) /\ o # 0
  BY DEF GoingOn, Own, Owns
<1>2. /\ x.index \in Nat /\ x.pending \in BOOLEAN
      /\ \A s \in ValidIn(J) : J[s] = x \/ Succeeds(J[s], x)
      /\ \A s \in ValidIn(J) : J[s].index \in Nat
  BY <1>1, NewestFacts
<1>3. Upto(n, p.initial, p.changes, x.index, x.pending)
  BY DEF GoingOn
<1> HIDE DEF x
<1>4. x.index = 0
  BY <1>2, <1>3, NotFirst
<1>5. ASSUME NEW s \in ValidIn(J)
      PROVE  J[s].index = 0
  <2>1. J[s].index \in Nat /\ (J[s] = x \/ Succeeds(J[s], x))
    BY <1>2
  <2> QED
    BY <2>1, <1>4 DEF Succeeds
<1> QED
  BY <1>1, <1>5 DEF FreshOn, Own

LEMMA InitialFresh ==
  ASSUME NEW m, NEW J \in [{0, 1} -> Copy(m)], NEW P, NEW src, JournalsOK(J, P, src),
         NEW p, NEW k, Runs(p, k), NEW o, Owns(P, p, o), NEW n, NEW kd,
         AloneOn(n, J, p, o, kd, "reviewed"), n = p.initial
  PROVE  FreshOn(n, J, p, o)
<1>1. CASE GoingOn(n, J, p, o)
  BY <1>1, GoingFirst
<1>2. CASE FinishedOn(n, J, p, o, kd)
  <2>1. DoneOn(n, p)
    BY <1>2 DEF FinishedOn, DoneOn
  <2> QED
    BY <2>1, DoneNotFirst
<1> QED
  BY <1>1, <1>2 DEF AloneOn

\* Journals beside a finished plan are its own.
LEMMA DoneOwned ==
  ASSUME NEW p, NEW k, Runs(p, k), NEW n, NEW J, NEW o, NEW kd,
         AloneOn(n, J, p, o, kd, "reviewed"), DoneOn(n, p)
  PROVE  \A s \in ValidIn(J) : J[s].owner = o
<1>1. n # p.initial
  BY DoneNotFirst
<1> QED
  BY <1>1 DEF AloneOn, FreshOn, GoingOn, FinishedOn

\* The newest record of a plan that is done, and the one before.
LEMMA DoneEnd ==
  ASSUME NEW m, NEW J \in [{0, 1} -> Copy(m)], NEW P, NEW src, JournalsOK(J, P, src),
         NEW p, NEW k, Runs(p, k), NEW o, Owns(P, p, o), Own(J, o),
         NewestOf(J).index = Len(p.changes)
  PROVE  ~NewestOf(J).pending /\ \A s \in ValidIn(J) : J[s].owner = o /\ AtEnd(J[s], p)
<1> DEFINE x == NewestOf(J)
<1> DEFINE L == Len(p.changes)
<1>1. /\ x.index \in Nat /\ (x.pending => x.index < L) /\ x.pending \in BOOLEAN
      /\ \A s \in ValidIn(J) : J[s] = x \/ Succeeds(J[s], x)
      /\ \A s \in ValidIn(J) : J[s].index \in Nat
  BY NewestFacts DEF Owns
<1>2. L \in Nat /\ x.index = L
  BY DEF Runs
<1> HIDE DEF x, L
<1>3. ~x.pending
  BY <1>1, <1>2
<1>4. ASSUME NEW s \in ValidIn(J)
      PROVE  J[s].index = L - (IF J[s].pending THEN 1 ELSE 0)
  <2>1. J[s].index \in Nat /\ (J[s] = x \/ Succeeds(J[s], x))
    BY <1>1
  <2> QED
    BY <2>1, <1>2, <1>3 DEF Succeeds
<1> QED
  BY <1>3, <1>4 DEF x, L, AtEnd, Own

-----------------------------------------------------------------------------
\* The executor's steps, of a flash n and journals J, for a plan p with owner o.

\* What an inspection of the board finds.
LEMMA MatchOpen ==
  ASSUME NEW p, NEW m, Runs(p, m), NEW n, NEW i \in Nat, i <= Len(p.changes),
         NEW open \in BOOLEAN, open => i < Len(p.changes),
         Agrees(n, p.initial, p.changes, i, IF open THEN {p.changes[i + 1].block} ELSE {})
  PROVE  Upto(n, p.initial, p.changes, i, open)
<1>1. p.changes \in Seq(ChangeOf(Content(m))) /\ ChangeList(p.changes, p.initial)
  BY DEF Runs
<1>2. i \in 0..Len(p.changes)
  BY DEF Runs
<1> QED
  BY <1>1, <1>2, AgreesUpto

LEMMA MatchNone ==
  ASSUME NEW p, NEW m, Runs(p, m), NEW n, NEW i \in Nat, i <= Len(p.changes),
         Agrees(n, p.initial, p.changes, i, {})
  PROVE  Upto(n, p.initial, p.changes, i, FALSE)
BY MatchOpen

LEMMA SameFunction ==
  ASSUME NEW S, NEW T, NEW n \in [Block -> S], NEW d \in [Block -> T], \A b \in Block : n[b] = d[b]
  PROVE  n = d
OBVIOUS

LEMMA MatchFirst ==
  ASSUME NEW p, NEW m, Runs(p, m), NEW S, NEW n \in [Block -> S],
         Agrees(n, p.initial, p.changes, 0, {})
  PROVE  n = p.initial
<1>1. 0 <= Len(p.changes) /\ Len(p.changes) \in Nat /\ ChangeList(p.changes, p.initial)
  BY DEF Runs
<1>2. Upto(n, p.initial, p.changes, 0, FALSE)
  BY <1>1, MatchNone
<1>3. \A b \in Block : n[b] = p.initial[b]
  BY <1>1, <1>2, UptoSame
<1>4. p.initial \in [Block -> Content(m)]
  BY DEF Runs
<1> QED
  BY <1>3, <1>4, SameFunction

LEMMA MatchAll ==
  ASSUME NEW p, NEW m, Runs(p, m), NEW n,
         Agrees(n, p.initial, p.changes, Len(p.changes), {})
  PROVE  DoneOn(n, p)
<1>1. Len(p.changes) \in Nat /\ Len(p.changes) <= Len(p.changes)
  BY DEF Runs
<1> QED
  BY <1>1, MatchNone DEF DoneOn

LEMMA RecordFields ==
  ASSUME NEW o, NEW g, NEW i, NEW b
  PROVE  LET x == Record(o, g, i, b)
         IN  x.is = "ok" /\ x.owner = o /\ x.gen = g /\ x.index = i /\ x.pending = b
BY DEF Record

LEMMA RecordTyped ==
  ASSUME NEW l \in Nat, NEW o \in 0..l, NEW g \in Nat, NEW i \in 0..12, NEW b \in BOOLEAN
  PROVE  Record(o, g, i, b) \in Copy(l)
BY DEF Record, Copy

LEMMA NoRecords3 ==
  ASSUME NEW l \in Nat
  PROVE  /\ NoRecord("blank") \in Copy(l) /\ NoRecord("torn") \in Copy(l)
         /\ NoRecord("blank").is = "blank" /\ NoRecord("torn").is = "torn"
BY DEF NoRecord, Copy

\* Journals that are one job's.
LEMMA OwnFound ==
  ASSUME NEW J, NEW o, Own(J, o), o # 0, NEW n
  PROVE  FoundOK(J, n)
BY DEF Own, FoundOK

LEMMA BegunGoing ==
  ASSUME NEW l, NEW J \in [{0, 1} -> Copy(l)], NEW P, NEW src, JournalsOK(J, P, src),
         NEW p, NEW o, Owns(P, p, o), NEW n, GoingOn(n, J, p, o),
         NewestOf(J).index > 0 => BegunOn(n, p)
  PROVE  BegunOK(J, n, P)
<1> DEFINE x == NewestOf(J)
<1>1. Own(J, o) /\ o # 0
  BY DEF GoingOn, Own, Owns
<1>2. /\ x.index \in Nat
      /\ \A s \in ValidIn(J) : J[s] = x \/ Succeeds(J[s], x)
      /\ \A s \in ValidIn(J) : J[s].index \in Nat
  BY <1>1, NewestFacts
<1>3. x.index > 0 => BegunOn(n, p)
  OBVIOUS
<1> HIDE DEF x
<1>4. ASSUME NEW s \in ValidIn(J), J[s].index > 0
      PROVE  BegunOn(n, P[J[s].owner])
  <2>1. J[s].index \in Nat /\ (J[s] = x \/ Succeeds(J[s], x))
    BY <1>2
  <2>2. x.index > 0
    BY <2>1, <1>2, <1>4 DEF Succeeds
  <2>3. J[s].owner = o /\ P[o].changes = p.changes /\ P[o].mode = p.mode
    BY <1>1 DEF Own, Owns
  <2> QED
    BY <1>3, <2>2, <2>3 DEF BegunOn
<1> QED
  BY <1>4 DEF BegunOK

\* x goes to copy s of plan p's journals.
Programs(J, l, P, src, p, k, o, x, s, K) ==
  /\ J \in [{0, 1} -> Copy(l)] /\ JournalsOK(J, P, src)
  /\ Runs(p, k) /\ Owns(P, p, o) /\ x \in Copy(l) /\ K = [J EXCEPT ![s] = x]

\* The first copy of the first record, then the second.
LEMMA FirstProgrammed ==
  ASSUME NEW J, NEW l, NEW P, NEW src, NEW p, NEW k, NEW o, NEW x, NEW s \in {0, 1}, NEW K,
         Programs(J, l, P, src, p, k, o, x, s, K), NEW n, FirstOn(n, J, p, o, x, s)
  PROVE  /\ K \in [{0, 1} -> Copy(l)] /\ JournalsOK(K, P, src) /\ FreshOn(n, K, p, o)
         /\ Own(K, o) /\ BegunOK(K, n, P)
         /\ s = 0 => FirstOn(n, K, p, o, x, 1)
         /\ s = 1 => GoingOn(n, K, p, o)
<1>0. /\ J \in [{0, 1} -> Copy(l)] /\ Runs(p, k) /\ Owns(P, p, o) /\ x \in Copy(l)
  BY DEF Programs
<1>k. K = [J EXCEPT ![s] = x]
  BY DEF Programs
<1> USE <1>0
<1>1. x.is = "ok" /\ x.owner = o /\ x.gen = 1 /\ x.index = 0 /\ x.pending = FALSE
  BY DEF FirstOn, Record
<1>2. K \in [{0, 1} -> Copy(l)] /\ K[s] = x /\ \A t \in {0, 1} : t # s => K[t] = J[t]
  BY <1>k
<1>3. /\ s = 0 => J[1].is = "blank" /\ K[0] = x /\ K[1] = J[1]
      /\ s = 1 => K[0] = x /\ K[1] = x
  <2>1. CASE s = 0
    <3>1. Blanks(J, {0, 1})
      BY <2>1, Zenon DEF FirstOn
    <3>2. J[1].is = "blank" /\ 1 # s
      BY <2>1, <3>1 DEF Blanks
    <3>3. K[0] = x /\ K[1] = J[1]
      BY <1>2, <2>1, <3>2
    <3> QED
      BY <2>1, <3>2, <3>3
  <2>2. CASE s = 1
    <3>0. s # 0
      BY <2>2
    <3>1. J[0] = x
      BY <3>0, Zenon DEF FirstOn
    <3> QED
      BY <3>1, <1>2, <2>2
  <2> QED
    BY <2>1, <2>2
<1>4. /\ \A t \in ValidIn(K) : t \in {0, 1} /\ K[t] = x
      /\ 0 \in ValidIn(K)
      /\ ValidIn(K) = {0, 1} => K[0] = x /\ K[1] = x
  <2>1. CASE s = 0
    BY <1>1, <1>3, <2>1 DEF ValidIn
  <2>2. CASE s = 1
    BY <1>1, <1>3, <2>2 DEF ValidIn
  <2> QED
    BY <2>1, <2>2
<1>5. RecordOK(x, P, src)
  BY <1>1 DEF RecordOK, Owns, Runs
<1>6. JournalsOK(K, P, src)
  <2>1. \A t \in ValidIn(K) : RecordOK(K[t], P, src)
    BY <1>4, <1>5
  <2>2. ASSUME ValidIn(K) = {0, 1}
        PROVE  /\ K[0].owner = K[1].owner
               /\ K[0].gen = K[1].gen => K[0] = K[1]
               /\ \A a, b \in {0, 1} : K[a].owner # 0 /\ K[a].gen < K[b].gen => Succeeds(K[a], K[b])
    <3>1. \A a \in {0, 1} : K[a] = x
      BY <1>4, <2>2
    <3>2. ~(x.gen < x.gen)
      BY <1>1
    <3> QED
      BY <3>1, <3>2
  <2> QED
    BY <2>1, <2>2 DEF JournalsOK
<1>7. Own(K, o) /\ FreshOn(n, K, p, o) /\ BegunOK(K, n, P)
  <2>1. \A t \in ValidIn(K) : K[t].owner = o /\ K[t].index = 0
    BY <1>1, <1>4
  <2>2. n = p.initial /\ ValidIn(K) # {}
    BY <1>4 DEF FirstOn
  <2>3. Own(K, o) /\ FreshOn(n, K, p, o)
    BY <2>1, <2>2 DEF Own, FreshOn
  <2>4. \A t \in ValidIn(K) : ~(K[t].index > 0)
    BY <2>1
  <2> QED
    BY <2>3, <2>4 DEF BegunOK
<1>8. ASSUME s = 0
      PROVE  FirstOn(n, K, p, o, x, 1)
  BY <1>3, <1>8 DEF FirstOn, Blanks
<1>9. ASSUME s = 1
      PROVE  GoingOn(n, K, p, o)
  <2>1. NewestOf(K) = x
    BY <1>2, <1>4, NewestPick DEF NewestOf, Own
  <2>2. n = p.initial /\ Len(p.changes) \in Nat /\ ChangeList(p.changes, p.initial)
    BY DEF FirstOn, Runs
  <2>3. Upto(n, p.initial, p.changes, 0, FALSE)
    BY <2>2, UptoStart
  <2> QED
    BY <1>1, <1>7, <2>1, <2>3 DEF GoingOn, Own
<1> QED
  BY <1>2, <1>6, <1>7, <1>8, <1>9

\* The older copy erased for the next record.
Opens(n, J, p, o, i, open) ==
  /\ StandsOn(n, J, p, o, i, open) /\ i < Len(p.changes) /\ open \in BOOLEAN
  /\ open => n[p.changes[i + 1].block] = p.changes[i + 1].after

LEMMA SaveStart ==
  ASSUME NEW J, NEW l, NEW s, NEW y, NEW K, LosesOlder(J, l, s, y, K),
         NEW n, NEW p, NEW o, NEW i, NEW open, Opens(n, J, p, o, i, open),
         NEW x, x = Record(o, NewestOf(J).gen + 1, IF open THEN i + 1 ELSE i, ~open)
  PROVE  SaveOn(n, K, p, o, x, s, i) /\ K \in [{0, 1} -> Copy(l)] /\ Less(K, J)
<1>h. /\ J \in [{0, 1} -> Copy(l)] /\ StandsOn(n, J, p, o, i, open) /\ i < Len(p.changes)
      /\ open \in BOOLEAN /\ (open => n[p.changes[i + 1].block] = p.changes[i + 1].after)
      /\ s = 1 - NewestIn(J) /\ y \in Copy(l) /\ y.is # "ok"
  BY DEF LosesOlder, Opens
<1> USE <1>h
<1>1. ValidIn(J) # {}
  BY DEF StandsOn, GoingOn
<1>0. LosesOlder(J, l, s, y, K)
  OBVIOUS
<1>2. /\ K \in [{0, 1} -> Copy(l)] /\ ValidIn(K) = {NewestIn(J)}
      /\ NewestIn(K) = NewestIn(J) /\ NewestOf(K) = NewestOf(J)
  BY <1>0, OtherLost
<1>3. NewestIn(J) \in ValidIn(J)
  BY <1>1, NewestPick
<1>4. Less(K, J)
  BY <1>2, <1>3 DEF Less, NewestOf
<1>5. StandsOn(n, K, p, o, i, open)
  BY <1>2, <1>3, <1>4 DEF StandsOn, GoingOn, Less
<1>6. x.pending = ~open
  BY RecordFields
<1>7. x = Record(o, NewestOf(K).gen + 1, IF x.pending THEN i ELSE i + 1, x.pending)
  BY <1>2, <1>6
<1>8. StandsOn(n, K, p, o, i, ~x.pending)
  BY <1>5, <1>6
<1> QED
  BY <1>2, <1>4, <1>6, <1>7, <1>8 DEF SaveOn

\* The copy being written, lost again.
LEMMA SaveLost ==
  ASSUME NEW l \in Nat, NEW J \in [{0, 1} -> Copy(l)], NEW p, NEW o, NEW n, NEW x, NEW s, NEW i,
         SaveOn(n, J, p, o, x, s, i), NEW y \in Copy(l), y.is # "ok", NEW K, K = [J EXCEPT ![s] = y]
  PROVE  GoingOn(n, K, p, o) /\ K \in [{0, 1} -> Copy(l)] /\ Less(K, J)
<1>1. ValidIn(J) # {} /\ s = 1 - NewestIn(J)
  BY DEF SaveOn, StandsOn, GoingOn
<1>0. LosesOlder(J, l, s, y, K)
  BY <1>1 DEF LosesOlder
<1>2. /\ K \in [{0, 1} -> Copy(l)] /\ ValidIn(K) = {NewestIn(J)}
      /\ NewestIn(K) = NewestIn(J) /\ NewestOf(K) = NewestOf(J)
  BY <1>0, OtherLost
<1>3. NewestIn(J) \in ValidIn(J)
  BY <1>1, NewestPick
<1>4. Less(K, J)
  BY <1>2, <1>3 DEF Less, NewestOf
<1> QED
  BY <1>2, <1>3, <1>4 DEF SaveOn, StandsOn, GoingOn, Less

\* The next record is in.
SavedOn(J, l, P, src, p, o, n, x, i) ==
  /\ J \in [{0, 1} -> Copy(l)] /\ JournalsOK(J, P, src)
  /\ GoingOn(n, J, p, o) /\ NewestOf(J) = x
  /\ x.pending => WriteOn(n, J, p, o, i) /\ x.index = i
  /\ ~x.pending => StandsOn(n, J, p, o, i + 1, FALSE) /\ x.index = i + 1

LEMMA SaveProgram ==
  ASSUME NEW J, NEW l, NEW P, NEW src, NEW p, NEW k, NEW o, NEW x, NEW s, NEW K,
         Programs(J, l, P, src, p, k, o, x, s, K), NEW n, NEW i \in Nat,
         SaveOn(n, J, p, o, x, s, i)
  PROVE  SavedOn(K, l, P, src, p, o, n, x, i)
<1>0. /\ J \in [{0, 1} -> Copy(l)] /\ JournalsOK(J, P, src)
      /\ Runs(p, k) /\ Owns(P, p, o) /\ x \in Copy(l) /\ K = [J EXCEPT ![s] = x]
  BY DEF Programs
<1> USE <1>0
<1> DEFINE w == NewestOf(J)
           t == NewestIn(J)
<1>1. /\ GoingOn(n, J, p, o) /\ w.index = i /\ w.pending = (~x.pending) /\ i < Len(p.changes)
      /\ s = 1 - t /\ ValidIn(J) = {t}
      /\ ~x.pending => n[p.changes[i + 1].block] = p.changes[i + 1].after
  BY DEF SaveOn, StandsOn
<1>2. /\ x.is = "ok" /\ x.owner = o /\ x.gen = w.gen + 1 /\ x.pending \in BOOLEAN
      /\ x.index = (IF x.pending THEN i ELSE i + 1)
  <2>1. x = Record(o, w.gen + 1, IF x.pending THEN i ELSE i + 1, x.pending)
    BY DEF SaveOn
  <2>2. x.pending \in BOOLEAN
    BY DEF Copy
  <2> QED
    BY <2>1, <2>2, RecordFields
<1>3. Own(J, o) /\ o # 0
  BY <1>1 DEF GoingOn, Own, Owns
<1>4. w.gen \in Nat /\ w.gen > 0 /\ w.owner = o
  BY <1>3, NewestFacts
<1>5. /\ K \in [{0, 1} -> Copy(l)] /\ ValidIn(K) = {0, 1}
      /\ NewestOf(K) = x /\ K[t] = w /\ NewestIn(K) = 1 - t
      /\ \A u \in {0, 1} : u = t \/ u = 1 - t
  <2>1. WritesNewer(J, l, s, x, K)
    BY <1>1, <1>2 DEF WritesNewer
  <2> QED
    BY <2>1, <1>1, NewerWritten
<1>6. K[1 - t] = x
  BY <1>5 DEF NewestOf
<1>7. t \in {0, 1}
  BY <1>1, ValidSides
<1> DEFINE u == 1 - t
<1>8. u \in {0, 1} /\ K[u] = x /\ \A v \in {0, 1} : v = t \/ v = u
  BY <1>5, <1>6, <1>7
<1> HIDE DEF u, w, t
<1>9. \A v \in {0, 1} : K[v] = w \/ K[v] = x
  BY <1>5, <1>8
<1>10. RecordOK(x, P, src)
  BY <1>1, <1>2, <1>4 DEF RecordOK, Owns, Runs
<1>11. RecordOK(w, P, src)
  <2>1. t \in ValidIn(J) /\ w = J[t]
    BY <1>1 DEF w, t, NewestOf
  <2> QED
    BY <2>1 DEF JournalsOK
<1>12. Succeeds(w, x)
  BY <1>1, <1>2 DEF Succeeds
<1>13. JournalsOK(K, P, src)
  <2>1. \A v \in {0, 1} : RecordOK(K[v], P, src)
    BY <1>9, <1>10, <1>11
  <2>2. K[0].owner = K[1].owner
    BY <1>2, <1>4, <1>9
  <2>3. w.gen < x.gen /\ ~(x.gen < w.gen) /\ w.gen # x.gen
    BY <1>2, <1>4
  <2>4. K[0].gen = K[1].gen => K[0] = K[1]
    BY <2>3, <1>9
  <2>5. ASSUME NEW a \in {0, 1}, NEW b \in {0, 1}, K[a].gen < K[b].gen
        PROVE  Succeeds(K[a], K[b])
    <3>1. K[a] = w /\ K[b] = x
      BY <2>3, <2>5, <1>2, <1>4, <1>9
    <3> QED
      BY <3>1, <1>12
  <2> QED
    BY <2>1, <2>2, <2>4, <2>5, <1>5 DEF JournalsOK
<1>14. \A v \in ValidIn(K) : K[v].owner = o
  BY <1>2, <1>4, <1>5, <1>9
<1>15. Upto(n, p.initial, p.changes, i, ~x.pending)
  BY <1>1 DEF GoingOn, w
<1>16. ASSUME x.pending
       PROVE  Upto(n, p.initial, p.changes, i, TRUE)
  BY <1>15, <1>16, UptoOpen
<1>17. ASSUME ~x.pending
       PROVE  Upto(n, p.initial, p.changes, i + 1, FALSE)
  <2>1. Upto(n, p.initial, p.changes, i, TRUE)
    BY <1>15, <1>17
  <2> QED
    BY <2>1, <1>1, <1>17, UptoDone DEF Runs
<1>18. GoingOn(n, K, p, o)
  <2>1. Upto(n, p.initial, p.changes, x.index, x.pending)
    BY <1>2, <1>16, <1>17
  <2> QED
    BY <2>1, <1>5, <1>14 DEF GoingOn
<1> QED
  BY <1>1, <1>2, <1>5, <1>13, <1>18 DEF WriteOn, StandsOn, SavedOn

\* The open block rewritten, erased or left half done.
Writes(p, k, S, n, J, o, i, x, m) ==
  /\ Runs(p, k) /\ n \in [Block -> S] /\ i \in Nat /\ WriteOn(n, J, p, o, i)
  /\ m = [n EXCEPT ![p.changes[i + 1].block] = x]

LEMMA WriteStep ==
  ASSUME NEW p, NEW k, NEW S, NEW n, NEW J, NEW o, NEW i, NEW x, NEW m,
         Writes(p, k, S, n, J, o, i, x, m)
  PROVE  /\ WriteOn(m, J, p, o, i) /\ Upto(m, p.initial, p.changes, i, TRUE)
         /\ m[p.changes[i + 1].block] = x /\ p.changes[i + 1].block \in Block
<1>0. /\ Runs(p, k) /\ n \in [Block -> S] /\ i \in Nat /\ WriteOn(n, J, p, o, i)
      /\ m = [n EXCEPT ![p.changes[i + 1].block] = x]
  BY DEF Writes
<1> USE <1>0
<1>1. Upto(n, p.initial, p.changes, i, TRUE) /\ i < Len(p.changes)
  BY DEF WriteOn, StandsOn, GoingOn
<1>2. Len(p.changes) \in Nat /\ ChangeList(p.changes, p.initial) /\ i + 1 \in 1..Len(p.changes)
  BY <1>1 DEF Runs
<1>3. Upto(m, p.initial, p.changes, i, TRUE)
  BY <1>1, <1>2, UptoWrite
<1>4. p.changes[i + 1].block \in Block
  BY <1>2 DEF ChangeList
<1>5. m[p.changes[i + 1].block] = x
  BY <1>4
<1> QED
  BY <1>3, <1>4, <1>5 DEF WriteOn, StandsOn, GoingOn

-----------------------------------------------------------------------------
\* What the invariant says of one job.

LEMMA BoundNat ==
  ASSUME TypeInv
  PROVE  /\ Bound \in Nat /\ Bound > 0 /\ Len(plans) \in Nat /\ faults \in Nat
         /\ Bound = Len(plans) + faults + 1
         /\ MaxJobs \in Nat /\ MaxFaults \in Nat
<1>1. MaxJobs \in Nat /\ MaxFaults \in Nat
  BY BoundAssumption DEF BoundAssumption
<1>2. faults \in Nat /\ Len(plans) \in Nat
  BY <1>1 DEF TypeInv
<1> QED
  BY <1>1, <1>2 DEF Bound

LEMMA PlanRuns ==
  ASSUME NEW m \in Nat, m > 0, NEW l, NEW p \in ReviewType(m, l),
         NEW src \in {"stock-hp", "lefony-menu1", "dual"}, NEW action, PlanOK(p, src, action)
  PROVE  Runs(p, m) /\ GoodPlan(p, src)
<1>1. GoodPlan(p, src) /\ ChangeList(p.changes, p.initial) /\ Len(p.changes) \in 1..12
  BY PlanGood
<1>2. Len(p.changes) \in Nat /\ 0 < Len(p.changes) /\ Len(p.changes) <= 12
  BY <1>1, Lengths, Zenon
<1>3. p.changes \in Seq(ChangeOf(Content(m))) /\ p.initial \in [Block -> Content(m)]
  BY DEF ReviewType
<1> QED
  BY <1>1, <1>2, <1>3 DEF Runs

LEMMA JobOwns ==
  ASSUME NEW P, Len(P) \in Nat, NEW j \in 1..Len(P)
  PROVE  Owns(P, P[j], OwnerIn(P, j))
<1> DEFINE o == OwnerIn(P, j)
<1>1. j \in Nat \ {0}
  OBVIOUS
<1>2. o \in 1..j /\ o # 0 /\ P[o].mode = P[j].mode /\ P[o].changes = P[j].changes
  BY <1>1, OwnerChanges
<1>3. OwnerIn(P, o) = o
  BY <1>1, OwnerOwner
<1> HIDE DEF o
<1>4. o \in 1..Len(P)
  BY <1>2
<1> QED
  BY <1>2, <1>3, <1>4 DEF Owns, o

LEMMA JobFacts ==
  ASSUME TypeInv, PlansOK(plans, source, sessions), NEW j \in Jobs
  PROVE  /\ plans[j] \in ReviewType(Bound, Len(plans)) /\ sessions[j] \in SessionType
         /\ PlanOK(plans[j], source, sessions[j].action)
         /\ CaptureOK(plans[j], OwnerIn(plans, j))
         /\ Runs(plans[j], Bound) /\ GoodPlan(plans[j], source)
         /\ Owns(plans, plans[j], OwnerIn(plans, j))
         /\ OwnerIn(plans, j) \in 0..Len(plans)
<1>1. Bound \in Nat /\ Bound > 0 /\ Len(plans) \in Nat
  BY BoundNat
<1>2. plans[j] \in ReviewType(Bound, Len(plans)) /\ sessions[j] \in SessionType
  BY DEF TypeInv, Jobs
<1>3. PlanOK(plans[j], source, sessions[j].action) /\ CaptureOK(plans[j], OwnerIn(plans, j))
  BY DEF PlansOK, Jobs
<1>4. source \in {"stock-hp", "lefony-menu1", "dual"}
  BY DEF TypeInv
<1>5. Runs(plans[j], Bound) /\ GoodPlan(plans[j], source)
  BY <1>1, <1>2, <1>3, <1>4, PlanRuns
<1>6. Owns(plans, plans[j], OwnerIn(plans, j))
  BY <1>1, JobOwns DEF Jobs
<1>7. OwnerIn(plans, j) \in 0..Len(plans)
  BY <1>1, <1>6 DEF Owns
<1> QED
  BY <1>2, <1>3, <1>5, <1>6, <1>7

\* The job that runs.
RunningOn(p, o) ==
  /\ job \in Jobs /\ lock = job /\ sessions[job].dir = "reviewed" /\ sessions[job] \in SessionType
  /\ p = plans[job] /\ o = OwnerIn(plans, job) /\ source \in {"stock-hp", "lefony-menu1", "dual"}
  /\ EngineOn(nand, journal, p, o, kind)
  /\ Runs(p, Bound) /\ GoodPlan(p, source) /\ Owns(plans, p, o) /\ o \in 0..Len(plans)
  /\ PlanOK(p, source, sessions[job].action) /\ p \in ReviewType(Bound, Len(plans))
  /\ Bound \in Nat /\ Bound > 0 /\ Len(plans) \in Nat
  /\ nand \in [Block -> Content(Bound)] /\ journal \in [{0, 1} -> Copy(Len(plans))]
  /\ record \in Copy(Len(plans)) /\ pos \in 0..12 /\ pos \in Nat /\ pending \in BOOLEAN
  /\ slot \in {0, 1}
  /\ JournalsOK(journal, plans, source)
  /\ sessions[job].alone => AloneOn(nand, journal, p, o, kind, "reviewed")

LEMMA Running ==
  ASSUME IInv, pc # "idle"
  PROVE  RunningOn(plans[job], OwnerIn(plans, job))
<1>1. TypeInv /\ PlansOK(plans, source, sessions) /\ FlashInv /\ AloneInv /\ EngineInv
  BY DEF IInv
<1>2. /\ job \in Jobs /\ lock = job /\ sessions[job].dir = "reviewed"
      /\ EngineOn(nand, journal, plans[job], OwnerIn(plans, job), kind)
  BY <1>1 DEF EngineInv
<1>3. /\ plans[job] \in ReviewType(Bound, Len(plans)) /\ sessions[job] \in SessionType
      /\ PlanOK(plans[job], source, sessions[job].action)
      /\ Runs(plans[job], Bound) /\ GoodPlan(plans[job], source)
      /\ Owns(plans, plans[job], OwnerIn(plans, job)) /\ OwnerIn(plans, job) \in 0..Len(plans)
  BY <1>1, <1>2, JobFacts
<1>4. Bound \in Nat /\ Bound > 0 /\ Len(plans) \in Nat
  BY <1>1, BoundNat
<1>5. /\ nand \in [Block -> Content(Bound)] /\ journal \in [{0, 1} -> Copy(Len(plans))]
      /\ record \in Copy(Len(plans)) /\ pos \in 0..12 /\ pos \in Nat /\ pending \in BOOLEAN
      /\ slot \in {0, 1} /\ source \in {"stock-hp", "lefony-menu1", "dual"}
  BY <1>1 DEF TypeInv
<1>6. sessions[job].alone =>
        AloneOn(nand, journal, plans[job], OwnerIn(plans, job), kind, "reviewed")
  BY <1>1, <1>2 DEF AloneInv
<1>7. JournalsOK(journal, plans, source)
  BY <1>1 DEF FlashInv
<1> QED
  BY <1>2, <1>3, <1>4, <1>5, <1>6, <1>7 DEF RunningOn

\* A step of the executor keeps the invariant if the flash and the new place
\* fit.
HostSame == UNCHANGED <<source, kind, plans, sessions, lock, faults, job>>

EngineTyped ==
  /\ record' \in Copy(Len(plans)) /\ pc' \in Labels \ {"idle"} /\ pos' \in 0..12
  /\ pending' \in BOOLEAN /\ slot' \in {0, 1}

FlashKept ==
  /\ nand' \in [Block -> Content(Bound)] /\ journal' \in [{0, 1} -> Copy(Len(plans))]
  /\ GoodIn(source, nand') /\ JournalsOK(journal', plans, source)
  /\ FoundOK(journal', nand') /\ BegunOK(journal', nand', plans)

LEMMA StepDone ==
  ASSUME IInv, pc # "idle", HostSame, EngineTyped, FlashKept,
         sessions[job].alone =>
           AloneOn(nand', journal', plans[job], OwnerIn(plans, job), kind, "reviewed"),
         EngineOn(nand, journal, plans[job], OwnerIn(plans, job), kind)'
  PROVE  IInv'
<1>1. TypeInv /\ PlansOK(plans, source, sessions) /\ SessionInv /\ AloneInv /\ EngineInv
  BY DEF IInv
<1>2. /\ source' = source /\ kind' = kind /\ plans' = plans /\ sessions' = sessions
      /\ lock' = lock /\ faults' = faults /\ job' = job
  BY DEF HostSame
<1>3. Bound' = Bound /\ Jobs' = Jobs
  BY <1>2 DEF Bound, Jobs
<1>4. TypeInv'
  BY <1>1, <1>2, <1>3 DEF TypeInv, EngineTyped, FlashKept
<1>5. PlansOK(plans, source, sessions)'
  BY <1>1, <1>2
<1>6. FlashInv'
  BY <1>2 DEF FlashKept, FlashInv
<1>7. SessionInv'
  BY <1>1, <1>2, <1>3 DEF SessionInv
<1>8. /\ lock \in Jobs /\ job = lock /\ sessions[job].dir = "reviewed"
  BY <1>1 DEF EngineInv
<1>9. AloneInv'
  <2>1. ASSUME NEW j \in Jobs, sessions[j].alone
        PROVE  AloneOn(nand', journal', plans[j], OwnerIn(plans, j), kind, sessions[j].dir)
    <3>1. SessionOK(sessions[j], j, lock, kind, Len(plans))
      BY <1>1 DEF SessionInv
    <3>2. j = lock
      <4>1. lock # 0
        BY <1>8, <1>1, BoundNat DEF Jobs
      <4> QED
        BY <3>1, <4>1, <2>1 DEF SessionOK
    <3> QED
      BY <3>2, <1>8, <2>1
  <2> QED
    BY <2>1, <1>2, <1>3 DEF AloneInv
<1>10. EngineInv'
  <2>1. pc' # "idle"
    BY DEF EngineTyped
  <2> QED
    BY <1>2, <1>3, <1>8, <2>1 DEF EngineInv
<1> QED
  BY <1>4, <1>5, <1>6, <1>7, <1>9, <1>10 DEF IInv

\* A step that leaves the flash alone.
LEMMA StepQuiet ==
  ASSUME IInv, pc # "idle", HostSame, EngineTyped, UNCHANGED <<nand, journal>>,
         EngineOn(nand, journal, plans[job], OwnerIn(plans, job), kind)'
  PROVE  IInv'
<1>1. TypeInv /\ FlashInv /\ nand' = nand /\ journal' = journal
  BY DEF IInv
<1>2. FlashKept
  BY <1>1 DEF FlashInv, FlashKept, TypeInv
<1>3. RunningOn(plans[job], OwnerIn(plans, job))
  BY Running
<1>4. sessions[job].alone =>
        AloneOn(nand', journal', plans[job], OwnerIn(plans, job), kind, "reviewed")
  BY <1>1, <1>3 DEF RunningOn
<1> QED
  BY <1>2, <1>4, StepDone

-----------------------------------------------------------------------------
\* The executor, action by action.

LEMMA LostFlash ==
  ASSUME IInv, nand' = nand, Less(journal', journal), journal' \in [{0, 1} -> Copy(Len(plans))]
  PROVE  FlashKept
<1>1. /\ nand \in [Block -> Content(Bound)] /\ GoodIn(source, nand)
      /\ JournalsOK(journal, plans, source) /\ FoundOK(journal, nand)
      /\ BegunOK(journal, nand, plans)
  BY DEF IInv, TypeInv, FlashInv
<1> QED
  BY <1>1, JournalsLess, FoundLess, BegunLess DEF FlashKept

\* Losing a copy before the first record or after the last.
LEMMA LostAlone ==
  ASSUME NEW p, NEW o, RunningOn(p, o), sessions[job].alone,
         pc \in {"clear0", "clear1", "retire0", "retire1"}, NEW K, Less(K, journal)
  PROVE  AloneOn(nand, K, p, o, kind, "reviewed")
<1>1. /\ EngineOn(nand, journal, p, o, kind) /\ AloneOn(nand, journal, p, o, kind, "reviewed")
      /\ journal \in [{0, 1} -> Copy(Len(plans))] /\ JournalsOK(journal, plans, source)
      /\ Runs(p, Bound) /\ Owns(plans, p, o)
  BY DEF RunningOn
<1>2. CASE pc \in {"clear0", "clear1"}
  <2>1. nand = p.initial
    BY <1>1, <1>2 DEF EngineOn
  <2>2. FreshOn(nand, journal, p, o)
    BY <1>1, <2>1, InitialFresh
  <2>3. FreshOn(nand, K, p, o)
    BY <2>2, FreshLess
  <2> QED
    BY <2>3 DEF AloneOn
<1>3. CASE pc \in {"retire0", "retire1"}
  <2>1. DoneOn(nand, p) /\ EndOn(journal, p, o, kind) /\ p.mode = "restore"
    BY <1>1, <1>3 DEF EngineOn
  <2>2. \A s \in ValidIn(journal) : journal[s].owner = o
    BY <1>1, <2>1, DoneOwned
  <2>3. FinishedOn(nand, journal, p, o, kind)
    BY <2>1, <2>2 DEF FinishedOn, DoneOn, EndOn
  <2>4. FinishedOn(nand, K, p, o, kind)
    BY <2>3, FinishedLess
  <2> QED
    BY <2>4 DEF AloneOn
<1> QED
  BY <1>2, <1>3

LEMMA EndLess ==
  ASSUME NEW J, NEW K, Less(K, J), NEW p, NEW o, NEW k, EndOn(J, p, o, k)
  PROVE  EndOn(K, p, o, k)
BY DEF Less, EndOn

\* An erased copy.
Erased(s) ==
  /\ journal' = [journal EXCEPT ![s] = NoRecord("blank")] /\ nand' = nand
  /\ HostSame /\ UNCHANGED <<pos, pending, record, slot>>

LEMMA ErasedCopy ==
  ASSUME IInv, pc # "idle", NEW s \in {0, 1}, Erased(s)
  PROVE  /\ journal' \in [{0, 1} -> Copy(Len(plans))] /\ Less(journal', journal)
         /\ Blanks(journal', {s}) /\ \A t \in {0, 1} : t # s => journal'[t] = journal[t]
         /\ FlashKept
<1>1. journal \in [{0, 1} -> Copy(Len(plans))] /\ Len(plans) \in Nat
  BY Running DEF RunningOn
<1>2. NoRecord("blank") \in Copy(Len(plans)) /\ NoRecord("blank").is = "blank"
  BY <1>1, NoRecords3
<1>3. journal' = [journal EXCEPT ![s] = NoRecord("blank")] /\ nand' = nand
  BY DEF Erased
<1>4. /\ journal' \in [{0, 1} -> Copy(Len(plans))] /\ Less(journal', journal)
      /\ journal'[s] = NoRecord("blank")
  BY <1>1, <1>2, <1>3, LessCopies
<1>5. Blanks(journal', {s}) /\ \A t \in {0, 1} : t # s => journal'[t] = journal[t]
  BY <1>1, <1>2, <1>3, <1>4 DEF Blanks
<1> QED
  BY <1>3, <1>4, <1>5, LostFlash

LEMMA EraseStep ==
  ASSUME IInv, HostSame, ClearJournals \/ RetireJournals
  PROVE  IInv'
<1> DEFINE p == plans[job]
           o == OwnerIn(plans, job)
<1>1. PICK from \in Labels \ {"idle"}, s \in {0, 1}, to \in Labels \ {"idle"} :
        /\ EraseJournal(from, s, to)
        /\ \/ from = "clear0" /\ s = 0 /\ to = "clear1"
           \/ from = "clear1" /\ s = 1 /\ to = "prepare"
           \/ from = "retire0" /\ s = 0 /\ to = "retire1"
           \/ from = "retire1" /\ s = 1 /\ to = "verified"
  BY DEF ClearJournals, RetireJournals, Labels
<1>2. pc = from /\ pc' = to /\ Erased(s)
  BY <1>1 DEF EraseJournal, Goto, Erased, HostSame
<1>3. pc # "idle" /\ pc \in {"clear0", "clear1", "retire0", "retire1"}
  BY <1>1, <1>2
<1>4. RunningOn(p, o)
  BY <1>3, Running
<1>5. /\ Less(journal', journal) /\ Blanks(journal', {s}) /\ FlashKept
      /\ \A t \in {0, 1} : t # s => journal'[t] = journal[t]
  BY <1>2, <1>3, ErasedCopy
<1>6. nand' = nand /\ EngineTyped
  BY <1>1, <1>2, <1>4 DEF Erased, EngineTyped, RunningOn
<1>7. sessions[job].alone => AloneOn(nand', journal', p, o, kind, "reviewed")
  BY <1>3, <1>4, <1>5, <1>6, LostAlone
<1>8. EngineOn(nand, journal, p, o, kind) /\ plans' = plans /\ job' = job /\ kind' = kind
  BY <1>4 DEF RunningOn, HostSame
<1>9. EngineOn(nand, journal, p, o, kind)'
  <2>1. p' = p /\ o' = o
    BY <1>8
  <2> HIDE DEF p, o
  <2>2. CASE from = "clear0" /\ s = 0 /\ to = "clear1"
    BY <1>2, <1>5, <1>6, <1>8, <2>1, <2>2 DEF EngineOn
  <2>3. CASE from = "clear1" /\ s = 1 /\ to = "prepare"
    BY <1>2, <1>5, <1>6, <1>8, <2>1, <2>3 DEF EngineOn
  <2>4. CASE from = "retire0" /\ s = 0 /\ to = "retire1"
    <3>1. DoneOn(nand, p) /\ EndOn(journal, p, o, kind) /\ p.mode = "restore"
      BY <1>2, <1>8, <2>4 DEF EngineOn
    <3>2. EndOn(journal', p, o, kind)
      BY <1>5, <3>1, EndLess
    <3> QED
      BY <1>2, <1>5, <1>6, <1>8, <2>1, <2>4, <3>1, <3>2 DEF EngineOn
  <2>5. CASE from = "retire1" /\ s = 1 /\ to = "verified"
    <3>1. DoneOn(nand, p) /\ Blanks(journal, {0})
      BY <1>2, <1>8, <2>5 DEF EngineOn
    <3>2. Blanks(journal', {0, 1})
      BY <1>5, <2>5, <3>1 DEF Blanks
    <3> QED
      BY <1>2, <1>6, <1>8, <2>1, <2>5, <3>1, <3>2 DEF EngineOn
  <2> QED
    BY <1>1, <2>2, <2>3, <2>4, <2>5
<1> QED
  BY <1>3, <1>5, <1>6, <1>7, <1>9, StepDone

\* Where a refusal leaves the executor.
LEMMA RefuseStep ==
  ASSUME IInv, pc # "idle", HostSame, UNCHANGED <<nand, journal>>, Refuse
  PROVE  IInv'
<1>1. RunningOn(plans[job], OwnerIn(plans, job))
  BY Running
<1>2. pc' = "refused" /\ UNCHANGED <<pos, pending, record, slot>>
  BY DEF Refuse, Goto
<1>3. EngineTyped
  BY <1>1, <1>2 DEF EngineTyped, Labels, RunningOn
<1>4. EngineOn(nand, journal, plans[job], OwnerIn(plans, job), kind)'
  BY <1>2 DEF EngineOn
<1> QED
  BY <1>3, <1>4, StepQuiet

LEMMA PrepareStep ==
  ASSUME IInv, HostSame, Prepare
  PROVE  IInv'
<1> DEFINE p == plans[job]
           o == OwnerIn(plans, job)
<1>1. pc = "prepare" /\ pc # "idle" /\ UNCHANGED <<nand, journal>>
  BY DEF Prepare
<1>2. RunningOn(p, o)
  BY <1>1, Running
<1>3. CASE Refuse
  BY <1>1, <1>3, RefuseStep
<1>4. CASE /\ \A s \in {0, 1} : journal[s].is = "blank"
           /\ pc' = "saving" /\ record' = Record(Owner(job), 1, 0, FALSE) /\ slot' = 0
           /\ UNCHANGED <<pos, pending>>
  <2>1. record' = Record(o, 1, 0, FALSE)
    BY <1>4, StateOps
  <2>2. nand = p.initial
    BY <1>1, <1>2 DEF RunningOn, EngineOn
  <2>3. EngineTyped
    <3>1. o \in 0..Len(plans)
      BY <1>2 DEF RunningOn
    <3>2. record' \in Copy(Len(plans))
      BY <2>1, <3>1 DEF Record, Copy
    <3> QED
      BY <3>2, <1>2, <1>4 DEF EngineTyped, Labels, RunningOn
  <2>4. p' = p /\ o' = o
    BY DEF HostSame
  <2>5. record'.gen = 1
    BY <2>1 DEF Record
  <2>6. FirstOn(nand', journal', p', o', record', slot')
    BY <1>1, <1>4, <2>1, <2>2, <2>4 DEF FirstOn, Blanks
  <2>7. EngineOn(nand, journal, p, o, kind)'
    BY <1>4, <2>5, <2>6 DEF EngineOn
  <2> QED
    BY <1>1, <2>3, <2>7, StepQuiet
<1> QED
  BY <1>3, <1>4 DEF Prepare, Goto

\* Journals on the way allow no second start of the plan.
LEMMA GoingFlash ==
  ASSUME NEW p, NEW o, RunningOn(p, o), NEW n, NEW K \in [{0, 1} -> Copy(Len(plans))],
         JournalsOK(K, plans, source), GoingOn(n, K, p, o)
  PROVE  FoundOK(K, n) /\ BegunOK(K, n, plans)
<1> DEFINE x == NewestOf(K)
<1>1. /\ Owns(plans, p, o) /\ PlanOK(p, source, sessions[job].action)
      /\ p \in ReviewType(Bound, Len(plans)) /\ Bound \in Nat /\ Bound > 0
      /\ source \in {"stock-hp", "lefony-menu1", "dual"}
  BY DEF RunningOn
<1>2. Own(K, o) /\ o # 0
  BY <1>1 DEF GoingOn, Own, Owns
<1>3. x.index \in Nat
  BY <1>2, NewestFacts
<1>4. Upto(n, p.initial, p.changes, x.index, x.pending)
  BY DEF GoingOn
<1>5. x.index > 0 => BegunOn(n, p)
  <2> DEFINE i == x.index
             action == sessions[job].action
  <2> HIDE DEF x, i, action
  <2>1. i \in Nat /\ Upto(n, p.initial, p.changes, i, x.pending) /\ PlanOK(p, source, action)
    BY <1>1, <1>3, <1>4 DEF i, action
  <2>2. ASSUME i > 0
        PROVE  BegunOn(n, p)
    <3>1. 0 < i
      BY <2>1, <2>2
    <3> QED
      BY <1>1, <2>1, <3>1, BegunPlan
  <2> QED
    BY <2>2 DEF i
<1>6. BegunOK(K, n, plans)
  BY <1>1, <1>5, BegunGoing
<1> QED
  BY <1>2, <1>6, OwnFound

LEMMA ProgramCopyStep ==
  ASSUME IInv, HostSame, ProgramCopy
  PROVE  IInv'
<1> DEFINE p == plans[job]
           o == OwnerIn(plans, job)
           L == Len(plans)
<1>1. /\ pc = "saving" /\ pc # "idle" /\ nand' = nand /\ pending' = pending /\ record' = record
      /\ journal' = [journal EXCEPT ![slot] = record]
  BY DEF ProgramCopy
<1>2. RunningOn(p, o)
  BY <1>1, Running
<1>3. /\ EngineOn(nand, journal, p, o, kind) /\ journal \in [{0, 1} -> Copy(L)]
      /\ JournalsOK(journal, plans, source) /\ Runs(p, Bound) /\ Owns(plans, p, o)
      /\ record \in Copy(L) /\ slot \in {0, 1} /\ pos \in Nat /\ pos \in 0..12
      /\ pending \in BOOLEAN /\ nand \in [Block -> Content(Bound)]
  BY <1>2 DEF RunningOn
<1>4. GoodIn(source, nand)
  BY DEF IInv, FlashInv
<1>5. p' = p /\ o' = o /\ kind' = kind
  BY DEF HostSame
<1>6. record.index \in 0..12
  BY <1>3 DEF Copy
<1>7. /\ record.gen = 1 => FirstOn(nand, journal, p, o, record, slot)
      /\ record.gen # 1 => SaveOn(nand, journal, p, o, record, slot, pos) /\ ~pending
  BY <1>1, <1>3 DEF EngineOn
<1> HIDE DEF p, o
<1>8. CASE record.gen = 1
  <2>1. /\ journal' \in [{0, 1} -> Copy(L)] /\ JournalsOK(journal', plans, source)
        /\ FreshOn(nand, journal', p, o) /\ Own(journal', o) /\ BegunOK(journal', nand, plans)
        /\ slot = 0 => FirstOn(nand, journal', p, o, record, 1)
        /\ slot = 1 => GoingOn(nand, journal', p, o)
    <3>1. Programs(journal, L, plans, source, p, Bound, o, record, slot, journal')
      BY <1>1, <1>3 DEF Programs
    <3> QED
      BY <3>1, <1>3, <1>7, <1>8, FirstProgrammed
  <2>2. FlashKept
    <3>1. FoundOK(journal', nand)
      BY <2>1, <1>3, OwnFound DEF Owns
    <3> QED
      BY <1>1, <1>3, <1>4, <2>1, <3>1 DEF FlashKept
  <2>3. AloneOn(nand', journal', p, o, kind, "reviewed")
    BY <1>1, <2>1 DEF AloneOn
  <2>4. CASE slot = 0
    <3>1. pc' = pc /\ pos' = pos /\ slot' = 1
      BY <1>8, <2>4 DEF ProgramCopy
    <3>2. EngineTyped
      BY <1>1, <1>3, <3>1 DEF EngineTyped, Labels
    <3>3. FirstOn(nand', journal', p', o', record', slot')
      BY <1>1, <1>5, <2>1, <2>4, <3>1
    <3>4. EngineOn(nand, journal, p, o, kind)'
      BY <1>1, <1>8, <3>1, <3>3 DEF EngineOn
    <3> QED
      BY <1>1, <2>2, <2>3, <3>2, <3>4, StepDone DEF p, o
  <2>5. CASE slot = 1
    <3>1. pc' = "begin" /\ pos' = record.index /\ slot' = slot
      BY <1>8, <2>5 DEF ProgramCopy, Goto
    <3>2. EngineTyped
      BY <1>1, <1>3, <1>6, <3>1 DEF EngineTyped, Labels
    <3>3. GoingOn(nand', journal', p', o')
      BY <1>1, <1>5, <2>1, <2>5
    <3>4. EngineOn(nand, journal, p, o, kind)'
      BY <3>1, <3>3 DEF EngineOn
    <3> QED
      BY <1>1, <2>2, <2>3, <3>2, <3>4, StepDone DEF p, o
  <2> QED
    BY <1>3, <2>4, <2>5
<1>9. CASE record.gen # 1
  <2>1. /\ journal' \in [{0, 1} -> Copy(L)] /\ JournalsOK(journal', plans, source)
        /\ GoingOn(nand, journal', p, o) /\ NewestOf(journal') = record
        /\ record.pending => WriteOn(nand, journal', p, o, pos) /\ record.index = pos
        /\ ~record.pending => StandsOn(nand, journal', p, o, pos + 1, FALSE)
                              /\ record.index = pos + 1
    <3>1. Programs(journal, L, plans, source, p, Bound, o, record, slot, journal')
      BY <1>1, <1>3 DEF Programs
    <3>2. pos \in Nat /\ SaveOn(nand, journal, p, o, record, slot, pos)
      BY <1>3, <1>7, <1>9
    <3>3. SavedOn(journal', L, plans, source, p, o, nand, record, pos)
      BY <3>1, <3>2, SaveProgram, Zenon
    <3> QED
      BY <3>3 DEF SavedOn
  <2>2. FlashKept
    <3>1. FoundOK(journal', nand) /\ BegunOK(journal', nand, plans)
      BY <1>2, <2>1, GoingFlash
    <3> QED
      BY <1>1, <1>3, <1>4, <2>1, <3>1 DEF FlashKept
  <2>3. AloneOn(nand', journal', p, o, kind, "reviewed")
    BY <1>1, <2>1 DEF AloneOn
  <2>4. /\ pc' = (IF record.pending THEN "write" ELSE "check") /\ pos' = record.index
        /\ slot' = slot
    BY <1>9 DEF ProgramCopy, Goto
  <2>5. EngineTyped
    BY <1>1, <1>3, <1>6, <2>4 DEF EngineTyped, Labels
  <2>6. EngineOn(nand, journal, p, o, kind)'
    <3>1. ~pending'
      BY <1>1, <1>7, <1>9
    <3>2. CASE record.pending
      <4>1. WriteOn(nand', journal', p', o', pos') /\ pc' = "write"
        BY <1>1, <1>5, <2>1, <2>4, <3>2
      <4> QED
        BY <3>1, <4>1 DEF EngineOn
    <3>3. CASE ~record.pending
      <4>1. StandsOn(nand', journal', p', o', pos', pending') /\ pc' = "check"
        <5>1. pending' = FALSE
          BY <1>1, <1>3, <3>1
        <5> QED
          BY <1>1, <1>5, <2>1, <2>4, <3>3, <5>1
      <4> QED
        BY <4>1 DEF EngineOn
    <3> QED
      BY <3>2, <3>3
  <2> QED
    BY <1>1, <2>2, <2>3, <2>5, <2>6, StepDone DEF p, o
<1> QED
  BY <1>8, <1>9

LEMMA BeginStep ==
  ASSUME IInv, HostSame, Begin
  PROVE  IInv'
<1> DEFINE p == plans[job]
           o == OwnerIn(plans, job)
<1>1. pc = "begin" /\ pc # "idle" /\ UNCHANGED <<nand, journal>>
  BY DEF Begin
<1>2. RunningOn(p, o)
  BY <1>1, Running
<1>3. CASE Refuse
  BY <1>1, <1>3, RefuseStep
<1>4. CASE pos' = Newest.index /\ pending' = Newest.pending /\ pc' = "check" /\ UNCHANGED <<record, slot>>
  <2>1. pos' = NewestOf(journal).index /\ pending' = NewestOf(journal).pending
    BY <1>4, StateOps
  <2>2. GoingOn(nand, journal, p, o)
    BY <1>1, <1>2 DEF RunningOn, EngineOn
  <2>3. NewestOf(journal) \in Copy(Len(plans))
    <3>1. journal \in [{0, 1} -> Copy(Len(plans))] /\ ValidIn(journal) # {}
      BY <1>2, <2>2 DEF RunningOn, GoingOn
    <3> QED
      BY <3>1, NewestPick DEF NewestOf
  <2>4. pos' \in 0..12 /\ pending' \in BOOLEAN
    BY <2>1, <2>3 DEF Copy
  <2>5. EngineTyped
    BY <1>2, <1>4, <2>4 DEF EngineTyped, Labels, RunningOn
  <2>6. p' = p /\ o' = o
    BY DEF HostSame
  <2>7. StandsOn(nand', journal', p', o', pos', pending')
    BY <1>1, <2>1, <2>2, <2>6 DEF StandsOn
  <2>8. EngineOn(nand, journal, p, o, kind)'
    BY <1>4, <2>7 DEF EngineOn
  <2> QED
    BY <1>1, <2>5, <2>8, StepQuiet
<1> QED
  BY <1>3, <1>4 DEF Begin, Goto

\* A record on its way: the older copy is erased.
LEMMA SavingStep ==
  ASSUME IInv, HostSame, pc # "idle", UNCHANGED <<nand, pos, pending>>, ~pending, NEW open \in BOOLEAN,
         StandsOn(nand, journal, plans[job], OwnerIn(plans, job), pos, open),
         pos < Len(plans[job].changes),
         LET c == plans[job].changes IN open => nand[c[pos + 1].block] = c[pos + 1].after,
         Save(IF open THEN pos + 1 ELSE pos, ~open)
  PROVE  IInv'
<1> DEFINE p == plans[job]
           o == OwnerIn(plans, job)
           L == Len(plans)
           x == NewestOf(journal)
           s == 1 - NewestIn(journal)
           y == NoRecord("blank")
<1>1. RunningOn(p, o)
  BY Running
<1>2. /\ journal \in [{0, 1} -> Copy(L)] /\ L \in Nat /\ pos \in Nat /\ pos \in 0..12
      /\ JournalsOK(journal, plans, source) /\ Runs(p, Bound) /\ Owns(plans, p, o)
      /\ o \in 0..L /\ pending \in BOOLEAN
  BY <1>1 DEF RunningOn
<1>3. /\ StandsOn(nand, journal, p, o, pos, open) /\ pos < Len(p.changes)
      /\ open => nand[p.changes[pos + 1].block] = p.changes[pos + 1].after
      /\ nand' = nand /\ pos' = pos /\ pending' = pending /\ ~pending /\ pc # "idle"
  OBVIOUS
<1>4. Own(journal, o) /\ o # 0 /\ ValidIn(journal) # {}
  BY <1>2, <1>3 DEF StandsOn, GoingOn, Own, Owns
<1>5. x.gen \in Nat /\ x.gen > 0
  BY <1>2, <1>4, NewestFacts
<1>6. y \in Copy(L) /\ y.is # "ok"
  BY <1>2, NoRecords3
<1>7. /\ record' = Record(o, x.gen + 1, IF open THEN pos + 1 ELSE pos, ~open)
      /\ slot' = s /\ journal' = [journal EXCEPT ![s] = y] /\ pc' = "saving"
  BY StateOps DEF Save, Goto
<1>8. NewestIn(journal) \in {0, 1}
  BY <1>2, <1>4, NewestPick
<1>9. s \in {0, 1}
  BY <1>8
<1>e. p' = p /\ o' = o
  BY DEF HostSame
<1> HIDE DEF p, o, x, y, s
<1>10. SaveOn(nand, journal', p, o, record', s, pos) /\ journal' \in [{0, 1} -> Copy(L)]
       /\ Less(journal', journal)
  <2>1. LosesOlder(journal, L, s, y, journal')
    BY <1>2, <1>4, <1>6, <1>7 DEF LosesOlder, s
  <2>2. Opens(nand, journal, p, o, pos, open)
    BY <1>3 DEF Opens
  <2>3. record' = Record(o, NewestOf(journal).gen + 1, IF open THEN pos + 1 ELSE pos, ~open)
    BY <1>7 DEF x
  <2> QED
    BY <2>1, <2>2, <2>3, SaveStart, Zenon
<1>11. FlashKept
  BY <1>3, <1>10, LostFlash
<1>12. EngineTyped
  <2>1. (IF open THEN pos + 1 ELSE pos) \in 0..12
    BY <1>2, <1>3 DEF Runs
  <2>2. record' \in Copy(L)
    BY <1>2, <1>5, <1>7, <2>1, SMTT(30) DEF Record, Copy
  <2> QED
    BY <1>2, <1>3, <1>7, <1>9, <2>2 DEF EngineTyped, Labels
<1>13. AloneOn(nand', journal', p, o, kind, "reviewed")
  BY <1>3, <1>10 DEF SaveOn, StandsOn, AloneOn
<1>14. EngineOn(nand, journal, p, o, kind)'
  <2>1. record'.gen = x.gen + 1
    BY <1>7 DEF Record
  <2>2. record'.gen # 1
    BY <1>5, <2>1
  <2>3. SaveOn(nand', journal', p', o', record', slot', pos') /\ ~pending'
    BY <1>3, <1>7, <1>10, <1>e
  <2> QED
    BY <1>7, <2>2, <2>3 DEF EngineOn
<1> QED
  BY <1>3, <1>11, <1>12, <1>13, <1>14, StepDone DEF p, o

LEMMA StandsFacts ==
  ASSUME NEW p, NEW o, RunningOn(p, o), NEW open, StandsOn(nand, journal, p, o, pos, open)
  PROVE  /\ pos \in Nat /\ pos <= Len(p.changes) /\ Len(p.changes) \in Nat
         /\ open \in BOOLEAN /\ (open => pos < Len(p.changes))
<1>1. /\ journal \in [{0, 1} -> Copy(Len(plans))] /\ JournalsOK(journal, plans, source)
      /\ Runs(p, Bound) /\ Owns(plans, p, o) /\ pos \in Nat
  BY DEF RunningOn
<1>2. Own(journal, o) /\ o # 0
  BY <1>1 DEF StandsOn, GoingOn, Own, Owns
<1>3. LET x == NewestOf(journal)
      IN  /\ x.index <= Len(plans[o].changes) /\ x.pending \in BOOLEAN
          /\ x.pending => x.index < Len(plans[o].changes)
  BY <1>1, <1>2, NewestFacts
<1> QED
  BY <1>1, <1>3 DEF StandsOn, Owns, Runs

LEMMA CheckStep ==
  ASSUME IInv, HostSame, Check
  PROVE  IInv'
<1> DEFINE p == plans[job]
           o == OwnerIn(plans, job)
<1>1. pc = "check" /\ pc # "idle" /\ nand' = nand
  BY DEF Check
<1>2. RunningOn(p, o)
  BY <1>1, Running
<1>3. StandsOn(nand, journal, p, o, pos, pending)
  BY <1>1, <1>2 DEF RunningOn, EngineOn
<1>4. /\ pos \in Nat /\ pos <= Len(p.changes) /\ Len(p.changes) \in Nat
      /\ pending \in BOOLEAN /\ (pending => pos < Len(p.changes))
  BY <1>2, <1>3, StandsFacts
<1>5. Changes(job) = p.changes /\ Current = p.changes[pos + 1]
  BY DEF Changes, Current
<1>6. p' = p /\ o' = o /\ kind' = kind
  BY DEF HostSame
<1>7. CASE /\ pos = Len(p.changes) /\ pc' = "final"
           /\ UNCHANGED <<journal, pos, pending, record, slot>>
  <2>1. /\ journal \in [{0, 1} -> Copy(Len(plans))] /\ JournalsOK(journal, plans, source)
        /\ Runs(p, Bound) /\ Owns(plans, p, o)
    BY <1>2 DEF RunningOn
  <2>2. Own(journal, o) /\ NewestOf(journal).index = Len(p.changes)
    BY <1>3, <1>7 DEF StandsOn, GoingOn, Own
  <2>3. ~NewestOf(journal).pending /\ \A s \in ValidIn(journal) : journal[s].owner = o /\ AtEnd(journal[s], p)
    BY <2>1, <2>2, DoneEnd
  <2>4. EndOn(journal, p, o, kind)
    BY <2>3 DEF EndOn
  <2>5. DoneOn(nand, p)
    <3>1. Upto(nand, p.initial, p.changes, NewestOf(journal).index, NewestOf(journal).pending)
      BY <1>3 DEF StandsOn, GoingOn
    <3>2. NewestOf(journal).pending = FALSE
      BY <1>3, <1>4, <2>3 DEF StandsOn
    <3> QED
      BY <2>2, <3>1, <3>2 DEF DoneOn
  <2>6. EngineTyped
    BY <1>2, <1>7 DEF EngineTyped, Labels, RunningOn
  <2>7. EngineOn(nand, journal, p, o, kind)'
    BY <1>1, <1>6, <1>7, <2>4, <2>5 DEF EngineOn
  <2> QED
    BY <1>1, <1>7, <2>6, <2>7, StepQuiet
<1>8. CASE Refuse /\ journal' = journal
  BY <1>1, <1>8, RefuseStep
<1>9. CASE /\ pos # Len(p.changes) /\ pending /\ pc' = "write" /\ pending' = FALSE
           /\ UNCHANGED <<journal, pos, record, slot>>
  <2>1. WriteOn(nand, journal, p, o, pos)
    BY <1>3, <1>4, <1>9 DEF WriteOn, StandsOn
  <2>2. EngineTyped
    BY <1>2, <1>9 DEF EngineTyped, Labels, RunningOn
  <2>3. EngineOn(nand, journal, p, o, kind)'
    BY <1>1, <1>6, <1>9, <2>1 DEF EngineOn
  <2> QED
    BY <1>1, <1>9, <2>2, <2>3, StepQuiet
<1>10. CASE /\ pos # Len(p.changes) /\ ~pending /\ Save(pos, TRUE) /\ UNCHANGED <<pos, pending>>
  <2> DEFINE open == FALSE
  <2>1. pos < Len(p.changes)
    BY <1>4, <1>10
  <2>2. StandsOn(nand, journal, p, o, pos, open)
    BY <1>3, <1>4, <1>10 DEF StandsOn
  <2>3. Save(IF open THEN pos + 1 ELSE pos, ~open)
    BY <1>10
  <2> QED
    BY <1>1, <1>10, <2>1, <2>2, <2>3, SavingStep
<1> QED
  BY <1>5, <1>7, <1>8, <1>9, <1>10 DEF Check, Goto

LEMMA AdvanceStep ==
  ASSUME IInv, HostSame, Advance
  PROVE  IInv'
<1> DEFINE p == plans[job]
           o == OwnerIn(plans, job)
           open == TRUE
<1>1. pc = "advance" /\ pc # "idle" /\ UNCHANGED <<nand, pos, pending>> /\ Save(pos + 1, FALSE)
  BY DEF Advance
<1>2. RunningOn(p, o)
  BY <1>1, Running
<1>3. /\ WriteOn(nand, journal, p, o, pos) /\ ~pending
      /\ nand[p.changes[pos + 1].block] = p.changes[pos + 1].after
  BY <1>1, <1>2 DEF RunningOn, EngineOn
<1>4. StandsOn(nand, journal, p, o, pos, open) /\ pos < Len(p.changes)
  BY <1>3 DEF WriteOn
<1>5. Save(IF open THEN pos + 1 ELSE pos, ~open)
  BY <1>1
<1> QED
  BY <1>1, <1>3, <1>4, <1>5, SavingStep

\* The open block, whatever is in it.
OpensTo(p, e, x, m) ==
  /\ e = p.changes[pos + 1] /\ x \in Content(Bound) /\ OpenAt(e.block, x, e.before, e.after)
  /\ m = [nand EXCEPT ![e.block] = x]

OpenKept(p, o, e, x, m) ==
  /\ m \in [Block -> Content(Bound)] /\ GoodIn(source, m) /\ FoundOK(journal, m)
  /\ BegunOK(journal, m, plans) /\ WriteOn(m, journal, p, o, pos)
  /\ AloneOn(m, journal, p, o, kind, "reviewed") /\ m[e.block] = x

LEMMA OpenFlash ==
  ASSUME NEW p, NEW o, RunningOn(p, o), WriteOn(nand, journal, p, o, pos),
         NEW e, NEW x, NEW m, OpensTo(p, e, x, m)
  PROVE  OpenKept(p, o, e, x, m)
<1>0. /\ e = p.changes[pos + 1] /\ x \in Content(Bound) /\ OpenAt(e.block, x, e.before, e.after)
      /\ m = [nand EXCEPT ![e.block] = x]
  BY DEF OpensTo
<1>1. /\ journal \in [{0, 1} -> Copy(Len(plans))] /\ JournalsOK(journal, plans, source)
      /\ Runs(p, Bound) /\ GoodPlan(p, source) /\ pos \in Nat /\ nand \in [Block -> Content(Bound)]
  BY DEF RunningOn
<1>w. Writes(p, Bound, Content(Bound), nand, journal, o, pos, x, m)
  BY <1>0, <1>1 DEF Writes
<1>2. /\ WriteOn(m, journal, p, o, pos) /\ Upto(m, p.initial, p.changes, pos, TRUE)
      /\ m[e.block] = x /\ e.block \in Block
  <2>1. /\ WriteOn(m, journal, p, o, pos) /\ Upto(m, p.initial, p.changes, pos, TRUE)
        /\ m[p.changes[pos + 1].block] = x /\ p.changes[pos + 1].block \in Block
    BY <1>w, WriteStep
  <2>2. p.changes[pos + 1] = e
    BY <1>0
  <2> QED
    BY <2>1, <2>2, Zenon
<1>3. m \in [Block -> Content(Bound)]
  BY <1>0, <1>1
<1>4. GoodIn(source, m)
  <2>1. pos < Len(p.changes) /\ Len(p.changes) \in Nat
    BY <1>1 DEF WriteOn, Runs
  <2>2. LET f == p.changes[pos + 1] IN OpenAt(f.block, m[f.block], f.before, f.after)
    BY <1>0, <1>2
  <2> QED
    BY <1>1, <1>2, <2>1, <2>2, OpenGood
<1>5. GoingOn(m, journal, p, o)
  BY <1>2 DEF WriteOn, StandsOn
<1>6. FoundOK(journal, m) /\ BegunOK(journal, m, plans)
  BY <1>1, <1>5, GoingFlash
<1> QED
  BY <1>2, <1>3, <1>4, <1>5, <1>6 DEF AloneOn, OpenKept

LEMMA CurrentTyped ==
  ASSUME NEW p, NEW o, RunningOn(p, o), WriteOn(nand, journal, p, o, pos)
  PROVE  /\ Current = p.changes[pos + 1] /\ Current.after \in Content(Bound)
         /\ Current.before \in Content(Bound) /\ Current.block \in Block
<1>1. /\ p.changes \in Seq(ChangeOf(Content(Bound))) /\ pos \in Nat /\ p = plans[job]
      /\ pos < Len(p.changes) /\ Len(p.changes) \in Nat
  BY DEF RunningOn, Runs, WriteOn
<1>2. pos + 1 \in 1..Len(p.changes)
  BY <1>1
<1>3. Current = p.changes[pos + 1]
  BY <1>1 DEF Current, Changes
<1>4. p.changes[pos + 1] \in ChangeOf(Content(Bound))
  BY <1>1, <1>2
<1> QED
  BY <1>3, <1>4 DEF ChangeOf

LEMMA WriteBlockStep ==
  ASSUME IInv, HostSame, WriteBlock
  PROVE  IInv'
<1> DEFINE p == plans[job]
           o == OwnerIn(plans, job)
<1>1. /\ pc = "write" /\ pc # "idle" /\ journal' = journal
      /\ UNCHANGED <<pos, pending, record, slot>>
  BY DEF WriteBlock
<1>2. RunningOn(p, o)
  BY <1>1, Running
<1>3. WriteOn(nand, journal, p, o, pos) /\ ~pending
  BY <1>1, <1>2 DEF RunningOn, EngineOn
<1>4. /\ Current = p.changes[pos + 1] /\ Current.block \in Block
  BY <1>2, <1>3, CurrentTyped
<1>5. p' = p /\ o' = o
  BY DEF HostSame
<1>6. CASE nand[Current.block] = Current.after /\ pc' = "advance" /\ nand' = nand
  <2>1. EngineTyped
    BY <1>1, <1>2, <1>6 DEF EngineTyped, Labels, RunningOn
  <2>2. WriteOn(nand', journal', p', o', pos') /\ ~pending'
    BY <1>1, <1>3, <1>5, <1>6
  <2>3. nand'[p'.changes[pos' + 1].block] = p'.changes[pos' + 1].after
    BY <1>1, <1>4, <1>5, <1>6
  <2>4. EngineOn(nand, journal, p, o, kind)'
    BY <1>6, <2>2, <2>3 DEF EngineOn
  <2> QED
    BY <1>1, <1>6, <2>1, <2>4, StepQuiet
<1>7. CASE nand' = [nand EXCEPT ![Current.block] = Blank] /\ pc' = "program"
  <2> DEFINE e == p.changes[pos + 1]
  <2>1. nand' = [nand EXCEPT ![e.block] = Blank] /\ OpenAt(e.block, Blank, e.before, e.after)
    BY <1>4, <1>7 DEF OpenAt
  <2>2. Blank \in Content(Bound)
    BY <1>2, ContentHas DEF RunningOn
  <2> HIDE DEF e
  <2>3. /\ nand' \in [Block -> Content(Bound)] /\ GoodIn(source, nand') /\ FoundOK(journal, nand')
        /\ BegunOK(journal, nand', plans) /\ WriteOn(nand', journal, p, o, pos)
        /\ AloneOn(nand', journal, p, o, kind, "reviewed")
    <3>1. OpensTo(p, e, Blank, nand')
      BY <2>1, <2>2 DEF OpensTo, e
    <3>2. OpenKept(p, o, e, Blank, nand')
      BY <1>2, <1>3, <3>1, OpenFlash, Zenon
    <3> QED
      BY <3>2 DEF OpenKept
  <2>4. FlashKept
    BY <1>1, <1>2, <2>3 DEF FlashKept, RunningOn
  <2>5. EngineTyped
    BY <1>1, <1>2, <1>7 DEF EngineTyped, Labels, RunningOn
  <2>6. WriteOn(nand', journal', p', o', pos') /\ ~pending'
    BY <1>1, <1>3, <1>5, <2>3
  <2>7. EngineOn(nand, journal, p, o, kind)'
    BY <1>7, <2>6 DEF EngineOn
  <2>8. AloneOn(nand', journal', p, o, kind, "reviewed")
    BY <1>1, <2>3
  <2> QED
    BY <1>1, <2>4, <2>5, <2>7, <2>8, StepDone
<1> QED
  BY <1>6, <1>7 DEF WriteBlock, Goto

LEMMA ProgramBlockStep ==
  ASSUME IInv, HostSame, ProgramBlock
  PROVE  IInv'
<1> DEFINE p == plans[job]
           o == OwnerIn(plans, job)
           e == p.changes[pos + 1]
<1>1. /\ pc = "program" /\ pc # "idle" /\ journal' = journal /\ pc' = "advance"
      /\ UNCHANGED <<pos, pending, record, slot>>
      /\ nand' = [nand EXCEPT ![Current.block] = Current.after]
  BY DEF ProgramBlock, Goto
<1>2. RunningOn(p, o)
  BY <1>1, Running
<1>3. WriteOn(nand, journal, p, o, pos) /\ ~pending
  BY <1>1, <1>2 DEF RunningOn, EngineOn
<1>4. Current = e /\ e.after \in Content(Bound)
  BY <1>2, <1>3, CurrentTyped
<1>5. p' = p /\ o' = o /\ e' = e
  BY <1>1 DEF HostSame
<1>6. nand' = [nand EXCEPT ![e.block] = e.after] /\ OpenAt(e.block, e.after, e.before, e.after)
  BY <1>1, <1>4 DEF OpenAt
<1> HIDE DEF e
<1>7. /\ nand' \in [Block -> Content(Bound)] /\ GoodIn(source, nand') /\ FoundOK(journal, nand')
      /\ BegunOK(journal, nand', plans) /\ WriteOn(nand', journal, p, o, pos)
      /\ AloneOn(nand', journal, p, o, kind, "reviewed") /\ nand'[e.block] = e.after
  <2>1. OpensTo(p, e, e.after, nand')
    BY <1>4, <1>6 DEF OpensTo, e
  <2>2. OpenKept(p, o, e, e.after, nand')
    BY <1>2, <1>3, <2>1, OpenFlash, Zenon
  <2> QED
    BY <2>2 DEF OpenKept
<1>8. FlashKept
  BY <1>1, <1>2, <1>7 DEF FlashKept, RunningOn
<1>9. EngineTyped
  BY <1>1, <1>2 DEF EngineTyped, Labels, RunningOn
<1>10. WriteOn(nand', journal', p', o', pos') /\ ~pending'
  BY <1>1, <1>3, <1>5, <1>7
<1>11. nand'[p'.changes[pos' + 1].block] = p'.changes[pos' + 1].after
  BY <1>1, <1>5, <1>7 DEF e
<1>12. EngineOn(nand, journal, p, o, kind)'
  BY <1>1, <1>10, <1>11 DEF EngineOn
<1>13. AloneOn(nand', journal', p, o, kind, "reviewed")
  BY <1>1, <1>7
<1> QED
  BY <1>1, <1>8, <1>9, <1>12, <1>13, StepDone

LEMMA FinalStep ==
  ASSUME IInv, HostSame, Final
  PROVE  IInv'
<1> DEFINE p == plans[job]
           o == OwnerIn(plans, job)
<1>1. pc = "final" /\ pc # "idle" /\ UNCHANGED <<nand, journal>>
  BY DEF Final
<1>2. RunningOn(p, o)
  BY <1>1, Running
<1>3. CASE Refuse
  BY <1>1, <1>3, RefuseStep
<1>4. CASE /\ pc' = (IF p.mode = "restore" THEN "retire0" ELSE "verified")
           /\ UNCHANGED <<pos, pending, record, slot>>
  <2>1. DoneOn(nand, p) /\ EndOn(journal, p, o, kind)
    BY <1>1, <1>2 DEF RunningOn, EngineOn
  <2>2. EngineTyped
    BY <1>2, <1>4 DEF EngineTyped, Labels, RunningOn
  <2>3. p' = p /\ o' = o /\ kind' = kind
    BY DEF HostSame
  <2>4. DoneOn(nand', p') /\ EndOn(journal', p', o', kind')
    BY <1>1, <2>1, <2>3
  <2>5. EngineOn(nand, journal, p, o, kind)'
    BY <1>4, <2>3, <2>4 DEF EngineOn
  <2> QED
    BY <1>1, <2>2, <2>5, StepQuiet
<1> QED
  BY <1>3, <1>4 DEF Final, Goto

\* The executor's own steps.
LEMMA ExecuteStep ==
  ASSUME IInv, Step
  PROVE  IInv'
<1>1. HostSame
  BY DEF Step, Execute, host, HostSame, ClearJournals, RetireJournals, EraseJournal, Prepare,
         ProgramCopy, Begin, Check, WriteBlock, ProgramBlock, Advance, Final, Refuse
<1> QED
  BY <1>1, EraseStep, PrepareStep, ProgramCopyStep, BeginStep, CheckStep, WriteBlockStep,
     ProgramBlockStep, AdvanceStep, FinalStep DEF Step, Execute

-----------------------------------------------------------------------------
\* The service.

LEMMA SetSession ==
  ASSUME NEW S \in Seq(SessionType), NEW j \in 1..Len(S), NEW x \in SessionType,
         NEW T, T = [S EXCEPT ![j] = x]
  PROVE  /\ T \in Seq(SessionType) /\ Len(T) = Len(S) /\ T[j] = x
         /\ \A t \in 1..Len(S) : t # j => T[t] = S[t]
OBVIOUS

\* One job takes the lock, the others are disturbed.
TakesIn(S, j, x, T) ==
  /\ S \in Seq(SessionType) /\ j \in 1..Len(S) /\ x \in SessionType
  /\ T = [t \in DOMAIN S |-> IF t = j THEN x ELSE [S[t] EXCEPT !.alone = FALSE]]

LEMMA TakeSession ==
  ASSUME NEW S, NEW j, NEW x, NEW T, TakesIn(S, j, x, T)
  PROVE  /\ T \in Seq(SessionType) /\ Len(T) = Len(S) /\ T[j] = x
         /\ \A t \in 1..Len(S) : t # j => T[t] = [S[t] EXCEPT !.alone = FALSE]
<1>0. /\ S \in Seq(SessionType) /\ j \in 1..Len(S) /\ x \in SessionType
      /\ T = [t \in DOMAIN S |-> IF t = j THEN x ELSE [S[t] EXCEPT !.alone = FALSE]]
  BY DEF TakesIn
<1> USE <1>0
<1>1. \A t \in 1..Len(S) : S[t] \in SessionType
  OBVIOUS
<1>2. \A z \in SessionType : [z EXCEPT !.alone = FALSE] \in SessionType
  BY DEF SessionType
<1>3. DOMAIN S = 1..Len(S) /\ Len(S) \in Nat
  OBVIOUS
<1>4. T \in [1..Len(S) -> SessionType]
  BY <1>1, <1>2, <1>3
<1>5. T \in Seq(SessionType) /\ Len(T) = Len(S)
  BY <1>3, <1>4, FunIsSeq
<1> QED
  BY <1>3, <1>5

LEMMA TypesGrow ==
  ASSUME NEW m \in Nat, NEW k \in Nat, m <= k, NEW l \in Nat, NEW r \in Nat, l <= r
  PROVE  /\ [Block -> Content(m)] \subseteq [Block -> Content(k)]
         /\ ReviewType(m, l) \subseteq ReviewType(k, r)
         /\ Seq(ReviewType(m, l)) \subseteq Seq(ReviewType(k, r))
         /\ [{0, 1} -> Copy(l)] \subseteq [{0, 1} -> Copy(r)]
<1>1. Content(m) \subseteq Content(k) /\ Copy(l) \subseteq Copy(r)
  BY ContentGrows, CopyGrows
<1>2. [Block -> Content(m)] \subseteq [Block -> Content(k)]
  BY <1>1
<1>3. [{0, 1} -> Copy(l)] \subseteq [{0, 1} -> Copy(r)]
  BY <1>1
<1>4. ChangeOf(Content(m)) \subseteq ChangeOf(Content(k))
  BY <1>1 DEF ChangeOf
<1>5. Seq(ChangeOf(Content(m))) \subseteq Seq(ChangeOf(Content(k)))
  BY <1>4
<1>6. ReviewType(m, l) \subseteq ReviewType(k, r)
  BY <1>2, <1>3, <1>5 DEF ReviewType
<1> QED
  BY <1>2, <1>3, <1>6

\* What every step of the service but a review leaves alone.
SessionsKept ==
  /\ UNCHANGED <<source, kind, plans>>
  /\ sessions' \in Seq(SessionType) /\ Len(sessions') = Len(sessions)
  /\ \A t \in Jobs : sessions'[t].action = sessions[t].action
  /\ faults' \in {faults, faults + 1} /\ faults' <= MaxFaults

HostTyped ==
  /\ lock' \in 0..Len(plans) /\ job' \in 0..Len(plans) /\ record' \in Copy(Len(plans))
  /\ pc' \in Labels /\ pos' \in 0..12 /\ pending' \in BOOLEAN /\ slot' \in {0, 1}

LEMMA HostDone ==
  ASSUME IInv, SessionsKept, HostTyped, nand' \in [Block -> Content(Bound')],
         journal' \in [{0, 1} -> Copy(Len(plans))],
         FlashInv', SessionInv', AloneInv', EngineInv'
  PROVE  IInv'
<1>1. TypeInv /\ PlansOK(plans, source, sessions)
  BY DEF IInv
<1>2. /\ source' = source /\ kind' = kind /\ plans' = plans
      /\ sessions' \in Seq(SessionType) /\ Len(sessions') = Len(sessions)
      /\ \A t \in Jobs : sessions'[t].action = sessions[t].action
      /\ faults' \in {faults, faults + 1} /\ faults' <= MaxFaults
  BY DEF SessionsKept
<1>3. /\ Bound \in Nat /\ Len(plans) \in Nat /\ faults \in Nat
      /\ Bound = Len(plans) + faults + 1 /\ MaxFaults \in Nat
  BY <1>1, BoundNat
<1>4. Bound' \in Nat /\ Bound <= Bound' /\ faults' \in 0..MaxFaults
  BY <1>2, <1>3 DEF Bound
<1>5. plans' \in Seq(ReviewType(Bound', Len(plans')))
  <2>1. plans \in Seq(ReviewType(Bound, Len(plans))) /\ Len(plans) <= Len(plans)
    BY <1>1, <1>3 DEF TypeInv
  <2> QED
    BY <1>2, <1>3, <1>4, <2>1, TypesGrow
<1>6. TypeInv'
  BY <1>1, <1>2, <1>4, <1>5 DEF TypeInv, HostTyped
<1>7. PlansOK(plans, source, sessions)'
  <2>1. \A j \in 1..Len(plans) :
          PlanOK(plans[j], source, sessions'[j].action) /\ CaptureOK(plans[j], OwnerIn(plans, j))
    BY <1>1, <1>2 DEF PlansOK, Jobs
  <2> QED
    BY <1>2, <2>1 DEF PlansOK
<1> QED
  BY <1>6, <1>7 DEF IInv

LEMMA HostQuiet ==
  ASSUME IInv, SessionsKept, HostTyped, UNCHANGED <<nand, journal>>,
         SessionInv', AloneInv', EngineInv'
  PROVE  IInv'
<1>1. TypeInv /\ FlashInv
  BY DEF IInv
<1>2. /\ source' = source /\ kind' = kind /\ plans' = plans /\ nand' = nand /\ journal' = journal
      /\ faults' \in {faults, faults + 1}
  BY DEF SessionsKept
<1>3. FlashInv'
  BY <1>1, <1>2 DEF FlashInv
<1>4. /\ Bound \in Nat /\ Len(plans) \in Nat /\ faults \in Nat
      /\ Bound = Len(plans) + faults + 1
  BY <1>1, BoundNat
<1>5. Bound' \in Nat /\ Bound <= Bound'
  BY <1>2, <1>4 DEF Bound
<1>6. nand \in [Block -> Content(Bound)] /\ journal \in [{0, 1} -> Copy(Len(plans))]
  BY <1>1 DEF TypeInv
<1>7. nand' \in [Block -> Content(Bound')]
  BY <1>2, <1>4, <1>5, <1>6, TypesGrow
<1> QED
  BY <1>2, <1>3, <1>6, <1>7, HostDone

\* Nobody comes nearer to the board than its job.
LEMMA AloneSame ==
  ASSUME AloneInv, UNCHANGED <<kind, nand, journal, plans>>,
         \A t \in Jobs : sessions'[t].alone =>
           /\ sessions[t].alone
           /\ \/ sessions'[t].dir = sessions[t].dir
              \/ sessions'[t].dir # "reviewed" /\ sessions[t].dir # "reviewed"
  PROVE  AloneInv'
<1>1. kind' = kind /\ nand' = nand /\ journal' = journal /\ plans' = plans /\ Jobs' = Jobs
  BY DEF Jobs
<1>2. ASSUME NEW t \in Jobs, sessions'[t].alone
      PROVE  AloneOn(nand, journal, plans[t], OwnerIn(plans, t), kind, sessions'[t].dir)
  <2>1. AloneOn(nand, journal, plans[t], OwnerIn(plans, t), kind, sessions[t].dir)
    BY <1>2 DEF AloneInv
  <2> QED
    BY <1>2, <2>1 DEF AloneOn
<1> QED
  BY <1>1, <1>2 DEF AloneInv

\* The lock and who may hold it.
LEMMA Free ==
  ASSUME IInv, lock = 0
  PROVE  pc = "idle" /\ job = 0
<1>1. EngineInv /\ TypeInv
  BY DEF IInv
<1>2. lock \notin Jobs
  BY <1>1, BoundNat DEF Jobs
<1> QED
  BY <1>1, <1>2 DEF EngineInv

LEMMA HostFacts ==
  ASSUME IInv
  PROVE  /\ Len(plans) = Len(sessions) /\ Len(plans) \in Nat /\ Jobs = 1..Len(sessions)
         /\ sessions \in Seq(SessionType) /\ Jobs \subseteq 0..Len(plans)
         /\ \A t \in Jobs : sessions[t] \in SessionType
         /\ \A t \in Jobs : SessionOK(sessions[t], t, lock, kind, Len(plans))
         /\ SessionInv /\ AloneInv /\ EngineInv
         /\ lock \in 0..Len(plans) /\ (lock # 0 => lock \in Jobs)
         /\ faults \in 0..MaxFaults /\ faults \in Nat /\ MaxFaults \in Nat
         /\ record \in Copy(Len(plans)) /\ pos \in 0..12 /\ pending \in BOOLEAN /\ slot \in {0, 1}
         /\ job \in 0..Len(plans) /\ pc \in Labels
<1>1. TypeInv /\ SessionInv /\ AloneInv /\ EngineInv
  BY DEF IInv
<1>2. Len(plans) \in Nat /\ faults \in Nat /\ MaxFaults \in Nat
  BY <1>1, BoundNat
<1>3. Len(plans) = Len(sessions) /\ sessions \in Seq(SessionType)
  BY <1>1 DEF TypeInv
<1>4. Jobs = 1..Len(sessions)
  BY <1>3 DEF Jobs
<1> QED
  BY <1>1, <1>2, <1>3, <1>4 DEF TypeInv, SessionInv

LEMMA MakeDirectoryStep ==
  ASSUME IInv, MakeDirectory
  PROVE  IInv'
<1> DEFINE x == [sessions[lock] EXCEPT !.dir = "empty"]
<1>1. /\ lock # 0 /\ pc = "idle" /\ sessions[lock].dir = "absent"
      /\ sessions' = [sessions EXCEPT ![lock] = x]
      /\ UNCHANGED <<kind, nand, journal, plans, engine, source, lock, faults>>
  BY DEF MakeDirectory
<1>2. lock \in Jobs /\ sessions[lock] \in SessionType
  BY <1>1, HostFacts
<1>3. /\ x \in SessionType /\ x.action = sessions[lock].action /\ x.dir = "empty"
      /\ x.alone = sessions[lock].alone /\ x.used = sessions[lock].used
      /\ x.state = sessions[lock].state
  BY <1>2 DEF SessionType
<1> HIDE DEF x
<1>4. /\ sessions' \in Seq(SessionType) /\ Len(sessions') = Len(sessions) /\ sessions'[lock] = x
      /\ \A t \in Jobs : t # lock => sessions'[t] = sessions[t]
  BY <1>1, <1>2, <1>3, HostFacts, SetSession
<1>5. SessionsKept
  BY <1>1, <1>3, <1>4, HostFacts DEF SessionsKept
<1>6. HostTyped
  BY <1>1, HostFacts DEF HostTyped, engine
<1>7. SessionInv'
  <2>1. SessionOK(sessions[lock], lock, lock, kind, Len(plans))
    BY <1>2, HostFacts
  <2>2. SessionOK(x, lock, lock, kind, Len(plans))
    BY <1>1, <1>2, <1>3, <2>1 DEF SessionOK
  <2>3. \A t \in Jobs : SessionOK(sessions'[t], t, lock, kind, Len(plans))
    BY <1>4, <2>2, HostFacts
  <2> QED
    BY <1>1, <2>3 DEF SessionInv, Jobs
<1>8. AloneInv'
  BY <1>1, <1>3, <1>4, HostFacts, AloneSame
<1>9. EngineInv'
  <2>1. job = 0
    BY <1>1, HostFacts DEF EngineInv
  <2> QED
    BY <1>1, <2>1 DEF EngineInv, engine
<1> QED
  BY <1>1, <1>5, <1>6, <1>7, <1>8, <1>9, HostQuiet

LEMMA OneSession ==
  ASSUME IInv, NEW j \in Jobs, NEW x \in SessionType, x.action = sessions[j].action,
         sessions' = [sessions EXCEPT ![j] = x], UNCHANGED <<source, kind, plans>>,
         faults' \in {faults, faults + 1}, faults' <= MaxFaults
  PROVE  /\ SessionsKept /\ sessions'[j] = x /\ Jobs' = Jobs
         /\ \A t \in Jobs : t # j => sessions'[t] = sessions[t]
<1>1. /\ sessions' \in Seq(SessionType) /\ Len(sessions') = Len(sessions) /\ sessions'[j] = x
      /\ \A t \in Jobs : t # j => sessions'[t] = sessions[t]
  BY HostFacts, SetSession
<1> QED
  BY <1>1 DEF SessionsKept, Jobs

\* A process gives the lock back.
Released(x) ==
  /\ x \in SessionType /\ x.action = sessions[lock].action /\ x.used = sessions[lock].used
  /\ x.dir = sessions[lock].dir /\ x.alone = sessions[lock].alone
  /\ x.state \in {"reconnect", "verified", "recovery-required"}
  /\ sessions' = [sessions EXCEPT ![lock] = x] /\ UNCHANGED <<source, kind, plans>>
  /\ lock' = 0 /\ job' = 0 /\ pc' = "idle"
  /\ faults' \in {faults, faults + 1} /\ faults' <= MaxFaults

LEMMA Release ==
  ASSUME IInv, lock \in Jobs, NEW x, Released(x), HostTyped, FlashKept,
         sessions[lock].alone => AloneOn(nand', journal', plans[lock], OwnerIn(plans, lock), kind,
                                         sessions[lock].dir)
  PROVE  IInv'
<1>1. /\ x \in SessionType /\ x.action = sessions[lock].action /\ x.used = sessions[lock].used
      /\ x.dir = sessions[lock].dir /\ x.alone = sessions[lock].alone
      /\ x.state \in {"reconnect", "verified", "recovery-required"}
      /\ sessions' = [sessions EXCEPT ![lock] = x] /\ UNCHANGED <<source, kind, plans>>
      /\ lock' = 0 /\ job' = 0 /\ pc' = "idle"
      /\ faults' \in {faults, faults + 1} /\ faults' <= MaxFaults
  BY DEF Released
<1>2. /\ SessionsKept /\ sessions'[lock] = x /\ Jobs' = Jobs
      /\ \A t \in Jobs : t # lock => sessions'[t] = sessions[t]
  BY <1>1, OneSession
<1>3. /\ \A t \in Jobs : SessionOK(sessions[t], t, lock, kind, Len(plans))
      /\ Jobs = 1..Len(plans) /\ Len(plans) \in Nat
  BY HostFacts DEF Jobs
<1>4. SessionInv'
  <2>1. SessionOK(x, lock, 0, kind, Len(plans))
    <3>1. SessionOK(sessions[lock], lock, lock, kind, Len(plans))
      BY <1>3
    <3>2. lock <= Len(plans) /\ lock \in Nat /\ lock # 0
      BY <1>3
    <3>3. sessions[lock].state = "working" /\ sessions[lock].used
      BY <3>1 DEF SessionOK
    <3>4. kind = "offline" => lock = Len(plans) /\ sessions[lock].alone
      BY <3>1, <3>2, <3>3, <1>3 DEF SessionOK
    <3> QED
      BY <1>1, <1>3, <3>2, <3>3, <3>4 DEF SessionOK
  <2>2. ASSUME NEW t \in Jobs, t # lock
        PROVE  SessionOK(sessions[t], t, 0, kind, Len(plans))
    <3>1. SessionOK(sessions[t], t, lock, kind, Len(plans)) /\ t # 0
      BY <1>3
    <3> QED
      BY <3>1, <2>2 DEF SessionOK
  <2>3. \A t \in Jobs : SessionOK(sessions'[t], t, 0, kind, Len(plans))
    BY <1>2, <2>1, <2>2
  <2> QED
    BY <1>1, <1>2, <2>3 DEF SessionInv
<1>5. AloneInv'
  <2>1. ASSUME NEW t \in Jobs, sessions'[t].alone
        PROVE  AloneOn(nand', journal', plans[t], OwnerIn(plans, t), kind, sessions'[t].dir)
    <3>1. CASE t = lock
      BY <1>1, <1>2, <2>1, <3>1
    <3>2. CASE t # lock
      <4>1. SessionOK(sessions[t], t, lock, kind, Len(plans)) /\ sessions[t].alone /\ lock # 0
        BY <1>2, <1>3, <2>1, <3>2
      <4> QED
        BY <3>2, <4>1 DEF SessionOK
    <3> QED
      BY <3>1, <3>2
  <2> QED
    BY <1>1, <1>2, <2>1 DEF AloneInv
<1>6. EngineInv'
  BY <1>1 DEF EngineInv
<1>7. FlashInv' /\ journal' \in [{0, 1} -> Copy(Len(plans))]
  BY <1>1 DEF FlashInv, FlashKept
<1>8. nand' \in [Block -> Content(Bound')]
  <2>1. /\ Bound \in Nat /\ Len(plans) \in Nat /\ faults \in Nat
        /\ Bound = Len(plans) + faults + 1
    BY BoundNat DEF IInv
  <2>2. Bound' \in Nat /\ Bound <= Bound'
    BY <1>1, <2>1 DEF Bound
  <2> QED
    BY <2>1, <2>2, TypesGrow DEF FlashKept
<1> QED
  BY <1>2, <1>4, <1>5, <1>6, <1>7, <1>8, HostDone

LEMMA QuietFlash ==
  ASSUME IInv, UNCHANGED <<nand, journal>>
  PROVE  FlashKept
BY DEF IInv, TypeInv, FlashInv, FlashKept

LEMMA IdleTyped ==
  ASSUME IInv, Idle, lock' = 0
  PROVE  HostTyped /\ job' = 0 /\ pc' = "idle"
<1>1. Len(plans) \in Nat
  BY HostFacts
<1>2. record' = NoRecord("blank") /\ NoRecord("blank") \in Copy(Len(plans))
  BY <1>1, NoRecords3 DEF Idle
<1>3. record' \in Copy(Len(plans))
  BY <1>2
<1>4. job' = 0 /\ pc' = "idle" /\ pos' = 0 /\ pending' = FALSE /\ slot' = 0
  BY DEF Idle
<1>5. 0 \in 0..Len(plans) /\ 0 \in 0..12 /\ 0 \in {0, 1}
  BY <1>1
<1>6. "idle" \in Labels
  BY DEF Labels
<1> QED
  BY <1>3, <1>4, <1>5, <1>6 DEF HostTyped

LEMMA GiveBack ==
  ASSUME IInv, pc # "idle", UNCHANGED <<nand, journal>>, NEW x, Released(x), Idle
  PROVE  IInv'
<1>1. RunningOn(plans[job], OwnerIn(plans, job))
  BY Running
<1>2. lock \in Jobs /\ job = lock /\ sessions[lock].dir = "reviewed"
  BY <1>1 DEF RunningOn
<1>3. FlashKept /\ HostTyped
  BY QuietFlash, IdleTyped DEF Released
<1>4. sessions[lock].alone => AloneOn(nand', journal', plans[lock], OwnerIn(plans, lock), kind,
                                      sessions[lock].dir)
  BY <1>1, <1>2 DEF RunningOn
<1> QED
  BY <1>2, <1>3, <1>4, Release

\* A job's record as a verification and as an approval change it.
LEMMA VerifiedSession ==
  ASSUME NEW z \in SessionType
  PROVE  LET x == [z EXCEPT !.snap = "final", !.state = "verified"]
         IN  /\ x \in SessionType /\ x.action = z.action /\ x.used = z.used
             /\ x.dir = z.dir /\ x.alone = z.alone /\ x.state = "verified"
BY DEF SessionType

LEMMA ApprovedSession ==
  ASSUME NEW z \in SessionType
  PROVE  LET x == [z EXCEPT !.state = "working", !.used = TRUE]
         IN  /\ x \in SessionType /\ x.action = z.action /\ x.used
             /\ x.dir = z.dir /\ x.alone = z.alone /\ x.state = "working"
BY DEF SessionType

LEMMA QualifyStep ==
  ASSUME IInv, Qualify
  PROVE  IInv'
<1> DEFINE x == [sessions[job] EXCEPT !.snap = "final", !.state = "verified"]
<1>1. /\ pc = "qualify" /\ pc # "idle" /\ lock' = 0 /\ Idle
      /\ UNCHANGED <<kind, nand, journal, plans, source, faults>>
      /\ sessions' = [sessions EXCEPT ![job].snap = "final", ![job].state = "verified"]
  BY DEF Qualify
<1>2. job \in Jobs /\ job = lock /\ sessions[job] \in SessionType
  BY <1>1, Running DEF RunningOn
<1>3. sessions' = [sessions EXCEPT ![lock] = x]
  BY <1>1, <1>2, HostFacts
<1>4. /\ x \in SessionType /\ x.action = sessions[lock].action /\ x.used = sessions[lock].used
      /\ x.dir = sessions[lock].dir /\ x.alone = sessions[lock].alone /\ x.state = "verified"
  BY <1>2, VerifiedSession
<1> HIDE DEF x
<1>5. Released(x)
  <2>1. faults' \in {faults, faults + 1} /\ faults' <= MaxFaults
    BY <1>1, HostFacts
  <2>2. job' = 0 /\ pc' = "idle"
    BY <1>1 DEF Idle
  <2> QED
    BY <1>1, <1>3, <1>4, <2>1, <2>2 DEF Released
<1> QED
  BY <1>1, <1>5, GiveBack

LEMMA RefusedStep ==
  ASSUME IInv, Refused
  PROVE  IInv'
<1> DEFINE s == IF kind = "offline" THEN "recovery-required" ELSE "reconnect"
           x == [sessions[job] EXCEPT !.state = s]
<1>1. /\ pc = "refused" /\ pc # "idle" /\ lock' = 0 /\ Idle
      /\ UNCHANGED <<kind, nand, journal, plans, source, faults>>
      /\ sessions' = [sessions EXCEPT ![job] = x]
  BY DEF Refused
<1>2. job \in Jobs /\ job = lock /\ sessions[job] \in SessionType
  BY <1>1, Running DEF RunningOn
<1>3. /\ x \in SessionType /\ x.action = sessions[lock].action /\ x.used = sessions[lock].used
      /\ x.dir = sessions[lock].dir /\ x.alone = sessions[lock].alone
      /\ x.state \in {"reconnect", "verified", "recovery-required"}
  BY <1>2 DEF SessionType
<1> HIDE DEF s, x
<1>4. Released(x)
  <2>1. sessions' = [sessions EXCEPT ![lock] = x]
    BY <1>1, <1>2
  <2>2. faults' \in {faults, faults + 1} /\ faults' <= MaxFaults
    BY <1>1, HostFacts
  <2>3. job' = 0 /\ pc' = "idle"
    BY <1>1 DEF Idle
  <2> QED
    BY <1>1, <1>3, <2>1, <2>2, <2>3 DEF Released
<1> QED
  BY <1>1, <1>4, GiveBack

\* The readback, retained or refused.
LEMMA SnapshotStep ==
  ASSUME IInv, Snapshot
  PROVE  IInv'
<1>1. /\ pc = "verified" /\ pc # "idle"
      /\ UNCHANGED <<kind, nand, journal, plans, job, pos, pending, record, slot, source, lock, faults>>
  BY DEF Snapshot
<1>2. RunningOn(plans[job], OwnerIn(plans, job))
  BY <1>1, Running
<1>3. job \in Jobs /\ job = lock /\ sessions[job] \in SessionType /\ sessions[job].dir = "reviewed"
  BY <1>2 DEF RunningOn
<1>4. DoneOn(nand, plans[job]) /\ (plans[job].mode = "restore" => Blanks(journal, {0, 1}))
  BY <1>1, <1>2 DEF RunningOn, EngineOn
<1>5. CASE pc' = "refused" /\ sessions' = sessions
  <2>1. HostSame /\ EngineTyped
    BY <1>1, <1>2, <1>5 DEF HostSame, EngineTyped, Labels, RunningOn
  <2>2. EngineOn(nand, journal, plans[job], OwnerIn(plans, job), kind)'
    BY <1>5 DEF EngineOn
  <2> QED
    BY <1>1, <2>1, <2>2, StepQuiet
<1>6. ASSUME NEW f \in {"final", "both"}, pc' = "qualify", sessions' = [sessions EXCEPT ![job].snap = f]
      PROVE  IInv'
  <2> DEFINE x == [sessions[job] EXCEPT !.snap = f]
  <2>1. /\ x \in SessionType /\ x.action = sessions[job].action /\ x.used = sessions[job].used
        /\ x.dir = sessions[job].dir /\ x.alone = sessions[job].alone
        /\ x.state = sessions[job].state
    BY <1>3 DEF SessionType
  <2>2. sessions' = [sessions EXCEPT ![job] = x]
    BY <1>6
  <2> HIDE DEF x
  <2>3. /\ SessionsKept /\ sessions'[job] = x /\ Jobs' = Jobs
        /\ \A t \in Jobs : t # job => sessions'[t] = sessions[t]
    <3>1. UNCHANGED <<source, kind, plans>> /\ faults' \in {faults, faults + 1} /\ faults' <= MaxFaults
      BY <1>1, HostFacts
    <3>2. job \in Jobs /\ x \in SessionType /\ x.action = sessions[job].action
      BY <1>3, <2>1
    <3> QED
      BY <2>2, <3>1, <3>2, OneSession
  <2>4. HostTyped
    BY <1>1, <1>6, HostFacts DEF HostTyped, Labels
  <2>5. SessionInv'
    <3>1. SessionOK(x, job, lock, kind, Len(plans))
      <4>1. SessionOK(sessions[job], job, lock, kind, Len(plans))
        BY <1>3, HostFacts
      <4> QED
        BY <2>1, <4>1 DEF SessionOK
    <3>2. \A t \in Jobs : SessionOK(sessions'[t], t, lock, kind, Len(plans))
      BY <2>3, <3>1, HostFacts
    <3> QED
      BY <1>1, <2>3, <3>2 DEF SessionInv
  <2>6. AloneInv'
    BY <1>1, <1>3, <2>1, <2>3, HostFacts, AloneSame
  <2>7. EngineInv'
    <3>1. EngineOn(nand, journal, plans[job], OwnerIn(plans, job), kind)'
      BY <1>1, <1>4, <1>6 DEF EngineOn
    <3> QED
      BY <1>1, <1>3, <1>6, <2>1, <2>3, <3>1 DEF EngineInv
  <2> QED
    BY <1>1, <2>3, <2>4, <2>5, <2>6, <2>7, HostQuiet
<1> QED
  BY <1>5, <1>6 DEF Snapshot, Goto

\* Either copy, lost.
Loses(J, m, s, x, K) ==
  /\ J \in [{0, 1} -> Copy(m)] /\ s \in {0, 1} /\ x \in Copy(m) /\ x.is # "ok"
  /\ K = [J EXCEPT ![s] = x]

LEMMA AnyLost ==
  ASSUME NEW J, NEW m, NEW s, NEW x, NEW K, Loses(J, m, s, x, K)
  PROVE  K \in [{0, 1} -> Copy(m)] /\ Less(K, J)
<1>0. /\ J \in [{0, 1} -> Copy(m)] /\ s \in {0, 1} /\ x \in Copy(m) /\ x.is # "ok"
      /\ K = [J EXCEPT ![s] = x]
  BY DEF Loses
<1> QED
  BY <1>0, LessCopies

\* The copy that was being written or erased is left torn.
LEMMA TornCopyFlash ==
  ASSUME IInv, pc # "idle", NEW s \in TornCopy, nand' = nand,
         journal' = [journal EXCEPT ![s] = NoRecord("torn")]
  PROVE  FlashKept /\ (sessions[job].alone =>
           AloneOn(nand', journal', plans[job], OwnerIn(plans, job), kind, "reviewed"))
<1> DEFINE p == plans[job]
           o == OwnerIn(plans, job)
           y == NoRecord("torn")
<1>1. RunningOn(p, o)
  BY Running
<1>2. /\ journal \in [{0, 1} -> Copy(Len(plans))] /\ Len(plans) \in Nat /\ slot \in {0, 1}
      /\ EngineOn(nand, journal, p, o, kind)
  BY <1>1 DEF RunningOn
<1>3. s \in {0, 1} /\ pc \in {"clear0", "clear1", "retire0", "retire1", "saving"}
      /\ (pc = "saving" => s = slot)
  BY <1>2 DEF TornCopy
<1>4. y \in Copy(Len(plans)) /\ y.is # "ok"
  BY <1>2, NoRecords3
<1>h. journal' = [journal EXCEPT ![s] = y] /\ nand' = nand
  OBVIOUS
<1> HIDE DEF y, p, o
<1>5. journal' \in [{0, 1} -> Copy(Len(plans))] /\ Less(journal', journal)
  <2>1. Loses(journal, Len(plans), s, y, journal')
    BY <1>2, <1>3, <1>4, <1>h DEF Loses
  <2> QED
    BY <2>1, AnyLost, Zenon
<1>6. FlashKept
  BY <1>5, <1>h, LostFlash
<1>7. ASSUME sessions[job].alone
      PROVE  AloneOn(nand, journal', p, o, kind, "reviewed")
  <2>1. CASE pc # "saving"
    BY <1>1, <1>3, <1>5, <1>7, <2>1, LostAlone
  <2>2. CASE pc = "saving" /\ record.gen = 1
    <3>1. FirstOn(nand, journal, p, o, record, slot)
      BY <1>2, <2>2 DEF EngineOn
    <3>2. FreshOn(nand, journal, p, o)
      <4>1. nand = p.initial /\ record.owner = o /\ record.index = 0
        BY <3>1 DEF FirstOn, Record
      <4>2. ASSUME NEW t \in ValidIn(journal)
            PROVE  journal[t] = record
        BY <3>1, <1>2 DEF FirstOn, Blanks, ValidIn
      <4> QED
        BY <4>1, <4>2 DEF FreshOn
    <3>3. FreshOn(nand, journal', p, o)
      BY <3>2, <1>5, FreshLess
    <3> QED
      BY <3>3 DEF AloneOn
  <2>3. CASE pc = "saving" /\ record.gen # 1
    <3>1. SaveOn(nand, journal, p, o, record, slot, pos)
      BY <1>2, <2>3 DEF EngineOn
    <3>2. journal' = [journal EXCEPT ![slot] = y]
      BY <1>3, <1>h, <2>3
    <3>3. GoingOn(nand, journal', p, o)
      BY <3>1, <3>2, <1>2, <1>4, SaveLost
    <3> QED
      BY <3>3 DEF AloneOn
  <2> QED
    BY <2>1, <2>2, <2>3
<1> QED
  BY <1>6, <1>7, <1>h DEF p, o

\* The block that was being erased or programmed is left torn, or with a prefix
\* of its pages.
LEMMA TornBlockFlash ==
  ASSUME IInv, pc # "idle", NEW c \in TornBlock, journal' = journal,
         nand' = [nand EXCEPT ![Current.block] = c]
  PROVE  FlashKept /\
         AloneOn(nand', journal', plans[job], OwnerIn(plans, job), kind, "reviewed")
<1> DEFINE p == plans[job]
           o == OwnerIn(plans, job)
           e == p.changes[pos + 1]
<1>1. RunningOn(p, o)
  BY Running
<1>2. pc \in {"write", "program"}
  BY DEF TornBlock
<1>3. WriteOn(nand, journal, p, o, pos)
  BY <1>1, <1>2 DEF RunningOn, EngineOn
<1>4. Current = e /\ e.after \in Content(Bound)
  BY <1>1, <1>3, CurrentTyped
<1>5. c = Torn \/ (e.block \in DOMAIN Stream /\ e.after # Blank /\ c = Short(e.after))
  BY <1>2, <1>4 DEF TornBlock
<1>6. c \in Content(Bound)
  BY <1>1, <1>4, <1>5, ContentHas DEF RunningOn
<1>7. nand' = [nand EXCEPT ![e.block] = c]
  BY <1>4
<1>8. OpensTo(p, e, c, nand')
  <2>1. OpenAt(e.block, c, e.before, e.after)
    BY <1>5 DEF OpenAt
  <2> HIDE DEF p
  <2> QED
    BY <1>6, <1>7, <2>1 DEF OpensTo
<1> HIDE DEF e
<1>9. OpenKept(p, o, e, c, nand')
  BY <1>1, <1>3, <1>8, OpenFlash, Zenon
<1>h. journal' = journal
  OBVIOUS
<1>10. FlashKept
  BY <1>1, <1>9, <1>h DEF FlashKept, OpenKept, RunningOn
<1> QED
  BY <1>9, <1>10, <1>h DEF OpenKept

LEMMA StopStep ==
  ASSUME IInv, Stop,
         sessions' = [sessions EXCEPT ![lock].state = "reconnect"], lock' = 0,
         faults < MaxFaults, faults' = faults + 1, source' = source
  PROVE  IInv'
<1> DEFINE x == [sessions[lock] EXCEPT !.state = "reconnect"]
<1>1. pc # "idle" /\ Idle /\ UNCHANGED <<kind, plans>>
  BY DEF Stop
<1>2. RunningOn(plans[job], OwnerIn(plans, job))
  BY <1>1, Running
<1>3. /\ lock \in Jobs /\ job = lock /\ sessions[lock].dir = "reviewed"
      /\ sessions[lock] \in SessionType
  BY <1>2 DEF RunningOn
<1>4. FlashKept /\ (sessions[job].alone =>
        AloneOn(nand', journal', plans[job], OwnerIn(plans, job), kind, "reviewed"))
  <2>1. CASE UNCHANGED flash
    <3>1. nand' = nand /\ journal' = journal
      BY <2>1 DEF flash
    <3>2. sessions[job].alone =>
            AloneOn(nand, journal, plans[job], OwnerIn(plans, job), kind, "reviewed")
      BY <1>2 DEF RunningOn
    <3> QED
      BY <3>1, <3>2, QuietFlash
  <2>2. ASSUME NEW s \in TornCopy, journal' = [journal EXCEPT ![s] = NoRecord("torn")], nand' = nand
        PROVE  FlashKept /\ (sessions[job].alone =>
                 AloneOn(nand', journal', plans[job], OwnerIn(plans, job), kind, "reviewed"))
    BY <1>1, <2>2, TornCopyFlash
  <2>3. ASSUME NEW c \in TornBlock, nand' = [nand EXCEPT ![Current.block] = c], journal' = journal
        PROVE  FlashKept /\ (sessions[job].alone =>
                 AloneOn(nand', journal', plans[job], OwnerIn(plans, job), kind, "reviewed"))
    BY <1>1, <2>3, TornBlockFlash
  <2> QED
    BY <2>1, <2>2, <2>3 DEF Stop
<1>5. /\ x \in SessionType /\ x.action = sessions[lock].action /\ x.used = sessions[lock].used
      /\ x.dir = sessions[lock].dir /\ x.alone = sessions[lock].alone
      /\ x.state = "reconnect"
  BY <1>3 DEF SessionType
<1>6. sessions' = [sessions EXCEPT ![lock] = x]
  OBVIOUS
<1> HIDE DEF x
<1>7. Released(x)
  <2>1. faults' \in {faults, faults + 1} /\ faults' <= MaxFaults
    BY HostFacts
  <2>2. job' = 0 /\ pc' = "idle" /\ UNCHANGED <<source, kind, plans>> /\ lock' = 0
    BY <1>1 DEF Idle
  <2> QED
    BY <1>5, <1>6, <2>1, <2>2 DEF Released
<1>8. HostTyped
  BY <1>1, IdleTyped
<1> QED
  BY <1>3, <1>4, <1>7, <1>8, Release

LEMMA InterruptStep ==
  ASSUME IInv, Interrupt
  PROVE  IInv'
<1> DEFINE x == [sessions[lock] EXCEPT !.state = "reconnect"]
<1>1. /\ lock # 0 /\ faults < MaxFaults
      /\ sessions' = [sessions EXCEPT ![lock].state = "reconnect"] /\ lock' = 0
      /\ faults' = faults + 1 /\ source' = source
  BY DEF Interrupt
<1>2. CASE Stop
  BY <1>1, <1>2, StopStep
<1>3. CASE pc = "idle" /\ UNCHANGED <<kind, nand, journal, plans, engine>>
  <2>1. lock \in Jobs /\ sessions[lock] \in SessionType /\ job = 0
    BY <1>1, <1>3, HostFacts DEF EngineInv
  <2>2. /\ x \in SessionType /\ x.action = sessions[lock].action /\ x.used = sessions[lock].used
        /\ x.dir = sessions[lock].dir /\ x.alone = sessions[lock].alone
        /\ x.state = "reconnect"
    BY <2>1 DEF SessionType
  <2>3. sessions' = [sessions EXCEPT ![lock] = x]
    BY <1>1
  <2> HIDE DEF x
  <2>4. Released(x)
    <3>1. faults' \in {faults, faults + 1} /\ faults' <= MaxFaults
      BY <1>1, HostFacts
    <3>2. job' = 0 /\ pc' = "idle" /\ UNCHANGED <<source, kind, plans>> /\ lock' = 0
      BY <1>1, <1>3, <2>1 DEF engine
    <3> QED
      BY <2>2, <2>3, <3>1, <3>2 DEF Released
  <2>5. HostTyped
    <3>1. lock' \in 0..Len(plans)
      BY <1>1, HostFacts
    <3> QED
      BY <1>3, <3>1, HostFacts DEF HostTyped, engine
  <2>6. FlashKept
    BY <1>3, QuietFlash
  <2>7. sessions[lock].alone =>
          AloneOn(nand', journal', plans[lock], OwnerIn(plans, lock), kind, sessions[lock].dir)
    BY <1>3, <2>1, HostFacts DEF AloneInv
  <2> QED
    BY <2>1, <2>4, <2>5, <2>6, <2>7, Release
<1> QED
  BY <1>2, <1>3 DEF Interrupt

-----------------------------------------------------------------------------
\* What an inspection of the board says, of the board and of the journals.

LEMMA MatchesIs ==
  ASSUME NEW j, NEW i, NEW mutable
  PROVE  Matches(j, i, mutable) <=>
           Agrees(nand, plans[j].initial, plans[j].changes, i, mutable)
BY DEF Matches, Expected, Agrees, Changes

LEMMA ReadableIs ==
  ASSUME NEW j, JournalsOK(journal, plans, source)
  PROVE  Readable(j) <=> Own(journal, OwnerIn(plans, j))
<1>1. Readable(j) <=> /\ \A s \in ValidIn(journal) : journal[s].owner = OwnerIn(plans, j)
                      /\ ValidIn(journal) # {}
                      /\ ValidIn(journal) = {0, 1} /\ journal[0].gen = journal[1].gen =>
                           journal[0] = journal[1]
  BY StateOps DEF Readable
<1>2. ValidIn(journal) = {0, 1} /\ journal[0].gen = journal[1].gen => journal[0] = journal[1]
  BY DEF JournalsOK
<1> QED
  BY <1>1, <1>2 DEF Own

\* A job nobody disturbed, and any job of the inspected media.
BoardOn(j, p, o) ==
  /\ p = plans[j] /\ o = OwnerIn(plans, j) /\ Runs(p, Bound) /\ Owns(plans, p, o)
  /\ nand \in [Block -> Content(Bound)] /\ journal \in [{0, 1} -> Copy(Len(plans))]
  /\ JournalsOK(journal, plans, source) /\ kind \in {"physical", "offline"}
  /\ kind = "offline" => AloneOn(nand, journal, p, o, kind, "reviewed")

LEMMA BoardOf ==
  ASSUME IInv, NEW j \in Jobs, sessions[j].dir = "reviewed",
         kind = "offline" => sessions[j].alone
  PROVE  BoardOn(j, plans[j], OwnerIn(plans, j))
<1>1. TypeInv /\ PlansOK(plans, source, sessions) /\ FlashInv /\ AloneInv
  BY DEF IInv
<1>2. Runs(plans[j], Bound) /\ Owns(plans, plans[j], OwnerIn(plans, j))
  BY <1>1, JobFacts
<1>3. /\ nand \in [Block -> Content(Bound)] /\ journal \in [{0, 1} -> Copy(Len(plans))]
      /\ JournalsOK(journal, plans, source) /\ kind \in {"physical", "offline"}
  BY <1>1 DEF TypeInv, FlashInv
<1>4. kind = "offline" => AloneOn(nand, journal, plans[j], OwnerIn(plans, j), kind, "reviewed")
  BY <1>1 DEF AloneInv
<1> QED
  BY <1>2, <1>3, <1>4 DEF BoardOn

LEMMA CompleteMeans ==
  ASSUME NEW j, NEW p, NEW o, BoardOn(j, p, o), CanComplete(j)
  PROVE  DoneOn(nand, p) /\ EndOn(journal, p, o, kind) /\ p.mode = "restore"
<1>1. /\ p = plans[j] /\ o = OwnerIn(plans, j) /\ Runs(p, Bound) /\ Owns(plans, p, o)
      /\ JournalsOK(journal, plans, source) /\ kind \in {"physical", "offline"}
      /\ kind = "offline" => AloneOn(nand, journal, p, o, kind, "reviewed")
  BY DEF BoardOn
<1>2. Matches(j, Len(Changes(j)), {}) /\ (kind = "offline" => ~Readable(j)) /\ p.mode = "restore"
  BY <1>1 DEF CanComplete, InspectComplete
<1>3. Agrees(nand, p.initial, p.changes, Len(p.changes), {})
  BY <1>1, <1>2, MatchesIs DEF Changes
<1>4. DoneOn(nand, p)
  BY <1>1, <1>3, MatchAll
<1>5. ASSUME kind = "offline"
      PROVE  \A s \in ValidIn(journal) : journal[s].owner = o /\ AtEnd(journal[s], p)
  <2>1. ~Own(journal, o) /\ AloneOn(nand, journal, p, o, kind, "reviewed")
    BY <1>1, <1>2, <1>5, ReadableIs
  <2>2. ~GoingOn(nand, journal, p, o)
    BY <2>1 DEF GoingOn, Own
  <2>3. nand # p.initial
    BY <1>1, <1>4, DoneNotFirst
  <2>4. FinishedOn(nand, journal, p, o, kind)
    BY <2>1, <2>2, <2>3 DEF AloneOn, FreshOn
  <2> QED
    BY <2>4, <1>5 DEF FinishedOn
<1> QED
  BY <1>2, <1>4, <1>5 DEF EndOn

\* A board that agrees with its own journals is on the way.
LEMMA AgreesGoing ==
  ASSUME NEW j, NEW p, NEW o, BoardOn(j, p, o), Own(journal, o),
         LET x == NewestOf(journal)
         IN  Agrees(nand, p.initial, p.changes, x.index,
                    IF x.pending THEN {p.changes[x.index + 1].block} ELSE {})
  PROVE  GoingOn(nand, journal, p, o)
<1> DEFINE x == NewestOf(journal)
           i == x.index
           open == x.pending
<1>1. /\ Runs(p, Bound) /\ Owns(plans, p, o) /\ journal \in [{0, 1} -> Copy(Len(plans))]
      /\ JournalsOK(journal, plans, source)
  BY DEF BoardOn
<1>2. o # 0 /\ plans[o].changes = p.changes
  BY <1>1 DEF Owns
<1>3. /\ i \in Nat /\ i <= Len(p.changes) /\ open \in BOOLEAN /\ (open => i < Len(p.changes))
  BY <1>1, <1>2, NewestFacts
<1>4. Agrees(nand, p.initial, p.changes, i, IF open THEN {p.changes[i + 1].block} ELSE {})
  OBVIOUS
<1> HIDE DEF i, open
<1>5. Upto(nand, p.initial, p.changes, i, open)
  BY <1>1, <1>3, <1>4, MatchOpen
<1> QED
  BY <1>5 DEF GoingOn, Own, i, open

\* So is one that reads as captured, or complete with its last record to come.
LEMMA AloneGoing ==
  ASSUME NEW j, NEW p, NEW o, BoardOn(j, p, o), kind = "offline", Own(journal, o)
  PROVE  GoingOn(nand, journal, p, o)
<1> DEFINE x == NewestOf(journal)
           i == x.index
           open == x.pending
           L == Len(p.changes)
<1>1. /\ Runs(p, Bound) /\ Owns(plans, p, o) /\ journal \in [{0, 1} -> Copy(Len(plans))]
      /\ JournalsOK(journal, plans, source) /\ AloneOn(nand, journal, p, o, kind, "reviewed")
  BY DEF BoardOn
<1>2. o # 0 /\ plans[o].changes = p.changes
  BY <1>1 DEF Owns
<1>3. /\ i \in Nat /\ i <= L /\ open \in BOOLEAN /\ (open => i < L)
  BY <1>1, <1>2, NewestFacts
<1>4. L \in Nat /\ 0 < L /\ ChangeList(p.changes, p.initial)
  BY <1>1 DEF Runs
<1>5. NewestIn(journal) \in ValidIn(journal) /\ x = journal[NewestIn(journal)]
  BY <1>1, NewestPick DEF Own, NewestOf
<1>6. CASE FreshOn(nand, journal, p, o)
  <2>1. nand = p.initial /\ i = 0
    BY <1>5, <1>6 DEF FreshOn, Own
  <2>2. \A b \in Block : nand[b] = p.initial[b]
    BY <2>1
  <2> HIDE DEF x
  <2>3. Upto(nand, p.initial, p.changes, 0, open)
    BY <1>4, <2>2, UptoStart
  <2> QED
    BY <2>1, <2>3 DEF GoingOn, Own, x
<1>7. CASE FinishedOn(nand, journal, p, o, kind)
  <2>1. AtEnd(x, p) /\ Upto(nand, p.initial, p.changes, L, FALSE)
    BY <1>5, <1>7 DEF FinishedOn
  <2>2. i = L - (IF open THEN 1 ELSE 0)
    BY <2>1 DEF AtEnd
  <2> HIDE DEF x
  <2>3. Upto(nand, p.initial, p.changes, i, open)
    <3>1. CASE open
      <4>1. i = L - 1 /\ open = TRUE
        BY <1>3, <2>2, <3>1
      <4>2. Upto(nand, p.initial, p.changes, L - 1, TRUE)
        BY <1>4, <2>1, UptoLast
      <4> QED
        BY <4>1, <4>2
    <3>2. CASE ~open
      <4>1. i = L /\ open = FALSE
        BY <1>3, <1>4, <2>2, <3>2
      <4> QED
        BY <2>1, <4>1
    <3> QED
      BY <3>1, <3>2
  <2> QED
    BY <2>3 DEF GoingOn, Own, x
<1> QED
  BY <1>1, <1>6, <1>7 DEF AloneOn

LEMMA ResumeMeans ==
  ASSUME NEW j, NEW p, NEW o, BoardOn(j, p, o), CanResume(j)
  PROVE  GoingOn(nand, journal, p, o)
<1>1. /\ p = plans[j] /\ o = OwnerIn(plans, j) /\ JournalsOK(journal, plans, source)
      /\ kind \in {"physical", "offline"}
  BY DEF BoardOn
<1>2. Readable(j)
  BY DEF CanResume, InspectResume
<1>3. Own(journal, o)
  BY <1>1, <1>2, ReadableIs
<1>4. CASE kind = "physical"
  <2> DEFINE x == NewestOf(journal)
  <2>1. Matches(j, x.index, IF x.pending THEN {p.changes[x.index + 1].block} ELSE {})
    BY <1>1, <1>4, StateOps DEF CanResume, InspectResume
  <2>2. Agrees(nand, p.initial, p.changes, x.index,
               IF x.pending THEN {p.changes[x.index + 1].block} ELSE {})
    BY <1>1, <2>1, MatchesIs
  <2> QED
    BY <1>3, <2>2, AgreesGoing
<1>5. CASE kind = "offline"
  BY <1>3, <1>5, AloneGoing
<1> QED
  BY <1>1, <1>4, <1>5

LEMMA InitializeMeans ==
  ASSUME NEW j, NEW p, NEW o, BoardOn(j, p, o), CanInitialize(j)
  PROVE  nand = p.initial
<1>1. /\ p = plans[j] /\ Runs(p, Bound) /\ nand \in [Block -> Content(Bound)]
      /\ p.initial \in [Block -> Content(Bound)] /\ kind \in {"physical", "offline"}
  BY DEF BoardOn, Runs
<1>2. CASE kind = "physical"
  <2>1. Agrees(nand, p.initial, p.changes, 0, {})
    BY <1>1, <1>2, MatchesIs DEF CanInitialize, InspectInitialize
  <2> QED
    BY <1>1, <2>1, MatchFirst
<1>3. CASE kind = "offline"
  <2>1. \A b \in Block : nand[b] = p.initial[b]
    BY <1>1, <1>3 DEF CanInitialize, Preserved, Untouched
  <2> QED
    BY <1>1, <2>1, SameFunction
<1> QED
  BY <1>1, <1>2, <1>3

-----------------------------------------------------------------------------
\* A process takes the lock for its job: nobody else's capture counts any more.

TakenBy(j, x) ==
  /\ j \in Jobs /\ lock = 0 /\ Takes(j, x)
  /\ x \in SessionType /\ x.action = sessions[j].action /\ x.state = "working" /\ x.used
  /\ x.dir = sessions[j].dir /\ x.alone = sessions[j].alone
  /\ kind = "offline" => j = Len(plans)
  /\ UNCHANGED <<source, kind, plans, nand, journal, faults, pos, pending, record, slot>>
  /\ job' \in {0, j} /\ pc' \in Labels

LEMMA TakenSessions ==
  ASSUME IInv, NEW j, NEW x, TakenBy(j, x)
  PROVE  /\ SessionsKept /\ sessions'[j] = x /\ Jobs' = Jobs /\ lock' = j
         /\ \A t \in Jobs : t # j => sessions'[t] = [sessions[t] EXCEPT !.alone = FALSE]
<1>1. /\ j \in Jobs /\ x \in SessionType /\ x.action = sessions[j].action /\ lock' = j
      /\ UNCHANGED <<source, kind, plans, faults>>
  BY DEF TakenBy, Takes
<1>2. sessions' = [t \in DOMAIN sessions |-> IF t = j THEN x ELSE [sessions[t] EXCEPT !.alone = FALSE]]
  BY DEF TakenBy, Takes
<1>3. sessions \in Seq(SessionType) /\ Len(sessions) \in Nat /\ Jobs = 1..Len(sessions)
  BY HostFacts
<1>4. /\ sessions' \in Seq(SessionType) /\ Len(sessions') = Len(sessions) /\ sessions'[j] = x
      /\ \A t \in 1..Len(sessions) : t # j => sessions'[t] = [sessions[t] EXCEPT !.alone = FALSE]
  <2>1. j \in 1..Len(sessions) /\ x \in SessionType /\ sessions \in Seq(SessionType)
    BY <1>1, <1>3
  <2>2. TakesIn(sessions, j, x, sessions')
    BY <1>2, <2>1 DEF TakesIn
  <2> QED
    BY <2>2, TakeSession
<1>5. \A t \in Jobs : sessions[t] \in SessionType
  BY HostFacts
<1>6. \A z \in SessionType : [z EXCEPT !.alone = FALSE].action = z.action
  BY DEF SessionType
<1>7. \A t \in Jobs : sessions'[t].action = sessions[t].action
  BY <1>1, <1>3, <1>4, <1>5, <1>6
<1>8. faults' \in {faults, faults + 1} /\ faults' <= MaxFaults
  BY <1>1, HostFacts
<1>9. SessionsKept
  BY <1>1, <1>4, <1>7, <1>8 DEF SessionsKept
<1> QED
  BY <1>1, <1>3, <1>4, <1>9 DEF Jobs

\* A session whose capture no longer counts.
LEMMA NotAlone ==
  ASSUME NEW z \in SessionType
  PROVE  LET y == [z EXCEPT !.alone = FALSE]
         IN  /\ y \in SessionType /\ ~y.alone /\ y.used = z.used /\ y.state = z.state
             /\ y.dir = z.dir /\ y.action = z.action
BY DEF SessionType

LEMMA Taken ==
  ASSUME IInv, NEW j, NEW x, TakenBy(j, x), EngineInv'
  PROVE  IInv'
<1>1. /\ j \in Jobs /\ lock = 0 /\ x.state = "working" /\ x.used = TRUE /\ x \in SessionType
      /\ x.dir = sessions[j].dir /\ x.alone = sessions[j].alone
      /\ kind = "offline" => j = Len(plans)
      /\ UNCHANGED <<source, kind, plans, nand, journal, faults, pos, pending, record, slot>>
      /\ job' \in {0, j} /\ pc' \in Labels
  BY DEF TakenBy, SessionType
<1>2. /\ SessionsKept /\ sessions'[j] = x /\ Jobs' = Jobs /\ lock' = j
      /\ \A t \in Jobs : t # j => sessions'[t] = [sessions[t] EXCEPT !.alone = FALSE]
  BY TakenSessions
<1>3. /\ \A t \in Jobs : SessionOK(sessions[t], t, lock, kind, Len(plans))
      /\ \A t \in Jobs : sessions[t] \in SessionType
      /\ Jobs = 1..Len(plans) /\ Len(plans) \in Nat /\ AloneInv
      /\ Jobs \subseteq 0..Len(plans) /\ 0 \in 0..Len(plans)
  BY HostFacts DEF Jobs
<1>4. HostTyped
  <2>1. record \in Copy(Len(plans)) /\ pos \in 0..12 /\ pending \in BOOLEAN /\ slot \in {0, 1}
    BY HostFacts
  <2>2. lock' \in 0..Len(plans) /\ job' \in 0..Len(plans)
    BY <1>1, <1>2, <1>3
  <2> QED
    BY <1>1, <2>1, <2>2 DEF HostTyped
<1>5. SessionInv'
  <2>1. SessionOK(x, j, j, kind, Len(plans))
    <3>1. SessionOK(sessions[j], j, lock, kind, Len(plans)) /\ j \in Nat
      BY <1>1, <1>3
    <3> QED
      BY <1>1, <1>3, <3>1 DEF SessionOK
  <2>2. ASSUME NEW t \in Jobs, t # j
        PROVE  SessionOK(sessions'[t], t, j, kind, Len(plans))
    <3> DEFINE y == [sessions[t] EXCEPT !.alone = FALSE]
    <3>1. SessionOK(sessions[t], t, 0, kind, Len(plans)) /\ t # 0
      BY <1>1, <1>3
    <3>2. ~y.alone /\ y.used = sessions[t].used /\ y.state = sessions[t].state /\ y.dir = sessions[t].dir
      BY <1>3, NotAlone
    <3> HIDE DEF y
    <3>3. SessionOK(y, t, j, kind, Len(plans))
      BY <1>1, <2>2, <3>1, <3>2 DEF SessionOK
    <3> QED
      BY <1>2, <2>2, <3>3 DEF y
  <2>3. \A t \in Jobs : SessionOK(sessions'[t], t, j, kind, Len(plans))
    BY <1>2, <2>1, <2>2
  <2> QED
    BY <1>1, <1>2, <2>3 DEF SessionInv
<1>6. AloneInv'
  <2>1. ASSUME NEW t \in Jobs, sessions'[t].alone
        PROVE  sessions[t].alone /\ sessions'[t].dir = sessions[t].dir
    <3>1. CASE t = j
      BY <1>1, <1>2, <2>1, <3>1
    <3>2. CASE t # j
      <4>1. ~[sessions[t] EXCEPT !.alone = FALSE].alone
        BY <1>3, NotAlone
      <4> QED
        BY <1>2, <2>1, <3>2, <4>1
    <3> QED
      BY <3>1, <3>2
  <2> QED
    BY <1>1, <1>3, <2>1, AloneSame
<1> QED
  BY <1>1, <1>2, <1>4, <1>5, <1>6, HostQuiet

LEMMA ApproveStep ==
  ASSUME IInv, NEW j \in Jobs, Approve(j)
  PROVE  IInv'
<1> DEFINE x == [sessions[j] EXCEPT !.state = "working", !.used = TRUE]
<1>1. /\ lock = 0 /\ sessions[j].state = "review" /\ Takes(j, x)
      /\ UNCHANGED <<kind, nand, journal, plans, engine, source, faults>>
  BY DEF Approve
<1>2. sessions[j] \in SessionType /\ SessionOK(sessions[j], j, lock, kind, Len(plans))
      /\ Len(plans) \in Nat /\ Jobs = 1..Len(plans)
  BY HostFacts DEF Jobs
<1>3. /\ x \in SessionType /\ x.action = sessions[j].action /\ x.state = "working" /\ x.used
      /\ x.dir = sessions[j].dir /\ x.alone = sessions[j].alone
  BY <1>2 DEF SessionType
<1>4. kind = "offline" => j = Len(plans)
  BY <1>1, <1>2 DEF SessionOK
<1>5. pc = "idle" /\ job = 0 /\ pc \in Labels
  BY <1>1, Free, HostFacts
<1> HIDE DEF x
<1>6. TakenBy(j, x)
  BY <1>1, <1>3, <1>4, <1>5 DEF TakenBy, engine
<1>7. EngineInv'
  BY <1>1, <1>5 DEF EngineInv, engine
<1> QED
  BY <1>6, <1>7, Taken

\* A retained review is run again.
LEMMA ResumeRuns ==
  ASSUME IInv, NEW j \in Jobs, lock = 0, sessions[j].dir = "reviewed", Start(j, TRUE),
         kind = "offline" => j = Len(plans), source' = source, faults' = faults,
         Takes(j, [sessions[j] EXCEPT !.state = "working"]), sessions[j].used
  PROVE  IInv'
<1> DEFINE x == [sessions[j] EXCEPT !.state = "working"]
           p == plans[j]
           o == OwnerIn(plans, j)
<1>1. /\ job' = j /\ UNCHANGED <<kind, nand, journal, plans, pos, pending, record, slot>>
      /\ pc' = (IF CanComplete(j) THEN "final" ELSE IF CanResume(j) THEN "begin"
                ELSE IF CanInitialize(j) THEN "clear0" ELSE "refused")
  BY DEF Start, Goto
<1>2. sessions[j] \in SessionType /\ SessionOK(sessions[j], j, lock, kind, Len(plans))
  BY HostFacts
<1>3. /\ x \in SessionType /\ x.action = sessions[j].action /\ x.state = "working" /\ x.used
      /\ x.dir = sessions[j].dir /\ x.alone = sessions[j].alone
  BY <1>2 DEF SessionType
<1>4. kind = "offline" => sessions[j].alone
  BY <1>2 DEF SessionOK
<1>5. BoardOn(j, p, o)
  BY <1>4, BoardOf
<1>6. Takes(j, x)
  OBVIOUS
<1> HIDE DEF x, p, o
<1>7. TakenBy(j, x)
  <2>1. pc' \in Labels /\ job' \in {0, j}
    BY <1>1 DEF Labels
  <2> QED
    BY <1>1, <1>3, <1>6, <2>1 DEF TakenBy
<1>8. /\ SessionsKept /\ sessions'[j] = x /\ Jobs' = Jobs /\ lock' = j
  BY <1>7, TakenSessions
<1>9. EngineOn(nand, journal, p, o, kind)'
  <2>1. p' = p /\ o' = o
    <3>1. plans' = plans
      BY <1>1
    <3>2. plans'[j] = plans[j] /\ OwnerIn(plans', j) = OwnerIn(plans, j)
      BY <3>1
    <3> QED
      BY <3>2 DEF p, o
  <2>2. nand' = nand /\ journal' = journal /\ kind' = kind
    BY <1>1
  <2>3. CASE CanComplete(j)
    <3>1. pc' = "final" /\ DoneOn(nand, p) /\ EndOn(journal, p, o, kind)
      BY <1>1, <1>5, <2>3, CompleteMeans
    <3> QED
      BY <2>1, <2>2, <3>1 DEF EngineOn
  <2>4. CASE ~CanComplete(j) /\ CanResume(j)
    <3>1. pc' = "begin" /\ GoingOn(nand, journal, p, o)
      BY <1>1, <1>5, <2>4, ResumeMeans
    <3> QED
      BY <2>1, <2>2, <3>1 DEF EngineOn
  <2>5. CASE ~CanComplete(j) /\ ~CanResume(j) /\ CanInitialize(j)
    <3>1. pc' = "clear0" /\ nand = p.initial
      BY <1>1, <1>5, <2>5, InitializeMeans
    <3> QED
      BY <2>1, <2>2, <3>1 DEF EngineOn
  <2>6. CASE ~CanComplete(j) /\ ~CanResume(j) /\ ~CanInitialize(j)
    <3>1. pc' = "refused"
      BY <1>1, <2>6
    <3> QED
      BY <3>1 DEF EngineOn
  <2> QED
    BY <2>3, <2>4, <2>5, <2>6
<1>10. EngineInv'
  <2>1. pc' # "idle" /\ lock' = job' /\ job' = j /\ j \in Jobs' /\ sessions'[j].dir = "reviewed"
    BY <1>1, <1>3, <1>8
  <2>2. EngineOn(nand, journal, plans[j], OwnerIn(plans, j), kind)'
    BY <1>9 DEF p, o
  <2> QED
    BY <2>1, <2>2 DEF EngineInv
<1> QED
  BY <1>7, <1>10, Taken

\* One session changes while nothing runs.
OnlySession(j, x) ==
  /\ j \in Jobs /\ sessions' = [sessions EXCEPT ![j] = x]
  /\ x \in SessionType /\ x.action = sessions[j].action /\ x.alone = sessions[j].alone
  /\ x.dir = sessions[j].dir /\ SessionOK(x, j, lock, kind, Len(plans))
  /\ UNCHANGED <<source, kind, plans, nand, journal, faults, lock, engine>>
  /\ pc = "idle"

LEMMA SessionChanged ==
  ASSUME IInv, NEW j, NEW x, OnlySession(j, x)
  PROVE  IInv'
<1>1. /\ j \in Jobs /\ x \in SessionType /\ x.action = sessions[j].action
      /\ x.alone = sessions[j].alone /\ x.dir = sessions[j].dir
      /\ SessionOK(x, j, lock, kind, Len(plans)) /\ pc = "idle"
      /\ sessions' = [sessions EXCEPT ![j] = x] /\ UNCHANGED <<source, kind, plans>>
      /\ UNCHANGED <<nand, journal, faults, lock, job, pc, pos, pending, record, slot>>
  BY DEF OnlySession, engine
<1>2. faults' \in {faults, faults + 1} /\ faults' <= MaxFaults
  BY <1>1, HostFacts
<1>3. /\ SessionsKept /\ sessions'[j] = x /\ Jobs' = Jobs
      /\ \A t \in Jobs : t # j => sessions'[t] = sessions[t]
  BY <1>1, <1>2, OneSession
<1>4. HostTyped
  BY <1>1, HostFacts DEF HostTyped
<1>5. SessionInv'
  <2>1. \A t \in Jobs : SessionOK(sessions'[t], t, lock, kind, Len(plans))
    BY <1>1, <1>3, HostFacts
  <2> QED
    BY <1>1, <1>3, <2>1 DEF SessionInv
<1>6. AloneInv'
  <2>1. \A t \in Jobs : sessions'[t].alone =>
          sessions[t].alone /\ sessions'[t].dir = sessions[t].dir
    BY <1>1, <1>3
  <2> QED
    BY <1>1, <2>1, HostFacts, AloneSame
<1>7. EngineInv'
  BY <1>1, HostFacts DEF EngineInv
<1> QED
  BY <1>1, <1>3, <1>4, <1>5, <1>6, <1>7, HostQuiet

LEMMA ResumeStep ==
  ASSUME IInv, NEW j \in Jobs, Resume(j)
  PROVE  IInv'
<1> DEFINE w == [sessions[j] EXCEPT !.state = "working"]
           x == [sessions[j] EXCEPT !.state = "reconnect"]
<1>1. /\ lock = 0 /\ sessions[j].used /\ sessions[j].state \in Resumable
      /\ (kind = "offline" => j = Len(plans)) /\ UNCHANGED <<source, faults>>
  BY DEF Resume
<1>2. /\ sessions[j] \in SessionType /\ SessionOK(sessions[j], j, lock, kind, Len(plans))
      /\ Jobs = 1..Len(plans) /\ Len(plans) \in Nat
  BY HostFacts DEF Jobs
<1>3. pc = "idle" /\ job = 0 /\ pc \in Labels
  BY <1>1, Free, HostFacts
<1>4. CASE /\ sessions[j].dir = "absent" /\ Takes(j, w)
           /\ UNCHANGED <<kind, nand, journal, plans, engine>>
  <2>1. /\ w \in SessionType /\ w.action = sessions[j].action /\ w.state = "working" /\ w.used
        /\ w.dir = sessions[j].dir /\ w.alone = sessions[j].alone
    BY <1>1, <1>2 DEF SessionType
  <2> HIDE DEF w
  <2>2. TakenBy(j, w)
    BY <1>1, <1>3, <1>4, <2>1 DEF TakenBy, engine
  <2>3. EngineInv'
    BY <1>3, <1>4 DEF EngineInv, engine
  <2> QED
    BY <2>2, <2>3, Taken
<1>5. CASE sessions[j].dir = "reviewed" /\ Takes(j, w) /\ Start(j, TRUE)
  BY <1>1, <1>5, ResumeRuns
<1>6. CASE /\ sessions' = [sessions EXCEPT ![j].state = "reconnect"]
           /\ UNCHANGED <<kind, nand, journal, plans, engine, lock>>
  <2>1. /\ x \in SessionType /\ x.action = sessions[j].action /\ x.state = "reconnect"
        /\ x.used = sessions[j].used /\ x.dir = sessions[j].dir /\ x.alone = sessions[j].alone
    BY <1>2 DEF SessionType
  <2>2. sessions' = [sessions EXCEPT ![j] = x]
    BY <1>6
  <2> HIDE DEF x
  <2>3. SessionOK(x, j, lock, kind, Len(plans))
    <3>1. j # 0 /\ ~(kind = "offline" /\ j < Len(plans))
      BY <1>1, <1>2
    <3> QED
      BY <1>1, <1>2, <2>1, <3>1 DEF SessionOK
  <2>4. OnlySession(j, x)
    BY <1>1, <1>3, <1>6, <2>1, <2>2, <2>3 DEF OnlySession
  <2> QED
    BY <2>4, SessionChanged
<1> QED
  BY <1>4, <1>5, <1>6 DEF Resume

LEMMA ConfirmStep ==
  ASSUME IInv, NEW j \in Jobs, NEW os \in {"lefony", "hp"}, Confirm(j, os)
  PROVE  IInv'
<1> DEFINE c == sessions[j].confirmed \cup {os}
           s == IF c = ExpectedBoots(j) THEN "complete" ELSE "verified"
           x == [sessions[j] EXCEPT !.confirmed = c, !.state = s]
<1>1. /\ lock = 0 /\ sessions[j].state = "verified"
      /\ UNCHANGED <<kind, nand, journal, plans, engine, source, lock, faults>>
      /\ sessions' = [sessions EXCEPT ![j].confirmed = c, ![j].state = s]
  BY DEF Confirm
<1>2. /\ sessions[j] \in SessionType /\ SessionOK(sessions[j], j, lock, kind, Len(plans))
      /\ Jobs = 1..Len(plans) /\ Len(plans) \in Nat /\ sessions \in Seq(SessionType)
      /\ Jobs = 1..Len(sessions)
  BY HostFacts DEF Jobs
<1>3. c \in SUBSET {"lefony", "hp"} /\ s \in {"complete", "verified"}
  BY <1>2 DEF SessionType
<1> HIDE DEF c, s
<1>4. /\ x \in SessionType /\ x.action = sessions[j].action /\ x.state = s
      /\ x.used = sessions[j].used /\ x.dir = sessions[j].dir /\ x.alone = sessions[j].alone
  BY <1>2, <1>3 DEF SessionType
<1>5. sessions' = [sessions EXCEPT ![j] = x]
  BY <1>1, <1>2
<1> HIDE DEF x
<1>6. SessionOK(x, j, lock, kind, Len(plans))
  <2>1. j # 0
    BY <1>2
  <2> QED
    BY <1>1, <1>2, <1>3, <1>4, <2>1 DEF SessionOK
<1>7. pc = "idle"
  BY <1>1, Free
<1>8. OnlySession(j, x)
  BY <1>1, <1>4, <1>5, <1>6, <1>7 DEF OnlySession
<1> QED
  BY <1>8, SessionChanged

\* The first run: over the captured board, with the captured journals.
LEMMA LaunchStep ==
  ASSUME IInv, Launch
  PROVE  IInv'
<1> DEFINE x == [sessions[lock] EXCEPT !.dir = "reviewed"]
           p == plans[lock]
           o == OwnerIn(plans, lock)
<1>1. /\ lock # 0 /\ sessions[lock].dir = "empty" /\ pc = "idle" /\ job' = lock
      /\ UNCHANGED <<kind, nand, journal, plans, pos, pending, record, slot>>
      /\ UNCHANGED <<source, lock, faults>>
      /\ sessions' = [sessions EXCEPT ![lock].dir = "reviewed"]
      /\ pc' = (IF ~CanStart(lock) THEN "refused"
                ELSE IF p.mode \in {"restore", "refresh-dual"} THEN "clear0" ELSE "prepare")
  BY DEF Launch, Start, Goto
<1>2. /\ lock \in Jobs /\ sessions[lock] \in SessionType
      /\ \A t \in Jobs : SessionOK(sessions[t], t, lock, kind, Len(plans))
      /\ AloneInv /\ Jobs = 1..Len(plans) /\ Len(plans) \in Nat
  BY <1>1, HostFacts DEF Jobs
<1>3. /\ x \in SessionType /\ x.action = sessions[lock].action /\ x.dir = "reviewed"
      /\ x.alone = sessions[lock].alone /\ x.used = sessions[lock].used
      /\ x.state = sessions[lock].state
  BY <1>2 DEF SessionType
<1>4. sessions' = [sessions EXCEPT ![lock] = x]
  BY <1>1
<1>5. TypeInv /\ PlansOK(plans, source, sessions)
  BY DEF IInv
<1>6. Runs(p, Bound) /\ CaptureOK(p, o)
  BY <1>2, <1>5, JobFacts
<1>7. nand \in [Block -> Content(Bound)] /\ kind \in {"physical", "offline"}
  BY <1>5 DEF TypeInv
<1>8. sessions[lock].alone => nand = p.initial /\ journal = p.initialJournal
  BY <1>1, <1>2 DEF AloneInv, AloneOn
<1>9. CanStart(lock) => nand = p.initial
  <2>1. CASE kind = "physical"
    <3>1. CanStart(lock) => Agrees(nand, p.initial, p.changes, 0, {})
      BY <2>1, MatchesIs DEF CanStart, InspectFresh
    <3> QED
      BY <1>6, <1>7, <3>1, MatchFirst
  <2>2. CASE kind = "offline"
    <3>1. SessionOK(sessions[lock], lock, lock, kind, Len(plans)) /\ lock \in Nat /\ lock <= Len(plans)
      BY <1>2
    <3>2. sessions[lock].alone
      BY <1>2, <2>2, <3>1 DEF SessionOK
    <3> QED
      BY <1>8, <3>2
  <2> QED
    BY <1>7, <2>1, <2>2
<1>10. sessions[lock].alone => FreshOn(nand, journal, p, o)
  BY <1>6, <1>8 DEF FreshOn, CaptureOK
<1>e. p' = p /\ o' = o
  <2>1. plans' = plans /\ lock' = lock
    BY <1>1
  <2>2. plans'[lock'] = plans[lock] /\ OwnerIn(plans', lock') = OwnerIn(plans, lock)
    BY <2>1
  <2> QED
    BY <2>2
<1> HIDE DEF x, p, o
<1>11. /\ SessionsKept /\ sessions'[lock] = x /\ Jobs' = Jobs
       /\ \A t \in Jobs : t # lock => sessions'[t] = sessions[t]
  <2>1. faults' \in {faults, faults + 1} /\ faults' <= MaxFaults
    BY <1>1, HostFacts
  <2> QED
    BY <1>1, <1>2, <1>3, <1>4, <2>1, OneSession
<1>12. HostTyped
  <2>1. pc' \in Labels
    BY <1>1 DEF Labels
  <2>2. record \in Copy(Len(plans)) /\ pos \in 0..12 /\ pending \in BOOLEAN /\ slot \in {0, 1}
        /\ lock \in 0..Len(plans)
    BY HostFacts
  <2> QED
    BY <1>1, <2>1, <2>2 DEF HostTyped
<1>13. SessionInv'
  <2>1. SessionOK(x, lock, lock, kind, Len(plans))
    <3>1. SessionOK(sessions[lock], lock, lock, kind, Len(plans))
      BY <1>2
    <3>2. sessions[lock].used
      BY <1>1, <3>1 DEF SessionOK
    <3> QED
      BY <1>3, <3>1, <3>2 DEF SessionOK
  <2>2. \A t \in Jobs : SessionOK(sessions'[t], t, lock, kind, Len(plans))
    BY <1>2, <1>11, <2>1
  <2> QED
    BY <1>1, <1>11, <2>2 DEF SessionInv
<1>14. AloneInv'
  <2>1. ASSUME NEW t \in Jobs, sessions'[t].alone
        PROVE  AloneOn(nand, journal, plans[t], OwnerIn(plans, t), kind, sessions'[t].dir)
    <3>1. CASE t = lock
      <4>1. sessions'[t].dir = "reviewed" /\ FreshOn(nand, journal, plans[t], OwnerIn(plans, t))
        BY <1>3, <1>10, <1>11, <2>1, <3>1 DEF p, o
      <4> QED
        BY <4>1 DEF AloneOn
    <3>2. CASE t # lock
      BY <1>2, <1>11, <2>1, <3>2 DEF AloneInv
    <3> QED
      BY <3>1, <3>2
  <2> QED
    BY <1>1, <1>11, <2>1 DEF AloneInv
<1>15. EngineInv'
  <2>1. EngineOn(nand, journal, p, o, kind)'
    <3>1. pc' \in {"refused", "clear0", "prepare"} /\ (pc' \in {"clear0", "prepare"} => nand = p.initial)
      BY <1>1, <1>9
    <3>2. nand' = nand
      BY <1>1
    <3> QED
      BY <1>e, <3>1, <3>2 DEF EngineOn
  <2>2. pc' # "idle" /\ lock' = job' /\ job' = lock /\ lock \in Jobs' /\ sessions'[lock].dir = "reviewed"
    BY <1>1, <1>2, <1>3, <1>11
  <2>3. EngineOn(nand, journal, plans[lock], OwnerIn(plans, lock), kind)'
    BY <2>1 DEF p, o
  <2> QED
    BY <1>1, <2>2, <2>3 DEF EngineInv
<1> QED
  BY <1>1, <1>11, <1>12, <1>13, <1>14, <1>15, HostQuiet

-----------------------------------------------------------------------------
\* The calculator in use: whatever boots writes only to its own data.

LEMMA UseBegun ==
  ASSUME NEW n, NEW m, NEW b \in UserData, Used(n, m, b), NEW p, BegunOn(n, p)
  PROVE  BegunOn(m, p)
<1> DEFINE first == p.changes[1]
<1>1. \A x \in Layout \cup {"f1"} : m[x] = n[x]
  BY UseSame, BlockSet, BlockParts
<1>2. RoutesVerify(m) <=> RoutesVerify(n)
  BY UseRoutes
<1>3. Boot(n) # "recovery"
  BY DEF Used
<1> SUFFICES ASSUME p.mode \in {"restore", "refresh-dual"}, RoutesVerify(m)
             PROVE  /\ m[first.block] # first.before
                    /\ first.block \notin Layout \cup {"f1"} => \A l \in Layout : m[l] = Blank
  BY DEF BegunOn
<1>4. /\ n[first.block] # first.before
      /\ first.block \notin Layout \cup {"f1"} => \A l \in Layout : n[l] = Blank
  BY <1>2 DEF BegunOn
<1> HIDE DEF first
<1>5. first.block \in Layout \cup {"f1"}
  BY <1>2, <1>3, <1>4, RoutesBoot
<1> QED
  BY <1>1, <1>4, <1>5

LEMMA UseFlash ==
  ASSUME NEW n, NEW m, NEW b \in UserData, Used(n, m, b), NEW J, NEW P, NEW src,
         GoodIn(src, n), FoundOK(J, n), BegunOK(J, n, P)
  PROVE  GoodIn(src, m) /\ FoundOK(J, m) /\ BegunOK(J, m, P)
<1>1. GoodIn(src, m)
  BY UseWhole, UseRouted DEF GoodIn
<1>2. FoundOK(J, m)
  BY UseSame DEF FoundOK
<1>3. BegunOK(J, m, P)
  BY UseBegun DEF BegunOK
<1> QED
  BY <1>1, <1>2, <1>3

LEMMA UseStep ==
  ASSUME IInv, NEW b \in UserData, Use(b)
  PROVE  IInv'
<1>1. /\ lock = 0 /\ kind = "physical" /\ faults < MaxFaults /\ faults' = faults + 1
      /\ sessions' = [t \in DOMAIN sessions |-> [sessions[t] EXCEPT !.alone = FALSE]]
      /\ UNCHANGED <<kind, journal, plans, source, lock>>
      /\ UNCHANGED <<job, pc, pos, pending, record, slot>>
  BY DEF Use, engine
<1>2. /\ nand \in [Block -> Content(Bound)] /\ journal \in [{0, 1} -> Copy(Len(plans))]
      /\ GoodIn(source, nand) /\ JournalsOK(journal, plans, source) /\ FoundOK(journal, nand)
      /\ BegunOK(journal, nand, plans)
  BY DEF IInv, TypeInv, FlashInv
<1>3. /\ Bound \in Nat /\ Len(plans) \in Nat /\ faults \in Nat /\ MaxFaults \in Nat
      /\ Bound = Len(plans) + faults + 1
  BY BoundNat DEF IInv
<1>4. Bound' = Bound + 1 /\ Bound + 1 \in Nat
  BY <1>1, <1>3 DEF Bound
<1>5. b \in Block
  BY BlockSet, BlockParts
<1>6. PICK x \in Content(Bound + 1) :
        /\ nand' = [nand EXCEPT ![b] = x]
        /\ \/ Boot(nand) = "dual" /\ x.is = "dual"
           \/ Boot(nand) \in {"stock", "legacy"} /\ x.is = nand[b].is
  <2> DEFINE y == Of("dual", nand[b].n + 1)
             z == Of(nand[b].is, nand[b].n + 1)
  <2>1. nand[b].n \in 0..Bound /\ nand[b].is \in System \cup {"blank", "torn", "short"}
    BY <1>2, <1>5 DEF Content
  <2>2. nand[b].n + 1 \in 0..(Bound + 1)
    BY <1>3, <2>1
  <2>3. y \in Content(Bound + 1) /\ z \in Content(Bound + 1) /\ y.is = "dual" /\ z.is = nand[b].is
    BY <2>1, <2>2 DEF Of, Content, System
  <2>4. \/ Boot(nand) = "dual" /\ nand' = [nand EXCEPT ![b] = y]
        \/ Boot(nand) \in {"stock", "legacy"} /\ nand' = [nand EXCEPT ![b] = z]
    BY DEF Use
  <2> HIDE DEF y, z
  <2> QED
    BY <2>3, <2>4
<1>7. nand' \in [Block -> Content(Bound')]
  <2>1. nand \in [Block -> Content(Bound + 1)]
    <3>1. Bound <= Bound + 1
      BY <1>3
    <3> QED
      BY <1>2, <1>3, <1>4, <3>1, TypesGrow
  <2> QED
    BY <1>4, <1>6, <2>1
<1>8. Used(nand, nand', b)
  <2>1. nand'[b] = x /\ \A y \in Block : y # b => nand'[y] = nand[y]
    BY <1>2, <1>5, <1>6
  <2> QED
    BY <1>6, <2>1 DEF Used
<1>9. GoodIn(source, nand') /\ FoundOK(journal, nand') /\ BegunOK(journal, nand', plans)
  BY <1>2, <1>8, UseFlash
<1>10. FlashInv'
  BY <1>1, <1>2, <1>9 DEF FlashInv
<1>11. /\ sessions \in Seq(SessionType) /\ Len(sessions) \in Nat /\ Jobs = 1..Len(sessions)
       /\ \A t \in Jobs : sessions[t] \in SessionType
       /\ \A t \in Jobs : SessionOK(sessions[t], t, lock, kind, Len(plans))
  BY HostFacts
<1>12. /\ sessions' \in Seq(SessionType) /\ Len(sessions') = Len(sessions)
       /\ \A t \in Jobs : sessions'[t] = [sessions[t] EXCEPT !.alone = FALSE]
  <2>1. DOMAIN sessions = Jobs
    BY <1>11
  <2>2. \A t \in Jobs : sessions'[t] = [sessions[t] EXCEPT !.alone = FALSE]
    BY <1>1, <2>1
  <2>3. \A t \in Jobs : [sessions[t] EXCEPT !.alone = FALSE] \in SessionType
    BY <1>11, NotAlone
  <2>4. sessions' \in [1..Len(sessions) -> SessionType]
    BY <1>1, <1>11, <2>1, <2>3
  <2>5. sessions' \in Seq(SessionType) /\ Len(sessions') = Len(sessions)
    BY <1>11, <2>4, FunIsSeq
  <2> QED
    BY <2>2, <2>5
<1>13. \A t \in Jobs : LET y == sessions'[t]
                       IN  /\ ~y.alone /\ y.used = sessions[t].used /\ y.state = sessions[t].state
                           /\ y.dir = sessions[t].dir /\ y.action = sessions[t].action
  <2>1. ASSUME NEW t \in Jobs
        PROVE  LET y == sessions'[t]
               IN  /\ ~y.alone /\ y.used = sessions[t].used /\ y.state = sessions[t].state
                   /\ y.dir = sessions[t].dir /\ y.action = sessions[t].action
    <3>1. sessions[t] \in SessionType
      BY <1>11
    <3>2. sessions'[t] = [sessions[t] EXCEPT !.alone = FALSE]
      BY <1>12
    <3> QED
      BY <3>1, <3>2, NotAlone
  <2> QED
    BY <2>1
<1>14. SessionsKept
  <2>1. faults' \in {faults, faults + 1} /\ faults' <= MaxFaults
    BY <1>1, <1>3
  <2> QED
    BY <1>1, <1>12, <1>13, <2>1 DEF SessionsKept
<1>15. HostTyped
  BY <1>1, HostFacts DEF HostTyped
<1>16. SessionInv'
  <2>1. \A t \in Jobs : SessionOK(sessions'[t], t, lock, kind, Len(plans))
    BY <1>1, <1>11, <1>13 DEF SessionOK
  <2> QED
    BY <1>1, <2>1 DEF SessionInv, Jobs
<1>17. AloneInv'
  BY <1>1, <1>13 DEF AloneInv, Jobs
<1>18. EngineInv'
  <2>1. pc = "idle" /\ job = 0
    BY <1>1, Free
  <2> QED
    BY <1>1, <2>1 DEF EngineInv
<1>19. journal' \in [{0, 1} -> Copy(Len(plans))]
  BY <1>1, <1>2
<1> QED
  BY <1>7, <1>10, <1>14, <1>15, <1>16, <1>17, <1>18, <1>19, HostDone

-----------------------------------------------------------------------------
\* Reviews.

LEMMA ReviewCases ==
  ASSUME NEW action \in {"install", "restore-original", "restore-hp", "refresh"},
         Reviewable(action)
  PROVE  \/ action = "install" /\ source = "stock-hp" /\ nand = StockBoard /\ JournalsBlank
         \/ action = "install" /\ source = "lefony-menu1" /\ LegacySource
         \/ /\ action \in {"restore-original", "restore-hp"} /\ source # "dual"
            /\ RoutesVerify(nand)
         \/ /\ action = "refresh" /\ source = "dual" /\ RoutesVerify(nand) /\ CompletedOwner
<1>1. CASE action = "install"
  BY <1>1 DEF Reviewable
<1>2. CASE action = "restore-original"
  BY <1>2 DEF Reviewable
<1>3. CASE action = "restore-hp"
  BY <1>3 DEF Reviewable
<1>4. CASE action = "refresh"
  BY <1>4 DEF Reviewable
<1> QED
  BY <1>1, <1>2, <1>3, <1>4

ReviewOf(mode, backup, changes) ==
  [mode |-> mode, backup |-> backup, changes |-> changes,
   initial |-> nand, initialJournal |-> journal]

LEMMA ReviewedIs ==
  ASSUME NEW action
  PROVE  /\ action = "install" /\ source = "stock-hp" =>
              Reviewed(action) = ReviewOf("migrate", nand, MigratePlan(nand))
         /\ action = "install" /\ source = "lefony-menu1" =>
              Reviewed(action) = ReviewOf("add-hp", nand, AddHpPlan(nand))
         /\ action \in {"restore-original", "restore-hp"} =>
              Reviewed(action) = ReviewOf("restore", Backup(action), RestorePlan(nand, Backup(action)))
         /\ action = "refresh" =>
              Reviewed(action) = ReviewOf("refresh-dual", nand, RefreshPlan(nand))
<1>1. CASE action = "install" /\ source = "stock-hp"
  BY <1>1 DEF Reviewed, ReviewOf, Backup
<1>2. CASE action = "install" /\ source = "lefony-menu1"
  BY <1>2 DEF Reviewed, ReviewOf, Backup
<1>3. CASE action \in {"restore-original", "restore-hp"}
  BY <1>3 DEF Reviewed, ReviewOf
<1>4. CASE action = "refresh"
  BY <1>4 DEF Reviewed, ReviewOf, Backup
<1> QED
  BY <1>1, <1>2, <1>3, <1>4

LEMMA FitsTyped ==
  ASSUME NEW C, NEW n, NEW d, NEW order, NEW rk, Fits(n, d, order, rk, C)
  PROVE  Plan(n, d, order) \in Seq(ChangeOf(C)) /\ PlanTo(Plan(n, d, order), n, d, rk, 12)
BY PlanIs DEF Fits

\* A board a refresh was completed on: its control copies and images are of the
\* release it brought.
LEMMA RefreshDone ==
  ASSUME NEW m \in Nat, m > 0, NEW l, NEW p \in ReviewType(m, l),
         NEW action, PlanOK(p, "dual", action), NEW n,
         \A k \in 1..Len(p.changes) : n[p.changes[k].block] = p.changes[k].after
  PROVE  n["f1"].n <= n["img"].n
<1> DEFINE n0 == p.initial
           c == p.changes
           k == n0["img"].n + 1
           C == Content(m + 1)
<1>1. c = Plan(n0, DualBoard(k), RefreshOrder) /\ n0["f1"].n <= n0["img"].n
  BY PlanBoards DEF PlanOK
<1>2. n0["img"] \in Content(m) /\ n0["f1"] \in Content(m)
  BY BlockSet DEF ReviewType
<1>3. k \in 0..(m + 1) /\ n0["f1"].n \in Nat /\ n0["img"].n \in Nat
  BY <1>2, ContentHas
<1>4. n0 \in [Block -> C]
  BY ContentGrows, m + 1 \in Nat, m <= m + 1 DEF ReviewType
<1>5. DualBoard(k) \in [Block -> C]
  BY <1>3, BoardTypes, m + 1 \in Nat, m + 1 > 0
<1>6. DualBoard(k)["f1"].n = k /\ DualBoard(k)["img"].n = k
  BY NewBoard, ContentIs
<1>7. n0["f1"] # DualBoard(k)["f1"] /\ n0["img"] # DualBoard(k)["img"]
  <2>1. n0["f1"].n # k /\ n0["img"].n # k
    BY <1>1, <1>3
  <2> QED
    BY <1>6, <2>1
<1> HIDE DEF k, n0
<1>8. PlanTo(c, n0, DualBoard(k), RefreshRank, 12)
  <2>1. Fits(n0, DualBoard(k), RefreshOrder, RefreshRank, C)
    BY <1>4, <1>5, RefreshRanked DEF Fits
  <2> QED
    BY <1>1, <2>1, FitsTyped, Zenon
<1>9. ASSUME NEW b \in {"f1", "img"}
      PROVE  n[b] = DualBoard(k)[b]
  <2>1. b \in Block /\ RefreshRank[b] <= 12 /\ n0[b] # DualBoard(k)[b]
    BY <1>7, BlockSet DEF RefreshRank
  <2>2. PICK i \in 1..Len(c) : c[i].block = b
    BY <1>8, <2>1 DEF PlanTo
  <2>3. c[i].after = DualBoard(k)[b]
    BY <1>8, <2>2 DEF PlanTo, ChangesAre
  <2> QED
    BY <2>2, <2>3
<1>10. n["f1"].n = k /\ n["img"].n = k
  BY <1>6, <1>9
<1>11. k \in Nat
  BY <1>3
<1> QED
  BY <1>10, <1>11

\* The board a refresh is reviewed on.
LEMMA RefreshSource ==
  ASSUME TypeInv, PlansOK(plans, source, sessions), FlashInv, source = "dual", CompletedOwner
  PROVE  nand["f1"].n <= nand["img"].n
<1>1. /\ ValidIn(journal) = {0, 1} /\ journal[0].owner = journal[1].owner
      /\ LET x == NewestOf(journal)
         IN  x.owner # 0 =>
               /\ plans[x.owner].mode = "refresh-dual" /\ x.index = Len(plans[x.owner].changes)
               /\ \A k \in 1..x.index :
                    LET c == plans[x.owner].changes[k] IN nand[c.block] = c.after
  BY StateOps DEF CompletedOwner
<1>2. /\ journal \in [{0, 1} -> Copy(Len(plans))] /\ JournalsOK(journal, plans, source)
      /\ FoundOK(journal, nand)
  BY DEF TypeInv, FlashInv
<1>3. NewestIn(journal) \in ValidIn(journal)
  BY <1>1, <1>2, NewestPick
<1> DEFINE x == NewestOf(journal)
<1>4. RecordOK(x, plans, source)
  BY <1>2, <1>3 DEF JournalsOK, NewestOf
<1>5. CASE x.owner = 0
  <2>1. \A b \in Block \ UserData : nand[b] = DualBoard(1)[b]
    BY <1>2, <1>3, <1>5 DEF FoundOK, NewestOf
  <2>2. nand["f1"] = Of("dual", 1) /\ nand["img"] = Of("dual", 1)
    BY <2>1, NewBoard, BlockSet, BlockParts
  <2> QED
    BY <2>2 DEF Of
<1>6. CASE x.owner # 0
  <2> DEFINE j == x.owner
             p == plans[j]
  <2>1. j \in Jobs
    BY <1>4, <1>6 DEF RecordOK, Jobs
  <2>2. p \in ReviewType(Bound, Len(plans)) /\ PlanOK(p, source, sessions[j].action)
    BY <2>1, JobFacts
  <2>3. Bound \in Nat /\ Bound > 0
    BY BoundNat
  <2>4. \A k \in 1..Len(p.changes) : nand[p.changes[k].block] = p.changes[k].after
    BY <1>1, <1>6
  <2> HIDE DEF p
  <2> QED
    BY <2>2, <2>3, <2>4, RefreshDone
<1> QED
  BY <1>5, <1>6

\* The review itself: its type and its plan.
ReviewFits(r, action, m) ==
  /\ r.initial = nand /\ r.initialJournal = journal
  /\ r \in ReviewType(m, Len(plans)) /\ (r.changes # <<>> => PlanOK(r, source, action))

IsReview(r, mode, backup, changes) ==
  /\ r.mode = mode /\ r.backup = backup /\ r.changes = changes
  /\ r.initial = nand /\ r.initialJournal = journal

Reviewing(mode, backup, changes, m, l) ==
  /\ nand \in [Block -> Content(m)] /\ journal \in [{0, 1} -> Copy(l)]
  /\ mode \in {"migrate", "add-hp", "restore", "refresh-dual"}
  /\ backup \in [Block -> Content(m)] /\ changes \in Seq(ChangeOf(Content(m)))

LEMMA ReviewTyped ==
  ASSUME NEW m, NEW l, NEW mode, NEW backup, NEW changes,
         Reviewing(mode, backup, changes, m, l)
  PROVE  LET r == ReviewOf(mode, backup, changes)
         IN  r \in ReviewType(m, l) /\ IsReview(r, mode, backup, changes)
BY DEF ReviewOf, ReviewType, IsReview, Reviewing

LEMMA ReviewOK ==
  ASSUME NEW r, NEW src, NEW action, GoodIn(src, nand), r.changes # <<>>,
         \/ /\ src = "stock-hp" /\ action = "install" /\ nand = StockBoard
            /\ ValidIn(journal) = {} /\ IsReview(r, "migrate", nand, MigratePlan(nand))
         \/ /\ src = "lefony-menu1" /\ action = "install" /\ LegacyCapture(nand)
            /\ ValidIn(journal) = {} /\ IsReview(r, "add-hp", nand, AddHpPlan(nand))
         \/ /\ src # "dual" /\ action \in {"restore-original", "restore-hp"} /\ RoutesVerify(nand)
            /\ \E d : /\ d = (IF action = "restore-hp" THEN StockBoard ELSE Board(src))
                      /\ IsReview(r, "restore", d, RestorePlan(nand, d))
         \/ /\ src = "dual" /\ action = "refresh" /\ RoutesVerify(nand)
            /\ nand["f1"].n <= nand["img"].n
            /\ IsReview(r, "refresh-dual", nand, RefreshPlan(nand))
  PROVE  PlanOK(r, src, action)
<1>1. CASE r.mode = "migrate"
  BY <1>1 DEF IsReview, PlanOK
<1>2. CASE r.mode = "add-hp"
  BY <1>2 DEF IsReview, PlanOK
<1>3. CASE r.mode = "restore"
  BY <1>3 DEF IsReview, PlanOK
<1>4. CASE r.mode = "refresh-dual"
  BY <1>4 DEF IsReview, PlanOK
<1> QED
  BY <1>1, <1>2, <1>3, <1>4 DEF IsReview

LEMMA ReviewPlan ==
  ASSUME TypeInv, PlansOK(plans, source, sessions), FlashInv,
         NEW action \in {"install", "restore-original", "restore-hp", "refresh"},
         Reviewable(action)
  PROVE  ReviewFits(Reviewed(action), action, Bound + 1)
<1> DEFINE r == Reviewed(action)
           m == Bound + 1
           C == Content(m)
<1>1. Bound \in Nat /\ Bound > 0 /\ m \in Nat /\ m > 0 /\ Bound <= m
  BY BoundNat
<1>2. /\ nand \in [Block -> Content(Bound)] /\ GoodIn(source, nand)
      /\ source \in {"stock-hp", "lefony-menu1", "dual"}
  BY DEF TypeInv, FlashInv
<1>3. nand \in [Block -> C]
  BY <1>1, <1>2, TypesGrow
<1>4. /\ StockBoard \in [Block -> C] /\ LegacyBoard \in [Block -> C] /\ MigrateBoard \in [Block -> C]
      /\ \A k \in 0..m : DualBoard(k) \in [Block -> C]
  BY <1>1, BoardTypes
<1>5. 1 \in 0..m /\ nand["img"].n + 1 \in 0..m
  <2>1. nand["img"].n \in 0..Bound
    BY <1>2, BlockSet DEF Content
  <2> QED
    BY <1>1, <2>1
<1>b. JournalsBlank => ValidIn(journal) = {}
  BY DEF JournalsBlank, ValidIn
<1>j. journal \in [{0, 1} -> Copy(Len(plans))]
  BY DEF TypeInv
<1> HIDE DEF m
<1>6. ASSUME action = "install" /\ source = "stock-hp" /\ nand = StockBoard /\ JournalsBlank
      PROVE  ReviewFits(r, action, m)
  <2>1. r = ReviewOf("migrate", nand, MigratePlan(nand))
    BY <1>6, ReviewedIs
  <2>2. MigratePlan(nand) \in Seq(ChangeOf(C))
    <3>1. Fits(nand, MigrateBoard, MigrateOrder, MigrateRank, C)
      BY <1>3, <1>4, MigrateRanked DEF Fits
    <3> QED
      BY <3>1, FitsTyped, PlanBoards
  <2>3. r \in ReviewType(m, Len(plans)) /\ IsReview(r, "migrate", nand, MigratePlan(nand))
    <3>1. Reviewing("migrate", nand, MigratePlan(nand), m, Len(plans))
      BY <1>3, <1>j, <2>2 DEF Reviewing
    <3> QED
      BY <2>1, <3>1, ReviewTyped
  <2> HIDE DEF r
  <2>9. r.changes # <<>> => PlanOK(r, source, action)
    BY <1>2, <1>6, <1>b, <2>3, ReviewOK
  <2> QED
    BY <2>3, <2>9 DEF ReviewFits, IsReview
<1>7. ASSUME action = "install" /\ source = "lefony-menu1" /\ LegacySource
      PROVE  ReviewFits(r, action, m)
  <2>1. r = ReviewOf("add-hp", nand, AddHpPlan(nand))
    BY <1>7, ReviewedIs
  <2>2. AddHpPlan(nand) \in Seq(ChangeOf(C))
    <3>1. Fits(nand, DualBoard(1), AddHpOrder, AddHpRank, C)
      BY <1>3, <1>4, <1>5, AddHpRanked DEF Fits
    <3> QED
      BY <3>1, FitsTyped, PlanBoards
  <2>3. LegacyCapture(nand) /\ ValidIn(journal) = {}
    BY <1>7, <1>b DEF LegacySource, LegacyCapture
  <2>4. r \in ReviewType(m, Len(plans)) /\ IsReview(r, "add-hp", nand, AddHpPlan(nand))
    <3>1. Reviewing("add-hp", nand, AddHpPlan(nand), m, Len(plans))
      BY <1>3, <1>j, <2>2 DEF Reviewing
    <3> QED
      BY <2>1, <3>1, ReviewTyped
  <2> HIDE DEF r
  <2>9. r.changes # <<>> => PlanOK(r, source, action)
    BY <1>2, <1>7, <2>3, <2>4, ReviewOK
  <2> QED
    BY <2>4, <2>9 DEF ReviewFits, IsReview
<1>8. ASSUME action \in {"restore-original", "restore-hp"}, source # "dual", RoutesVerify(nand)
      PROVE  ReviewFits(r, action, m)
  <2> DEFINE d == Backup(action)
  <2>1. r = ReviewOf("restore", d, RestorePlan(nand, d))
    BY <1>8, ReviewedIs
  <2>2. d = (IF action = "restore-hp" THEN StockBoard ELSE Board(source)) /\ d \in [Block -> C]
    BY <1>2, <1>4, <1>8 DEF Backup, Board
  <2> HIDE DEF d
  <2>3. RestorePlan(nand, d) \in Seq(ChangeOf(C))
    <3>1. Fits(nand, d, RestoreOrder, RestoreRank, C)
      BY <1>3, <2>2, RestoreRanked DEF Fits
    <3> QED
      BY <3>1, FitsTyped, PlanBoards
  <2>4. r \in ReviewType(m, Len(plans)) /\ IsReview(r, "restore", d, RestorePlan(nand, d))
    <3>1. Reviewing("restore", d, RestorePlan(nand, d), m, Len(plans))
      BY <1>3, <1>j, <2>2, <2>3 DEF Reviewing
    <3> QED
      BY <2>1, <3>1, ReviewTyped
  <2> HIDE DEF r
  <2>9. r.changes # <<>> => PlanOK(r, source, action)
    BY <1>2, <1>8, <2>2, <2>4, ReviewOK
  <2> QED
    BY <2>4, <2>9 DEF ReviewFits, IsReview
<1>9. ASSUME action = "refresh" /\ source = "dual" /\ RoutesVerify(nand) /\ CompletedOwner
      PROVE  ReviewFits(r, action, m)
  <2> DEFINE k == nand["img"].n + 1
  <2>1. r = ReviewOf("refresh-dual", nand, RefreshPlan(nand))
    BY <1>9, ReviewedIs
  <2>2. RefreshPlan(nand) \in Seq(ChangeOf(C))
    <3>1. Fits(nand, DualBoard(k), RefreshOrder, RefreshRank, C)
      BY <1>3, <1>4, <1>5, RefreshRanked DEF Fits
    <3> QED
      BY <3>1, FitsTyped, PlanBoards
  <2>3. nand["f1"].n <= nand["img"].n
    BY <1>9, RefreshSource
  <2>4. r \in ReviewType(m, Len(plans)) /\ IsReview(r, "refresh-dual", nand, RefreshPlan(nand))
    <3>1. Reviewing("refresh-dual", nand, RefreshPlan(nand), m, Len(plans))
      BY <1>3, <1>j, <2>2 DEF Reviewing
    <3> QED
      BY <2>1, <3>1, ReviewTyped
  <2> HIDE DEF r
  <2>9. r.changes # <<>> => PlanOK(r, source, action)
    BY <1>2, <1>9, <2>3, <2>4, ReviewOK
  <2> QED
    BY <2>4, <2>9 DEF ReviewFits, IsReview
<1> QED
  BY <1>6, <1>7, <1>8, <1>9, ReviewCases DEF m


\* A review added to the others: old jobs and their owners are as they were.
Grown(P, Q, r) ==
  /\ Len(P) \in Nat /\ Len(Q) = Len(P) + 1 /\ Q[Len(P) + 1] = r
  /\ \A j \in 1..Len(P) : Q[j] = P[j]

LEMMA GrownOwner ==
  ASSUME NEW P, NEW Q, NEW r, Grown(P, Q, r), NEW j \in 1..Len(P)
  PROVE  OwnerIn(Q, j) = OwnerIn(P, j) /\ j \in 1..Len(Q) /\ Q[j] = P[j]
<1>1. j \in Nat \ {0} /\ j \in 1..Len(Q) /\ \A i \in 1..j : i \in 1..Len(P)
  BY DEF Grown
<1>2. \A i \in 1..j : Q[i] = P[i]
  BY <1>1 DEF Grown
<1>3. OwnerIn(Q, j) = OwnerIn(P, j)
  BY <1>1, <1>2, OwnerKept
<1> QED
  BY <1>1, <1>3 DEF Grown

LEMMA GrownRecord ==
  ASSUME NEW P, NEW Q, NEW r, Grown(P, Q, r), NEW src, NEW x, RecordOK(x, P, src)
  PROVE  RecordOK(x, Q, src)
<1>1. CASE x.owner = 0
  BY <1>1 DEF RecordOK
<1>2. CASE x.owner # 0
  <2>1. x.owner \in 1..Len(P) /\ x.owner = OwnerIn(P, x.owner)
    BY <1>2 DEF RecordOK
  <2>2. OwnerIn(Q, x.owner) = OwnerIn(P, x.owner) /\ x.owner \in 1..Len(Q) /\ Q[x.owner] = P[x.owner]
    BY <2>1, GrownOwner
  <2> QED
    BY <1>2, <2>1, <2>2 DEF RecordOK
<1> QED
  BY <1>1, <1>2

LEMMA GrownFlash ==
  ASSUME NEW P, NEW Q, NEW r, Grown(P, Q, r), NEW src, NEW J, NEW n,
         JournalsOK(J, P, src), BegunOK(J, n, P)
  PROVE  JournalsOK(J, Q, src) /\ BegunOK(J, n, Q)
<1>1. \A s \in ValidIn(J) : RecordOK(J[s], P, src)
  BY DEF JournalsOK
<1>2. \A s \in ValidIn(J) : RecordOK(J[s], Q, src)
  BY <1>1, GrownRecord
<1>3. \A s \in ValidIn(J) : J[s].owner # 0 => Q[J[s].owner] = P[J[s].owner]
  BY <1>1 DEF RecordOK, Grown
<1>4. JournalsOK(J, Q, src)
  BY <1>2 DEF JournalsOK
<1>5. BegunOK(J, n, Q)
  BY <1>3 DEF BegunOK
<1> QED
  BY <1>4, <1>5

\* Whoever owns a journal the review found has not begun the plan it makes.
LEMMA ReviewCapture ==
  ASSUME TypeInv, FlashInv, NEW r, NEW Q, Grown(plans, Q, r), NEW action,
         r.initial = nand, r.initialJournal = journal,
         PlanOK(r, source, action), ChangeList(r.changes, nand), Len(r.changes) \in 1..12
  PROVE  CaptureOK(r, OwnerIn(Q, Len(plans) + 1))
<1> DEFINE o == OwnerIn(Q, Len(plans) + 1)
<1>1. /\ journal \in [{0, 1} -> Copy(Len(plans))] /\ Len(plans) \in Nat
      /\ JournalsOK(journal, plans, source) /\ BegunOK(journal, nand, plans)
  BY BoundNat DEF TypeInv, FlashInv
<1>2. /\ o \in 1..(Len(plans) + 1) /\ o # 0
      /\ Q[o].mode = r.mode /\ Q[o].changes = r.changes
  <2>1. Len(plans) + 1 \in Nat \ {0} /\ Q[Len(plans) + 1] = r
    BY <1>1 DEF Grown
  <2> QED
    BY <2>1, OwnerChanges
<1> HIDE DEF o
<1> SUFFICES ASSUME NEW s \in ValidIn(journal), journal[s].owner = o
             PROVE  journal[s].index = 0
  BY DEF CaptureOK, o
<1>3. journal[s].owner \in 0..Len(plans) /\ journal[s].index \in 0..12
  BY <1>1 DEF ValidIn, Copy
<1>4. o \in 1..Len(plans)
  BY <1>1, <1>2, <1>3
<1>5. plans[o].mode = r.mode /\ plans[o].changes = r.changes
  BY <1>2, <1>4 DEF Grown
<1>6. CASE r.mode \in {"migrate", "add-hp"}
  <2>1. ValidIn(journal) = {}
    BY <1>6 DEF PlanOK
  <2> QED
    BY <2>1
<1>7. CASE r.mode \in {"restore", "refresh-dual"}
  <2>1. RoutesVerify(nand)
    BY <1>7 DEF PlanOK
  <2>2. r.changes[1].before = nand[r.changes[1].block]
    <3>1. Len(r.changes) \in Nat /\ 0 < Len(r.changes)
      BY Lengths, Zenon
    <3>2. 1 \in 1..Len(r.changes)
      BY <3>1
    <3> QED
      BY <3>2 DEF ChangeList
  <2>3. ~BegunOn(nand, plans[o])
    BY <1>5, <1>7, <2>1, <2>2 DEF BegunOn
  <2>4. ~(journal[s].index > 0)
    BY <1>1, <1>2, <2>3 DEF BegunOK
  <2> QED
    BY <1>3, <2>4
<1>8. r.mode \in {"migrate", "add-hp", "restore", "refresh-dual"}
  BY DEF PlanOK
<1> QED
  BY <1>6, <1>7, <1>8

LEMMA AppendIs ==
  ASSUME NEW T, NEW S \in Seq(T), NEW x \in T
  PROVE  /\ Append(S, x) \in Seq(T) /\ Len(Append(S, x)) = Len(S) + 1
         /\ Append(S, x)[Len(S) + 1] = x /\ \A j \in 1..Len(S) : Append(S, x)[j] = S[j]
         /\ Len(S) \in Nat
OBVIOUS

LEMMA ReviewStep ==
  ASSUME IInv, NEW action \in {"install", "restore-original", "restore-hp", "refresh"},
         Review(action)
  PROVE  IInv'
<1> DEFINE r == Reviewed(action)
           y == NewSession(action, "review")
           last == Len(plans) + 1
<1>1. /\ lock = 0 /\ Len(plans) < MaxJobs /\ Reviewable(action) /\ r.changes # <<>>
      /\ kind = "offline" => \A j \in Jobs : sessions[j].state = "verified"
      /\ plans' = Append(plans, r) /\ sessions' = Append(sessions, y)
      /\ UNCHANGED <<kind, nand, journal, engine, source, lock, faults>>
  BY DEF Review
<1>2. TypeInv /\ PlansOK(plans, source, sessions) /\ FlashInv /\ AloneInv
  BY DEF IInv
<1>3. ReviewFits(r, action, Bound + 1)
  BY <1>1, <1>2, ReviewPlan
<1> HIDE DEF r
<1>4. /\ Bound \in Nat /\ Bound > 0 /\ Len(plans) \in Nat /\ faults \in Nat
      /\ Bound = Len(plans) + faults + 1 /\ MaxJobs \in Nat
  BY <1>2, BoundNat
<1>5. Bound + 1 \in Nat /\ Bound <= Bound + 1 /\ Bound + 1 > 0 /\ last \in Nat /\ Len(plans) <= last
      /\ last <= MaxJobs
  BY <1>1, <1>4
<1>6. /\ r.initial = nand /\ r.initialJournal = journal
      /\ r \in ReviewType(Bound + 1, Len(plans)) /\ PlanOK(r, source, action)
  BY <1>1, <1>3 DEF ReviewFits
<1>7. r \in ReviewType(Bound + 1, last)
  <2>1. ReviewType(Bound + 1, Len(plans)) \subseteq ReviewType(Bound + 1, last)
    BY <1>4, <1>5, Bound + 1 <= Bound + 1, TypesGrow
  <2> QED
    BY <1>6, <2>1
<1>8. plans \in Seq(ReviewType(Bound + 1, last))
  BY <1>2, <1>4, <1>5, TypesGrow DEF TypeInv
<1>9. /\ plans' \in Seq(ReviewType(Bound + 1, last)) /\ Len(plans') = last
      /\ Grown(plans, plans', r)
  <2>1. /\ Append(plans, r) \in Seq(ReviewType(Bound + 1, last))
        /\ Len(Append(plans, r)) = Len(plans) + 1 /\ Append(plans, r)[Len(plans) + 1] = r
        /\ \A j \in 1..Len(plans) : Append(plans, r)[j] = plans[j]
    BY <1>7, <1>8, AppendIs
  <2> QED
    BY <1>1, <1>4, <2>1 DEF Grown
<1>10. y \in SessionType /\ y.action = action /\ y.state = "review" /\ ~y.used /\ y.dir = "absent" /\ y.alone
  BY DEF NewSession, SessionType
<1> HIDE DEF y
<1>11. /\ sessions' \in Seq(SessionType) /\ Len(sessions') = last /\ sessions'[last] = y
       /\ \A j \in Jobs : sessions'[j] = sessions[j]
  BY <1>1, <1>10, AppendIs, HostFacts
<1>12. Bound' = Bound + 1
  <2>1. faults' = faults
    BY <1>1
  <2> QED
    BY <1>4, <1>9, <2>1 DEF Bound
<1>13. /\ source' = source /\ kind' = kind /\ nand' = nand /\ journal' = journal /\ lock' = lock
       /\ faults' = faults /\ job' = job /\ pc' = pc /\ pos' = pos /\ pending' = pending
       /\ record' = record /\ slot' = slot
  BY <1>1 DEF engine
<1>14. Jobs' = Jobs \cup {last} /\ last \notin Jobs /\ \A j \in Jobs : j < last /\ j \in 1..Len(plans)
  BY <1>4, <1>9 DEF Jobs
<1>15. TypeInv'
  <2>1. /\ nand' \in [Block -> Content(Bound')] /\ journal' \in [{0, 1} -> Copy(Len(plans'))]
        /\ plans' \in Seq(ReviewType(Bound', Len(plans')))
    <3>1. nand \in [Block -> Content(Bound)] /\ journal \in [{0, 1} -> Copy(Len(plans))]
      BY <1>2 DEF TypeInv
    <3>2. nand \in [Block -> Content(Bound + 1)] /\ journal \in [{0, 1} -> Copy(last)]
      BY <1>4, <1>5, <3>1, TypesGrow
    <3> QED
      BY <1>9, <1>12, <1>13, <3>2
  <2>2. record' \in Copy(Len(plans'))
    <3>1. record \in Copy(Len(plans)) /\ Copy(Len(plans)) \subseteq Copy(last)
      BY <1>4, <1>5, CopyGrows, HostFacts
    <3> QED
      BY <1>9, <1>13, <3>1
  <2>3. lock' \in 0..Len(plans') /\ job' \in 0..Len(plans')
    <3>1. lock = 0 /\ job = 0
      BY <1>1, Free
    <3> QED
      BY <1>5, <1>9, <1>13, <3>1
  <2>4. /\ source' \in {"stock-hp", "lefony-menu1", "dual"} /\ kind' \in {"physical", "offline"}
        /\ faults' \in 0..MaxFaults /\ pc' \in Labels /\ pos' \in 0..12 /\ pending' \in BOOLEAN
        /\ slot' \in {0, 1}
    BY <1>2, <1>13 DEF TypeInv
  <2>5. Len(plans') = Len(sessions') /\ Len(plans') <= MaxJobs
    BY <1>5, <1>9, <1>11
  <2> QED
    BY <1>11, <2>1, <2>2, <2>3, <2>4, <2>5 DEF TypeInv
<1>16. PlansOK(plans', source, sessions')
  <2>1. CaptureOK(r, OwnerIn(plans', last))
    <3>1. ChangeList(r.changes, nand) /\ Len(r.changes) \in 1..12
      <4>1. source \in {"stock-hp", "lefony-menu1", "dual"}
        BY <1>2 DEF TypeInv
      <4> QED
        BY <1>5, <1>6, <4>1, PlanGood
    <3> QED
      BY <1>2, <1>6, <1>9, <3>1, ReviewCapture
  <2>2. PlanOK(plans'[last], source, sessions'[last].action) /\ CaptureOK(plans'[last], OwnerIn(plans', last))
    <3>1. plans'[last] = r
      BY <1>9 DEF Grown
    <3> QED
      BY <1>6, <1>10, <1>11, <2>1, <3>1
  <2>3. ASSUME NEW j \in Jobs
        PROVE  PlanOK(plans'[j], source, sessions'[j].action) /\ CaptureOK(plans'[j], OwnerIn(plans', j))
    <3>1. plans'[j] = plans[j] /\ OwnerIn(plans', j) = OwnerIn(plans, j)
      BY <1>9, <1>14, GrownOwner
    <3>2. PlanOK(plans[j], source, sessions[j].action) /\ CaptureOK(plans[j], OwnerIn(plans, j))
      BY <1>2, JobFacts
    <3> QED
      BY <1>11, <3>1, <3>2
  <2> QED
    BY <1>14, <2>2, <2>3 DEF PlansOK, Jobs
<1>17. FlashInv'
  <2>1. JournalsOK(journal, plans', source) /\ BegunOK(journal, nand, plans')
    BY <1>2, <1>9, GrownFlash DEF FlashInv
  <2> QED
    BY <1>2, <1>13, <2>1 DEF FlashInv
<1>18. SessionInv'
  <2>1. \A j \in Jobs : SessionOK(sessions[j], j, 0, kind, Len(plans))
    BY <1>1, HostFacts
  <2>2. \A j \in Jobs : SessionOK(sessions'[j], j, 0, kind, last)
    BY <1>1, <1>11, <1>14, <2>1 DEF SessionOK
  <2>3. SessionOK(sessions'[last], last, 0, kind, last)
    BY <1>5, <1>10, <1>11 DEF SessionOK
  <2> QED
    BY <1>1, <1>9, <1>13, <1>14, <2>2, <2>3 DEF SessionInv
<1>19. AloneInv'
  <2>1. AloneOn(nand, journal, r, OwnerIn(plans', last), kind, "absent")
    BY <1>6 DEF AloneOn
  <2>2. ASSUME NEW j \in Jobs, sessions[j].alone
        PROVE  AloneOn(nand, journal, plans'[j], OwnerIn(plans', j), kind, sessions[j].dir)
    <3>1. plans'[j] = plans[j] /\ OwnerIn(plans', j) = OwnerIn(plans, j)
      BY <1>9, <1>14, GrownOwner
    <3> QED
      BY <1>2, <2>2, <3>1 DEF AloneInv
  <2>3. plans'[last] = r
    BY <1>9 DEF Grown
  <2>4. \A j \in Jobs' : sessions'[j].alone =>
          AloneOn(nand, journal, plans'[j], OwnerIn(plans', j), kind, sessions'[j].dir)
    BY <1>10, <1>11, <1>14, <2>1, <2>2, <2>3
  <2> QED
    BY <1>13, <2>4 DEF AloneInv
<1>20. EngineInv'
  <2>1. pc = "idle" /\ job = 0
    BY <1>1, Free
  <2> QED
    BY <1>13, <2>1 DEF EngineInv
<1>21. PlansOK(plans, source, sessions)'
  BY <1>13, <1>16
<1> QED
  BY <1>15, <1>17, <1>18, <1>19, <1>20, <1>21 DEF IInv

-----------------------------------------------------------------------------
\* The invariant.

\* Each installation the tools start from boots itself.
LEMMA BoardsGood ==
  /\ Whole(StockBoard) /\ Whole(LegacyBoard) /\ Routed(DualBoard(1))
<1>1. Whole(StockBoard)
  <2>1. OldBoots(StockBoard, "stock")
    BY OldBoard, ContentIs, BlockParts DEF OldBoots, SysOf
  <2> QED
    BY <2>1 DEF Whole
<1>2. Whole(LegacyBoard)
  <2>1. OldBoots(LegacyBoard, "legacy")
    BY OldBoard, ContentIs, BlockParts DEF OldBoots, SysOf
  <2> QED
    BY <2>1 DEF Whole
<1>3. Routed(DualBoard(1))
  <2> DEFINE d == DualBoard(1)
  <2>1. /\ d["sys"].is = "stock" /\ d["fs"].is = "dual" /\ d["apps"].is = "dual"
        /\ d["f0"].is = "dual" /\ d["f1"].is = "dual" /\ d["p0"].is = "dual" /\ d["p1"].is = "dual"
    BY NewBoard, ContentIs, BlockParts
  <2> HIDE DEF d
  <2>2. Routed(d)
    BY <2>1, BlockParts DEF Routed, StreamLoads, StreamBlocks
  <2> QED
    BY <2>2 DEF d
<1> QED
  BY <1>1, <1>2, <1>3

LEMMA InitHolds ==
  ASSUME Init
  PROVE  IInv
<1>1. /\ source \in {"stock-hp", "lefony-menu1", "dual"} /\ kind \in {"physical", "offline"}
      /\ nand = Board(source)
      /\ journal = [s \in {0, 1} |-> IF source = "dual" THEN Record(0, s + 1, 0, FALSE)
                                                        ELSE NoRecord("blank")]
      /\ plans = <<>> /\ sessions = <<>> /\ job = 0 /\ pc = "idle" /\ pos = 0 /\ pending = FALSE
      /\ record = NoRecord("blank") /\ slot = 0 /\ lock = 0 /\ faults = 0
  BY BoundAssumption DEF Init, BoundAssumption
<1>2. MaxJobs \in Nat /\ MaxFaults \in Nat
  BY BoundAssumption DEF BoundAssumption
<1>3. Len(plans) = 0 /\ Len(sessions) = 0 /\ Bound = 1 /\ Jobs = {}
  BY <1>1 DEF Bound, Jobs
<1>4. nand \in [Block -> Content(1)]
  <2>1. /\ StockBoard \in [Block -> Content(1)] /\ LegacyBoard \in [Block -> Content(1)]
        /\ DualBoard(1) \in [Block -> Content(1)]
    BY BoardTypes, 1 \in Nat, 1 > 0, 1 \in 0..1
  <2> QED
    BY <1>1, <2>1 DEF Board
<1>5. NoRecord("blank") \in Copy(0) /\ \A s \in {0, 1} : Record(0, s + 1, 0, FALSE) \in Copy(0)
  BY DEF NoRecord, Record, Copy
<1>6. journal \in [{0, 1} -> Copy(0)]
  BY <1>1, <1>5
<1>7. TypeInv
  <2>1. plans \in Seq(ReviewType(Bound, Len(plans))) /\ sessions \in Seq(SessionType)
    BY <1>1
  <2>2. pc \in Labels
    BY <1>1 DEF Labels
  <2> QED
    BY <1>1, <1>2, <1>3, <1>4, <1>5, <1>6, <2>1, <2>2 DEF TypeInv
<1>8. PlansOK(plans, source, sessions)
  BY <1>3 DEF PlansOK
<1>9. FlashInv
  <2>1. GoodIn(source, nand)
    BY <1>1, BoardsGood DEF GoodIn, Board
  <2>2. CASE source = "dual"
    <3>1. /\ \A s \in {0, 1} : journal[s] = Record(0, s + 1, 0, FALSE)
          /\ nand = DualBoard(1)
      BY <1>1, <2>2 DEF Board
    <3>2. /\ \A s \in {0, 1} : /\ journal[s].owner = 0 /\ journal[s].index = 0
                               /\ journal[s].pending = FALSE /\ journal[s].gen = s + 1
          /\ ValidIn(journal) = {0, 1}
      BY <3>1 DEF Record, ValidIn
    <3>3. JournalsOK(journal, plans, source)
      BY <2>2, <3>2 DEF JournalsOK, RecordOK
    <3>4. FoundOK(journal, nand) /\ BegunOK(journal, nand, plans)
      BY <3>1, <3>2 DEF FoundOK, BegunOK
    <3> QED
      BY <2>1, <3>3, <3>4 DEF FlashInv
  <2>3. CASE source # "dual"
    <3>1. ValidIn(journal) = {}
      BY <1>1, <2>3 DEF ValidIn, NoRecord
    <3> QED
      BY <2>1, <3>1 DEF FlashInv, JournalsOK, FoundOK, BegunOK
  <2> QED
    BY <2>2, <2>3
<1>10. SessionInv /\ AloneInv /\ EngineInv
  BY <1>1, <1>3 DEF SessionInv, AloneInv, EngineInv
<1> QED
  BY <1>7, <1>8, <1>9, <1>10 DEF IInv

\* Nothing else is in the invariant than what the state says.
LEMMA StutterHolds ==
  ASSUME IInv, UNCHANGED vars
  PROVE  IInv'
<1>1. /\ source' = source /\ kind' = kind /\ nand' = nand /\ journal' = journal /\ plans' = plans
      /\ sessions' = sessions /\ lock' = lock /\ faults' = faults /\ job' = job /\ pc' = pc
      /\ pos' = pos /\ pending' = pending /\ record' = record /\ slot' = slot
  BY DEF vars, host
<1>2. TypeInv /\ FlashInv /\ SessionInv /\ AloneInv /\ EngineInv /\ PlansOK(plans, source, sessions)
  BY DEF IInv
<1>3. Jobs' = Jobs /\ Bound' = Bound
  BY <1>1 DEF Jobs, Bound
<1>4. TypeInv'
  BY <1>1, <1>2, <1>3 DEF TypeInv
<1>5. FlashInv' /\ PlansOK(plans, source, sessions)'
  BY <1>1, <1>2 DEF FlashInv
<1>6. SessionInv' /\ AloneInv'
  BY <1>1, <1>2, <1>3 DEF SessionInv, AloneInv
<1>7. EngineInv'
  <2>1. EngineOn(nand, journal, plans[job], OwnerIn(plans, job), kind)' <=>
          EngineOn(nand, journal, plans[job], OwnerIn(plans, job), kind)
    BY <1>1 DEF EngineOn
  <2> QED
    BY <1>1, <1>2, <1>3, <2>1 DEF EngineInv
<1> QED
  BY <1>4, <1>5, <1>6, <1>7 DEF IInv

LEMMA NextHolds ==
  ASSUME IInv, Next
  PROVE  IInv'
<1>1. ASSUME NEW action \in {"install", "restore-original", "restore-hp", "refresh"}, Review(action)
      PROVE  IInv'
  BY <1>1, ReviewStep
<1>2. ASSUME NEW j \in Jobs, Approve(j) \/ Resume(j)
      PROVE  IInv'
  BY <1>2, ApproveStep, ResumeStep
<1>3. ASSUME MakeDirectory \/ Launch
      PROVE  IInv'
  BY <1>3, MakeDirectoryStep, LaunchStep
<1>4. ASSUME Step
      PROVE  IInv'
  BY <1>4, ExecuteStep
<1>5. ASSUME Snapshot \/ Qualify \/ Refused
      PROVE  IInv'
  BY <1>5, SnapshotStep, QualifyStep, RefusedStep
<1>6. ASSUME Interrupt
      PROVE  IInv'
  BY <1>6, InterruptStep
<1>7. ASSUME NEW j \in Jobs, NEW os \in {"lefony", "hp"}, Confirm(j, os)
      PROVE  IInv'
  BY <1>7, ConfirmStep
<1>8. ASSUME NEW b \in UserData, Use(b)
      PROVE  IInv'
  BY <1>8, UseStep
<1> QED
  BY <1>1, <1>2, <1>3, <1>4, <1>5, <1>6, <1>7, <1>8 DEF Next

\* Whatever the companion, the cable, the calculator and its owner do, in any
\* order, the flash, the journals, the sessions and the executor stay where the
\* reviewed plans have them.
THEOREM DualHolds == Spec => []IInv
<1>1. Init => IInv
  BY InitHolds
<1>2. IInv /\ [Next]_vars => IInv'
  BY NextHolds, StutterHolds
<1> QED
  BY <1>1, <1>2, PTL DEF Spec

-----------------------------------------------------------------------------
\* What follows for the properties of the runs.

LEMMA TypeFollows ==
  ASSUME IInv
  PROVE  TypeOK
<1>1. TypeInv
  BY DEF IInv
<1>2. /\ Bound \in Nat /\ Len(plans) \in Nat /\ Bound = Len(plans) + faults + 1
      /\ MaxJobs \in Nat /\ MaxFaults \in Nat /\ faults \in Nat
  BY <1>1, BoundNat
<1>3. Len(plans) <= MaxJobs /\ faults <= MaxFaults /\ Len(plans) = Len(sessions)
  BY <1>1, <1>2 DEF TypeInv
<1> DEFINE m == MaxJobs + MaxFaults + 1
<1>4. m \in Nat /\ Bound <= m
  BY <1>2, <1>3
<1>5. Contents = Content(m)
  BY DEF Contents, Content
<1>6. Copies = Copy(MaxJobs) /\ Cardinality(Block) = 12
  BY BlockCount DEF Copies, Copy
<1> HIDE DEF m
<1>7. nand \in [Block -> Contents]
  <2>1. Content(Bound) \subseteq Content(m)
    BY <1>2, <1>4, ContentGrows
  <2> QED
    BY <1>1, <1>5, <2>1 DEF TypeInv
<1>8. journal \in [{0, 1} -> Copies] /\ record \in Copies
  <2>1. Copy(Len(plans)) \subseteq Copy(MaxJobs)
    BY <1>2, <1>3, CopyGrows
  <2> QED
    BY <1>1, <1>6, <2>1 DEF TypeInv
<1>9. DOMAIN plans = DOMAIN sessions
  BY <1>1, <1>3 DEF TypeInv
<1>10. /\ job \in 0..Len(plans) /\ lock \in 0..Len(plans) /\ pos \in 0..Cardinality(Block)
       /\ pending \in BOOLEAN /\ slot \in {0, 1}
  BY <1>1, <1>6 DEF TypeInv
<1> QED
  BY <1>7, <1>8, <1>9, <1>10 DEF TypeOK

\* Every variable has its type, in every number of reviews and interruptions.
THEOREM DualTypes == Spec => []TypeOK
<1>1. IInv => TypeOK
  BY TypeFollows
<1> QED
  BY <1>1, DualHolds, PTL

\* Whatever was interrupted, by whom and how often, a reset of the calculator
\* finds something whole to boot: some route, no system over another one's data,
\* and, but under a refresh, no loader made of two releases.
THEOREM DualBoots == Spec => []BootsWhole
<1>1. IInv => BootsWhole
  BY WholeBoots, RoutedBoots DEF IInv, FlashInv, GoodIn, BootsWhole
<1> QED
  BY <1>1, DualHolds, PTL

-----------------------------------------------------------------------------
\* What a job finds that nobody disturbed.

LEMMA AgreesOpen ==
  ASSUME NEW p, NEW m, Runs(p, m), NEW n, NEW i \in Nat, i <= Len(p.changes),
         NEW open \in BOOLEAN, open => i < Len(p.changes), Upto(n, p.initial, p.changes, i, open)
  PROVE  Agrees(n, p.initial, p.changes, i, IF open THEN {p.changes[i + 1].block} ELSE {})
<1>1. p.changes \in Seq(ChangeOf(Content(m))) /\ ChangeList(p.changes, p.initial)
  BY DEF Runs
<1>2. i \in 0..Len(p.changes)
  BY DEF Runs
<1> QED
  BY <1>1, <1>2, AgreesUpto

LEMMA AgreesDone ==
  ASSUME NEW p, NEW m, Runs(p, m), NEW n, DoneOn(n, p)
  PROVE  Agrees(n, p.initial, p.changes, Len(p.changes), {})
<1>0. Len(p.changes) \in Nat /\ Upto(n, p.initial, p.changes, Len(p.changes), FALSE)
  BY DEF Runs, DoneOn
<1>1. /\ Len(p.changes) \in Nat /\ Len(p.changes) <= Len(p.changes) /\ FALSE \in BOOLEAN
      /\ Upto(n, p.initial, p.changes, Len(p.changes), FALSE)
  <2>1. \A l \in Nat : l <= l
    OBVIOUS
  <2> QED
    BY <1>0, <2>1, Zenon
<1>2. Agrees(n, p.initial, p.changes, Len(p.changes),
             IF FALSE THEN {p.changes[Len(p.changes) + 1].block} ELSE {})
  BY <1>1, AgreesOpen
<1> QED
  BY <1>2

LEMMA AgreesFirst ==
  ASSUME NEW p, NEW m, Runs(p, m), NEW n, n = p.initial
  PROVE  Agrees(n, p.initial, p.changes, 0, {})
<1>1. /\ Len(p.changes) \in Nat /\ 0 <= Len(p.changes) /\ 0 \in Nat /\ FALSE \in BOOLEAN
      /\ ChangeList(p.changes, p.initial)
  BY DEF Runs
<1>2. Upto(n, p.initial, p.changes, 0, FALSE)
  BY <1>1, UptoStart
<1>3. Agrees(n, p.initial, p.changes, 0, IF FALSE THEN {p.changes[0 + 1].block} ELSE {})
  BY <1>1, <1>2, AgreesOpen
<1> QED
  BY <1>3

\* Journals a review captured call nothing of its own plan done.
LEMMA CaptureFresh ==
  ASSUME NEW n, NEW J, NEW p, NEW o, n = p.initial, J = p.initialJournal, CaptureOK(p, o)
  PROVE  FreshOn(n, J, p, o)
BY DEF CaptureOK, FreshOn

LEMMA FreshGoing ==
  ASSUME NEW m, NEW J \in [{0, 1} -> Copy(m)], NEW p, NEW k, Runs(p, k), NEW o, NEW n,
         FreshOn(n, J, p, o), Own(J, o)
  PROVE  GoingOn(n, J, p, o)
<1> DEFINE x == NewestOf(J)
<1>1. NewestIn(J) \in ValidIn(J) /\ x = J[NewestIn(J)]
  BY NewestPick DEF Own, NewestOf
<1>2. x.index = 0 /\ n = p.initial
  BY <1>1 DEF FreshOn, Own
<1>3. \A b \in Block : n[b] = p.initial[b]
  BY <1>2
<1> HIDE DEF x
<1>4. Len(p.changes) \in Nat /\ ChangeList(p.changes, p.initial)
  BY DEF Runs
<1>5. Upto(n, p.initial, p.changes, 0, x.pending)
  BY <1>3, <1>4, UptoStart
<1> QED
  BY <1>2, <1>5 DEF GoingOn, Own, x

\* Alone on the board, with journals of its own and something left to do, a job
\* is where its journals say.
LEMMA AloneTruthful ==
  ASSUME NEW j, NEW p, NEW o, BoardOn(j, p, o), AloneOn(nand, journal, p, o, kind, "reviewed"),
         Own(journal, o), ~CanComplete(j)
  PROVE  GoingOn(nand, journal, p, o)
<1>1. /\ p = plans[j] /\ o = OwnerIn(plans, j) /\ Runs(p, Bound)
      /\ journal \in [{0, 1} -> Copy(Len(plans))] /\ kind \in {"physical", "offline"}
  BY DEF BoardOn
<1>2. CASE FreshOn(nand, journal, p, o)
  BY <1>1, <1>2, FreshGoing
<1>3. CASE kind = "offline"
  BY <1>3, AloneGoing
<1>4. CASE kind = "physical" /\ FinishedOn(nand, journal, p, o, kind)
  <2>1. p.mode = "restore" /\ DoneOn(nand, p)
    BY <1>4 DEF FinishedOn, DoneOn
  <2>2. Matches(j, Len(Changes(j)), {})
    BY <1>1, <2>1, AgreesDone, MatchesIs DEF Changes
  <2>3. OwnJournals(j)
    BY <1>1, StateOps DEF OwnJournals, Accepted, Own
  <2> QED
    BY <1>1, <1>4, <2>1, <2>2, <2>3 DEF CanComplete, InspectComplete
<1> QED
  BY <1>1, <1>2, <1>3, <1>4 DEF AloneOn

LEMMA TruthfulFollows ==
  ASSUME IInv
  PROVE  JournalTruthful
<1> SUFFICES ASSUME NEW j \in Jobs, sessions[j].alone, sessions[j].used, Readable(j), ~CanComplete(j)
             PROVE  \A k \in 1..Len(Changes(j)) :
                      LET c == Changes(j)[k]
                      IN  /\ k <= Newest.index => nand[c.block] = c.after
                          /\ k > Newest.index + 1 => nand[c.block] = c.before
                          /\ k = Newest.index + 1 /\ ~Newest.pending => nand[c.block] = c.before
  BY DEF JournalTruthful
<1> DEFINE p == plans[j]
           o == OwnerIn(plans, j)
<1>1. TypeInv /\ PlansOK(plans, source, sessions) /\ FlashInv /\ AloneInv
  BY DEF IInv
<1>2. /\ journal \in [{0, 1} -> Copy(Len(plans))] /\ JournalsOK(journal, plans, source)
  BY <1>1 DEF TypeInv, FlashInv
<1>3. Runs(p, Bound) /\ CaptureOK(p, o)
  BY <1>1, JobFacts
<1>4. AloneOn(nand, journal, p, o, kind, sessions[j].dir)
  BY <1>1 DEF AloneInv
<1>5. Own(journal, o)
  BY <1>2, ReadableIs
<1>6. GoingOn(nand, journal, p, o)
  <2>1. CASE sessions[j].dir = "reviewed"
    <3>1. BoardOn(j, p, o)
      BY <2>1, BoardOf
    <3> QED
      BY <1>4, <1>5, <2>1, <3>1, AloneTruthful
  <2>2. CASE sessions[j].dir # "reviewed"
    <3>1. nand = p.initial /\ journal = p.initialJournal
      BY <1>4, <2>2 DEF AloneOn
    <3>2. FreshOn(nand, journal, p, o)
      BY <1>3, <3>1, CaptureFresh
    <3> QED
      BY <1>2, <1>3, <1>5, <3>2, FreshGoing
  <2> QED
    BY <2>1, <2>2
<1>7. Upto(nand, p.initial, p.changes, Newest.index, Newest.pending)
  BY <1>6, StateOps DEF GoingOn
<1>8. Changes(j) = p.changes
  BY DEF Changes
<1> QED
  BY <1>7, <1>8 DEF Upto

\* A journal never runs ahead of the flash, and no block changes without it,
\* while only its own job has touched the board.
THEOREM DualJournals == Spec => []JournalTruthful
<1>1. IInv => JournalTruthful
  BY TruthfulFollows
<1> QED
  BY <1>1, DualHolds, PTL

-----------------------------------------------------------------------------
\* A job that stopped can be continued.

LEMMA UptoPreserved ==
  ASSUME NEW j, NEW i, NEW open, Upto(nand, plans[j].initial, plans[j].changes, i, open)
  PROVE  Preserved(j)
BY DEF Preserved, Targets, Changes, Upto

LEMMA StartAccepted ==
  ASSUME NEW j, NEW m, Runs(plans[j], m), nand = plans[j].initial, journal = plans[j].initialJournal
  PROVE  CanStart(j)
<1>1. Matches(j, 0, {})
  BY AgreesFirst, MatchesIs
<1>2. Preserved(j)
  BY DEF Preserved
<1> QED
  BY <1>1, <1>2 DEF CanStart, InspectFresh

LEMMA FreshAccepted ==
  ASSUME NEW j, NEW p, NEW o, BoardOn(j, p, o), FreshOn(nand, journal, p, o),
         NEW src, NEW action, PlanOK(p, src, action)
  PROVE  CanResume(j) \/ CanInitialize(j)
<1>1. /\ p = plans[j] /\ o = OwnerIn(plans, j) /\ Runs(p, Bound) /\ kind \in {"physical", "offline"}
      /\ nand = p.initial
  BY DEF BoardOn, FreshOn
<1>2. CASE kind = "physical"
  <2>1. Matches(j, 0, {})
    BY <1>1, AgreesFirst, MatchesIs
  <2>2. ASSUME NEW s \in ValidIn(journal)
        PROVE  journal[s].owner \in Accepted(j)
    <3>1. CASE journal[s].owner = o
      BY <1>1, <3>1, StateOps DEF Accepted
    <3>2. CASE journal[s] = p.initialJournal[s]
      <4>1. s \in {0, 1} /\ p.initialJournal[s].is = "ok"
        BY <3>2 DEF ValidIn
      <4>2. p.mode \in {"restore", "refresh-dual"}
        BY <4>1 DEF PlanOK, ValidIn
      <4> QED
        BY <1>1, <3>2, <4>1, <4>2 DEF Accepted
    <3> QED
      BY <3>1, <3>2 DEF FreshOn
  <2> QED
    BY <1>2, <2>1, <2>2, StateOps DEF CanInitialize, InspectInitialize, OwnJournals
<1>3. CASE kind = "offline"
  <2>1. Preserved(j) /\ Untouched(j)
    BY <1>1 DEF Preserved, Untouched
  <2> QED
    BY <1>3, <2>1 DEF CanResume, CanInitialize
<1> QED
  BY <1>1, <1>2, <1>3

LEMMA GoingAccepted ==
  ASSUME NEW j, NEW p, NEW o, BoardOn(j, p, o), GoingOn(nand, journal, p, o)
  PROVE  CanResume(j)
<1> DEFINE x == NewestOf(journal)
<1>1. /\ p = plans[j] /\ o = OwnerIn(plans, j) /\ Runs(p, Bound) /\ Owns(plans, p, o)
      /\ journal \in [{0, 1} -> Copy(Len(plans))] /\ JournalsOK(journal, plans, source)
      /\ kind \in {"physical", "offline"}
  BY DEF BoardOn
<1>2. Own(journal, o) /\ Upto(nand, p.initial, p.changes, x.index, x.pending)
  BY DEF GoingOn, Own
<1>3. Readable(j)
  BY <1>1, <1>2, ReadableIs
<1>4. Preserved(j)
  BY <1>1, <1>2, UptoPreserved
<1>5. /\ x.index \in Nat /\ x.index <= Len(p.changes) /\ x.pending \in BOOLEAN
      /\ x.pending => x.index < Len(p.changes)
  <2>1. o # 0 /\ plans[o].changes = p.changes
    BY <1>1 DEF Owns
  <2> QED
    BY <1>1, <1>2, <2>1, NewestFacts
<1> HIDE DEF x
<1>6. Agrees(nand, p.initial, p.changes, x.index,
             IF x.pending THEN {p.changes[x.index + 1].block} ELSE {})
  BY <1>1, <1>2, <1>5, AgreesOpen
<1>7. Matches(j, x.index, IF x.pending THEN {p.changes[x.index + 1].block} ELSE {})
  BY <1>1, <1>6, MatchesIs
<1>8. InspectResume(j)
  BY <1>1, <1>3, <1>7, StateOps DEF InspectResume, x
<1> QED
  BY <1>1, <1>3, <1>4, <1>8 DEF CanResume

LEMMA FinishedAccepted ==
  ASSUME NEW j, NEW p, NEW o, BoardOn(j, p, o), FinishedOn(nand, journal, p, o, kind)
  PROVE  CanComplete(j) \/ CanResume(j)
<1>1. /\ p = plans[j] /\ o = OwnerIn(plans, j) /\ Runs(p, Bound) /\ kind \in {"physical", "offline"}
  BY DEF BoardOn
<1>2. p.mode = "restore" /\ DoneOn(nand, p) /\ \A s \in ValidIn(journal) : journal[s].owner = o
  BY DEF FinishedOn, DoneOn
<1>3. Matches(j, Len(Changes(j)), {})
  BY <1>1, <1>2, AgreesDone, MatchesIs DEF Changes
<1>4. OwnJournals(j)
  BY <1>1, <1>2, StateOps DEF OwnJournals, Accepted
<1>5. Preserved(j)
  BY <1>1, <1>2, UptoPreserved DEF DoneOn
<1> QED
  BY <1>1, <1>2, <1>3, <1>4, <1>5 DEF CanComplete, InspectComplete, CanResume

LEMMA AcceptedFollows ==
  ASSUME IInv
  PROVE  ResumeAccepted
<1> SUFFICES ASSUME NEW j \in Jobs, lock = 0, sessions[j].alone, sessions[j].state = "reconnect",
                    sessions[j].dir # "empty"
             PROVE  IF sessions[j].dir = "absent" THEN CanStart(j)
                    ELSE CanComplete(j) \/ CanResume(j) \/ CanInitialize(j)
  BY DEF ResumeAccepted
<1> DEFINE p == plans[j]
           o == OwnerIn(plans, j)
<1>1. TypeInv /\ PlansOK(plans, source, sessions) /\ AloneInv
  BY DEF IInv
<1>2. Runs(p, Bound) /\ PlanOK(p, source, sessions[j].action)
  BY <1>1, JobFacts
<1>3. AloneOn(nand, journal, p, o, kind, sessions[j].dir)
  BY <1>1 DEF AloneInv
<1>4. CASE sessions[j].dir = "absent"
  <2>1. nand = p.initial /\ journal = p.initialJournal
    BY <1>3, <1>4 DEF AloneOn
  <2> QED
    BY <1>2, <1>4, <2>1, StartAccepted
<1>5. CASE sessions[j].dir = "reviewed"
  <2>1. BoardOn(j, p, o)
    BY <1>5, BoardOf
  <2>2. FreshOn(nand, journal, p, o) \/ GoingOn(nand, journal, p, o) \/ FinishedOn(nand, journal, p, o, kind)
    BY <1>3, <1>5 DEF AloneOn
  <2>3. CanComplete(j) \/ CanResume(j) \/ CanInitialize(j)
    BY <1>2, <2>1, <2>2, FreshAccepted, GoingAccepted, FinishedAccepted
  <2> QED
    BY <1>5, <2>3
<1>6. sessions[j] \in SessionType
  BY HostFacts
<1>7. sessions[j].dir \in {"absent", "empty", "reviewed"}
  BY <1>6 DEF SessionType
<1> QED
  BY <1>4, <1>5, <1>7

\* A job nobody else interfered with can always be continued from whatever an
\* interruption left.
THEOREM DualResumes == Spec => []ResumeAccepted
<1>1. IInv => ResumeAccepted
  BY AcceptedFollows
<1> QED
  BY <1>1, DualHolds, PTL

-----------------------------------------------------------------------------
\* A job called verified.

LEMMA WholePlan ==
  ASSUME NEW S, NEW c \in Seq(S)
  PROVE  SubSeq(c, 1, Len(c)) = c
OBVIOUS

\* The board of a plan that is done, its block by block and as a whole.
LEMMA DonePromised ==
  ASSUME NEW p, NEW m, Runs(p, m), NEW S, NEW n \in [Block -> S], DoneOn(n, p)
  PROVE  n = Promised(p.initial, p.changes)
<1>1. p.changes \in Seq(ChangeOf(Content(m)))
  BY DEF Runs
<1>2. Agrees(n, p.initial, p.changes, Len(p.changes), {})
  BY AgreesDone
<1>3. SubSeq(p.changes, 1, Len(p.changes)) = p.changes
  BY <1>1, WholePlan
<1> DEFINE d == Promised(p.initial, p.changes)
<1>4. \A b \in Block : n[b] = d[b]
  BY <1>2, <1>3 DEF Agrees
<1>5. d = [b \in Block |-> d[b]]
  BY DEF Promised
<1>6. n = [b \in Block |-> n[b]]
  OBVIOUS
<1> HIDE DEF d
<1>7. n = d
  BY <1>4, <1>5, <1>6
<1> QED
  BY <1>7 DEF d

LEMMA QualifyBoots ==
  ASSUME IInv, pc = "qualify"
  PROVE  LET p == plans[job]
         IN  /\ nand = Promised(p.initial, p.changes)
             /\ Boot(nand) = (IF p.mode # "restore" THEN "dual"
                              ELSE Backup(sessions[job].action)["sys"].is)
             /\ p.mode = "restore" => nand = p.backup /\ JournalsBlank
<1> DEFINE p == plans[job]
           o == OwnerIn(plans, job)
           a == sessions[job].action
<1>1. RunningOn(p, o)
  BY Running
<1> HIDE DEF p, o
<1>2. /\ DoneOn(nand, p) /\ (p.mode = "restore" => Blanks(journal, {0, 1}))
      /\ Runs(p, Bound) /\ nand \in [Block -> Content(Bound)] /\ Bound \in Nat /\ Bound > 0
      /\ p \in ReviewType(Bound, Len(plans)) /\ PlanOK(p, source, a)
      /\ source \in {"stock-hp", "lefony-menu1", "dual"}
  BY <1>1 DEF RunningOn, EngineOn
<1> HIDE DEF a
<1>3. nand = Promised(p.initial, p.changes)
  BY <1>2, DonePromised
<1>4. /\ p.mode # "restore" => Boot(nand) = "dual"
      /\ p.mode = "restore" => /\ Boot(nand) = p.backup["sys"].is
                               /\ \A b \in Block : nand[b] = p.backup[b]
  BY <1>2, FinishedBoots DEF DoneOn
<1>5. p.mode = "restore" => p.backup = Backup(a)
  BY <1>2 DEF PlanOK, Backup
<1>6. p.mode = "restore" => nand = p.backup
  <2>1. p.backup \in [Block -> Content(Bound)]
    BY <1>2 DEF ReviewType
  <2> QED
    BY <1>2, <1>4, <2>1, SameFunction
<1>7. p.mode = "restore" => JournalsBlank
  BY <1>2 DEF Blanks, JournalsBlank
<1> QED
  BY <1>3, <1>4, <1>5, <1>6, <1>7 DEF p, a

\* Only its own last step calls a job verified.
NotVerified == \A j \in Jobs : sessions'[j].state = "verified" => sessions[j].state = "verified"

LEMMA SetVerify ==
  ASSUME IInv, NEW j \in Jobs, NEW x \in SessionType, sessions' = [sessions EXCEPT ![j] = x],
         x.state = "verified" => sessions[j].state = "verified"
  PROVE  NotVerified
<1>1. sessions'[j] = x /\ \A t \in Jobs : t # j => sessions'[t] = sessions[t]
  BY HostFacts, SetSession
<1> QED
  BY <1>1 DEF NotVerified

LEMMA TakesVerify ==
  ASSUME IInv, NEW j \in Jobs, NEW x \in SessionType, x.state = "working", Takes(j, x)
  PROVE  NotVerified
<1>1. sessions' = [t \in DOMAIN sessions |-> IF t = j THEN x ELSE [sessions[t] EXCEPT !.alone = FALSE]]
  BY DEF Takes
<1>2. /\ sessions \in Seq(SessionType) /\ Jobs = 1..Len(sessions)
      /\ \A t \in Jobs : sessions[t] \in SessionType
  BY HostFacts
<1>3. TakesIn(sessions, j, x, sessions')
  BY <1>1, <1>2 DEF TakesIn
<1>4. sessions'[j] = x /\ \A t \in Jobs : t # j => sessions'[t] = [sessions[t] EXCEPT !.alone = FALSE]
  BY <1>2, <1>3, TakeSession
<1>5. \A t \in Jobs : [sessions[t] EXCEPT !.alone = FALSE].state = sessions[t].state
  BY <1>2, NotAlone
<1> QED
  BY <1>4, <1>5 DEF NotVerified

LEMMA OnlyQualify ==
  ASSUME IInv, [Next]_vars, ~Qualify
  PROVE  NotVerified
<1>0. /\ sessions \in Seq(SessionType) /\ Jobs = 1..Len(sessions) /\ (lock # 0 => lock \in Jobs)
      /\ \A t \in Jobs : sessions[t] \in SessionType
  BY HostFacts
<1>1. ASSUME sessions' = sessions
      PROVE  NotVerified
  BY <1>1 DEF NotVerified
<1>2. ASSUME UNCHANGED vars
      PROVE  NotVerified
  BY <1>1, <1>2 DEF vars, host
<1>3. ASSUME NEW action \in {"install", "restore-original", "restore-hp", "refresh"}, Review(action)
      PROVE  NotVerified
  <2>1. sessions' = Append(sessions, NewSession(action, "review"))
    BY <1>3 DEF Review
  <2>2. NewSession(action, "review") \in SessionType
    BY DEF NewSession, SessionType
  <2>3. \A t \in Jobs : sessions'[t] = sessions[t]
    BY <1>0, <2>1, <2>2, AppendIs
  <2> QED
    BY <2>3 DEF NotVerified
<1>4. ASSUME NEW j \in Jobs, Approve(j)
      PROVE  NotVerified
  <2> DEFINE x == [sessions[j] EXCEPT !.state = "working", !.used = TRUE]
  <2>1. x \in SessionType /\ x.state = "working"
    BY <1>0, ApprovedSession
  <2>2. Takes(j, x)
    BY <1>4 DEF Approve
  <2> HIDE DEF x
  <2> QED
    BY <2>1, <2>2, TakesVerify
<1>5. ASSUME NEW j \in Jobs, Resume(j)
      PROVE  NotVerified
  <2> DEFINE w == [sessions[j] EXCEPT !.state = "working"]
             x == [sessions[j] EXCEPT !.state = "reconnect"]
  <2>1. w \in SessionType /\ w.state = "working" /\ x \in SessionType /\ x.state = "reconnect"
    BY <1>0 DEF SessionType
  <2>2. Takes(j, w) \/ sessions' = [sessions EXCEPT ![j] = x]
    BY <1>5 DEF Resume
  <2> HIDE DEF w, x
  <2> QED
    BY <2>1, <2>2, TakesVerify, SetVerify
<1>6. ASSUME MakeDirectory \/ Launch
      PROVE  NotVerified
  <2> DEFINE x(dir) == [sessions[lock] EXCEPT !.dir = dir]
  <2>1. lock \in Jobs
    BY <1>0, <1>6 DEF MakeDirectory, Launch
  <2>2. /\ x("empty") \in SessionType /\ x("reviewed") \in SessionType
        /\ x("empty").state = sessions[lock].state /\ x("reviewed").state = sessions[lock].state
    BY <1>0, <2>1 DEF SessionType
  <2>3. sessions' = [sessions EXCEPT ![lock] = x("empty")] \/ sessions' = [sessions EXCEPT ![lock] = x("reviewed")]
    BY <1>6 DEF MakeDirectory, Launch
  <2> HIDE DEF x
  <2> QED
    BY <2>1, <2>2, <2>3, SetVerify
<1>7. ASSUME Step
      PROVE  NotVerified
  BY <1>1, <1>7 DEF Step, host
<1>8. ASSUME Snapshot
      PROVE  NotVerified
  <2> DEFINE x(snap) == [sessions[job] EXCEPT !.snap = snap]
  <2>1. job \in Jobs
    <3>1. pc # "idle"
      BY <1>8 DEF Snapshot
    <3> QED
      BY <3>1, Running DEF RunningOn
  <2>2. /\ x("final") \in SessionType /\ x("both") \in SessionType
        /\ x("final").state = sessions[job].state /\ x("both").state = sessions[job].state
    BY <1>0, <2>1 DEF SessionType
  <2>3. \/ sessions' = [sessions EXCEPT ![job] = x("final")]
        \/ sessions' = [sessions EXCEPT ![job] = x("both")] \/ sessions' = sessions
    BY <1>8 DEF Snapshot
  <2> HIDE DEF x
  <2> QED
    BY <1>1, <2>1, <2>2, <2>3, SetVerify
<1>9. ASSUME Refused
      PROVE  NotVerified
  <2> DEFINE s == IF kind = "offline" THEN "recovery-required" ELSE "reconnect"
             x == [sessions[job] EXCEPT !.state = s]
  <2>1. job \in Jobs
    <3>1. pc # "idle"
      BY <1>9 DEF Refused
    <3> QED
      BY <3>1, Running DEF RunningOn
  <2>2. s \in {"recovery-required", "reconnect"}
    OBVIOUS
  <2>3. sessions' = [sessions EXCEPT ![job] = x]
    BY <1>9 DEF Refused
  <2> HIDE DEF s
  <2>4. x \in SessionType /\ x.state = s
    BY <1>0, <2>1, <2>2, SMTT(30) DEF SessionType
  <2> HIDE DEF x
  <2> QED
    BY <2>1, <2>2, <2>3, <2>4, SetVerify
<1>10. ASSUME Interrupt
       PROVE  NotVerified
  <2> DEFINE x == [sessions[lock] EXCEPT !.state = "reconnect"]
  <2>1. lock \in Jobs
    BY <1>0, <1>10 DEF Interrupt
  <2>2. x \in SessionType /\ x.state = "reconnect"
    BY <1>0, <2>1 DEF SessionType
  <2>3. sessions' = [sessions EXCEPT ![lock] = x]
    BY <1>10 DEF Interrupt
  <2> HIDE DEF x
  <2> QED
    BY <2>1, <2>2, <2>3, SetVerify
<1>11. ASSUME NEW j \in Jobs, NEW os \in {"lefony", "hp"}, Confirm(j, os)
       PROVE  NotVerified
  <2> DEFINE c == sessions[j].confirmed \cup {os}
             s == IF c = ExpectedBoots(j) THEN "complete" ELSE "verified"
             x == [sessions[j] EXCEPT !.confirmed = c, !.state = s]
  <2>1. sessions[j].state = "verified" /\ sessions' = [sessions EXCEPT ![j].confirmed = c, ![j].state = s]
    BY <1>11 DEF Confirm
  <2>2. c \in SUBSET {"lefony", "hp"} /\ s \in {"complete", "verified"}
    BY <1>0 DEF SessionType
  <2> HIDE DEF c, s
  <2>0. sessions[j] \in SessionType
    BY <1>0
  <2>3. x \in SessionType
    BY <2>0, <2>2 DEF SessionType
  <2>4. sessions' = [sessions EXCEPT ![j] = x]
    BY <1>0, <2>1
  <2> HIDE DEF x
  <2> QED
    BY <2>1, <2>3, <2>4, SetVerify
<1>12. ASSUME NEW b \in UserData, Use(b)
       PROVE  NotVerified
  <2>1. sessions' = [t \in DOMAIN sessions |-> [sessions[t] EXCEPT !.alone = FALSE]]
    BY <1>12 DEF Use
  <2>2. DOMAIN sessions = Jobs
    BY <1>0
  <2>3. \A t \in Jobs : sessions'[t] = [sessions[t] EXCEPT !.alone = FALSE]
    BY <2>1, <2>2
  <2>4. \A t \in Jobs : [sessions[t] EXCEPT !.alone = FALSE].state = sessions[t].state
    BY <1>0, NotAlone
  <2> QED
    BY <2>3, <2>4 DEF NotVerified
<1> QED
  BY <1>2, <1>3, <1>4, <1>5, <1>6, <1>7, <1>8, <1>9, <1>10, <1>11, <1>12 DEF Next

\* A job called verified has left exactly the board its review promised, that
\* board boots what was asked for, and a restored one keeps no journal.
THEOREM DualVerifies == Spec => VerifiedBoots
<1> DEFINE A == \A j \in Jobs :
                  sessions[j].state # "verified" /\ sessions'[j].state = "verified" =>
                    /\ nand = Promised(plans[j].initial, Changes(j))
                    /\ Boot(nand) = (IF plans[j].mode # "restore" THEN "dual"
                                     ELSE Backup(sessions[j].action)["sys"].is)
                    /\ plans[j].mode = "restore" => nand = plans[j].backup /\ JournalsBlank
<1>1. IInv /\ [Next]_vars => [A]_vars
  <2> SUFFICES ASSUME IInv, [Next]_vars
               PROVE  A
    OBVIOUS
  <2>1. CASE Qualify
    <3>1. /\ pc = "qualify"
          /\ sessions' = [sessions EXCEPT ![job].snap = "final", ![job].state = "verified"]
      BY <2>1 DEF Qualify
    <3>2. \A t \in Jobs : t # job => sessions'[t] = sessions[t]
      BY <3>1, HostFacts
    <3> QED
      BY <3>1, <3>2, QualifyBoots DEF Changes
  <2>2. CASE ~Qualify
    BY <2>2, OnlyQualify DEF NotVerified
  <2> QED
    BY <2>1, <2>2
<1>2. VerifiedBoots <=> [][A]_vars
  BY DEF VerifiedBoots
<1> QED
  BY <1>1, <1>2, DualHolds, PTL DEF Spec

-----------------------------------------------------------------------------
\* The board keeps the promise of DualPromise: the plan its journals record is
\* applied change by change, and only while the board is where it has it.

PlanIn(J, P) ==
  IF ValidIn(J) = {} THEN <<>> ELSE IF NewestOf(J).owner = 0 THEN <<>> ELSE P[NewestOf(J).owner].changes
AtIn(J, P) == IF PlanIn(J, P) = <<>> THEN 0 ELSE NewestOf(J).index

RPlan == PlanIn(journal, plans)
RAt   == AtIn(journal, plans)
PromiseKept == Promises!Keep \/ UNCHANGED Promises!promise

\* The recorded changes done so far read as written, all but the next of the
\* others as captured.
FollowsTo(n, c, i) ==
  \A k \in 1..Len(c) : /\ k <= i => n[c[k].block] = c[k].after
                       /\ k > i + 1 => n[c[k].block] = c[k].before

LEMMA RecordedIs ==
  /\ RecordedPlan = RPlan /\ (IF RecordedPlan = <<>> THEN 0 ELSE Newest.index) = RAt
  /\ RecordedPlan' = RPlan' /\ (IF RecordedPlan' = <<>> THEN 0 ELSE Newest'.index) = RAt'
<1>1. RecordedPlan = RPlan
  BY StateOps DEF RecordedPlan, RPlan, PlanIn
<1>2. (IF RecordedPlan = <<>> THEN 0 ELSE Newest.index) = RAt
  BY <1>1, StateOps DEF RPlan, RAt, AtIn
<1>3. RecordedPlan' = RPlan'
  BY StateOpsNext DEF RecordedPlan, RPlan, PlanIn
<1>4. (IF RecordedPlan' = <<>> THEN 0 ELSE Newest'.index) = RAt'
  BY <1>3, StateOpsNext DEF RPlan, RAt, AtIn
<1> QED
  BY <1>1, <1>2, <1>3, <1>4

PlanSame == RPlan' = RPlan /\ RAt' = RAt

LEMMA PromiseSteps ==
  /\ nand' = nand /\ PlanSame => PromiseKept
  /\ /\ nand' = nand /\ RPlan' # <<>> /\ RAt' = 0
     /\ \A k \in 1..Len(RPlan') : nand[RPlan'[k].block] = RPlan'[k].before
     => PromiseKept
  /\ /\ PlanSame /\ RAt < Len(RPlan) /\ FollowsTo(nand, RPlan, RAt)
     /\ \E c \in Contents : nand' = [nand EXCEPT ![RPlan[RAt + 1].block] = c]
     => PromiseKept
  /\ /\ nand' = nand /\ RPlan' = RPlan /\ RAt' = RAt + 1 /\ RAt < Len(RPlan)
     /\ FollowsTo(nand, RPlan, RAt) /\ nand[RPlan[RAt + 1].block] = RPlan[RAt + 1].after
     => PromiseKept
  /\ nand' = nand /\ RPlan' = <<>> /\ RAt' = 0 => PromiseKept
  /\ nand' = nand /\ RPlan' = RPlan /\ RAt > 0 /\ RAt' = RAt - 1 => PromiseKept
  /\ /\ PlanSame
     /\ \E b \in UserData :
          /\ nand[b].is # "torn"
          /\ nand' = [nand EXCEPT ![b] = [is |-> nand'[b].is, n |-> nand[b].n + 1]]
     => PromiseKept
<1> USE RecordedIs DEF PromiseKept, Promises!Keep, Promises!promise
<1>1. nand' = nand /\ PlanSame => PromiseKept
  BY DEF PlanSame
<1>2. /\ nand' = nand /\ RPlan' # <<>> /\ RAt' = 0
      /\ \A k \in 1..Len(RPlan') : nand[RPlan'[k].block] = RPlan'[k].before
      => PromiseKept
  BY DEF Promises!Begin
<1>3. /\ PlanSame /\ RAt < Len(RPlan) /\ FollowsTo(nand, RPlan, RAt)
      /\ \E c \in Contents : nand' = [nand EXCEPT ![RPlan[RAt + 1].block] = c]
      => PromiseKept
  BY DEF Promises!Touch, Promises!OnPlan, FollowsTo, PlanSame
<1>4. /\ nand' = nand /\ RPlan' = RPlan /\ RAt' = RAt + 1 /\ RAt < Len(RPlan)
      /\ FollowsTo(nand, RPlan, RAt) /\ nand[RPlan[RAt + 1].block] = RPlan[RAt + 1].after
      => PromiseKept
  BY DEF Promises!Complete, Promises!OnPlan, FollowsTo
<1>5. nand' = nand /\ RPlan' = <<>> /\ RAt' = 0 => PromiseKept
  BY DEF Promises!Forget
<1>6. nand' = nand /\ RPlan' = RPlan /\ RAt > 0 /\ RAt' = RAt - 1 => PromiseKept
  BY DEF Promises!Forget
<1>7. /\ PlanSame
      /\ \E b \in UserData :
           /\ nand[b].is # "torn"
           /\ nand' = [nand EXCEPT ![b] = [is |-> nand'[b].is, n |-> nand[b].n + 1]]
      => PromiseKept
  BY DEF Promises!UseData, PlanSame
<1> QED
  BY <1>1, <1>2, <1>3, <1>4, <1>5, <1>6, <1>7

-----------------------------------------------------------------------------
\* What the journals say of the plan, before and after a step.

Planned(P) == \A i \in 1..Len(P) : P[i].changes # <<>>

LEMMA JournalsOwn ==
  ASSUME NEW J, NEW P, NEW src, JournalsOK(J, P, src), NEW s \in ValidIn(J)
  PROVE  Own(J, J[s].owner)
<1>1. \A t \in ValidIn(J) : J[t].owner = J[s].owner
  <2>1. ASSUME NEW t \in ValidIn(J)
        PROVE  J[t].owner = J[s].owner
    <3>1. CASE t = s
      BY <3>1
    <3>2. CASE t # s
      <4>1. ValidIn(J) = {0, 1} /\ s \in {0, 1} /\ t \in {0, 1}
        BY <3>2, ValidSides
      <4>2. J[0].owner = J[1].owner
        BY <4>1 DEF JournalsOK
      <4> QED
        BY <4>1, <4>2
    <3> QED
      BY <3>1, <3>2
  <2> QED
    BY <2>1
<1> QED
  BY <1>1 DEF Own

\* The plan of journals that are one job's.
LEMMA PlanOwned ==
  ASSUME NEW m, NEW J \in [{0, 1} -> Copy(m)], NEW P, NEW src, JournalsOK(J, P, src),
         Planned(P), NEW o, o # 0, o \in 1..Len(P), Own(J, o)
  PROVE  /\ PlanIn(J, P) = P[o].changes /\ PlanIn(J, P) # <<>>
         /\ AtIn(J, P) = NewestOf(J).index /\ NewestOf(J).index \in Nat
         /\ \A s \in ValidIn(J) : J[s] = NewestOf(J) \/ Succeeds(J[s], NewestOf(J))
<1>1. /\ NewestOf(J).owner = o /\ NewestOf(J).index \in Nat
      /\ \A s \in ValidIn(J) : J[s] = NewestOf(J) \/ Succeeds(J[s], NewestOf(J))
  BY NewestFacts
<1>2. ValidIn(J) # {} /\ P[o].changes # <<>>
  BY DEF Own, Planned
<1> QED
  BY <1>1, <1>2 DEF PlanIn, AtIn

\* Journals that lost a copy record the plan as far as before, one change less,
\* or no longer.
LEMMA PlanLess ==
  ASSUME NEW m, NEW J \in [{0, 1} -> Copy(m)], NEW K \in [{0, 1} -> Copy(m)], Less(K, J),
         NEW P, NEW src, JournalsOK(J, P, src), Planned(P)
  PROVE  \/ PlanIn(K, P) = PlanIn(J, P) /\ AtIn(K, P) = AtIn(J, P)
         \/ PlanIn(K, P) = <<>> /\ AtIn(K, P) = 0
         \/ PlanIn(K, P) = PlanIn(J, P) /\ AtIn(J, P) > 0 /\ AtIn(K, P) = AtIn(J, P) - 1
<1> DEFINE t == NewestIn(K)
           y == NewestOf(K)
           x == NewestOf(J)
<1>1. CASE ValidIn(K) = {} \/ y.owner = 0
  BY <1>1 DEF PlanIn, AtIn
<1>2. CASE ValidIn(K) # {} /\ y.owner # 0
  <2>1. JournalsOK(K, P, src)
    BY JournalsLess
  <2>2. t \in ValidIn(K) /\ y = K[t]
    BY <1>2, NewestPick DEF NewestOf
  <2> HIDE DEF t
  <2>3. t \in ValidIn(J) /\ y = J[t]
    BY <2>2 DEF Less
  <2> HIDE DEF x, y
  <2>4. Own(K, y.owner) /\ Own(J, y.owner)
    BY <2>1, <2>2, <2>3, JournalsOwn
  <2>5. y.owner \in 1..Len(P)
    <3>1. RecordOK(y, P, src)
      BY <2>3 DEF JournalsOK
    <3> QED
      BY <3>1, <1>2 DEF RecordOK
  <2>6. /\ PlanIn(K, P) = P[y.owner].changes /\ AtIn(K, P) = y.index /\ y.index \in Nat
    BY <1>2, <2>1, <2>4, <2>5, PlanOwned DEF y
  <2>7. /\ PlanIn(J, P) = P[y.owner].changes /\ AtIn(J, P) = x.index /\ x.index \in Nat
        /\ \A s \in ValidIn(J) : J[s] = x \/ Succeeds(J[s], x)
    BY <1>2, <2>4, <2>5, PlanOwned DEF x
  <2>8. y = x \/ Succeeds(y, x)
    BY <2>3, <2>7
  <2>9. CASE y = x
    BY <2>6, <2>7, <2>9
  <2>10. CASE Succeeds(y, x) /\ x.pending
    <3>1. x.index = y.index
      BY <2>10 DEF Succeeds
    <3> QED
      BY <2>6, <2>7, <3>1
  <2>11. CASE Succeeds(y, x) /\ ~x.pending
    <3>1. x.index = y.index + 1
      BY <2>11 DEF Succeeds
    <3>2. x.index > 0 /\ y.index = x.index - 1
      BY <2>6, <2>7, <3>1
    <3> QED
      BY <2>6, <2>7, <3>2
  <2> QED
    BY <2>8, <2>9, <2>10, <2>11
<1> QED
  BY <1>1, <1>2

LEMMA PlansPlanned ==
  ASSUME IInv
  PROVE  Planned(plans)
<1>1. ASSUME NEW j \in Jobs
      PROVE  plans[j].changes # <<>>
  <2>1. PlanOK(plans[j], source, sessions[j].action)
    BY JobFacts DEF IInv
  <2> QED
    BY <2>1 DEF PlanOK
<1> QED
  BY <1>1 DEF Planned, Jobs

\* A copy of the journals is lost, or erased for what comes next.
LEMMA LostPromise ==
  ASSUME IInv, nand' = nand, plans' = plans, Less(journal', journal),
         journal' \in [{0, 1} -> Copy(Len(plans))]
  PROVE  PromiseKept
<1>1. journal \in [{0, 1} -> Copy(Len(plans))] /\ JournalsOK(journal, plans, source)
  BY DEF IInv, TypeInv, FlashInv
<1>2. Planned(plans)
  BY PlansPlanned
<1>3. \/ PlanIn(journal', plans) = PlanIn(journal, plans) /\ AtIn(journal', plans) = AtIn(journal, plans)
      \/ PlanIn(journal', plans) = <<>> /\ AtIn(journal', plans) = 0
      \/ /\ PlanIn(journal', plans) = PlanIn(journal, plans) /\ AtIn(journal, plans) > 0
         /\ AtIn(journal', plans) = AtIn(journal, plans) - 1
  BY <1>1, <1>2, PlanLess
<1>4. \/ RPlan' = RPlan /\ RAt' = RAt
      \/ RPlan' = <<>> /\ RAt' = 0
      \/ RPlan' = RPlan /\ RAt > 0 /\ RAt' = RAt - 1
  <2>1. /\ RPlan' = PlanIn(journal', plans) /\ RAt' = AtIn(journal', plans)
        /\ RPlan = PlanIn(journal, plans) /\ RAt = AtIn(journal, plans)
    BY DEF RPlan, RAt
  <2> QED
    BY <1>3, <2>1, Zenon
<1> QED
  BY <1>4, PromiseSteps DEF PlanSame

\* Neither the flash nor the journals change.
LEMMA QuietPromise ==
  ASSUME nand' = nand, journal' = journal, plans' = plans
  PROVE  PromiseKept
<1>1. PlanSame
  BY DEF PlanSame, RPlan, RAt
<1> QED
  BY <1>1, PromiseSteps

\* Where the executor stands is what the journals record.
LEMMA PlacePromise ==
  ASSUME IInv, NEW p, NEW o, RunningOn(p, o), NEW i, NEW open, StandsOn(nand, journal, p, o, i, open)
  PROVE  RPlan = p.changes /\ RAt = i /\ FollowsTo(nand, p.changes, i)
<1>1. /\ journal \in [{0, 1} -> Copy(Len(plans))] /\ JournalsOK(journal, plans, source)
      /\ Owns(plans, p, o)
  BY DEF RunningOn
<1>2. /\ ValidIn(journal) # {} /\ \A s \in ValidIn(journal) : journal[s].owner = o
      /\ Upto(nand, p.initial, p.changes, NewestOf(journal).index, NewestOf(journal).pending)
      /\ NewestOf(journal).index = i
  BY DEF StandsOn, GoingOn
<1>3. Own(journal, o) /\ o # 0 /\ o \in 1..Len(plans) /\ plans[o].changes = p.changes
  BY <1>1, <1>2 DEF Own, Owns
<1>4. PlanIn(journal, plans) = p.changes /\ AtIn(journal, plans) = i
  BY <1>1, <1>2, <1>3, PlansPlanned, PlanOwned
<1>5. FollowsTo(nand, p.changes, i)
  BY <1>2 DEF Upto, FollowsTo
<1> QED
  BY <1>4, <1>5 DEF RPlan, RAt

\* What the journals record once they are K.
LEMMA NextRecorded ==
  ASSUME IInv, NEW p, NEW o, RunningOn(p, o), plans' = plans,
         journal' \in [{0, 1} -> Copy(Len(plans))], JournalsOK(journal', plans, source),
         Own(journal', o)
  PROVE  /\ RPlan' = p.changes /\ RPlan' # <<>> /\ RAt' = NewestOf(journal').index
         /\ NewestIn(journal') \in ValidIn(journal')
<1>1. Owns(plans, p, o)
  BY DEF RunningOn
<1>2. o # 0 /\ o \in 1..Len(plans) /\ plans[o].changes = p.changes
  BY <1>1 DEF Owns
<1>3. /\ PlanIn(journal', plans) = p.changes /\ PlanIn(journal', plans) # <<>>
      /\ AtIn(journal', plans) = NewestOf(journal').index
  BY <1>2, PlansPlanned, PlanOwned
<1>4. RPlan' = PlanIn(journal', plans) /\ RAt' = AtIn(journal', plans)
  BY DEF RPlan, RAt
<1>5. NewestIn(journal') \in ValidIn(journal')
  BY NewestPick DEF Own
<1> QED
  BY <1>3, <1>4, <1>5

LEMMA ErasePromise ==
  ASSUME IInv, HostSame, ClearJournals \/ RetireJournals
  PROVE  PromiseKept
<1>1. PICK s \in {0, 1} : Erased(s) /\ pc # "idle"
  BY DEF ClearJournals, RetireJournals, EraseJournal, Erased, HostSame
<1>2. journal' \in [{0, 1} -> Copy(Len(plans))] /\ Less(journal', journal)
  BY <1>1, ErasedCopy
<1> QED
  BY <1>1, <1>2, LostPromise DEF Erased, HostSame

LEMMA SavePromise ==
  ASSUME IInv, HostSame, pc # "idle", nand' = nand, NEW i, NEW open, Save(i, open), ValidIn(journal) # {}
  PROVE  PromiseKept
<1> DEFINE y == NoRecord("blank")
           s == 1 - NewestIn(journal)
<1>1. journal \in [{0, 1} -> Copy(Len(plans))] /\ Len(plans) \in Nat
  BY Running DEF RunningOn
<1>2. y \in Copy(Len(plans)) /\ y.is # "ok"
  BY <1>1, NoRecords3
<1>3. journal' = [journal EXCEPT ![s] = y] /\ plans' = plans
  BY StateOps DEF Save, HostSame
<1>4. s \in {0, 1}
  <2>1. NewestIn(journal) \in {0, 1}
    BY <1>1, NewestPick
  <2> QED
    BY <2>1
<1> HIDE DEF y, s
<1>5. Loses(journal, Len(plans), s, y, journal')
  BY <1>1, <1>2, <1>3, <1>4 DEF Loses
<1>6. journal' \in [{0, 1} -> Copy(Len(plans))] /\ Less(journal', journal)
  BY <1>5, AnyLost, Zenon
<1> QED
  BY <1>3, <1>6, LostPromise

LEMMA ProgramCopyPromise ==
  ASSUME IInv, HostSame, ProgramCopy
  PROVE  PromiseKept
<1> DEFINE p == plans[job]
           o == OwnerIn(plans, job)
           L == Len(plans)
<1>1. /\ pc = "saving" /\ pc # "idle" /\ nand' = nand
      /\ journal' = [journal EXCEPT ![slot] = record] /\ plans' = plans
  BY DEF ProgramCopy
<1>2. RunningOn(p, o)
  BY <1>1, Running
<1>3. /\ EngineOn(nand, journal, p, o, kind) /\ journal \in [{0, 1} -> Copy(L)]
      /\ JournalsOK(journal, plans, source) /\ Runs(p, Bound) /\ Owns(plans, p, o)
      /\ record \in Copy(L) /\ slot \in {0, 1} /\ pos \in Nat
  BY <1>2 DEF RunningOn
<1>4. /\ record.gen = 1 => FirstOn(nand, journal, p, o, record, slot)
      /\ record.gen # 1 => SaveOn(nand, journal, p, o, record, slot, pos)
  BY <1>1, <1>3 DEF EngineOn
<1> HIDE DEF p, o
<1>5. Programs(journal, L, plans, source, p, Bound, o, record, slot, journal')
  BY <1>1, <1>3 DEF Programs
<1>6. CASE record.gen = 1
  <2>1. FirstOn(nand, journal, p, o, record, slot)
    BY <1>4, <1>6
  <2>2. /\ journal' \in [{0, 1} -> Copy(L)] /\ JournalsOK(journal', plans, source)
        /\ FreshOn(nand, journal', p, o) /\ Own(journal', o)
    BY <1>3, <1>5, <2>1, FirstProgrammed
  <2>3. /\ RPlan' = p.changes /\ RPlan' # <<>> /\ RAt' = NewestOf(journal').index
        /\ NewestIn(journal') \in ValidIn(journal')
    BY <1>1, <1>2, <2>2, NextRecorded
  <2>4. RAt' = 0
    BY <2>2, <2>3 DEF FreshOn, Own, NewestOf
  <2>5. \A k \in 1..Len(p.changes) : nand[p.changes[k].block] = p.changes[k].before
    BY <1>3, <2>2 DEF FreshOn, Runs, ChangeList
  <2> QED
    BY <1>1, <2>3, <2>4, <2>5, PromiseSteps
<1>7. CASE record.gen # 1
  <2>1. SaveOn(nand, journal, p, o, record, slot, pos)
    BY <1>4, <1>7
  <2>2. SavedOn(journal', L, plans, source, p, o, nand, record, pos)
    BY <1>3, <1>5, <2>1, SaveProgram, Zenon
  <2>3. /\ journal' \in [{0, 1} -> Copy(L)] /\ JournalsOK(journal', plans, source)
        /\ GoingOn(nand, journal', p, o) /\ NewestOf(journal') = record
        /\ record.pending => record.index = pos
        /\ ~record.pending => record.index = pos + 1
    BY <2>2 DEF SavedOn
  <2>4. Own(journal', o)
    BY <2>3 DEF GoingOn, Own
  <2>5. RPlan' = p.changes /\ RAt' = record.index
    BY <1>1, <1>2, <2>3, <2>4, NextRecorded
  <2>6. RPlan = p.changes /\ RAt = pos /\ FollowsTo(nand, p.changes, pos)
    <3>1. StandsOn(nand, journal, p, o, pos, ~record.pending)
      BY <2>1 DEF SaveOn
    <3> QED
      BY <1>2, <3>1, PlacePromise
  <2>7. CASE record.pending
    <3>1. PlanSame
      BY <2>3, <2>5, <2>6, <2>7 DEF PlanSame
    <3> QED
      BY <1>1, <3>1, PromiseSteps
  <2>8. CASE ~record.pending
    <3>1. pos < Len(p.changes) /\ nand[p.changes[pos + 1].block] = p.changes[pos + 1].after
      BY <2>1, <2>8 DEF SaveOn
    <3>2. /\ RPlan' = RPlan /\ RAt' = RAt + 1 /\ RAt < Len(RPlan) /\ FollowsTo(nand, RPlan, RAt)
          /\ nand[RPlan[RAt + 1].block] = RPlan[RAt + 1].after
      BY <2>3, <2>5, <2>6, <2>8, <3>1
    <3> QED
      BY <1>1, <3>2, PromiseSteps
  <2> QED
    BY <2>7, <2>8
<1> QED
  BY <1>6, <1>7

\* The open block is erased, programmed or left half done.
LEMMA TouchPromise ==
  ASSUME IInv, pc # "idle", pc \in {"write", "program"}, journal' = journal, plans' = plans,
         nand' \in [Block -> Contents], NEW c, nand' = [nand EXCEPT ![Current.block] = c]
  PROVE  PromiseKept
<1> DEFINE p == plans[job]
           o == OwnerIn(plans, job)
<1>1. RunningOn(p, o)
  BY Running
<1>2. WriteOn(nand, journal, p, o, pos)
  BY <1>1 DEF RunningOn, EngineOn
<1>3. Current = p.changes[pos + 1] /\ Current.block \in Block
  BY <1>1, <1>2, CurrentTyped
<1>4. RPlan = p.changes /\ RAt = pos /\ FollowsTo(nand, p.changes, pos) /\ pos < Len(p.changes)
  BY <1>1, <1>2, PlacePromise DEF WriteOn
<1>5. PlanSame
  BY DEF PlanSame, RPlan, RAt
<1>6. nand \in [Block -> Content(Bound)]
  BY <1>1 DEF RunningOn
<1>7. c \in Contents
  <2>1. nand'[Current.block] = c
    BY <1>3, <1>6
  <2> QED
    BY <1>3, <2>1
<1>8. nand' = [nand EXCEPT ![RPlan[RAt + 1].block] = c]
  BY <1>3, <1>4
<1> QED
  BY <1>4, <1>5, <1>7, <1>8, PromiseSteps

LEMMA ExecutePromise ==
  ASSUME IInv, Step, nand' \in [Block -> Contents]
  PROVE  PromiseKept
<1> DEFINE p == plans[job]
           o == OwnerIn(plans, job)
<1>1. HostSame
  BY DEF Step, Execute, host, HostSame, ClearJournals, RetireJournals, EraseJournal, Prepare,
         ProgramCopy, Begin, Check, WriteBlock, ProgramBlock, Advance, Final, Refuse
<1>2. plans' = plans
  BY <1>1 DEF HostSame
<1>3. CASE ClearJournals \/ RetireJournals
  BY <1>1, <1>3, ErasePromise
<1>4. CASE Prepare \/ Begin \/ Final
  BY <1>2, <1>4, QuietPromise DEF Prepare, Begin, Final
<1>5. CASE ProgramCopy
  BY <1>1, <1>5, ProgramCopyPromise
<1>6. CASE Check
  <2>1. pc # "idle" /\ pc = "check" /\ nand' = nand
    BY <1>6 DEF Check
  <2>2. CASE journal' = journal
    BY <1>2, <2>1, <2>2, QuietPromise
  <2>3. CASE Save(pos, TRUE)
    <3>1. RunningOn(p, o)
      BY <2>1, Running
    <3>2. ValidIn(journal) # {}
      BY <2>1, <3>1 DEF RunningOn, EngineOn, StandsOn, GoingOn
    <3> QED
      BY <1>1, <2>1, <2>3, <3>2, SavePromise
  <2> QED
    BY <1>6, <2>2, <2>3 DEF Check
<1>7. CASE WriteBlock
  <2>1. pc = "write" /\ pc # "idle" /\ journal' = journal
    BY <1>7 DEF WriteBlock
  <2>2. CASE nand' = nand
    BY <1>2, <2>1, <2>2, QuietPromise
  <2>3. CASE nand' = [nand EXCEPT ![Current.block] = Blank]
    BY <1>2, <2>1, <2>3, TouchPromise
  <2> QED
    BY <1>7, <2>2, <2>3 DEF WriteBlock
<1>8. CASE ProgramBlock
  <2>1. /\ pc = "program" /\ pc # "idle" /\ journal' = journal
        /\ nand' = [nand EXCEPT ![Current.block] = Current.after]
    BY <1>8 DEF ProgramBlock
  <2> QED
    BY <1>2, <2>1, TouchPromise
<1>9. CASE Advance
  <2>1. pc # "idle" /\ pc = "advance" /\ nand' = nand /\ Save(pos + 1, FALSE)
    BY <1>9 DEF Advance
  <2>2. RunningOn(p, o)
    BY <2>1, Running
  <2>3. ValidIn(journal) # {}
    BY <2>1, <2>2 DEF RunningOn, EngineOn, WriteOn, StandsOn, GoingOn
  <2> QED
    BY <1>1, <2>1, <2>3, SavePromise
<1> QED
  BY <1>3, <1>4, <1>5, <1>6, <1>7, <1>8, <1>9 DEF Step, Execute

LEMMA InterruptPromise ==
  ASSUME IInv, Interrupt, nand' \in [Block -> Contents]
  PROVE  PromiseKept
<1>1. CASE pc = "idle" /\ UNCHANGED <<kind, nand, journal, plans, engine>>
  BY <1>1, QuietPromise
<1>2. CASE Stop
  <2>1. pc # "idle" /\ plans' = plans
    BY <1>2 DEF Stop
  <2>2. CASE UNCHANGED flash
    BY <2>1, <2>2, QuietPromise DEF flash
  <2>3. ASSUME NEW s \in TornCopy, journal' = [journal EXCEPT ![s] = NoRecord("torn")], nand' = nand
        PROVE  PromiseKept
    <3> DEFINE y == NoRecord("torn")
    <3>1. /\ journal \in [{0, 1} -> Copy(Len(plans))] /\ Len(plans) \in Nat /\ slot \in {0, 1}
      BY <2>1, Running DEF RunningOn
    <3>2. s \in {0, 1}
      BY <3>1 DEF TornCopy
    <3>3. y \in Copy(Len(plans)) /\ y.is # "ok" /\ journal' = [journal EXCEPT ![s] = y]
      BY <2>3, <3>1, NoRecords3
    <3> HIDE DEF y
    <3>4. Loses(journal, Len(plans), s, y, journal')
      BY <3>1, <3>2, <3>3 DEF Loses
    <3>5. journal' \in [{0, 1} -> Copy(Len(plans))] /\ Less(journal', journal)
      BY <3>4, AnyLost, Zenon
    <3> QED
      BY <2>1, <2>3, <3>5, LostPromise
  <2>4. ASSUME NEW c \in TornBlock, nand' = [nand EXCEPT ![Current.block] = c], journal' = journal
        PROVE  PromiseKept
    <3>1. pc \in {"write", "program"}
      BY DEF TornBlock
    <3> QED
      BY <2>1, <2>4, <3>1, TouchPromise
  <2> QED
    BY <1>2, <2>2, <2>3, <2>4 DEF Stop
<1> QED
  BY <1>1, <1>2 DEF Interrupt

\* What is used is whole: it is a file system of the system that boots.
LEMMA UsedWhole ==
  ASSUME NEW src, NEW n, GoodIn(src, n), NEW b \in UserData, Boot(n) \in {"dual", "stock", "legacy"}
  PROVE  n[b].is # "torn"
<1>1. b \in {"fs", "apps"}
  BY BlockParts
<1>2. CASE Routed(n)
  BY <1>1, <1>2 DEF Routed
<1>3. ASSUME NEW S \in {"stock", "legacy"}, OldBoots(n, S)
      PROVE  n[b].is # "torn"
  BY <1>3 DEF OldBoots, SysOf
<1>4. CASE LoaderWhole(n)
  <2>1. LoaderBoots(n)
    BY <1>4, LoaderBootsWhole
  <2>2. DualData(n)
    BY <1>4, <2>1, CommittedRecord DEF LoaderWhole, NoBadData, LoaderBoots, Of
  <2> QED
    BY <1>1, <2>2 DEF DualData
<1> QED
  BY <1>2, <1>3, <1>4 DEF GoodIn, Whole

LEMMA UsePromise ==
  ASSUME IInv, NEW b \in UserData, Use(b)
  PROVE  PromiseKept
<1>1. GoodIn(source, nand) /\ nand \in [Block -> Content(Bound)]
  BY DEF IInv, TypeInv, FlashInv
<1>2. b \in Block
  BY BlockSet, BlockParts
<1>3. PlanSame
  BY DEF Use, PlanSame, RPlan, RAt
<1>4. nand[b].is # "torn"
  <2>1. Boot(nand) \in {"dual", "stock", "legacy"}
    BY DEF Use
  <2> QED
    BY <1>1, <2>1, UsedWhole
<1>5. PICK x : nand' = [nand EXCEPT ![b] = Of(x, nand[b].n + 1)]
  BY DEF Use
<1>6. nand'[b] = Of(x, nand[b].n + 1)
  BY <1>1, <1>2, <1>5
<1>7. nand'[b].is = x
  BY <1>6 DEF Of
<1>8. nand' = [nand EXCEPT ![b] = [is |-> nand'[b].is, n |-> nand[b].n + 1]]
  BY <1>5, <1>7 DEF Of
<1> QED
  BY <1>3, <1>4, <1>8, PromiseSteps

\* A review changes nothing on the board, nor what its journals speak of.
LEMMA ReviewPromise ==
  ASSUME IInv, NEW action, Review(action)
  PROVE  PromiseKept
<1>1. /\ nand' = nand /\ journal' = journal /\ plans' = Append(plans, Reviewed(action))
  BY DEF Review
<1>2. /\ plans \in Seq(ReviewType(Bound, Len(plans))) /\ JournalsOK(journal, plans, source)
      /\ journal \in [{0, 1} -> Copy(Len(plans))]
  BY DEF IInv, TypeInv, FlashInv
<1>3. PlanIn(journal, plans') = PlanIn(journal, plans)
  <2>1. CASE ValidIn(journal) = {} \/ NewestOf(journal).owner = 0
    BY <2>1 DEF PlanIn
  <2>2. CASE ValidIn(journal) # {} /\ NewestOf(journal).owner # 0
    <3>1. NewestIn(journal) \in ValidIn(journal)
      BY <1>2, <2>2, NewestPick
    <3>2. RecordOK(NewestOf(journal), plans, source)
      BY <1>2, <3>1 DEF JournalsOK, NewestOf
    <3>3. NewestOf(journal).owner \in 1..Len(plans)
      BY <2>2, <3>2 DEF RecordOK
    <3>4. plans'[NewestOf(journal).owner] = plans[NewestOf(journal).owner]
      BY <1>1, <1>2, <3>3
    <3> QED
      BY <3>4 DEF PlanIn
  <2> QED
    BY <2>1, <2>2
<1>4. AtIn(journal, plans') = AtIn(journal, plans)
  BY <1>3 DEF AtIn
<1>5. PlanSame
  BY <1>1, <1>3, <1>4 DEF PlanSame, RPlan, RAt
<1> QED
  BY <1>1, <1>5, PromiseSteps

LEMMA HostPromise ==
  ASSUME \/ \E j \in Jobs : Approve(j) \/ Resume(j)
         \/ MakeDirectory \/ Launch \/ Snapshot \/ Qualify \/ Refused
         \/ \E j \in Jobs, os \in {"lefony", "hp"} : Confirm(j, os)
         \/ UNCHANGED vars
  PROVE  PromiseKept
<1>1. nand' = nand /\ journal' = journal /\ plans' = plans
  BY DEF Approve, Resume, Start, MakeDirectory, Launch, Snapshot, Qualify, Refused, Confirm, vars
<1> QED
  BY <1>1, QuietPromise

\* Through every step of the companion, the executor, a fault and the owner of
\* the calculator, the board keeps the promise made of it: a reviewed plan is
\* applied change by change, in its order, one open block at a time and only
\* while the rest of the board is exactly where the plan has it; a lost journal
\* copy costs at most the record of the last change, and losing both the plan.
THEOREM DualKeepsPromise == Spec => ImplementsPromise
<1>1. Init => Promises!Start
  <2> SUFFICES ASSUME Init
               PROVE  Promises!Start
    OBVIOUS
  <2>1. nand \in [Block -> Contents]
    BY InitHolds, TypeFollows DEF TypeOK
  <2>2. RPlan = <<>>
    <3>1. ASSUME NEW s \in ValidIn(journal)
          PROVE  journal[s].owner = 0
      BY DEF Init, ValidIn, Record, NoRecord
    <3>2. journal \in [{0, 1} -> Copy(Len(plans))]
      BY InitHolds DEF IInv, TypeInv
    <3>3. ValidIn(journal) # {} => NewestOf(journal).owner = 0
      BY <3>1, <3>2, NewestPick DEF NewestOf
    <3> QED
      BY <3>3 DEF RPlan, PlanIn
  <2>3. RAt = 0
    BY <2>2 DEF RAt, AtIn, RPlan
  <2> QED
    BY <2>1, <2>2, <2>3, RecordedIs DEF Promises!Start
<1>2. IInv /\ IInv' /\ [Next]_vars => [Promises!Keep]_(Promises!promise)
  <2> SUFFICES ASSUME IInv, IInv', [Next]_vars
               PROVE  PromiseKept
    BY DEF PromiseKept
  <2>1. nand' \in [Block -> Contents]
    <3>1. TypeOK'
      BY TypeFollows, PTL
    <3> QED
      BY <3>1 DEF TypeOK
  <2> QED
    BY <2>1, ReviewPromise, ExecutePromise, InterruptPromise, UsePromise, HostPromise DEF Next
<1>3. IInv /\ [Next]_vars => IInv'
  BY NextHolds, StutterHolds
<1> QED
  BY <1>1, <1>2, DualHolds, PTL DEF Spec, ImplementsPromise, Promises!Promise
=============================================================================
