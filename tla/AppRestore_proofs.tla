-------------------------- MODULE AppRestore_proofs --------------------------
(***************************************************************************)
(* Theorems about AppRestore: the volume stays what AppVolume_proofs shows *)
(* of it, and keeps the promise of AppStore, while archives are restored   *)
(* over it - for any archives, any number of restores, and whatever        *)
(* abandons, fails or interrupts them.                                     *)
(*                                                                         *)
(* A restore has the volume for itself from its first step to its last, so *)
(* the invariant of the volume need not hold meanwhile; it is enough that  *)
(* nobody else is at work, that what is written and removed is younger     *)
(* than the root, and that what is published has been read back.           *)
(***************************************************************************)
EXTENDS AppRestore, AppVolume_proofs, FiniteSetTheorems, WellFoundedInduction

(***************************************************************************)
(* The inductive invariant                                                 *)
(***************************************************************************)
Restores ==
  [phase : {"idle", "directory", "package", "content", "ready", "publish", "cleanup"},
   pairs : Seq(ArchivedPair), high : Nat, old : Seq(Exts), new : Seq(Conts),
   staged : SUBSET Name, madeDir : BOOLEAN, publisher : BOOLEAN]

\* Nobody but a restore is at work: no reader, no writer, no installation.
Calm ==
  /\ objects \in [Name -> Conts] /\ dir \in BOOLEAN
  /\ root \in Roots /\ pending \in Roots
  /\ faults \in 0..MaxFaults /\ job \in Jobs /\ scan = {} /\ readers = NoReaders
  /\ vol \in {"ready", "off"} /\ user \in {"none", "doc", "init"}
  /\ vol = "off" => user = "none"
  /\ file = NoFile /\ plain \in Plains /\ plain.phase = "none"
  /\ RootOk(root) /\ RootWhole /\ RootMeans(root)

\* The archive was accepted over the root there is.
Taken ==
  /\ Len(restore.pairs) \in 1..2
  /\ \A k \in DOMAIN restore.pairs : /\ restore.pairs[k].pkg <= restore.high
                                     /\ Len(restore.pairs[k].file) <= MaxChunks
  /\ Len(restore.pairs) = 2 => restore.pairs[2].pkg < restore.pairs[1].pkg
  /\ root.serial + Len(restore.pairs) <= MaxSerial
  /\ restore.high \in Version /\ restore.high >= InstalledHigh
  /\ \/ root = NoRoot
     \/ restore.pairs[1].pkg = root.cur.pkg
     \/ restore.pairs[1].pkg > InstalledHigh

\* An index that holds what an archived pair holds, so far, in objects of
\* generation g or older.
Built(x, pair, g) ==
  /\ x \in Conts /\ x = Index(x.priv, x.file)
  /\ Len(x.priv) <= 1 /\ (x.priv = <<>> => x.file = <<>>)
  /\ Len(x.file) <= Len(pair.file)
  /\ \A i \in DOMAIN x.priv : /\ x.priv[i].obj \in Upto(g) /\ x.priv[i].obj.type # "p"
                              /\ x.priv[i].val = pair.priv
  /\ \A i \in DOMAIN x.file : /\ x.file[i].obj \in Upto(g) /\ x.file[i].obj.type = "c"
                              /\ x.file[i].val = pair.file[i]

Complete(x, pair) == Len(x.priv) = 1 /\ Len(x.file) = Len(pair.file)

\* Extents of chunks and byte stores of generation g or older.
From(exts, g) == \A i \in DOMAIN exts : exts[i].obj \in Upto(g) /\ exts[i].obj.type # "p"

Placement ==
  /\ Number \in 1..Len(restore.pairs)
  /\ From(restore.old, root.serial)
  /\ \A k \in 1..Number :
       /\ Built(restore.new[k], restore.pairs[k], root.serial + k)
       /\ k < Number \/ restore.phase \in {"ready", "publish"} =>
            Complete(restore.new[k], restore.pairs[k])
  /\ restore.phase = "package" => NewIndex = Index(<<>>, <<>>)
  /\ restore.phase \in {"ready", "publish"} => Number = Len(restore.pairs)

\* What a cleanup will remove, and which chunks of the pair being staged there are.
StagedChunks(g) == {n \in restore.staged : n.type = "c" /\ n.gen = g}

Leftovers ==
  /\ IsFiniteSet(restore.staged)
  /\ \A n \in restore.staged : n.gen > root.serial
  /\ restore.phase \in {"package", "content"} =>
       \A n \in restore.staged : n.gen <= Generation
  /\ restore.phase = "directory" => restore.staged = {}
  /\ restore.phase = "package" => StagedChunks(Generation) = {}
  /\ restore.phase = "content" => Cardinality(StagedChunks(Generation)) <= Len(Placed)

\* The engine has the staged root: what that names is read back before it is
\* written, and it is read back before it is renamed.
Publishing ==
  /\ phase \in {"checkStaged", "rootWrite", "rootVerify", "commit"}
  /\ job = Job(root, RestoredRoot, FALSE, FALSE, FALSE, FALSE)
  /\ phase # "checkStaged" =>
       \A need \in NeedsOf(RestoredRoot) : Intact(need.obj, need.content)
  /\ phase = "commit" => pending = RestoredRoot

HighKnown == root.kind = "doc" => root.high \in Version

RestoreInv ==
  /\ restore \in Restores /\ HighKnown
  /\ restore.phase = "idle" => StepInv
  /\ restore.phase # "idle" => Calm /\ Taken /\ Leftovers
  /\ restore.phase \in {"package", "content", "ready", "publish"} => Placement
  /\ restore.phase \notin {"idle", "publish"} => ~Busy
  /\ restore.phase = "publish" => Publishing

(***************************************************************************)
(* The volume around a restore                                             *)
(***************************************************************************)
\* A volume that is calm satisfies its invariant as soon as the engine rests.
LEMMA CalmRests == Calm /\ ~Busy => StepInv
<1> SUFFICES ASSUME Calm, ~Busy
             PROVE  StepInv
  OBVIOUS
<1>1. phase \in {"idle", "done", "failed"} /\ scan = {}
  BY DEF Busy, Calm
<1>2. Stored
  BY <1>1, NoReadersOk DEF Calm, Stored, Phases
<1>3. Flags /\ Verified /\ Swept
  BY <1>1 DEF Flags, Verified, Swept, Busy, Early, Late
<1>4. Snapshots /\ ~HasSnapshots
  BY NoReadersOk DEF Calm, Snapshots, Held, HasSnapshots
<1>5. Core
  BY <1>3, <1>4 DEF Core, Calm
<1>6. Owned
  BY NoFileTyped DEF Owned, Calm
<1>7. Control /\ Writer
  BY <1>1, NoFileTyped DEF Control, Writer, Building, Calm
<1>8. StepMeans
  BY NoFileTyped DEF StepMeans, PlainMeans, JobMeans, WriterMeans, Building, Calm
<1> QED BY <1>2, <1>5, <1>6, <1>7, <1>8 DEF StepInv, VolumeInv

LEMMA CalmRestsNext == Calm' /\ ~Busy' => StepInv'
BY CalmRests, PTL

\* Restore::begin finds a volume that is calm.
LEMMA FoundCalm ==
  ASSUME StepInv, DocumentReady, ~HasSnapshots
  PROVE  Calm /\ ~Busy
<1>1. ~Busy /\ plain.phase = "none" /\ file = NoFile /\ vol = "ready"
  BY ReadyDocument DEF StepInv
<1>2. Stored /\ Owned /\ Core
  BY DEF StepInv, VolumeInv
<1>3. readers = NoReaders
  BY <1>2 DEF HasSnapshots, Stored, NoReaders
<1>4. scan = {}
  BY <1>1, <1>2 DEF Core, Flags, Busy
<1>5. user \in {"none", "doc", "init"}
  BY <1>2 DEF Owned, DocumentReady
<1> QED BY <1>1, <1>2, <1>3, <1>4, <1>5 DEF Calm, Stored, Owned, Core, StepInv, StepMeans

\* What may happen while the volume is calm: objects younger than the root
\* change, and any may rot.
LEMMA CalmStays ==
  ASSUME Calm, UNCHANGED <<root, readers, vol, user, file, plain>>,
         dir' \in BOOLEAN, pending' \in Roots, faults' \in 0..MaxFaults,
         job' \in Jobs, scan' = {}, objects' \in [Name -> Conts],
         \A n \in Upto(root.serial) : Stays(n)
  PROVE  Calm'
<1>1. ASSUME NEW need \in NeedsOf(root)
      PROVE  Intact(need.obj, need.content)'
  <2>1. Intact(need.obj, need.content) /\ need.obj \in Upto(root.serial)
    BY NamedIntact DEF Calm, RootWhole
  <2> QED BY <2>1, IntactStays
<1>2. RootWhole'
  BY <1>1 DEF RootWhole, NeedsOf
<1>3. NoReaders' = NoReaders /\ NoFile' = NoFile
  OBVIOUS
<1> QED BY <1>2, <1>3 DEF Calm

\* The engine and flash as they are, but for the staged names.
LEMMA CalmKeeps ==
  ASSUME Calm, ~Busy, UNCHANGED <<root, pending, engine, volume>>,
         dir' \in BOOLEAN, faults' \in 0..MaxFaults, objects' \in [Name -> Conts],
         \A n \in Upto(root.serial) : Stays(n)
  PROVE  Calm' /\ ~Busy'
<1>1. UNCHANGED <<phase, job, scan, readers, vol, user, file, plain>>
  BY DEF engine, volume
<1>2. ~Busy'
  BY <1>1 DEF Busy
<1>3. Calm'
  BY <1>1, CalmStays DEF Calm
<1> QED BY <1>2, <1>3

LEMMA Unmoved ==
  ASSUME Calm, objects' = objects
  PROVE  objects' \in [Name -> Conts] /\ \A n \in Upto(root.serial) : Stays(n)
BY DEF Calm, Stays

\* The archive stays accepted while the root stays.
LEMMA TakenSame ==
  ASSUME Taken, root' = root, restore'.pairs = restore.pairs, restore'.high = restore.high
  PROVE  Taken'
BY DEF Taken, InstalledHigh

LEMMA HighSame == ASSUME HighKnown, root' = root PROVE HighKnown'
BY DEF HighKnown

\* A restore that is over leaves a volume as its invariant has it.
LEMMA Over ==
  ASSUME Calm', ~Busy', HighKnown', restore' = NoRestore
  PROVE  RestoreInv'
<1>1. StepInv'
  BY CalmRestsNext
<1>2. NoRestore \in Restores /\ NoRestore.phase = "idle"
  BY DEF NoRestore, Restores
<1> QED BY <1>1, <1>2 DEF RestoreInv

\* One that goes on.
LEMMA GoesOn ==
  ASSUME Calm', ~Busy', HighKnown', Taken', Leftovers', restore' \in Restores,
         restore'.phase \notin {"idle", "publish"},
         restore'.phase \in {"package", "content", "ready"} => Placement'
  PROVE  RestoreInv'
BY DEF RestoreInv

(***************************************************************************)
(* Accepting an archive                                                    *)
(***************************************************************************)
LEMMA RestoreBegins == RestoreInit => RestoreInv
<1> SUFFICES ASSUME RestoreInit
             PROVE  RestoreInv
  OBVIOUS
<1>1. StepInv /\ root = NoRoot /\ restore = NoRestore
  BY VolumeInit, MeansInit DEF RestoreInit, StepInv, Init
<1>2. NoRestore \in Restores /\ NoRestore.phase = "idle"
  BY DEF NoRestore, Restores
<1> QED BY <1>1, <1>2, NoPairOk DEF RestoreInv, HighKnown

\* The volume by itself.
LEMMA VolumeStepKeeps ==
  ASSUME RestoreInv, VolumeStep
  PROVE  RestoreInv' /\ [Store!Next]_(Store!vars)
<1>1. StepInv /\ HighKnown /\ restore.phase = "idle" /\ restore \in Restores
      /\ Next /\ restore' = restore
  BY DEF VolumeStep, RestoreInv
<1>2. VolumeInv /\ StepMeans /\ RootMeans(root)
  BY <1>1 DEF StepInv, StepMeans
<1>3. StepInv' /\ Changes
  BY <1>1, <1>2, VolumeNext, MeansNext DEF StepInv
<1>4. [Store!Next]_(Store!vars)
  BY <1>2, <1>3, ChangePromised
<1>5. HighKnown'
  <2>1. CASE root' = root
    BY <1>1, <2>1 DEF HighKnown
  <2>2. CASE Leads(root, root')
    <3>1. CASE root.kind = "file2" /\ root'.high = root.cur.pkg
      BY <1>2, <3>1, NoPairOk DEF RootMeans, Listed, HighKnown
    <3>2. CASE root.kind = "doc" /\ root'.high = root.high
      BY <1>1, <3>2 DEF HighKnown
    <3>3. CASE root'.high \in Version
      BY <3>3 DEF HighKnown
    <3> QED BY <2>2, <3>1, <3>2, <3>3 DEF Leads
  <2>3. CASE root' = NoRoot
    BY <2>3, NoPairOk DEF HighKnown
  <2>4. ASSUME NEW pkg \in Version, NEW data \in Payload,
               root' = File2(root.serial + 1, pkg, data)
        PROVE  HighKnown'
    BY <2>4 DEF HighKnown, File2, Root
  <2> QED BY <1>3, <2>1, <2>2, <2>3, <2>4 DEF Changes
<1> QED BY <1>1, <1>3, <1>4, <1>5 DEF RestoreInv

\* The highest version known of what is installed.
LEMMA InstalledKnown ==
  ASSUME HighKnown, RootMeans(root), root \in Roots, root # NoRoot
  PROVE  InstalledHigh \in Version \/ root.kind \notin {"file2", "doc"}
BY DEF InstalledHigh, HighKnown, RootMeans, Listed

LEMMA BeginRestoreKeeps ==
  ASSUME RestoreInv, BeginRestore
  PROVE  RestoreInv' /\ root' = root
<1>1. /\ StepInv /\ HighKnown /\ DocumentReady /\ ~HasSnapshots /\ UNCHANGED vars
  BY DEF BeginRestore, RestoreInv
<1>2. PICK a \in Archive :
        /\ Authorized(a.pairs[1].pkg)
        /\ root.serial + Len(a.pairs) <= MaxSerial
        /\ restore' = [NoRestore EXCEPT !.phase = "directory", !.pairs = a.pairs,
                         !.high = IF a.high > InstalledHigh THEN a.high
                                                            ELSE InstalledHigh]
  BY DEF BeginRestore
<1>3. Calm /\ ~Busy /\ UNCHANGED <<root, objects, dir, pending, engine, volume, faults>>
  BY <1>1, FoundCalm DEF vars, flash, volume
<1>4. Calm' /\ ~Busy'
  BY <1>3, Unmoved, CalmKeeps DEF Calm
<1>5. /\ a.high \in Version /\ a.pairs \in Seq(ArchivedPair) /\ Len(a.pairs) \in 1..2
      /\ \A k \in DOMAIN a.pairs : /\ a.pairs[k].pkg <= a.high
                                   /\ Len(a.pairs[k].file) <= MaxChunks
                                   /\ a.pairs[k].pkg \in Version
      /\ Len(a.pairs) = 2 => a.pairs[2].pkg < a.pairs[1].pkg
  <2>1. /\ a.high \in Version /\ a.pairs \in Seq(ArchivedPair) /\ Len(a.pairs) \in 1..2
        /\ \A k \in DOMAIN a.pairs : /\ a.pairs[k].pkg <= a.high
                                     /\ Len(a.pairs[k].file) <= MaxChunks
        /\ Len(a.pairs) = 2 => a.pairs[2].pkg < a.pairs[1].pkg
    BY AppRestoreAssumption
  <2>2. \A k \in DOMAIN a.pairs : a.pairs[k] \in ArchivedPair
    BY <2>1
  <2>3. \A x \in ArchivedPair : x.pkg \in Version
    BY DEF ArchivedPair
  <2> QED BY <2>1, <2>2, <2>3
<1>6. /\ root \in Roots /\ RootMeans(root) /\ RootOk(root)
  BY <1>3 DEF Calm
<1>7. InstalledHigh \in Version \cup {0}
  <2>1. CASE root = NoRoot
    BY <2>1, NoPairOk DEF InstalledHigh, NoRoot, Root
  <2>2. CASE root # NoRoot
    BY <1>1, <1>6, <2>2, InstalledKnown DEF RootOk, Roots
  <2> QED BY <2>1, <2>2
<1> DEFINE h == IF a.high > InstalledHigh THEN a.high ELSE InstalledHigh
<1>8. h \in Version /\ h >= a.high /\ h >= InstalledHigh /\ h \in Nat
  <2>1. a.high \in Nat \ {0} /\ InstalledHigh \in Nat
    <3>1. \A v \in Version : v \in Nat \ {0}
      BY AppDocumentsAssumption
    <3> QED BY <1>5, <1>7, <3>1
  <2>2. InstalledHigh = 0 => ~(InstalledHigh >= a.high)
    BY <2>1
  <2>3. CASE a.high > InstalledHigh
    BY <1>5, <2>1, <2>3
  <2>4. CASE ~(a.high > InstalledHigh)
    BY <1>7, <2>1, <2>2, <2>4
  <2> QED BY <2>3, <2>4
<1>9. restore' = [phase |-> "directory", pairs |-> a.pairs, high |-> h, old |-> <<>>,
                  new |-> <<>>, staged |-> {}, madeDir |-> FALSE, publisher |-> FALSE]
  BY <1>2 DEF NoRestore
<1>10. restore' \in Restores
  BY <1>5, <1>8, <1>9 DEF Restores
<1> HIDE DEF h
<1>11. Taken'
  <2>1. \A k \in DOMAIN a.pairs : a.pairs[k].pkg <= h /\ Len(a.pairs[k].file) <= MaxChunks
    <3>1. a.high \in Nat /\ h \in Nat /\ h >= a.high
      BY <1>5, <1>8, Numbers
    <3>2. \A k \in DOMAIN a.pairs : a.pairs[k].pkg \in Nat
      BY <1>5, Numbers
    <3> QED BY <1>5, <3>1, <3>2
  <2>2. InstalledHigh' = InstalledHigh /\ root' = root
    BY <1>3 DEF InstalledHigh
  <2>3. /\ root.serial + Len(a.pairs) <= MaxSerial
        /\ root = NoRoot \/ a.pairs[1].pkg = root.cur.pkg \/ a.pairs[1].pkg > InstalledHigh
    BY <1>2 DEF Authorized
  <2> QED BY <1>5, <1>8, <1>9, <2>1, <2>2, <2>3 DEF Taken
<1>12. Leftovers'
  BY <1>9, FS_EmptySet DEF Leftovers
<1>13. HighKnown'
  BY <1>1, <1>3, HighSame
<1> QED BY <1>3, <1>4, <1>9, <1>10, <1>11, <1>12, <1>13, GoesOn

(***************************************************************************)
(* Staging                                                                 *)
(***************************************************************************)
LEMMA Lengths ==
  ASSUME NEW s \in Seq(Exts)
  PROVE  Len(s) \in Nat /\ (s = <<>> <=> Len(s) = 0)
OBVIOUS

LEMMA Joined ==
  ASSUME NEW s \in Seq(Exts), NEW t \in Seq(Exts)
  PROVE  /\ s \o t \in Seq(Exts) /\ Len(s \o t) = Len(s) + Len(t)
         /\ \A i \in DOMAIN (s \o t) : \/ \E j \in DOMAIN s : (s \o t)[i] = s[j]
                                       \/ \E j \in DOMAIN t : (s \o t)[i] = t[j]
<1> DEFINE both == s \o t
<1>1. both \in Seq(Exts) /\ Len(both) = Len(s) + Len(t)
  OBVIOUS
<1>2. ASSUME NEW i \in DOMAIN both, i \notin DOMAIN s
      PROVE  i - Len(s) \in DOMAIN t /\ both[i] = t[i - Len(s)]
  BY <1>2
<1>3. \A i \in DOMAIN s : both[i] = s[i]
  OBVIOUS
<1> QED BY <1>1, <1>2, <1>3

LEMMA BothFrom ==
  ASSUME NEW g, NEW s \in Seq(Exts), NEW t \in Seq(Exts), From(s, g), From(t, g)
  PROVE  s \o t \in Seq(Exts) /\ From(s \o t, g)
<1> DEFINE both == s \o t
<1>1. /\ both \in Seq(Exts)
      /\ \A i \in DOMAIN both : \/ \E j \in DOMAIN s : both[i] = s[j]
                                \/ \E j \in DOMAIN t : both[i] = t[j]
  BY Joined
<1> HIDE DEF both
<1>2. ASSUME NEW i \in DOMAIN both
      PROVE  both[i].obj \in Upto(g) /\ both[i].obj.type # "p"
  <2>1. CASE \E j \in DOMAIN s : both[i] = s[j]
    BY <2>1 DEF From
  <2>2. CASE \E j \in DOMAIN t : both[i] = t[j]
    BY <2>2 DEF From
  <2> QED BY <1>1, <2>1, <2>2
<1>3. both \in Seq(Exts) /\ From(both, g)
  BY <1>1, <1>2 DEF From
<1> QED BY <1>3 DEF both

\* What may be reused of an installed pair belongs to the root.
LEMMA ReusableOk ==
  ASSUME NEW pair, NEW g \in Nat, PairOk(pair, g), pair # NoPair => FullPair(pair, g)
  PROVE  Reusable(pair) \in Seq(Exts) /\ From(Reusable(pair), g)
<1> DEFINE x == IndexOf(pair)
<1>1. pair.data \in Conts /\ pair.d \in Nat /\ pair \in Pairs
  BY DEF PairOk, Pairs
<1>2. ASSUME pair # NoPair
      PROVE  /\ x.priv \in Seq(Exts) /\ x.file \in Seq(Exts)
             /\ From(x.priv, g) /\ From(x.file, g)
  <2>1. CASE pair.data.kind = "index"
    <3>1. x = pair.data /\ x.priv \in Seq(Exts) /\ x.file \in Seq(Exts)
      BY <1>1, <2>1 DEF IndexOf, Conts
    <3>2. \A y \in Extents(pair) : y.obj \in Upto(g)
      BY PairNeeds DEF PairOk
    <3>3. \A i \in DOMAIN x.priv : x.priv[i] \in Extents(pair)
      BY <3>1 DEF Extents, Elements
    <3>4. \A i \in DOMAIN x.file : x.file[i] \in Extents(pair)
      BY <3>1 DEF Extents, Elements
    <3>5. \A i \in DOMAIN x.priv : x.priv[i].obj.type # "p"
      BY <3>1 DEF PairOk
    <3>6. \A i \in DOMAIN x.file : x.file[i].obj.type # "p"
      BY <3>1 DEF PairOk
    <3> QED BY <3>1, <3>2, <3>3, <3>4, <3>5, <3>6 DEF From
  <2>2. CASE pair.data.kind # "index"
    <3> DEFINE e == Extent(Data(pair.d), pair.data.val)
    <3>1. x.priv = <<e>> /\ x.file = <<>>
      BY <2>2 DEF IndexOf, Index
    <3>2. pair.d \in 1..g
      BY <1>2 DEF FullPair
    <3>3. Data(pair.d) \in Upto(g)
      <4>1. pair.d # 0
        BY <3>2
      <4>2. DataNeed(pair) \in Needs(pair) /\ DataNeed(pair).obj = Data(pair.d)
        BY <4>1, PairNeeds DEF DataNeed
      <4> QED BY <4>2 DEF PairOk
    <3>4. e.obj = Data(pair.d) /\ e.obj.type = "d" /\ e \in Exts
      BY <1>1 DEF Extent, Data, Object, Exts, Objs, Conts
    <3> HIDE DEF e
    <3> QED BY <3>1, <3>3, <3>4 DEF From
  <2> QED BY <2>1, <2>2
<1> HIDE DEF x
<1>3. CASE pair # NoPair /\ Reusable(pair) = x.priv \o x.file
  <2>1. x.priv \o x.file \in Seq(Exts) /\ From(x.priv \o x.file, g)
    BY <1>2, <1>3, BothFrom
  <2> QED BY <1>3, <2>1
<1>4. CASE Reusable(pair) = <<>>
  BY <1>4 DEF From
<1> QED BY <1>3, <1>4 DEF Reusable, x

\* Objects younger than the root may be written and removed.
LEMMA YoungerChanges ==
  ASSUME Calm, NEW o, NEW c \in Conts, o \notin Upto(root.serial),
         objects' = [objects EXCEPT ![o] = c]
  PROVE  objects' \in [Name -> Conts] /\ \A n \in Upto(root.serial) : Stays(n)
<1>1. objects \in [Name -> Conts]
  BY DEF Calm
<1>2. objects' \in [Name -> Conts]
  BY <1>1
<1>3. ASSUME NEW n \in Upto(root.serial)
      PROVE  objects'[n] = objects[n]
  BY <1>1 DEF Upto
<1> QED BY <1>2, <1>3 DEF Stays

LEMMA ObjectStaged ==
  ASSUME Calm, ~Busy, NEW o, NEW c \in Conts, o.gen > root.serial, StageObject(o, c)
  PROVE  Calm' /\ ~Busy' /\ root' = root
<1>1. UNCHANGED <<dir, root, pending, engine, volume>>
  BY DEF StageObject
<1>2. /\ dir' \in BOOLEAN /\ faults' \in 0..MaxFaults
  BY <1>1, Numbers DEF Calm, StageObject, Written
<1>3. root.serial \in Nat /\ o \notin Upto(root.serial)
  BY Names DEF Calm, Roots, Upto
<1>4. PICK d \in Conts : objects' = [objects EXCEPT ![o] = d]
  BY ContentKinds DEF StageObject, Written
<1>5. objects' \in [Name -> Conts] /\ \A n \in Upto(root.serial) : Stays(n)
  BY <1>3, <1>4, YoungerChanges
<1> QED BY <1>1, <1>2, <1>5, CalmKeeps

\* The pair being staged.
LEMMA StagingPair ==
  ASSUME restore \in Restores, Calm, Taken, Placement
  PROVE  /\ Number \in 1..2 /\ Number = Len(restore.new) /\ Number \in DOMAIN restore.pairs
         /\ root.serial \in Nat /\ Generation = root.serial + Number
         /\ Generation \in 1..MaxSerial
         /\ Staging \in ArchivedPair /\ Staging.pkg \in Nat /\ Len(Staging.file) <= MaxChunks
         /\ Built(NewIndex, Staging, Generation)
         /\ NewIndex.priv \in Seq(Exts) /\ NewIndex.file \in Seq(Exts)
         /\ Placed \in Seq(Exts) /\ Len(Placed) = Len(NewIndex.priv) + Len(NewIndex.file)
         /\ Len(Contents) = 1 + Len(Staging.file)
<1>1. /\ Number \in 1..Len(restore.pairs) /\ Len(restore.pairs) \in 1..2
      /\ restore.pairs \in Seq(ArchivedPair) /\ root.serial + Len(restore.pairs) <= MaxSerial
  BY DEF Placement, Taken, Restores
<1>2. Number \in DOMAIN restore.pairs /\ Number \in 1..2 /\ Number = Len(restore.new)
  <2>1. DOMAIN restore.pairs = 1..Len(restore.pairs)
    BY <1>1
  <2>2. \A l \in 1..2 : 1..l \subseteq 1..2
    OBVIOUS
  <2>3. Number \in 1..Len(restore.pairs) /\ Number = Len(restore.new)
    BY <1>1 DEF Number
  <2>4. Number \in 1..2
    BY <1>1, <2>2, <2>3
  <2> QED BY <2>1, <2>3, <2>4
<1>3. root.serial \in Nat /\ Generation = root.serial + Number
  BY DEF Calm, Roots, Generation
<1>4. Generation \in 1..MaxSerial
  BY <1>1, <1>2, <1>3, Numbers
<1>5. Staging \in ArchivedPair /\ Len(Staging.file) <= MaxChunks
  BY <1>1, <1>2 DEF Staging, Taken
<1>6. Staging.pkg \in Nat /\ Staging.file \in Seq(Payload)
  BY <1>5, Numbers DEF ArchivedPair
<1>7. Built(NewIndex, Staging, Generation)
  <2>1. \A k \in 1..Number : Built(restore.new[k], restore.pairs[k], root.serial + k)
    BY DEF Placement
  <2>2. Number \in 1..Number
    BY <1>2
  <2> QED BY <1>3, <2>1, <2>2 DEF NewIndex, Staging
<1>8. NewIndex.priv \in Seq(Exts) /\ NewIndex.file \in Seq(Exts)
  BY <1>7 DEF Built, Conts
<1>9. Placed \in Seq(Exts) /\ Len(Placed) = Len(NewIndex.priv) + Len(NewIndex.file)
  BY <1>8, Joined DEF Placed
<1>10. Len(Contents) = 1 + Len(Staging.file)
  BY <1>6 DEF Contents
<1> QED BY <1>2, <1>3, <1>4, <1>5, <1>6, <1>7, <1>8, <1>9, <1>10

LEMMA OpenRestoreKeeps ==
  ASSUME RestoreInv, OpenRestore
  PROVE  RestoreInv' /\ root' = root
<1>1. /\ restore \in Restores /\ Calm /\ Taken /\ Leftovers /\ ~Busy /\ HighKnown
      /\ restore.phase = "directory" /\ restore.staged = {}
  BY DEF OpenRestore, RestoreInv, Leftovers
<1>2. dir' = TRUE /\ UNCHANGED <<objects, root, pending, faults, engine, volume>>
  BY DEF OpenRestore
<1>3. Calm' /\ ~Busy'
  BY <1>1, <1>2, Unmoved, CalmKeeps DEF Calm
<1> DEFINE old == IF root.kind = "doc" THEN Reusable(root.cur) \o Reusable(root.prev) ELSE <<>>
<1>4. restore' = [restore EXCEPT !.phase = "package", !.madeDir = ~dir,
                    !.old = old, !.new = <<Index(<<>>, <<>>)>>]
  BY DEF OpenRestore
<1>5. old \in Seq(Exts) /\ From(old, root.serial)
  <2>1. CASE root.kind = "doc"
    <3>1. /\ FullPair(root.cur, root.serial) /\ PairOk(root.cur, root.serial)
          /\ root.prev # NoPair => FullPair(root.prev, root.serial)
      BY <1>1, <2>1 DEF Calm, RootOk, FullPair
    <3>2. PairOk(root.prev, root.serial)
      <4>1. CASE root.prev = NoPair
        <5>1. NoPair.data.kind = "absent" /\ NoPair.data.file = <<>> /\ NoPair.data.priv = <<>>
              /\ NoPair.data = Plain(NoPair.data.kind, NoPair.data.val)
          BY DEF NoPair, Pair, Absent, Plain
        <5> QED BY <4>1, <5>1, NoPairOk, NoPairNeeds, Numbers DEF PairOk
      <4> QED BY <3>1, <4>1 DEF FullPair
    <3> DEFINE a == Reusable(root.cur)
               b == Reusable(root.prev)
    <3>0. root.serial \in Nat
      BY <1>1 DEF Calm, Roots
    <3>3. a \in Seq(Exts) /\ From(a, root.serial)
      BY <3>0, <3>1, ReusableOk
    <3>4. b \in Seq(Exts) /\ From(b, root.serial)
      BY <3>0, <3>1, <3>2, ReusableOk
    <3> HIDE DEF a, b
    <3>5. old = a \o b
      BY <2>1 DEF a, b
    <3>6. a \o b \in Seq(Exts) /\ From(a \o b, root.serial)
      BY <3>3, <3>4, BothFrom
    <3> QED BY <3>5, <3>6
  <2>2. CASE root.kind # "doc"
    BY <2>2 DEF From
  <2> QED BY <2>1, <2>2
<1> HIDE DEF old
<1>6. Index(<<>>, <<>>) \in Conts
  BY DEF Index, Conts
<1>7. /\ restore' \in Restores /\ restore'.phase = "package" /\ restore'.staged = {}
      /\ restore'.pairs = restore.pairs /\ restore'.high = restore.high
      /\ restore'.old = old /\ restore'.new = <<Index(<<>>, <<>>)>>
  <2>1. (~dir) \in BOOLEAN
    OBVIOUS
  <2>2. <<Index(<<>>, <<>>)>> \in Seq(Conts)
    BY <1>6
  <2> QED BY <1>1, <1>4, <1>5, <2>1, <2>2 DEF Restores
<1>8. Taken' /\ HighKnown'
  BY <1>1, <1>2, <1>7, TakenSame, HighSame
<1>9. Leftovers'
  BY <1>7, FS_EmptySet DEF Leftovers, StagedChunks
<1>10. Placement'
  <2>1. /\ restore.pairs \in Seq(ArchivedPair) /\ Len(restore.pairs) \in 1..2
    BY <1>1 DEF Restores, Taken
  <2>2. restore.pairs[1].file \in Seq(Payload)
    <3>1. restore.pairs[1] \in ArchivedPair
      BY <2>1
    <3> QED BY <3>1 DEF ArchivedPair
  <2>3. Built(Index(<<>>, <<>>), restore.pairs[1], root.serial + 1)
    BY <1>6, <2>2 DEF Built, Index
  <2>4. Number' = 1 /\ NewIndex' = Index(<<>>, <<>>)
    BY <1>7 DEF Number, NewIndex
  <2>5. Built(Index(<<>>, <<>>), restore.pairs[1], root.serial + 1)'
    BY <1>2, <1>7, <2>3 DEF Built, Upto
  <2>7. From(restore.old, root.serial)'
    BY <1>2, <1>5, <1>7 DEF From, Upto
  <2> QED BY <1>2, <1>7, <2>1, <2>4, <2>5, <2>7 DEF Placement
<1> QED BY <1>2, <1>3, <1>7, <1>8, <1>9, <1>10, GoesOn

StagingNow == restore \in Restores /\ Calm /\ Taken /\ Placement /\ Leftovers /\ HighKnown /\ ~Busy

LEMMA StagingHolds ==
  ASSUME RestoreInv, restore.phase \in {"package", "content", "ready"}
  PROVE  StagingNow
BY DEF RestoreInv, StagingNow

LEMMA StagePackageKeeps ==
  ASSUME RestoreInv, StagePackage
  PROVE  RestoreInv' /\ root' = root
<1> DEFINE o == Package(Generation)
<1>1. StagingNow /\ restore.phase = "package"
  BY StagingHolds DEF StagePackage
<1>2. StageObject(o, Bytes(Staging.pkg))
      /\ restore' = [restore EXCEPT !.phase = "content", !.staged = @ \cup {o}]
  BY DEF StagePackage
<1>3. /\ Generation \in 1..MaxSerial /\ Staging.pkg \in Nat /\ Number \in 1..2
      /\ root.serial \in Nat /\ Generation = root.serial + Number
      /\ Placed \in Seq(Exts)
  BY <1>1, StagingPair DEF StagingNow
<1>4. o \in Name /\ o.gen = Generation /\ o.type = "p"
  BY <1>3, PairNames
<1>5. Calm' /\ ~Busy' /\ root' = root
  <2>1. o.gen > root.serial
    BY <1>3, <1>4
  <2> QED BY <1>1, <1>2, <1>3, <2>1, ContentKinds, ObjectStaged DEF StagingNow
<1>6. /\ restore' \in Restores /\ restore'.phase = "content"
      /\ restore'.staged = restore.staged \cup {o} /\ restore'.pairs = restore.pairs
      /\ restore'.high = restore.high /\ restore'.old = restore.old
      /\ restore'.new = restore.new
  BY <1>1, <1>2, <1>4 DEF StagingNow, Restores
<1>7. Taken' /\ HighKnown'
  BY <1>1, <1>5, <1>6, TakenSame, HighSame DEF StagingNow
<1>8. Placement'
  <2>1. Placement
    BY <1>1 DEF StagingNow
  <2> QED BY <1>1, <1>5, <1>6, <2>1 DEF Placement, Number, From, Upto, Built, Complete
<1>9. Leftovers'
  <2>1. Generation' = Generation /\ Len(Placed') = Len(Placed)
    BY <1>5, <1>6 DEF Generation, Number, Placed, NewIndex
  <2>2. /\ IsFiniteSet(restore.staged) /\ (\A n \in restore.staged : n.gen > root.serial)
        /\ \A n \in restore.staged : n.gen <= Generation
        /\ StagedChunks(Generation) = {}
    BY <1>1 DEF StagingNow, Leftovers
  <2>3. IsFiniteSet(restore'.staged)
    BY <1>6, <2>2, FS_AddElement
  <2>4. StagedChunks(Generation)' = {}
    BY <1>4, <1>6, <2>1, <2>2 DEF StagedChunks
  <2>5. Cardinality({}) <= Len(Placed')
    BY <1>3, <2>1, Lengths, FS_EmptySet
  <2>6. \A n \in restore'.staged : n.gen > root'.serial /\ n.gen <= Generation'
    BY <1>3, <1>4, <1>5, <1>6, <2>1, <2>2
  <2> QED BY <1>6, <2>3, <2>4, <2>5, <2>6 DEF Leftovers
<1> QED BY <1>5, <1>6, <1>7, <1>8, <1>9, GoesOn

\* The bytes that come next.
LEMMA NextIs ==
  ASSUME StagingNow, ~AllPlaced
  PROVE  \/ /\ Placed = <<>> /\ NewIndex.priv = <<>> /\ NewIndex.file = <<>>
            /\ NextContent = Staging.priv
         \/ /\ Placed # <<>> /\ Len(NewIndex.priv) = 1
            /\ Len(NewIndex.file) < Len(Staging.file)
            /\ NextContent = Staging.file[Len(NewIndex.file) + 1]
<1>1. /\ Built(NewIndex, Staging, Generation)
      /\ NewIndex.priv \in Seq(Exts) /\ NewIndex.file \in Seq(Exts)
      /\ Placed \in Seq(Exts) /\ Len(Placed) = Len(NewIndex.priv) + Len(NewIndex.file)
      /\ Len(Contents) = 1 + Len(Staging.file) /\ Staging \in ArchivedPair
  BY StagingPair DEF StagingNow
<1>2. Len(NewIndex.priv) <= 1 /\ (NewIndex.priv = <<>> => NewIndex.file = <<>>)
      /\ Len(NewIndex.file) <= Len(Staging.file)
  BY <1>1 DEF Built
<1>3. Staging.file \in Seq(Payload) /\ Staging.priv \in Payload
  BY <1>1 DEF ArchivedPair
<1>4. CASE NewIndex.priv = <<>>
  <2>1. Placed = <<>> /\ NewIndex.file = <<>>
    BY <1>2, <1>4 DEF Placed
  <2>2. NextContent = Staging.priv
    BY <1>3, <2>1 DEF NextContent, Contents
  <2> QED BY <1>4, <2>1, <2>2
<1>5. CASE NewIndex.priv # <<>>
  <2>1. Len(NewIndex.priv) = 1 /\ Len(Placed) = 1 + Len(NewIndex.file)
    <3>1. Len(NewIndex.priv) \in Nat /\ Len(NewIndex.file) \in Nat /\ Len(NewIndex.priv) # 0
      BY <1>1, <1>5, Lengths
    <3>2. Len(NewIndex.priv) <= 1
      BY <1>2
    <3>3. Len(NewIndex.priv) = 1
      <4>1. \A n \in Nat : n # 0 /\ n <= 1 => n = 1
        OBVIOUS
      <4> QED BY <3>1, <3>2, <4>1
    <3>4. Len(Placed) = Len(NewIndex.priv) + Len(NewIndex.file)
      BY <1>1
    <3> QED BY <3>1, <3>3, <3>4
  <2>2. Len(NewIndex.file) < Len(Staging.file)
    BY <1>1, <1>2, <1>3, <2>1 DEF AllPlaced
  <2>3. Placed # <<>>
    BY <1>1, <2>1
  <2>4. NextContent = Staging.file[Len(NewIndex.file) + 1]
    <3> DEFINE i == Len(NewIndex.file) + 1
    <3>1. i \in DOMAIN Staging.file /\ Len(Placed) + 1 = i + 1
      BY <1>1, <1>3, <2>1, <2>2
    <3>2. \A j \in DOMAIN Staging.file : Contents[j + 1] = Staging.file[j]
      BY <1>3 DEF Contents
    <3>3. NextContent = Contents[i + 1]
      BY <3>1 DEF NextContent
    <3> HIDE DEF i
    <3>4. NextContent = Staging.file[i]
      BY <3>1, <3>2, <3>3
    <3> QED BY <3>4 DEF i
  <2> QED BY <2>1, <2>2, <2>3, <2>4
<1> QED BY <1>4, <1>5

\* An extent with the bytes that come next, put into the index.
LEMMA PlacingBuilt ==
  ASSUME StagingNow, ~AllPlaced, NEW x \in Exts, x.val = NextContent,
         x.obj \in Upto(Generation), x.obj.type # "p", x.obj.type = "d" => Placed = <<>>
  PROVE  /\ Built(Placing(x), Staging, Generation)
         /\ Len(Placing(x).priv) + Len(Placing(x).file) = Len(Placed) + 1
<1>1. /\ Built(NewIndex, Staging, Generation)
      /\ NewIndex.priv \in Seq(Exts) /\ NewIndex.file \in Seq(Exts)
      /\ Len(Placed) = Len(NewIndex.priv) + Len(NewIndex.file)
      /\ Staging.file \in Seq(Payload)
  BY StagingPair DEF StagingNow, ArchivedPair
<1>2. /\ NewIndex \in Conts /\ NewIndex = Index(NewIndex.priv, NewIndex.file)
      /\ \A i \in DOMAIN NewIndex.priv :
           /\ NewIndex.priv[i].obj \in Upto(Generation) /\ NewIndex.priv[i].obj.type # "p"
           /\ NewIndex.priv[i].val = Staging.priv
      /\ \A i \in DOMAIN NewIndex.file :
           /\ NewIndex.file[i].obj \in Upto(Generation) /\ NewIndex.file[i].obj.type = "c"
           /\ NewIndex.file[i].val = Staging.file[i]
  BY <1>1 DEF Built
<1>3. CASE /\ Placed = <<>> /\ NewIndex.priv = <<>> /\ NewIndex.file = <<>>
           /\ NextContent = Staging.priv
  <2>1. Placing(x) = Index(<<x>>, <<>>)
    <3>1. Placing(x) = [NewIndex EXCEPT !.priv = <<x>>]
      BY <1>3 DEF Placing
    <3>2. \A n : n = Index(n.priv, n.file) =>
                [n EXCEPT !.priv = <<x>>] = Index(<<x>>, n.file)
      BY DEF Index
    <3> QED BY <1>2, <1>3, <3>1, <3>2
  <2>2. Index(<<x>>, <<>>) \in Conts
    BY DEF Index, Conts
  <2> HIDE DEF Placing
  <2> QED BY <1>1, <1>3, <2>1, <2>2 DEF Built, Index
<1>4. CASE /\ Placed # <<>> /\ Len(NewIndex.priv) = 1
           /\ Len(NewIndex.file) < Len(Staging.file)
           /\ NextContent = Staging.file[Len(NewIndex.file) + 1]
  <2> DEFINE f == Append(NewIndex.file, x)
             y == Index(NewIndex.priv, f)
  <2>1. Placing(x) = y
    <3>1. Placing(x) = [NewIndex EXCEPT !.file = f]
      BY <1>4 DEF Placing
    <3> HIDE DEF f
    <3>2. \A n : n = Index(n.priv, n.file) =>
                [n EXCEPT !.file = f] = Index(n.priv, f)
      BY DEF Index
    <3> QED BY <1>2, <3>1, <3>2
  <2>2. f \in Seq(Exts) /\ Len(f) = Len(NewIndex.file) + 1
    BY <1>1
  <2>3. \A i \in DOMAIN f : IF i = Len(f) THEN f[i] = x
                             ELSE i \in DOMAIN NewIndex.file /\ f[i] = NewIndex.file[i]
    BY <1>1
  <2> HIDE DEF f
  <2>4. x.obj \in Name /\ x.obj.type = "c"
    BY <1>4, Names DEF Upto
  <2>5. \A i \in DOMAIN f : /\ f[i].obj \in Upto(Generation) /\ f[i].obj.type = "c"
                             /\ f[i].val = Staging.file[i]
    <3> SUFFICES ASSUME NEW i \in DOMAIN f
                 PROVE  /\ f[i].obj \in Upto(Generation) /\ f[i].obj.type = "c"
                        /\ f[i].val = Staging.file[i]
      OBVIOUS
    <3>1. CASE i = Len(f)
      BY <1>4, <2>2, <2>3, <2>4, <3>1
    <3>2. CASE i # Len(f)
      BY <1>2, <2>3, <3>2
    <3> QED BY <3>1, <3>2
  <2>6. y \in Conts /\ y.priv = NewIndex.priv /\ y.file = f /\ y = Index(y.priv, y.file)
    BY <1>1, <2>2 DEF Index, Conts
  <2> HIDE DEF y
  <2>7. Built(y, Staging, Generation)
    <3>1. Len(f) <= Len(Staging.file) /\ y.priv # <<>>
      <4>1. Len(NewIndex.file) \in Nat /\ Len(Staging.file) \in Nat
        BY <1>1
      <4>2. NewIndex.priv # <<>>
        <5>1. NewIndex.priv \in Seq(Exts) /\ Len(NewIndex.priv) # 0
          BY <1>1, <1>4
        <5> QED BY <5>1, Lengths
      <4> QED BY <1>4, <2>2, <2>6, <4>1, <4>2
    <3> QED BY <1>1, <1>2, <1>4, <2>5, <2>6, <3>1 DEF Built
  <2>8. Len(y.priv) + Len(y.file) = Len(Placed) + 1
    <3>1. Len(NewIndex.file) \in Nat
      BY <1>1, Lengths
    <3>2. Len(y.priv) = 1 /\ Len(y.file) = Len(NewIndex.file) + 1
      BY <1>4, <2>2, <2>6
    <3>3. Len(Placed) = Len(NewIndex.priv) + Len(NewIndex.file) /\ Len(NewIndex.priv) = 1
      BY <1>1, <1>4
    <3> HIDE DEF Placed
    <3> QED BY <3>1, <3>2, <3>3
  <2> QED BY <2>1, <2>7, <2>8 DEF y
<1> QED BY <1>3, <1>4, NextIs

LEMMA Replaced ==
  ASSUME NEW s \in Seq(Conts), NEW i \in 1..Len(s), NEW y \in Conts
  PROVE  LET t == [s EXCEPT ![i] = y]
         IN  /\ t \in Seq(Conts) /\ Len(t) = Len(s) /\ t[i] = y
             /\ \A k \in 1..Len(s) : k # i => t[k] = s[k]
OBVIOUS

\* Placement, of a pair that is being filled.
Filling ==
  /\ restore.phase = "content"
  /\ Number \in 1..Len(restore.pairs)
  /\ From(restore.old, root.serial)
  /\ \A k \in 1..Number : Built(restore.new[k], restore.pairs[k], root.serial + k)
  /\ \A k \in 1..Number : k < Number => Complete(restore.new[k], restore.pairs[k])

LEMMA FillingPlaces == Filling => Placement
BY DEF Filling, Placement

LEMMA FillingNext == Filling' => Placement'
BY FillingPlaces, PTL

IndexGrows(y) == /\ Number' = Number /\ restore'.new[Number] = y
                 /\ \A k \in 1..Number : k # Number => restore'.new[k] = restore.new[k]

\* The index of the pair being staged grows; everything else of the placement stays.
LEMMA PlacementGrows ==
  ASSUME StagingNow, restore.phase = "content", NEW y, Built(y, Staging, Generation),
         root' = root, restore'.phase = "content", restore'.pairs = restore.pairs,
         restore'.old = restore.old, IndexGrows(y)
  PROVE  Placement' /\ NewIndex' = y /\ Generation' = Generation
<1>1. /\ Number \in 1..2 /\ Generation = root.serial + Number
  BY StagingPair DEF StagingNow
<1>3. Number' = Number /\ restore'.new[Number] = y
      /\ \A k \in 1..Number : k # Number => restore'.new[k] = restore.new[k]
  BY DEF IndexGrows
<1>4. NewIndex' = y /\ Generation' = Generation
  BY <1>3 DEF NewIndex, Generation
<1>5. /\ Number \in 1..Len(restore.pairs) /\ From(restore.old, root.serial)
      /\ \A k \in 1..Number : /\ Built(restore.new[k], restore.pairs[k], root.serial + k)
                              /\ k < Number => Complete(restore.new[k], restore.pairs[k])
  BY DEF StagingNow, Placement
<1>6. From(restore.old, root.serial)'
  BY <1>5 DEF From, Upto
<1>7. ASSUME NEW k \in 1..Number
      PROVE  /\ Built(restore'.new[k], restore'.pairs[k], root'.serial + k)
             /\ k < Number => Complete(restore'.new[k], restore'.pairs[k])
  <2>1. CASE k = Number
    BY <1>1, <1>3, <2>1 DEF Staging
  <2>2. CASE k # Number
    BY <1>3, <1>5, <2>2
  <2> QED BY <2>1, <2>2
<1>8. Filling'
  <2>1. Number' \in 1..Len(restore'.pairs)
    BY <1>3, <1>5
  <2>2. From(restore'.old, root'.serial)
    BY <1>6
  <2>3. \A k \in 1..Number' : Built(restore'.new[k], restore'.pairs[k], root'.serial + k)
    BY <1>3, <1>7
  <2>4. \A k \in 1..Number' : k < Number' => Complete(restore'.new[k], restore'.pairs[k])
    BY <1>3, <1>7
  <2> QED BY <2>1, <2>2, <2>3, <2>4 DEF Filling
<1> QED BY <1>4, <1>8, FillingNext

\* What the index offers for reuse, and what it has, was made for this archive or
\* belongs to the root.
LEMMA OfferedOk ==
  ASSUME StagingNow
  PROVE  Offered \in Seq(Exts) /\ From(Offered, Generation)
<1>1. /\ Number \in 1..2 /\ root.serial \in Nat /\ Generation = root.serial + Number
      /\ Generation \in Nat
  BY StagingPair DEF StagingNow
<1>2. restore.old \in Seq(Exts) /\ From(restore.old, root.serial)
  BY DEF StagingNow, Restores, Placement
<1>3. Upto(root.serial) \subseteq Upto(Generation)
  BY <1>1, UptoMonotone
<1>4. From(restore.old, Generation)
  BY <1>2, <1>3 DEF From
<1> DEFINE x == restore.new[1]
<1>5. Built(x, restore.pairs[1], root.serial + 1)
  <2>1. 1 \in 1..Number
    BY <1>1
  <2> QED BY <2>1 DEF StagingNow, Placement
<1>6. /\ x.priv \in Seq(Exts) /\ x.file \in Seq(Exts)
      /\ From(x.priv, root.serial + 1) /\ From(x.file, root.serial + 1)
  BY <1>5 DEF Built, Conts, From
<1>7. Upto(root.serial + 1) \subseteq Upto(Generation)
  BY <1>1, UptoMonotone
<1> HIDE DEF x
<1>8. From(x.priv, Generation) /\ From(x.file, Generation)
  BY <1>6, <1>7 DEF From
<1> DEFINE more == IF Number = 2 THEN x.priv \o x.file ELSE <<>>
<1>9. more \in Seq(Exts) /\ From(more, Generation)
  <2>1. x.priv \o x.file \in Seq(Exts) /\ From(x.priv \o x.file, Generation)
    BY <1>6, <1>8, BothFrom
  <2>2. <<>> \in Seq(Exts) /\ From(<<>>, Generation)
    BY DEF From
  <2> QED BY <2>1, <2>2
<1>10. Offered = restore.old \o more
  BY DEF Offered, x
<1> HIDE DEF more
<1>11. restore.old \o more \in Seq(Exts) /\ From(restore.old \o more, Generation)
  BY <1>2, <1>4, <1>9, BothFrom
<1> QED BY <1>10, <1>11

LEMMA RestoreGrows ==
  ASSUME StagingNow, NEW y \in Conts, NEW S \in SUBSET Name, restore.phase = "content",
         restore' = [restore EXCEPT !.staged = S, !.new[Number] = y]
  PROVE  /\ restore' \in Restores /\ restore'.phase = "content" /\ restore'.staged = S
         /\ restore'.pairs = restore.pairs /\ restore'.high = restore.high
         /\ restore'.old = restore.old /\ IndexGrows(y)
<1>1. restore \in Restores /\ restore.new \in Seq(Conts)
  BY DEF StagingNow, Restores
<1>2. Number \in 1..Len(restore.new)
  BY StagingPair DEF StagingNow
<1> DEFINE new == [restore.new EXCEPT ![Number] = y]
<1>3. /\ new \in Seq(Conts) /\ Len(new) = Len(restore.new) /\ new[Number] = y
      /\ \A k \in 1..Len(restore.new) : k # Number => new[k] = restore.new[k]
  BY <1>1, <1>2, Replaced
<1>4. restore' = [restore EXCEPT !.staged = S, !.new = new]
  BY <1>1 DEF Restores
<1> HIDE DEF new
<1>5. /\ restore' \in Restores /\ restore'.phase = "content" /\ restore'.staged = S
      /\ restore'.pairs = restore.pairs /\ restore'.high = restore.high
      /\ restore'.old = restore.old /\ restore'.new = new
  BY <1>1, <1>3, <1>4 DEF Restores
<1>6. IndexGrows(y)
  BY <1>3, <1>5 DEF IndexGrows, Number
<1> QED BY <1>5, <1>6

LEMMA PlacedGrows ==
  ASSUME StagingNow, NEW y \in Conts, NewIndex' = y,
         Len(y.priv) + Len(y.file) = Len(Placed) + 1
  PROVE  Len(Placed)' = Len(Placed) + 1 /\ Len(Placed) \in Nat
<1>1. y.priv \in Seq(Exts) /\ y.file \in Seq(Exts)
  BY DEF Conts
<1>2. Placed' = y.priv \o y.file
  BY DEF Placed
<1>3. Len(Placed') = Len(y.priv) + Len(y.file)
  BY <1>1, <1>2, Joined
<1>4. Placed \in Seq(Exts)
  BY StagingPair DEF StagingNow
<1>5. Len(Placed) \in Nat
  BY <1>4, Lengths
<1> QED BY <1>3, <1>5

LEMMA ReuseChunkKeeps ==
  ASSUME RestoreInv, ReuseChunk
  PROVE  RestoreInv' /\ root' = root
<1>1. StagingNow /\ restore.phase = "content" /\ ~AllPlaced /\ UNCHANGED vars
  BY StagingHolds DEF ReuseChunk
<1>2. PICK i \in Candidates : restore' = [restore EXCEPT !.new[Number] = Placing(Offered[i])]
  BY DEF ReuseChunk
<1> DEFINE x == Offered[i]
           y == Placing(x)
<1>3. i \in DOMAIN Offered /\ x.val = NextContent /\ (x.obj.type = "d" => Placed = <<>>)
  BY <1>2 DEF Candidates
<1>4. x \in Exts /\ x.obj \in Upto(Generation) /\ x.obj.type # "p"
  BY <1>1, <1>3, OfferedOk DEF From
<1> HIDE DEF x
<1>5. Built(y, Staging, Generation) /\ Len(y.priv) + Len(y.file) = Len(Placed) + 1
  BY <1>1, <1>3, <1>4, PlacingBuilt
<1>6. y \in Conts /\ restore' = [restore EXCEPT !.new[Number] = y]
  BY <1>2, <1>5 DEF Built, x
<1> HIDE DEF y
<1>7. Calm' /\ ~Busy' /\ root' = root
  <2>1. UNCHANGED <<root, objects, dir, pending, engine, volume, faults>> /\ Calm /\ ~Busy
    BY <1>1 DEF vars, flash, volume, StagingNow
  <2> QED BY <2>1, Unmoved, CalmKeeps DEF Calm
<1>8. /\ restore.staged \in SUBSET Name
      /\ restore' = [restore EXCEPT !.staged = restore.staged, !.new[Number] = y]
  BY <1>1, <1>6 DEF StagingNow, Restores
<1>9. /\ restore' \in Restores /\ restore'.phase = "content" /\ restore'.staged = restore.staged
      /\ restore'.pairs = restore.pairs /\ restore'.high = restore.high
      /\ restore'.old = restore.old /\ IndexGrows(y)
  BY <1>1, <1>6, <1>8, RestoreGrows
<1>10. Taken' /\ HighKnown'
  BY <1>1, <1>7, <1>9, TakenSame, HighSame DEF StagingNow
<1>11. Placement' /\ NewIndex' = y /\ Generation' = Generation
  BY <1>1, <1>5, <1>7, <1>9, PlacementGrows
<1>12. Leftovers'
  <2>1. Len(Placed)' = Len(Placed) + 1 /\ Len(Placed) \in Nat
    BY <1>1, <1>5, <1>6, <1>11, PlacedGrows
  <2>2. IsFiniteSet(restore.staged) /\ (\A n \in restore.staged : n.gen > root.serial)
        /\ (\A n \in restore.staged : n.gen <= Generation)
        /\ Cardinality(StagedChunks(Generation)) <= Len(Placed)
    BY <1>1 DEF StagingNow, Leftovers
  <2>3. StagedChunks(Generation)' = StagedChunks(Generation)
    BY <1>9, <1>11 DEF StagedChunks
  <2>4. Cardinality(StagedChunks(Generation)) \in Nat
    BY <2>2, FS_Subset, FS_CardinalityType DEF StagedChunks
  <2>5. Cardinality(StagedChunks(Generation)) <= Len(Placed)'
    BY <2>1, <2>2, <2>4
  <2> QED BY <1>7, <1>9, <1>11, <2>2, <2>3, <2>5 DEF Leftovers
<1> QED BY <1>7, <1>9, <1>10, <1>11, <1>12, GoesOn

LEMMA RoomForNext ==
  ASSUME StagingNow, ~AllPlaced
  PROVE  NextContent \in Nat /\ Len(Placed) \in Nat /\ Len(Placed) <= MaxChunks
<1>1. /\ Placed \in Seq(Exts) /\ Len(Placed) = Len(NewIndex.priv) + Len(NewIndex.file)
      /\ NewIndex.file \in Seq(Exts)
  BY StagingPair DEF StagingNow
<1>2. Staging \in ArchivedPair /\ Len(Staging.file) <= MaxChunks
  BY StagingPair DEF StagingNow
<1>3. Staging.priv \in Payload /\ Staging.file \in Seq(Payload) /\ Len(Staging.file) \in Nat
  BY <1>2 DEF ArchivedPair
<1>4. Len(NewIndex.file) \in Nat /\ Len(Placed) \in Nat
  BY <1>1, Lengths
<1>5. CASE Placed = <<>> /\ NextContent = Staging.priv
  <2>1. Len(Placed) = 0
    BY <1>1, <1>5, Lengths
  <2> QED BY <1>3, <1>5, <2>1, Numbers
<1>6. CASE /\ Len(NewIndex.priv) = 1 /\ Len(NewIndex.file) < Len(Staging.file)
           /\ NextContent = Staging.file[Len(NewIndex.file) + 1]
  <2>1. Len(NewIndex.file) + 1 \in DOMAIN Staging.file
    BY <1>3, <1>4, <1>6
  <2>2. NextContent \in Payload
    BY <1>3, <1>6, <2>1
  <2>3. Len(Placed) = 1 + Len(NewIndex.file)
    BY <1>1, <1>6
  <2>4. Len(Placed) <= MaxChunks
    BY <1>2, <1>3, <1>4, <1>6, <2>3, Numbers
  <2> QED BY <1>4, <2>2, <2>4, Numbers
<1> QED BY <1>5, <1>6, NextIs

LEMMA StageChunkKeeps ==
  ASSUME RestoreInv, StageChunk
  PROVE  RestoreInv' /\ root' = root
<1> DEFINE o == NextChunk
           x == Extent(o, NextContent)
           y == Placing(x)
           chunks == StagedChunks(Generation)
<1>1. StagingNow /\ restore.phase = "content" /\ ~AllPlaced
      /\ StageObject(o, Bytes(NextContent))
      /\ restore' = [restore EXCEPT !.staged = @ \cup {o}, !.new[Number] = y]
  BY StagingHolds DEF StageChunk
<1>2. /\ Generation \in 1..MaxSerial /\ Number \in 1..2 /\ root.serial \in Nat
      /\ Generation = root.serial + Number
  BY <1>1, StagingPair DEF StagingNow
<1>3. IsFiniteSet(restore.staged) /\ (\A n \in restore.staged : n.gen > root.serial)
      /\ (\A n \in restore.staged : n.gen <= Generation)
      /\ Cardinality(chunks) <= Len(Placed)
  BY <1>1 DEF StagingNow, Leftovers
<1>4. IsFiniteSet(chunks) /\ Cardinality(chunks) \in Nat
  BY <1>3, FS_Subset, FS_CardinalityType DEF StagedChunks
<1>5. NextContent \in Nat /\ Len(Placed) \in Nat /\ Len(Placed) <= MaxChunks
  BY <1>1, RoomForNext
<1>6. o = Chunk(Generation, 1 + Cardinality(chunks))
  BY DEF NextChunk, StagedChunks
<1>7. o \in Name /\ o.gen = Generation /\ o.type = "c"
  <2>2. 1 + Cardinality(chunks) \in Part
    BY <1>3, <1>4, <1>5, Numbers DEF Part
  <2> QED BY <1>2, <1>6, <2>2, ChunkNames
<1> HIDE DEF o, chunks
<1>8. Calm' /\ ~Busy' /\ root' = root
  <2>1. o.gen > root.serial
    BY <1>2, <1>7
  <2> QED BY <1>1, <1>5, <2>1, ContentKinds, ObjectStaged DEF StagingNow
<1>9. /\ x \in Exts /\ x.val = NextContent /\ x.obj = o
  BY <1>5, <1>7, Names DEF Extent, Exts
<1>10. o \in Upto(Generation)
  BY <1>2, <1>7 DEF Upto
<1> HIDE DEF x
<1>11. Built(y, Staging, Generation) /\ Len(y.priv) + Len(y.file) = Len(Placed) + 1
  BY <1>1, <1>7, <1>9, <1>10, PlacingBuilt
<1>12. y \in Conts
  BY <1>11 DEF Built
<1> HIDE DEF y
<1>13. /\ restore' \in Restores /\ restore'.phase = "content"
       /\ restore'.staged = restore.staged \cup {o}
       /\ restore'.pairs = restore.pairs /\ restore'.high = restore.high
       /\ restore'.old = restore.old /\ IndexGrows(y)
  <2>1. restore.staged \cup {o} \in SUBSET Name
    BY <1>1, <1>7 DEF StagingNow, Restores
  <2> QED BY <1>1, <1>12, <2>1, RestoreGrows
<1>14. Taken' /\ HighKnown'
  BY <1>1, <1>8, <1>13, TakenSame, HighSame DEF StagingNow
<1>15. Placement' /\ NewIndex' = y /\ Generation' = Generation
  BY <1>1, <1>8, <1>11, <1>13, PlacementGrows
<1>16. Leftovers'
  <2>1. Len(Placed)' = Len(Placed) + 1 /\ Len(Placed) \in Nat
    BY <1>1, <1>11, <1>12, <1>15, PlacedGrows
  <2>2. StagedChunks(Generation)' = chunks \cup {o}
    BY <1>7, <1>13, <1>15 DEF StagedChunks, chunks
  <2>3. Cardinality(chunks \cup {o}) <= Cardinality(chunks) + 1
        /\ Cardinality(chunks \cup {o}) \in Nat
    BY <1>4, FS_AddElement
  <2>4. Cardinality(chunks \cup {o}) <= Len(Placed)'
    BY <1>3, <1>4, <2>1, <2>3
  <2>5. IsFiniteSet(restore.staged \cup {o})
    BY <1>3, FS_AddElement
  <2>6. \A n \in restore'.staged : n.gen > root'.serial /\ n.gen <= Generation'
    BY <1>2, <1>3, <1>7, <1>8, <1>13, <1>15
  <2> QED BY <1>13, <2>2, <2>4, <2>5, <2>6 DEF Leftovers
<1> QED BY <1>8, <1>13, <1>14, <1>15, <1>16, GoesOn

LEMMA PlacedComplete ==
  ASSUME StagingNow, AllPlaced
  PROVE  Complete(NewIndex, Staging)
<1>1. /\ Built(NewIndex, Staging, Generation) /\ Staging \in ArchivedPair
      /\ NewIndex.priv \in Seq(Exts) /\ NewIndex.file \in Seq(Exts)
      /\ Len(Placed) = Len(NewIndex.priv) + Len(NewIndex.file)
      /\ Len(Contents) = 1 + Len(Staging.file)
  BY StagingPair DEF StagingNow
<1>2. Len(NewIndex.priv) + Len(NewIndex.file) = 1 + Len(Staging.file)
  BY <1>1 DEF AllPlaced
<1>3. Len(NewIndex.priv) <= 1 /\ Len(NewIndex.file) <= Len(Staging.file)
  BY <1>1 DEF Built
<1>4. Len(Staging.file) \in Nat
  BY <1>1 DEF ArchivedPair
<1>5. Len(NewIndex.priv) \in Nat /\ Len(NewIndex.file) \in Nat
  BY <1>1, Lengths
<1>6. \A a, b, c \in Nat : a + b = 1 + c /\ a <= 1 /\ b <= c => a = 1 /\ b = c
  OBVIOUS
<1> QED BY <1>2, <1>3, <1>4, <1>5, <1>6 DEF Complete

\* The placement goes on with the next pair, or is finished.
Finishing ==
  /\ restore.phase = "ready"
  /\ Number \in 1..Len(restore.pairs) /\ Number = Len(restore.pairs)
  /\ From(restore.old, root.serial)
  /\ \A k \in 1..Number : Built(restore.new[k], restore.pairs[k], root.serial + k)
  /\ \A k \in 1..Number : Complete(restore.new[k], restore.pairs[k])

LEMMA FinishingPlaces == Finishing => Placement
BY DEF Finishing, Placement

LEMMA FinishingNext == Finishing' => Placement'
BY FinishingPlaces, PTL

Starting ==
  /\ restore.phase = "package"
  /\ Number \in 1..Len(restore.pairs)
  /\ From(restore.old, root.serial)
  /\ NewIndex = Index(<<>>, <<>>)
  /\ \A k \in 1..Number : Built(restore.new[k], restore.pairs[k], root.serial + k)
  /\ \A k \in 1..Number : k < Number => Complete(restore.new[k], restore.pairs[k])

LEMMA StartingPlaces == Starting => Placement
BY DEF Starting, Placement

LEMMA StartingNext == Starting' => Placement'
BY StartingPlaces, PTL

LEMMA StageIndexKeeps ==
  ASSUME RestoreInv, StageIndex
  PROVE  RestoreInv' /\ root' = root
<1> DEFINE o == Data(Generation)
           more == Number < Len(restore.pairs)
           new == IF more THEN Append(restore.new, Index(<<>>, <<>>)) ELSE restore.new
<1>1. StagingNow /\ restore.phase = "content" /\ AllPlaced /\ StageObject(o, NewIndex)
      /\ restore' = [restore EXCEPT !.phase = IF more THEN "package" ELSE "ready",
                       !.staged = restore.staged \cup {o}, !.new = new]
  BY StagingHolds DEF StageIndex
<1>2. /\ Generation \in 1..MaxSerial /\ Number \in 1..2 /\ root.serial \in Nat
      /\ Generation = root.serial + Number /\ Number = Len(restore.new)
      /\ Built(NewIndex, Staging, Generation)
  BY <1>1, StagingPair DEF StagingNow
<1>3. o \in Name /\ o.gen = Generation /\ o.type = "d"
  BY <1>2, PairNames
<1>4. o.gen > root.serial /\ o.gen <= Generation
  <2>1. Number \in 1..2 /\ root.serial \in Nat /\ Generation = root.serial + Number
    BY <1>2
  <2> QED BY <1>3, <2>1
<1>5. Calm' /\ ~Busy' /\ root' = root
  <2>1. o.gen > root.serial
    BY <1>4
  <2>2. NewIndex \in Conts
    BY <1>2 DEF Built
  <2> HIDE DEF o
  <2> QED BY <1>1, <2>1, <2>2, ObjectStaged DEF StagingNow
<1>6. Index(<<>>, <<>>) \in Conts
  BY DEF Index, Conts
<1>7. restore \in Restores /\ restore.new \in Seq(Conts) /\ restore.staged \cup {o} \in SUBSET Name
  BY <1>1, <1>3 DEF StagingNow, Restores
<1>8. /\ new \in Seq(Conts)
      /\ \A k \in 1..Number : new[k] = restore.new[k]
      /\ more => Len(new) = Number + 1 /\ new[Number + 1] = Index(<<>>, <<>>)
      /\ ~more => Len(new) = Number
  BY <1>2, <1>6, <1>7
<1> HIDE DEF new
<1>9. /\ restore' \in Restores /\ restore'.staged = restore.staged \cup {o}
      /\ restore'.phase = IF more THEN "package" ELSE "ready"
      /\ restore'.pairs = restore.pairs /\ restore'.high = restore.high
      /\ restore'.old = restore.old /\ restore'.new = new
  BY <1>1, <1>7, <1>8 DEF Restores
<1>10. Taken' /\ HighKnown'
  BY <1>1, <1>5, <1>9, TakenSame, HighSame DEF StagingNow
<1>11. /\ Number \in 1..Len(restore.pairs) /\ From(restore.old, root.serial)
       /\ \A k \in 1..Number : /\ Built(restore.new[k], restore.pairs[k], root.serial + k)
                               /\ k < Number => Complete(restore.new[k], restore.pairs[k])
       /\ Len(restore.pairs) \in 1..2 /\ restore.pairs \in Seq(ArchivedPair)
  BY <1>1 DEF StagingNow, Placement, Taken, Restores
<1>12. Complete(NewIndex, Staging)
  BY <1>1, PlacedComplete
<1>13. \A k \in 1..Number : /\ Built(new[k], restore.pairs[k], root.serial + k)
                            /\ Complete(new[k], restore.pairs[k])
  <2>1. \A k \in 1..Number : k < Number \/ k = Number
    BY <1>2
  <2>2. Complete(restore.new[Number], restore.pairs[Number])
    BY <1>12 DEF NewIndex, Staging
  <2> QED BY <1>8, <1>11, <2>1, <2>2
<1>14. From(restore'.old, root'.serial)
  BY <1>5, <1>9, <1>11
<1>15. /\ IsFiniteSet(restore'.staged)
       /\ \A n \in restore'.staged : n.gen > root'.serial /\ n.gen <= Generation
  <2>1. IsFiniteSet(restore.staged) /\ (\A n \in restore.staged : n.gen > root.serial)
        /\ \A n \in restore.staged : n.gen <= Generation
    BY <1>1 DEF StagingNow, Leftovers
  <2>2. IsFiniteSet(restore.staged \cup {o})
    BY <2>1, FS_AddElement
  <2> HIDE DEF o
  <2> QED BY <1>5, <1>9, <1>4, <2>1, <2>2
<1>16. CASE more
  <2>1. Number' = Number + 1 /\ NewIndex' = Index(<<>>, <<>>)
        /\ Generation' = Generation + 1
    <3>1. Len(new) = Number + 1 /\ new[Number + 1] = Index(<<>>, <<>>)
      BY <1>8, <1>16
    <3>2. Number' = Len(restore'.new)
      BY DEF Number
    <3>3. Number' = Number + 1
      BY <1>9, <3>1, <3>2
    <3>4. NewIndex' = restore'.new[Number']
      BY DEF NewIndex
    <3>5. Generation' = root'.serial + Number'
      BY DEF Generation
    <3>6. Generation' = Generation + 1
      BY <1>2, <1>5, <3>3, <3>5
    <3> QED BY <1>9, <3>1, <3>3, <3>4, <3>6
  <2>2. Number + 1 = 2 /\ Number + 1 \in 1..Len(restore.pairs)
    <3>1. \A n, l \in 1..2 : n < l => n + 1 = 2 /\ n + 1 \in 1..l
      OBVIOUS
    <3> QED BY <1>2, <1>11, <1>16, <3>1
  <2>3. \A k \in 1..(Number + 1) : k \in 1..Number \/ k = Number + 1
    BY <1>2
  <2>4. Built(Index(<<>>, <<>>), restore.pairs[Number + 1], root.serial + (Number + 1))
    <3>1. restore.pairs[Number + 1].file \in Seq(Payload)
      <4>1. restore.pairs[Number + 1] \in ArchivedPair
        BY <1>11, <2>2
      <4> QED BY <4>1 DEF ArchivedPair
    <3> QED BY <1>6, <3>1 DEF Built, Index
  <2>5. \A k \in 1..(Number + 1) :
          /\ Built(new[k], restore.pairs[k], root.serial + k)
          /\ k < Number + 1 => Complete(new[k], restore.pairs[k])
    <3>1. new[Number + 1] = Index(<<>>, <<>>) /\ ~(Number + 1 < Number + 1)
      BY <1>2, <1>8, <1>16
    <3> QED BY <1>13, <2>3, <2>4, <3>1
  <2>6. Starting'
    <3>1. restore'.phase = "package"
      BY <1>9, <1>16
    <3>2. Number' \in 1..Len(restore'.pairs)
      BY <1>9, <2>1, <2>2
    <3>3. \A k \in 1..Number' : Built(restore'.new[k], restore'.pairs[k], root'.serial + k)
      BY <1>5, <1>9, <2>1, <2>5
    <3>4. \A k \in 1..Number' : k < Number' => Complete(restore'.new[k], restore'.pairs[k])
      BY <1>9, <2>1, <2>5
    <3> QED BY <1>14, <2>1, <3>1, <3>2, <3>3, <3>4 DEF Starting
  <2>7. Placement'
    BY <2>6, StartingNext
  <2>8. Leftovers'
    <3>1. \A n \in restore'.staged : n.gen <= Generation' /\ n.gen # Generation'
      <4>1. \A n \in restore'.staged : n.gen \in Nat
        BY <1>9, Names DEF Restores
      <4> QED BY <1>2, <1>15, <2>1, <4>1
    <3>2. StagedChunks(Generation)' = {}
      BY <3>1 DEF StagedChunks
    <3> QED BY <1>9, <1>15, <1>16, <3>1, <3>2 DEF Leftovers
  <2> QED BY <1>5, <1>9, <1>10, <1>16, <2>7, <2>8, GoesOn
<1>17. CASE ~more
  <2>1. Number' = Number
    BY <1>8, <1>9, <1>17 DEF Number
  <2>2. Number = Len(restore.pairs)
    BY <1>2, <1>11, <1>17
  <2>3. Finishing'
    <3>1. restore'.phase = "ready"
      BY <1>9, <1>17
    <3>2. Number' \in 1..Len(restore'.pairs) /\ Number' = Len(restore'.pairs)
      BY <1>9, <1>11, <2>1, <2>2
    <3>3. \A k \in 1..Number' : Built(restore'.new[k], restore'.pairs[k], root'.serial + k)
      BY <1>5, <1>9, <1>13, <2>1
    <3>4. \A k \in 1..Number' : Complete(restore'.new[k], restore'.pairs[k])
      BY <1>9, <1>13, <2>1
    <3> QED BY <1>14, <3>1, <3>2, <3>3, <3>4 DEF Finishing
  <2>4. Placement'
    BY <2>3, FinishingNext
  <2>5. Leftovers'
    BY <1>9, <1>15, <1>17 DEF Leftovers
  <2> QED BY <1>5, <1>9, <1>10, <1>17, <2>4, <2>5, GoesOn
<1> QED BY <1>5, <1>16, <1>17

(***************************************************************************)
(* Publication                                                             *)
(***************************************************************************)
\* A pair that was staged is one an app can be installed with.
LEMMA StagedOk ==
  ASSUME NEW g \in 1..MaxSerial, NEW x, NEW a \in ArchivedPair, Len(a.file) <= MaxChunks,
         Built(x, a, g), Complete(x, a), NEW pair, pair = Pair(g, a.pkg, g, x)
  PROVE  /\ FullPair(pair, g) /\ Listed(pair) /\ pair \in Pairs /\ pair.pkg = a.pkg
         /\ View(pair) \in Store!Installed
<1>1. /\ a.pkg \in Version /\ a.priv \in Payload /\ a.file \in Seq(Payload)
      /\ Len(a.file) \in Nat
  BY DEF ArchivedPair
<1>2. /\ x \in Conts /\ x = Index(x.priv, x.file)
      /\ Len(x.priv) = 1 /\ Len(x.file) = Len(a.file)
      /\ \A i \in DOMAIN x.priv : /\ x.priv[i].obj \in Upto(g) /\ x.priv[i].obj.type # "p"
                                  /\ x.priv[i].val = a.priv
      /\ \A i \in DOMAIN x.file : /\ x.file[i].obj \in Upto(g) /\ x.file[i].obj.type = "c"
                                  /\ x.file[i].val = a.file[i]
  BY DEF Built, Complete
<1>3. x.kind = "index" /\ x.priv \in Seq(Exts) /\ x.file \in Seq(Exts)
  BY <1>2 DEF Index, Conts
<1>4. /\ pair.p = g /\ pair.d = g /\ pair.pkg = a.pkg /\ pair.data = x /\ pair \in Pairs
  BY <1>1, <1>2, Numbers DEF Pair, Pairs
<1>5. \A need \in Needs(pair) : need.obj \in Upto(g)
  <2>1. Package(g) \in Upto(g) /\ Data(g) \in Upto(g)
    BY PairNames, Numbers DEF Upto
  <2>2. \A e \in Extents(pair) : e.obj \in Upto(g)
    BY <1>2, <1>4 DEF Extents, Elements
  <2> QED BY <1>4, <2>1, <2>2, NeedCases
<1>6. \A i \in DOMAIN x.priv : x.priv[i].obj.type \in {"c", "d"}
  BY <1>2, Names DEF Upto
<1>7. Len(x.file) <= MaxChunks
  BY <1>2
<1>8. PairOk(pair, g)
  BY <1>2, <1>3, <1>4, <1>5, <1>6, <1>7 DEF PairOk
<1>9. FullPair(pair, g)
  BY <1>3, <1>4, <1>8 DEF FullPair
<1>10. DOMAIN x.file = 1..Len(a.file) /\ DOMAIN a.file = 1..Len(a.file)
  BY <1>1, <1>2, <1>3
<1>11. \A i \in 1..Len(a.file) : x.file[i].val = a.file[i] /\ a.file[i] \in Payload
  BY <1>1, <1>2, <1>10
<1>12. Listed(pair)
  BY <1>1, <1>4, <1>10, <1>11 DEF Listed
<1>13. View(pair).file \in Store!Files
  <2>1. View(pair).file = [i \in 1..Len(a.file) |-> x.file[i].val]
    BY <1>4, <1>10 DEF View
  <2>2. View(pair).file \in [1..Len(a.file) -> Payload]
    BY <1>11, <2>1
  <2>3. Len(a.file) \in 0..MaxChunks
    BY <1>1, Numbers
  <2> QED BY <2>2, <2>3 DEF Store!Files
<1>14. View(pair).priv \in Payload
  <2>1. 1 \in DOMAIN x.priv
    BY <1>2, <1>3
  <2> QED BY <1>1, <1>2, <1>3, <1>4, <2>1 DEF View, Value
<1>15. View(pair) \in Store!Installed
  BY <1>1, <1>4, <1>13, <1>14 DEF Store!Installed, View
<1> QED BY <1>4, <1>9, <1>12, <1>15

Prepared == /\ restore \in Restores /\ Calm /\ Taken /\ Placement
            /\ restore.phase \in {"ready", "publish"}

\* The root that is published is one of an installed app.
LEMMA RestoredOk ==
  ASSUME Prepared
  PROVE  LET r == RestoredRoot
         IN  /\ r \in Roots /\ RootOk(r) /\ RootMeans(r)
             /\ r.kind = "doc" /\ r.high = restore.high /\ r.high \in Version
             /\ r.upgrade = (r.prev # NoPair)
             /\ r.cur.pkg = restore.pairs[1].pkg /\ View(r.cur) \in Store!Installed
             /\ r.prev # NoPair => /\ Len(restore.pairs) = 2
                                   /\ r.prev.pkg = restore.pairs[2].pkg
                                   /\ View(r.prev) \in Store!Installed
             /\ r.cur.pkg <= r.high
<1> DEFINE n == Len(restore.pairs)
           r == RestoredRoot
<1>1. /\ n \in 1..2 /\ root.serial + n <= MaxSerial /\ root.serial \in Nat
      /\ restore.high \in Version /\ restore.pairs \in Seq(ArchivedPair)
      /\ \A k \in DOMAIN restore.pairs : /\ restore.pairs[k].pkg <= restore.high
                                         /\ Len(restore.pairs[k].file) <= MaxChunks
  BY DEF Prepared, Taken, Calm, Roots, Restores
<1>2. \A k \in 1..n : /\ Built(restore.new[k], restore.pairs[k], root.serial + k)
                      /\ Complete(restore.new[k], restore.pairs[k])
  BY DEF Prepared, Placement
<1>3. ASSUME NEW k \in 1..n
      PROVE  /\ FullPair(StagedPair(k), root.serial + k) /\ Listed(StagedPair(k))
             /\ StagedPair(k) \in Pairs /\ StagedPair(k).pkg = restore.pairs[k].pkg
             /\ View(StagedPair(k)) \in Store!Installed
             /\ restore.pairs[k] \in ArchivedPair
  <2>1. root.serial + k \in 1..MaxSerial
    BY <1>1, Numbers
  <2>2. k \in DOMAIN restore.pairs /\ restore.pairs[k] \in ArchivedPair
    BY <1>1
  <2>3. Len(restore.pairs[k].file) <= MaxChunks
    BY <1>1, <2>2
  <2>4. Built(restore.new[k], restore.pairs[k], root.serial + k)
        /\ Complete(restore.new[k], restore.pairs[k])
    BY <1>2
  <2>5. StagedPair(k) = Pair(root.serial + k, restore.pairs[k].pkg, root.serial + k, restore.new[k])
    BY DEF StagedPair
  <2> QED BY <2>1, <2>2, <2>3, <2>4, <2>5, StagedOk
<1>4. /\ r.kind = "doc" /\ r.serial = root.serial + n /\ r.upgrade = (n = 2)
      /\ r.high = restore.high /\ r.cur = StagedPair(1)
      /\ r.prev = IF n = 2 THEN StagedPair(2) ELSE NoPair
      /\ r = [kind |-> r.kind, serial |-> r.serial, upgrade |-> r.upgrade,
              high |-> r.high, cur |-> r.cur, prev |-> r.prev]
  BY DEF RestoredRoot, Root
<1>5. 1 \in 1..n /\ (n = 2 => 2 \in 1..n) /\ root.serial + n \in Nat
      /\ root.serial + 1 <= root.serial + n /\ root.serial + 1 \in Nat
  <2>1. \A l \in 1..2, b \in Nat : /\ 1 \in 1..l /\ (l = 2 => 2 \in 1..l)
                                    /\ b + l \in Nat /\ b + 1 <= b + l /\ b + 1 \in Nat
    OBVIOUS
  <2>2. n \in 1..2 /\ root.serial \in Nat
    BY <1>1
  <2> HIDE DEF n
  <2> QED BY <2>1, <2>2
<1>6. FullPair(r.cur, r.serial) /\ Listed(r.cur) /\ r.cur \in Pairs
      /\ View(r.cur) \in Store!Installed /\ r.cur.pkg = restore.pairs[1].pkg
  <2>1. FullPair(StagedPair(1), root.serial + n)
    <3>1. FullPair(StagedPair(1), root.serial + 1)
      BY <1>3, <1>5
    <3> QED BY <1>5, <3>1, FullMonotone
  <2> QED BY <1>3, <1>4, <1>5, <2>1
<1>7. n = 2 => /\ FullPair(r.prev, r.serial) /\ Listed(r.prev) /\ r.prev \in Pairs
               /\ View(r.prev) \in Store!Installed /\ r.prev.pkg = restore.pairs[2].pkg
               /\ r.prev # NoPair
  <2>1. n = 2 => FullPair(StagedPair(2), root.serial + n)
    BY <1>3, <1>5
  <2>2. n = 2 => r.prev # NoPair
    BY <1>4, <2>1, FullIsPair
  <2> QED BY <1>3, <1>4, <1>5, <2>1, <2>2
<1>8. n # 2 => r.prev = NoPair /\ r.prev \in Pairs
  BY <1>4, NoPairOk
<1>9. r.serial \in Nat /\ r.serial <= MaxSerial /\ r.high \in Nat
  BY <1>1, <1>4, Numbers
<1>10. r \in Roots
  <2>1. r.prev \in Pairs
    BY <1>7, <1>8
  <2>2. r.upgrade \in BOOLEAN
    BY <1>4
  <2> HIDE DEF r, n
  <2> QED BY <1>4, <1>6, <1>9, <2>1, <2>2 DEF Roots
<1>11. r.upgrade = (r.prev # NoPair)
  BY <1>4, <1>7, <1>8
<1>12. r.prev # NoPair => n = 2
  BY <1>8
<1>13. RootOk(r)
  <2> HIDE DEF r, n
  <2> QED BY <1>4, <1>6, <1>7, <1>9, <1>10, <1>11, <1>12 DEF RootOk
<1>14. RootMeans(r)
  <2> HIDE DEF r, n
  <2> QED BY <1>4, <1>6, <1>7, <1>12 DEF RootMeans
<1>15. r.cur.pkg <= r.high
  <2>1. 1 \in DOMAIN restore.pairs
    BY <1>1
  <2> QED BY <1>1, <1>4, <1>6, <2>1
<1> HIDE DEF r
<1>16. r.prev # NoPair => /\ n = 2 /\ r.prev.pkg = restore.pairs[2].pkg
                          /\ View(r.prev) \in Store!Installed
  BY <1>7, <1>12
<1> HIDE DEF n
<1> QED BY <1>1, <1>4, <1>6, <1>10, <1>11, <1>13, <1>14, <1>15, <1>16 DEF r, n

\* The rename is a restore as the promise has it.
LEMMA RestoredPromised ==
  ASSUME Prepared, root' = RestoredRoot
  PROVE  Store!Restore
<1> DEFINE r == RestoredRoot
<1>1. /\ r.kind = "doc" /\ r.high = restore.high /\ r.high \in Version
      /\ r.upgrade = (r.prev # NoPair)
      /\ r.cur.pkg = restore.pairs[1].pkg /\ View(r.cur) \in Store!Installed
      /\ r.prev # NoPair => /\ Len(restore.pairs) = 2
                            /\ r.prev.pkg = restore.pairs[2].pkg
                            /\ View(r.prev) \in Store!Installed
      /\ r.cur.pkg <= r.high /\ RootMeans(r)
  BY RestoredOk
<1> HIDE DEF r
<1>2. root' = r
  BY DEF r
<1>3. r # NoRoot
  BY <1>1, NoPairOk
<1>4. /\ View(r.cur).pkg = r.cur.pkg /\ View(r.prev).pkg = r.prev.pkg
      /\ View(root.cur).pkg = root.cur.pkg
  BY ViewTyped
<1>5. View(r.cur) # NotKept /\ (r.prev # NoPair => View(r.prev) # NotKept)
  BY <1>1, <1>3, ViewListed DEF RootMeans
<1>6. /\ Len(restore.pairs) = 2 => restore.pairs[2].pkg < restore.pairs[1].pkg
      /\ restore.high >= InstalledHigh
      /\ \/ root = NoRoot
         \/ restore.pairs[1].pkg = root.cur.pkg
         \/ restore.pairs[1].pkg > InstalledHigh
  BY DEF Prepared, Taken
<1>7. /\ RootOk(root) /\ RootMeans(root) /\ root \in Roots
  BY DEF Prepared, Calm
<1>8. Store!Floor = InstalledHigh
  <2>1. CASE root.kind = "doc"
    BY <2>1 DEF Store!Floor, InstalledHigh
  <2>2. CASE root = NoRoot
    <3>1. root.kind = "none" /\ root.high = 0
      BY <2>2, NoPairOk DEF NoRoot, Root
    <3> QED BY <2>2, <3>1 DEF Store!Floor, InstalledHigh
  <2>3. CASE root.kind = "file2"
    <3>1. root # NoRoot /\ View(root.cur) # NotKept
      BY <1>7, <2>3, NoPairOk, ViewListed DEF RootMeans
    <3> QED BY <1>4, <2>3, <3>1 DEF Store!Floor, InstalledHigh
  <2> QED BY <1>7, <2>1, <2>2, <2>3 DEF RootOk, Roots
<1>9. /\ (root'.kind = "doc") = TRUE
      /\ (IF root' = NoRoot THEN NotKept ELSE View(root'.cur)) = View(r.cur)
      /\ (IF root'.prev = NoPair THEN NotKept ELSE View(root'.prev)) =
           IF r.prev = NoPair THEN NotKept ELSE View(r.prev)
      /\ root'.upgrade = r.upgrade /\ root'.high = r.high
  BY <1>1, <1>2, <1>3
<1>10. \/ (IF root = NoRoot THEN NotKept ELSE View(root.cur)) = NotKept
       \/ View(r.cur).pkg = (IF root = NoRoot THEN NotKept ELSE View(root.cur)).pkg
       \/ View(r.cur).pkg > Store!Floor
  <2>1. CASE root = NoRoot
    BY <2>1
  <2>2. CASE root # NoRoot
    BY <1>1, <1>4, <1>6, <1>8, <2>2
  <2> QED BY <2>1, <2>2
<1>11. r.prev # NoPair => View(r.prev).pkg < View(r.cur).pkg
  BY <1>1, <1>4, <1>6
<1>12. r.high >= View(r.cur).pkg /\ r.high >= Store!Floor
  <2>1. r.cur.pkg \in Nat /\ r.high \in Nat
    BY <1>1, <1>3, Numbers DEF RootMeans, Listed
  <2>2. r.high >= r.cur.pkg
    BY <1>1, <2>1
  <2> QED BY <1>1, <1>4, <1>6, <1>8, <2>2
<1> QED BY <1>1, <1>5, <1>9, <1>10, <1>11, <1>12 DEF Store!Restore

\* The staged root stays what it is while the restore and the root stay.
LEMMA RestoredSame ==
  ASSUME root' = root, restore'.pairs = restore.pairs, restore'.new = restore.new,
         restore'.high = restore.high
  PROVE  RestoredRoot' = RestoredRoot
BY DEF RestoredRoot, StagedPair

LEMMA PlacementStays ==
  ASSUME Placement, restore.phase \in {"ready", "publish"},
         restore'.phase \in {"ready", "publish"}, root' = root,
         restore'.pairs = restore.pairs, restore'.new = restore.new,
         restore'.old = restore.old
  PROVE  Placement'
BY DEF Placement, Number, From, Upto, Built, Complete

\* The leftovers stay what they are once nothing is staged any more.
LEMMA LeftoversStay ==
  ASSUME Leftovers, root' = root, restore'.staged \subseteq restore.staged,
         restore'.phase \in {"ready", "publish", "cleanup"}
  PROVE  Leftovers'
<1>1. IsFiniteSet(restore'.staged)
  BY FS_Subset DEF Leftovers
<1> QED BY <1>1 DEF Leftovers

LEMMA CommitRestoreKeeps ==
  ASSUME RestoreInv, CommitRestore
  PROVE  RestoreInv' /\ root' = root
<1>1. /\ restore \in Restores /\ Calm /\ Taken /\ Leftovers /\ ~Busy /\ HighKnown
      /\ Placement /\ restore.phase = "ready"
  BY DEF CommitRestore, RestoreInv
<1>2. /\ StartStaged(RestoredRoot) /\ UNCHANGED <<flash, faults, volume>>
      /\ restore' = [restore EXCEPT !.phase = "publish", !.publisher = TRUE]
  BY DEF CommitRestore
<1>3. /\ UNCHANGED <<objects, dir, root, pending, faults, readers, vol, user, file, plain>>
      /\ phase' = "checkStaged" /\ scan' = {}
      /\ job' = Job(root, RestoredRoot, FALSE, FALSE, FALSE, FALSE)
  BY <1>2 DEF flash, volume, StartStaged
<1>4. /\ restore' \in Restores /\ restore'.phase = "publish"
      /\ restore'.pairs = restore.pairs /\ restore'.high = restore.high
      /\ restore'.old = restore.old /\ restore'.new = restore.new
      /\ restore'.staged = restore.staged
  BY <1>1, <1>2 DEF Restores
<1>5. RestoredRoot \in Roots /\ RestoredRoot' = RestoredRoot
  BY <1>1, <1>3, <1>4, RestoredOk, RestoredSame DEF Prepared
<1>6. Calm'
  <2>1. job' \in Jobs
    BY <1>1, <1>3, <1>5 DEF Job, Jobs, Calm
  <2> QED BY <1>1, <1>3, <2>1, Unmoved, CalmStays DEF Calm
<1>7. Publishing'
  BY <1>3, <1>5 DEF Publishing
<1>8. Taken' /\ HighKnown' /\ Leftovers' /\ Placement'
  BY <1>1, <1>3, <1>4, TakenSame, HighSame, LeftoversStay, PlacementStays
<1> QED BY <1>3, <1>4, <1>6, <1>7, <1>8 DEF RestoreInv

\* A restore that is abandoned leaves the root alone.
LEMMA Abandoned ==
  ASSUME RestoreInv, restore.phase # "idle", UNCHANGED <<flash, volume>>,
         faults' \in 0..MaxFaults, ~Busy', job' \in Jobs, scan' = {},
         restore' = [restore EXCEPT !.phase = "cleanup"]
  PROVE  RestoreInv' /\ root' = root
<1>1. /\ restore \in Restores /\ Calm /\ Taken /\ Leftovers /\ HighKnown
  BY DEF RestoreInv
<1>2. UNCHANGED <<objects, dir, root, pending, readers, vol, user, file, plain>>
  BY DEF flash, volume
<1>3. /\ restore' \in Restores /\ restore'.phase = "cleanup"
      /\ restore'.pairs = restore.pairs /\ restore'.high = restore.high
      /\ restore'.staged = restore.staged
  BY <1>1 DEF Restores
<1>4. Calm'
  BY <1>1, <1>2, Unmoved, CalmStays DEF Calm
<1>5. Taken' /\ HighKnown' /\ Leftovers'
  BY <1>1, <1>2, <1>3, TakenSame, HighSame, LeftoversStay
<1> QED BY <1>2, <1>3, <1>4, <1>5, GoesOn

LEMMA AbandonKeeps ==
  ASSUME RestoreInv, Abandon
  PROVE  RestoreInv' /\ root' = root
<1>1. /\ restore.phase # "idle" /\ UNCHANGED <<flash, faults, volume>>
      /\ restore' = [restore EXCEPT !.phase = "cleanup"]
  BY DEF Abandon
<1>2. Calm /\ faults' \in 0..MaxFaults
  BY <1>1 DEF RestoreInv, Calm
<1>3. CASE restore.phase \in {"directory", "package", "content", "ready"} /\ UNCHANGED engine
  <2>1. ~Busy' /\ job' \in Jobs /\ scan' = {}
    BY <1>2, <1>3 DEF RestoreInv, Busy, engine, Calm
  <2> QED BY <1>1, <1>2, <2>1, Abandoned
<1>4. CASE StopEngine
  <2>1. ~Busy' /\ job' \in Jobs /\ scan' = {}
    BY <1>4, NoJobTyped DEF StopEngine, Busy
  <2> QED BY <1>1, <1>2, <2>1, Abandoned
<1> QED BY <1>3, <1>4 DEF Abandon

\* One step of the engine nearer to the rename.
LEMMA PublishGoesOn ==
  ASSUME RestoreInv, restore.phase = "publish", restore' = restore,
         UNCHANGED <<objects, dir, root, volume, job>>, pending' \in Roots,
         faults' \in 0..MaxFaults, scan' = {},
         phase' \in {"rootWrite", "rootVerify", "commit"},
         \A need \in NeedsOf(RestoredRoot) : Intact(need.obj, need.content),
         phase' = "commit" => pending' = RestoredRoot
  PROVE  RestoreInv' /\ root' = root
<1>1. /\ restore \in Restores /\ Calm /\ Taken /\ Leftovers /\ HighKnown
      /\ Placement /\ Publishing
  BY DEF RestoreInv
<1>2. UNCHANGED <<readers, vol, user, file, plain>>
  BY DEF volume
<1>3. Calm'
  BY <1>1, <1>2, Unmoved, CalmStays DEF Calm
<1>4. RestoredRoot' = RestoredRoot
  BY RestoredSame
<1>5. ASSUME NEW need \in NeedsOf(RestoredRoot)
      PROVE  Intact(need.obj, need.content)'
  BY DEF Intact
<1>6. NeedsOf(RestoredRoot)' = NeedsOf(RestoredRoot)
  BY <1>4 DEF NeedsOf
<1>7. Publishing'
  BY <1>1, <1>4, <1>5, <1>6 DEF Publishing
<1>8. Taken' /\ HighKnown' /\ Leftovers' /\ Placement'
  BY <1>1, TakenSame, HighSame, LeftoversStay, PlacementStays
<1> QED BY <1>1, <1>3, <1>7, <1>8 DEF RestoreInv

\* The rename.
LEMMA RestoredRenamed ==
  ASSUME RestoreInv, restore.phase = "publish", phase = "commit",
         root' = pending, pending' = NoRoot, UNCHANGED <<objects, dir, volume>>,
         faults' \in 0..MaxFaults, phase' \in {"done", "failed"}, job' = NoJob, scan' = {},
         restore' = NoRestore
  PROVE  RestoreInv' /\ Store!Restore
<1>1. /\ Prepared /\ Calm /\ Publishing
  BY DEF RestoreInv, Prepared
<1>2. /\ root' = RestoredRoot
      /\ \A need \in NeedsOf(RestoredRoot) : Intact(need.obj, need.content)
  BY <1>1 DEF Publishing
<1>3. /\ RestoredRoot \in Roots /\ RootOk(RestoredRoot) /\ RootMeans(RestoredRoot)
      /\ RestoredRoot.high \in Version
  BY <1>1, RestoredOk
<1>4. RootOk(root') /\ RootMeans(root') /\ root' \in Roots /\ HighKnown'
  BY <1>2, <1>3 DEF HighKnown
<1>5. RootWhole'
  <2>1. NeedsOf(root') = NeedsOf(RestoredRoot)
    BY <1>2
  <2>2. NeedsOf(root)' = NeedsOf(root')
    BY DEF NeedsOf
  <2>3. \A need \in NeedsOf(root') : objects'[need.obj] \in {need.content, Rotten}
    BY <1>2, <2>1 DEF Intact
  <2> QED BY <2>2, <2>3 DEF RootWhole, Intact
<1>6. ~Busy'
  BY DEF Busy
<1>7. UNCHANGED <<readers, vol, user, file, plain>>
  BY DEF volume
<1>8. NoReaders' = NoReaders /\ NoFile' = NoFile
  OBVIOUS
<1>9. RootOk(root)' /\ RootMeans(root)'
  BY <1>4
<1>10. Calm'
  BY <1>1, <1>4, <1>5, <1>7, <1>8, <1>9, NoPairOk, NoJobTyped DEF Calm
<1> QED BY <1>1, <1>2, <1>4, <1>6, <1>10, Over, RestoredPromised

LEMMA PublishStepKeeps ==
  ASSUME RestoreInv, PublishStep
  PROVE  RestoreInv' /\ (root' = root \/ Store!Restore)
<1>1. /\ restore.phase = "publish" /\ Calm /\ Publishing /\ Prepared /\ HighKnown
      /\ phase \in {"checkStaged", "rootWrite", "rootVerify", "commit"}
      /\ restore \in Restores /\ job.after = RestoredRoot /\ scan = {}
      /\ RestoredRoot \in Roots /\ faults \in 0..MaxFaults /\ pending \in Roots
  <2>1. restore.phase = "publish" /\ Calm /\ Publishing /\ Prepared /\ HighKnown
    BY DEF PublishStep, RestoreInv, Prepared
  <2>2. RestoredRoot \in Roots
    BY <2>1, RestoredOk
  <2> QED BY <2>1, <2>2 DEF Publishing, Prepared, Job, Calm
<1>2. /\ UNCHANGED volume /\ EngineStep
      /\ phase' = "done" \/ (phase' = "failed" /\ phase = "commit") => restore' = NoRestore
      /\ phase' = "failed" /\ phase # "commit" => restore' = [restore EXCEPT !.phase = "cleanup"]
      /\ phase' \notin {"done", "failed"} => restore' = restore
  BY DEF PublishStep
<1>3. ASSUME NEW to, Goto(to)
      PROVE  /\ phase' = to
             /\ to \in {"done", "failed"} => job' = NoJob /\ scan' = {}
             /\ to \notin {"done", "failed"} => job' = job /\ scan' = {}
  BY <1>1, <1>3 DEF Goto
<1>4. ASSUME Goto("failed"), phase # "commit", UNCHANGED flash, faults' \in 0..MaxFaults
      PROVE  RestoreInv' /\ root' = root
  <2>1. /\ ~Busy' /\ job' \in Jobs /\ scan' = {} /\ restore.phase # "idle"
        /\ restore' = [restore EXCEPT !.phase = "cleanup"]
    BY <1>1, <1>2, <1>3, <1>4, NoJobTyped DEF Busy
  <2> QED BY <1>2, <1>4, <2>1, Abandoned
<1>5. CASE CheckStaged
  <2>1. phase = "checkStaged" /\ UNCHANGED <<flash, faults>>
        /\ Continue(\A need \in NeedsOf(job.after) : Whole(need), "rootWrite")
    BY <1>5 DEF CheckStaged
  <2>2. CASE Goto("failed")
    BY <1>1, <1>4, <2>1, <2>2
  <2>3. CASE Goto("rootWrite") /\ \A need \in NeedsOf(job.after) : Whole(need)
    <3>1. \A need \in NeedsOf(RestoredRoot) : Intact(need.obj, need.content)
      BY <1>1, <2>3 DEF Whole, Intact
    <3>2. /\ phase' = "rootWrite" /\ job' = job /\ scan' = {} /\ restore' = restore
      BY <1>2, <1>3, <2>3
    <3>3. UNCHANGED <<objects, dir, root, volume, job>> /\ pending' \in Roots
          /\ faults' \in 0..MaxFaults
      BY <1>1, <1>2, <2>1, <3>2 DEF flash
    <3> QED BY <1>1, <3>1, <3>2, <3>3, PublishGoesOn
  <2> QED BY <2>1, <2>2, <2>3 DEF Continue
<1>6. ASSUME phase # "checkStaged"
      PROVE  \A need \in NeedsOf(RestoredRoot) : Intact(need.obj, need.content)
  BY <1>1, <1>6 DEF Publishing
<1>7. CASE RootWrite
  <2>1. phase = "rootWrite" /\ Stage(RestoredRoot) /\ Goto("rootVerify")
        /\ UNCHANGED <<objects, dir, root>>
    BY <1>1, <1>7 DEF RootWrite
  <2>2. pending' \in Roots /\ faults' \in 0..MaxFaults
    BY <1>1, <2>1, NoPairOk, Numbers DEF Stage
  <2>3. phase' = "rootVerify" /\ job' = job /\ scan' = {} /\ restore' = restore
    BY <1>2, <1>3, <2>1
  <2> QED BY <1>1, <1>2, <1>6, <2>1, <2>2, <2>3, PublishGoesOn
<1>8. CASE RootVerify
  <2>1. phase = "rootVerify" /\ UNCHANGED <<flash, faults>>
        /\ Continue(pending = job.after, "commit")
    BY <1>8 DEF RootVerify
  <2>2. CASE Goto("failed")
    BY <1>1, <1>4, <2>1, <2>2
  <2>3. CASE Goto("commit") /\ pending = job.after
    <3>1. phase' = "commit" /\ job' = job /\ scan' = {} /\ restore' = restore
      BY <1>2, <1>3, <2>3
    <3>2. UNCHANGED <<objects, dir, root, volume, job>> /\ pending' \in Roots
          /\ faults' \in 0..MaxFaults /\ pending' = RestoredRoot
      BY <1>1, <1>2, <2>1, <2>3, <3>1 DEF flash
    <3> QED BY <1>1, <1>6, <2>1, <3>1, <3>2, PublishGoesOn
  <2> QED BY <2>1, <2>2, <2>3 DEF Continue
<1>9. CASE Commit
  <2>1. /\ phase = "commit" /\ root' = pending /\ pending' = NoRoot
        /\ UNCHANGED <<objects, dir, faults>> /\ Goto("done")
    BY <1>9 DEF Commit
  <2>2. phase' = "done" /\ job' = NoJob /\ scan' = {} /\ restore' = NoRestore
    BY <1>2, <1>3, <2>1
  <2> QED BY <1>1, <1>2, <2>1, <2>2, RestoredRenamed
<1>10. CASE EngineFails
  <2>1. /\ Goto("failed") /\ faults' \in 0..MaxFaults
        /\ \/ UNCHANGED flash
           \/ phase = "commit" /\ root' = pending /\ pending' = NoRoot /\ UNCHANGED <<objects, dir>>
    BY <1>1, <1>10, Numbers DEF EngineFails
  <2>2. phase' = "failed" /\ job' = NoJob /\ scan' = {}
    BY <1>3, <2>1
  <2>3. CASE phase # "commit"
    BY <1>4, <2>1, <2>3
  <2>4. CASE phase = "commit" /\ UNCHANGED flash
    <3>1. restore' = NoRestore /\ ~Busy'
      BY <1>2, <2>2, <2>4 DEF Busy
    <3>2. UNCHANGED <<objects, dir, root, pending, readers, vol, user, file, plain>>
      BY <1>2, <2>4 DEF flash, volume
    <3>3. Calm'
      BY <1>1, <2>1, <2>2, <3>2, Unmoved, CalmStays, NoJobTyped DEF Calm
    <3>4. HighKnown'
      BY <1>1, <3>2, HighSame
    <3> QED BY <3>1, <3>2, <3>3, <3>4, Over
  <2>5. CASE phase = "commit" /\ root' = pending /\ pending' = NoRoot /\ UNCHANGED <<objects, dir>>
    <3>1. restore' = NoRestore
      BY <1>2, <2>2, <2>5
    <3> QED BY <1>1, <1>2, <2>1, <2>2, <2>5, <3>1, RestoredRenamed
  <2> QED BY <2>1, <2>3, <2>4, <2>5
<1>11. CASE \/ Check \/ OpenDirectory \/ Collect \/ CollectEnds
            \/ WriteObject \/ Verify \/ RemoveDirectory
  BY <1>1, <1>11 DEF Check, OpenDirectory, Collect, CollectEnds, WriteObject, Verify,
                     RemoveDirectory
<1> QED BY <1>2, <1>5, <1>7, <1>8, <1>9, <1>10, <1>11 DEF EngineStep

(***************************************************************************)
(* Cleanup                                                                 *)
(***************************************************************************)
LEMMA Least ==
  ASSUME NEW S, S # {}, NEW f, \A n \in S : f[n] \in Nat
  PROVE  \E n \in S : \A m \in S : f[n] <= f[m]
<1> DEFINE T == {f[n] : n \in S}
<1>1. T \subseteq Nat /\ T # {}
  OBVIOUS
<1>2. PICK i \in T : \A k \in T : ~(<<k, i>> \in OpToRel(<, Nat))
  BY <1>1, WFMin, NatLessThanWellFounded, Zenon
<1>3. ASSUME NEW k \in T
      PROVE  i <= k
  <2>1. i \in Nat /\ k \in Nat
    BY <1>1
  <2>2. ~(k < i)
    BY <1>2, <2>1, Zenon DEF OpToRel
  <2> QED BY <2>1, <2>2
<1> QED BY <1>3

LEMMA Ranks == Rank("c") = 1 /\ Rank("d") = 2 /\ Rank("p") = 3
BY DEF Rank, Kinds

LEMMA PartsOf ==
  ASSUME NEW n \in Name
  PROVE  /\ n.part \in 0..(MaxChunks + 1) /\ n.gen \in Nat /\ Rank(n.type) \in Nat
         /\ n = Object(n.type, n.gen, n.part) /\ n.type \in {"p", "d", "c"}
BY Ranks, Numbers DEF Name, Package, Data, Chunk, Object, Serial, Part

\* A cleanup removes what was staged.
LEMMA RemovedStaged ==
  ASSUME restore.staged \in SUBSET Name, restore.staged # {}
  PROVE  NextRemoved \in restore.staged
<1> DEFINE S == restore.staged
           top == MaxChunks + 1
<1>0. /\ \A n \in S : /\ n.part \in 0..top /\ n.gen \in Nat /\ Rank(n.type) \in Nat
                      /\ n = Object(n.type, n.gen, n.part) /\ n.type \in {"p", "d", "c"}
      /\ top \in Nat
  BY PartsOf, Numbers
<1>1. PICK a \in S : \A m \in S : a.gen <= m.gen
  <2> DEFINE f == [n \in S |-> n.gen]
  <2>1. \A n \in S : f[n] = n.gen /\ f[n] \in Nat
    BY <1>0
  <2> HIDE DEF f
  <2>2. PICK n \in S : \A m \in S : f[n] <= f[m]
    BY <2>1, Least
  <2> QED BY <2>1, <2>2
<1> DEFINE A == {n \in S : n.gen = a.gen}
<1>2. PICK b \in A : \A m \in A : Rank(b.type) <= Rank(m.type)
  <2> DEFINE f == [n \in A |-> Rank(n.type)]
  <2>1. \A n \in A : f[n] = Rank(n.type) /\ f[n] \in Nat
    BY <1>0
  <2>2. a \in A
    BY <1>1
  <2> HIDE DEF f, A
  <2>3. PICK n \in A : \A m \in A : f[n] <= f[m]
    BY <2>1, <2>2, Least
  <2> QED BY <2>1, <2>3
<1> DEFINE B == {n \in A : n.type = b.type}
<1>3. PICK c \in B : \A m \in B : c.part >= m.part
  <2> DEFINE f == [n \in B |-> top - n.part]
  <2>1. \A n \in B : f[n] = top - n.part /\ f[n] \in Nat /\ n.part \in 0..top
    BY <1>0
  <2>2. b \in B
    BY <1>2
  <2> HIDE DEF f, A, B, top
  <2>3. PICK n \in B : \A m \in B : f[n] <= f[m]
    BY <2>1, <2>2, Least
  <2> QED BY <1>0, <2>1, <2>3
<1>4. ASSUME NEW m \in S \ {c}
      PROVE  RemovedFirst(c, m)
  <2>1. c \in S /\ c.gen = a.gen /\ c.type = b.type
    BY <1>3
  <2>2. CASE m.gen # a.gen
    BY <1>0, <1>1, <2>1, <2>2 DEF RemovedFirst
  <2>3. CASE m.gen = a.gen /\ m.type # b.type
    <3>1. Rank(b.type) <= Rank(m.type)
      BY <1>2, <2>3
    <3>2. m.type \in {"p", "d", "c"} /\ b.type \in {"p", "d", "c"}
      BY <1>0, <2>1
    <3>3. Rank(b.type) < Rank(m.type)
      BY <2>3, <3>1, <3>2, Ranks
    <3> QED BY <2>1, <2>3, <3>3 DEF RemovedFirst
  <2>4. CASE m.gen = a.gen /\ m.type = b.type
    <3>1. c.part >= m.part
      BY <1>3, <2>4
    <3>2. c.part # m.part
      <4>1. c = Object(c.type, c.gen, c.part) /\ m = Object(m.type, m.gen, m.part)
        BY <1>0, <2>1
      <4> QED BY <2>1, <2>4, <4>1
    <3>3. c.part \in Nat /\ m.part \in Nat
      BY <1>0, <2>1
    <3> QED BY <2>1, <2>4, <3>1, <3>2, <3>3 DEF RemovedFirst
  <2> QED BY <2>2, <2>3, <2>4
<1>5. c \in S
  BY <1>3
<1>6. \E n \in S : \A m \in S \ {n} : RemovedFirst(n, m)
  BY <1>4, <1>5
<1> QED BY <1>6, Zenon DEF NextRemoved

LEMMA CleanupRestoreKeeps ==
  ASSUME RestoreInv, CleanupRestore
  PROVE  RestoreInv' /\ root' = root
<1>1. /\ restore \in Restores /\ Calm /\ Taken /\ Leftovers /\ HighKnown /\ ~Busy
      /\ restore.phase = "cleanup" /\ UNCHANGED <<root, engine, volume>>
  BY DEF CleanupRestore, RestoreInv
<1>2. HighKnown'
  BY <1>1, HighSame
<1>3. ASSUME Calm', ~Busy', restore' \in Restores, restore'.phase = "cleanup",
             restore'.pairs = restore.pairs, restore'.high = restore.high,
             restore'.staged \subseteq restore.staged
      PROVE  RestoreInv'
  BY <1>1, <1>2, <1>3, TakenSame, LeftoversStay, GoesOn
<1>4. CASE /\ restore.publisher /\ pending' = NoRoot
           /\ restore' = [restore EXCEPT !.publisher = FALSE]
           /\ UNCHANGED <<objects, dir, faults>>
  <2>1. Calm' /\ ~Busy'
    <3>1. UNCHANGED <<readers, vol, user, file, plain, phase, job, scan>>
      BY <1>1 DEF volume, engine
    <3> QED BY <1>1, <1>4, <3>1, NoPairOk, Unmoved, CalmStays DEF Calm, Busy
  <2>2. /\ restore' \in Restores /\ restore'.phase = "cleanup"
        /\ restore'.pairs = restore.pairs /\ restore'.high = restore.high
        /\ restore'.staged = restore.staged
    BY <1>1, <1>4 DEF Restores
  <2> QED BY <1>1, <1>3, <2>1, <2>2
<1>5. CASE /\ restore.staged # {}
           /\ \/ objects' = [objects EXCEPT ![NextRemoved] = Absent] /\ UNCHANGED faults
              \/ faults < MaxFaults /\ faults' = faults + 1 /\ UNCHANGED objects
           /\ restore' = [restore EXCEPT !.staged = @ \ {NextRemoved}]
           /\ UNCHANGED <<dir, pending>>
  <2>1. NextRemoved \in restore.staged /\ restore.staged \in SUBSET Name
    BY <1>1, <1>5, RemovedStaged DEF Restores
  <2>2. NextRemoved \notin Upto(root.serial)
    <3>1. NextRemoved.gen > root.serial /\ NextRemoved.gen \in Nat /\ root.serial \in Nat
      BY <1>1, <2>1, PartsOf DEF Leftovers, Calm, Roots
    <3> QED BY <3>1 DEF Upto
  <2>3. objects' \in [Name -> Conts] /\ \A n \in Upto(root.serial) : Stays(n)
    BY <1>1, <1>5, <2>2, Unmoved, YoungerChanges, ContentKinds
  <2>4. faults' \in 0..MaxFaults /\ dir' \in BOOLEAN
    BY <1>1, <1>5, Numbers DEF Calm
  <2>5. Calm' /\ ~Busy'
    BY <1>1, <1>5, <2>3, <2>4, CalmKeeps
  <2>6. /\ restore' \in Restores /\ restore'.phase = "cleanup"
        /\ restore'.pairs = restore.pairs /\ restore'.high = restore.high
        /\ restore'.staged = restore.staged \ {NextRemoved}
    BY <1>1, <1>5 DEF Restores
  <2> QED BY <1>1, <1>3, <2>5, <2>6
<1>6. CASE /\ dir' = (dir /\ (restore.madeDir => \E n \in Name : Present(n)))
           /\ restore' = NoRestore
           /\ UNCHANGED <<objects, pending, faults>>
  <2>1. dir' \in BOOLEAN /\ faults' \in 0..MaxFaults
    BY <1>1, <1>6 DEF Calm
  <2>2. Calm' /\ ~Busy'
    BY <1>1, <1>6, <2>1, Unmoved, CalmKeeps
  <2> QED BY <1>1, <1>2, <1>6, <2>2, Over
<1> QED BY <1>1, <1>4, <1>5, <1>6 DEF CleanupRestore

(***************************************************************************)
(* Power and storage                                                       *)
(***************************************************************************)
LEMMA RestoreLostKeeps ==
  ASSUME RestoreInv, RestoreLost
  PROVE  RestoreInv' /\ root' = root
<1>1. Calm /\ HighKnown
  BY DEF RestoreInv, RestoreLost
<1>2. /\ UNCHANGED <<objects, dir, root, pending, faults>>
      /\ vol' = "off" /\ StopEngine /\ readers' = NoReaders /\ user' = "none"
      /\ file' = NoFile /\ plain' = NoPlain /\ restore' = NoRestore
  BY DEF RestoreLost, PowerLoss, flash
<1>3. phase' = "idle" /\ job' = NoJob /\ scan' = {} /\ ~Busy'
  BY <1>2 DEF StopEngine, Busy
<1>4. NoReaders' = NoReaders /\ NoFile' = NoFile
  OBVIOUS
<1>5. RootWhole' /\ RootOk(root)' /\ RootMeans(root)'
  <2>1. RootWhole /\ RootOk(root) /\ RootMeans(root)
    BY <1>1 DEF Calm
  <2>2. NeedsOf(root)' = NeedsOf(root) /\ RootOk(root)' = RootOk(root)
        /\ RootMeans(root)' = RootMeans(root)
    BY <1>2 DEF NeedsOf
  <2>3. RootWhole'
    BY <1>2, <2>1, <2>2 DEF RootWhole, Intact
  <2> QED BY <2>1, <2>2, <2>3
<1>6. Calm'
  BY <1>1, <1>2, <1>3, <1>4, <1>5, NoJobTyped, NoPlainTyped DEF Calm
<1>7. HighKnown'
  BY <1>1, <1>2, HighSame
<1> QED BY <1>2, <1>3, <1>6, <1>7, Over

LEMMA PlacementSame == ASSUME Placement, restore' = restore, root' = root PROVE Placement'
BY DEF Placement, Number, NewIndex, From, Upto, Built, Complete

LEMMA LeftoversSame == ASSUME Leftovers, restore' = restore, root' = root PROVE Leftovers'
BY DEF Leftovers, StagedChunks, Generation, Number, Placed, NewIndex

LEMMA RestoreDecayKeeps ==
  ASSUME RestoreInv, RestoreDecay
  PROVE  RestoreInv' /\ root' = root
<1>1. /\ restore \in Restores /\ Calm /\ Taken /\ Leftovers /\ HighKnown
      /\ restore.phase # "idle" /\ Decay /\ restore' = restore
  BY DEF RestoreDecay, RestoreInv
<1>2. UNCHANGED <<dir, root, pending, phase, job, scan, readers, vol, user, file, plain>>
  BY <1>1 DEF Decay, engine
<1>3. PICK n \in Name : objects' = [objects EXCEPT ![n] = Rotten]
  BY <1>1 DEF Decay
<1>4. /\ faults' \in 0..MaxFaults
  BY <1>1, Numbers DEF Decay, Calm
<1>5. /\ objects' \in [Name -> Conts] /\ \A m \in Name : Stays(m)
  BY <1>1, <1>3, ContentKinds DEF Stays, Calm
<1>6. Calm'
  <2>1. \A m \in Upto(root.serial) : Stays(m)
    BY <1>5 DEF Upto
  <2> QED BY <1>1, <1>2, <1>4, <1>5, <2>1, CalmStays DEF Calm
<1>7. Busy' <=> Busy
  BY <1>2 DEF Busy
<1>8. Taken' /\ HighKnown' /\ Leftovers'
  BY <1>1, <1>2, TakenSame, HighSame, LeftoversSame
<1>9. restore.phase \in {"package", "content", "ready", "publish"} => Placement'
  BY <1>1, <1>2, PlacementSame DEF RestoreInv
<1>10. restore.phase = "publish" => Publishing'
  <2>1. CASE restore.phase = "publish"
    <3>1. Publishing /\ Prepared
      BY <1>1, <2>1 DEF RestoreInv, Prepared
    <3>2. RootOk(RestoredRoot)
      BY <3>1, RestoredOk
    <3>3. RestoredRoot' = RestoredRoot
      BY <1>1, <1>2, RestoredSame
    <3>4. ASSUME phase # "checkStaged", NEW need \in NeedsOf(RestoredRoot)
          PROVE  Intact(need.obj, need.content)'
      <4>1. Intact(need.obj, need.content) /\ need.obj \in Name
        BY <3>1, <3>2, <3>4, RootNeeds DEF Publishing, Upto
      <4> QED BY <1>5, <4>1, IntactStays
    <3>5. NeedsOf(RestoredRoot)' = NeedsOf(RestoredRoot)
      BY <3>3 DEF NeedsOf
    <3> QED BY <1>2, <3>1, <3>3, <3>4, <3>5 DEF Publishing
  <2> QED BY <2>1
<1>11. restore.phase # "publish" => ~Busy'
  BY <1>1, <1>7 DEF RestoreInv
<1> QED BY <1>1, <1>2, <1>6, <1>8, <1>9, <1>10, <1>11 DEF RestoreInv

(***************************************************************************)
(* The theorems                                                            *)
(***************************************************************************)
LEMMA RestoreNextKeeps ==
  ASSUME RestoreInv, [RestoreNext]_restoreVars
  PROVE  RestoreInv' /\ [Store!Next]_(Store!vars)
<1>1. ASSUME root' = root
      PROVE  [Store!Next]_(Store!vars)
  BY <1>1 DEF Store!vars
<1>2. CASE UNCHANGED restoreVars
  <2>1. CASE restore.phase = "idle"
    <3>1. StepInv /\ HighKnown /\ UNCHANGED vars /\ restore' = restore /\ restore \in Restores
      BY <1>2, <2>1 DEF RestoreInv, restoreVars
    <3>2. StepInv'
      BY <3>1, VolumeNext, MeansNext DEF StepInv
    <3>3. root' = root
      BY <3>1 DEF vars, flash
    <3> QED BY <1>1, <2>1, <3>1, <3>2, <3>3, HighSame DEF RestoreInv
  <2>2. CASE restore.phase # "idle"
    <3>1. /\ restore \in Restores /\ Calm /\ Taken /\ Leftovers /\ HighKnown /\ restore' = restore
          /\ UNCHANGED <<objects, dir, root, pending, faults, phase, job, scan>>
          /\ UNCHANGED <<readers, vol, user, file, plain>>
      BY <1>2, <2>2 DEF RestoreInv, restoreVars, vars, flash, engine
    <3>2. Calm'
      BY <3>1, Unmoved, CalmStays DEF Calm
    <3>3. Taken' /\ HighKnown' /\ Leftovers'
      BY <3>1, TakenSame, HighSame, LeftoversSame
    <3>4. restore.phase \in {"package", "content", "ready", "publish"} => Placement'
      BY <3>1, PlacementSame DEF RestoreInv
    <3>5. restore.phase = "publish" => Publishing'
      <4>1. RestoredRoot' = RestoredRoot
        BY <3>1, RestoredSame
      <4> QED BY <3>1, <4>1 DEF RestoreInv, Publishing, NeedsOf, Intact
    <3>6. restore.phase # "publish" => ~Busy'
      BY <2>2, <3>1 DEF RestoreInv, Busy
    <3>7. RestoreInv'
      BY <2>2, <3>1, <3>2, <3>3, <3>4, <3>5, <3>6 DEF RestoreInv
    <3> QED BY <1>1, <3>1, <3>7
  <2> QED BY <2>1, <2>2
<1>3. CASE VolumeStep
  BY <1>3, VolumeStepKeeps
<1>4. CASE PublishStep
  <2>1. RestoreInv' /\ (root' = root \/ Store!Restore)
    BY <1>4, PublishStepKeeps
  <2> QED BY <1>1, <2>1 DEF Store!Next
<1>5. CASE BeginRestore \/ RestoreLost \/ RestoreDecay \/ OpenRestore
  BY <1>1, <1>5, BeginRestoreKeeps, RestoreLostKeeps, RestoreDecayKeeps, OpenRestoreKeeps
<1>6. CASE StagePackage \/ ReuseChunk \/ StageChunk \/ StageIndex
  BY <1>1, <1>6, StagePackageKeeps, ReuseChunkKeeps, StageChunkKeeps, StageIndexKeeps
<1>7. CASE CommitRestore \/ Abandon \/ CleanupRestore
  BY <1>1, <1>7, CommitRestoreKeeps, AbandonKeeps, CleanupRestoreKeeps
<1> QED BY <1>2, <1>3, <1>4, <1>5, <1>6, <1>7 DEF RestoreNext

\* The invariant holds whatever archives are restored over the volume.
THEOREM RestoreHolds == RestoreSpec => []RestoreInv
<1>1. RestoreInit => RestoreInv
  BY RestoreBegins
<1>2. RestoreInv /\ [RestoreNext]_restoreVars => RestoreInv'
  BY RestoreNextKeeps
<1> QED BY <1>1, <1>2, PTL DEF RestoreSpec

LEMMA RestoreWhole == RestoreInv => RootWhole
BY DEF RestoreInv, StepInv, VolumeInv, Core, Calm

\* What the root names reads back as it was published or has rotted, also while
\* a restore writes, is abandoned or is interrupted: nothing of the installed app
\* is overwritten, and what is renamed has been read back whole
\* (app_archive_restore.cpp, Phase::Publish).
THEOREM RestoredRootStaysWhole == RestoreSpec => []RootWhole
BY RestoreHolds, RestoreWhole, PTL

LEMMA RestoreNames == RestoreInv => NamesFree
<1> SUFFICES ASSUME RestoreInv
             PROVE  NamesFree
  OBVIOUS
<1>1. CASE restore.phase = "idle"
  BY <1>1, InvNames DEF RestoreInv, StepInv
<1>2. CASE restore.phase # "idle"
  <2>1. Calm /\ (restore.phase = "publish" \/ ~Busy)
        /\ (restore.phase = "publish" => Publishing)
    BY <1>2 DEF RestoreInv
  <2>2. phase # "package" /\ phase # "data"
    BY <2>1 DEF Publishing, Busy
  <2> QED BY <2>1, <2>2, NoFileTyped DEF NamesFree, Calm
<1> QED BY <1>1, <1>2

\* What a restore that was abandoned or lost has left behind never keeps a later
\* transaction from creating its objects.
THEOREM RestoredLeftoversNeverBlock == RestoreSpec => []NamesFree
BY RestoreHolds, RestoreNames, PTL

\* The volume with restores over it keeps the promise of AppStore: an archive
\* replaces the installed app in the one step of the rename, never with an older
\* package, and no other step of a restore changes what is installed.
THEOREM RestoreImplementsStore == RestoreSpec => ImplementsStore
<1>1. RestoreInit => Store!Init
  BY StoreInit DEF RestoreInit
<1>2. RestoreInv /\ [RestoreNext]_restoreVars => [Store!Next]_(Store!vars)
  BY RestoreNextKeeps
<1> QED BY <1>1, <1>2, RestoreHolds, PTL DEF RestoreSpec, ImplementsStore, Store!Spec

=============================================================================
