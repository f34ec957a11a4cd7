--------------------------- MODULE AppVolume_proofs ---------------------------
(***************************************************************************)
(* Theorems about AppVolume, for every set of versions and of payloads,    *)
(* any number of generations, chunks, readers and faults: type             *)
(* correctness, that the root and the open snapshots always find their     *)
(* objects, that exclusive names are free, that nothing is left behind,    *)
(* and that the volume implements the promise of AppStore.                 *)
(*                                                                         *)
(* Everything rests on generations.  What the root and the snapshots name  *)
(* is of the root's generation or older; what an operation writes is one   *)
(* younger.  A collection keeps what the root, the new index and the       *)
(* snapshots name, so a transaction that has checked its objects finds     *)
(* them until it commits, and what it did not keep is gone.                *)
(***************************************************************************)
EXTENDS AppVolume, FiniteSets, SequenceTheorems, TLAPS

(***************************************************************************)
(* The inductive invariant                                                 *)
(***************************************************************************)
Objs == [type : {"p", "d", "c", "none"}, gen : Nat, part : Nat]
Exts == [obj : Objs, val : Nat]
Conts == [kind : {"absent", "torn", "rotten", "bytes", "index"}, val : Nat,
          priv : Seq(Exts), file : Seq(Exts)]
Pairs == [p : Nat, pkg : Nat, d : Nat, data : Conts]
Roots == [kind : {"none", "torn", "file2", "doc"}, serial : Nat, upgrade : BOOLEAN,
          high : Nat, cur : Pairs, prev : Pairs]
Jobs == [before : Roots, after : Roots, package : BOOLEAN, data : BOOLEAN,
         collectOnly : BOOLEAN, prune : BOOLEAN]
Files == [phase : {"idle", "preparing", "writable", "chunk", "verify", "commit",
                   "reading", "failed"},
          mode : {"none", "fill", "stream"}, before : Roots, after : Roots,
          priv : Seq(Exts), file : Seq(Exts), slot : Nat, last : Nat,
          part : Nat, val : Nat]
Plains == [phase : {"none", "write", "verify", "commit", "remove"}, rec : Roots]

Early == {"check", "directory"}
Late == {"package", "packageClose", "packageVerify", "data", "dataClose",
         "dataVerify", "rootWrite", "rootVerify", "commit"}
Phases == {"idle", "done", "failed", "collect", "removeDirectory"} \cup Early \cup Late

\* What is on flash and in the engine, and who uses it.
Stored ==
  /\ objects \in [Name -> Conts]
  /\ dir \in BOOLEAN
  /\ root \in Roots /\ pending \in Roots
  /\ faults \in 0..MaxFaults
  /\ phase \in Phases
  /\ job \in Jobs
  /\ scan \subseteq Name
  /\ readers \in [Reader -> Seq(Exts)]

Owned ==
  /\ vol \in {"off", "ready", "busy", "failed"}
  /\ user \in {"none", "doc", "init", "file"}
  /\ file \in Files
  /\ plain \in Plains

\* Objects of generation g or older.
Upto(g) == {n \in Name : n.gen <= g}

\* A pair of an installed app, or none.
PairOk(pair, g) ==
  /\ pair \in Pairs
  /\ \A need \in Needs(pair) : need.obj \in Upto(g)
  /\ pair.data.kind \in {"absent", "bytes", "index"}
  /\ pair.data.kind # "index" => pair.data = Plain(pair.data.kind, pair.data.val)
  /\ pair.data.kind = "index" => Len(pair.data.priv) = 1
  /\ \A i \in DOMAIN pair.data.file : pair.data.file[i].obj.type = "c"
  /\ \A i \in DOMAIN pair.data.priv : pair.data.priv[i].obj.type \in {"c", "d"}
  /\ Len(pair.data.file) <= MaxChunks

FullPair(pair, g) == /\ PairOk(pair, g)
                     /\ pair.p \in 1..g /\ pair.d \in 1..g
                     /\ pair.data.kind # "absent"

RootOk(r) ==
  /\ r \in Roots
  /\ r.serial <= MaxSerial
  /\ r.kind # "torn"
  /\ r.kind = "none" => r = NoRoot
  /\ r.kind = "file2" => /\ r.cur.p = 0 /\ r.cur.d = 0 /\ r.cur.data.kind = "bytes"
                         /\ r.prev = NoPair /\ ~r.upgrade
                         /\ PairOk(r.cur, r.serial)
  /\ r.kind = "doc" => /\ FullPair(r.cur, r.serial)
                       /\ r.prev # NoPair => FullPair(r.prev, r.serial)
                       /\ r.upgrade => r.prev # NoPair

\* Who runs what.
Control ==
  /\ user # "file" => file = NoFile
  /\ file.phase \in {"preparing", "writable", "chunk", "verify", "commit"} => vol = "busy"
  /\ Busy => /\ vol = "busy" /\ user # "none"
             /\ user = "file" => file.phase \in {"preparing", "commit"}
  /\ vol = "off" => user = "none"
  /\ plain.phase # "none" => vol = "busy" /\ user = "none" /\ ~Busy /\ ~HasSnapshots
  /\ plain.phase \in {"write", "verify", "commit"} =>
       /\ root.kind # "doc" /\ RootOk(plain.rec) /\ plain.rec.kind = "file2"
  /\ plain.phase = "commit" => pending = plain.rec

Held(seq) == \A i \in DOMAIN seq :
  /\ seq[i].obj \in Upto(root.serial) /\ seq[i].obj.type = "c"
  /\ Intact(seq[i].obj, Bytes(seq[i].val))

Snapshots ==
  /\ \A r \in Reader : Held(readers[r])
  /\ HasSnapshots => root.kind = "doc"

----------------------------------------------------------------------------
(* The transaction.                                                         *)
ExtentNeeds(pair) == {[obj |-> x.obj, content |-> Bytes(x.val)] : x \in Extents(pair)}

\* What the new root needs is there already or is written.
JobOk ==
  /\ job.before = root
  /\ RootOk(job.after)
  /\ job.collectOnly => job.after = root /\ ~job.package /\ ~job.data
  /\ ~job.collectOnly => job.after.kind = "doc" /\ job.after.serial = root.serial + 1
  /\ \A need \in NeedsOf(job.after) :
       \/ need \in NeedsOf(root)
       \/ job.package /\ need = NewPackage
       \/ job.data /\ need \in {NewData} \cup ExtentNeeds(job.after.cur)
  /\ job.package => job.after.cur.p = root.serial + 1
  /\ job.data => /\ job.after.cur.d = root.serial + 1
                 /\ Converting => Extents(job.after.cur) = {}
                 /\ \A x \in Extents(job.after.cur) :
                      (x.obj.type = "c" \/ x.obj \in Upto(root.serial))

Flags ==
  /\ phase \in Early \cup Late => ~job.prune
  /\ phase \in Late => ~job.collectOnly
  /\ phase = "removeDirectory" => job.prune
  /\ phase \in {"package", "packageClose", "packageVerify"} => job.package
  /\ phase \in {"data", "dataClose", "dataVerify"} => job.data
  /\ phase # "collect" => scan = {}
  /\ Busy /\ ~job.prune => JobOk
  /\ Busy /\ job.prune => /\ root = NoRoot /\ ~HasSnapshots
                          /\ job.before = NoRoot
                          /\ ~job.package /\ ~job.data /\ ~job.collectOnly

\* What has been read back stays.
Verified ==
  /\ phase \in Late \cup {"directory", "collect"} /\ job.data =>
       \A x \in Extents(job.after.cur) : Intact(x.obj, Bytes(x.val))
  /\ phase = "packageClose" => objects[NewPackage.obj] = Torn
  /\ phase = "dataClose" => objects[NewData.obj] = Torn
  /\ job.package /\ phase \in {"data", "dataClose", "dataVerify", "rootWrite",
                               "rootVerify", "commit"} =>
       Intact(NewPackage.obj, NewPackage.content)
  /\ job.data /\ phase \in {"rootWrite", "rootVerify", "commit"} =>
       Intact(NewData.obj, NewData.content)
  /\ phase = "commit" => pending = job.after

\* What a collection leaves: what the root or the new index name, and chunks
\* that were kept for a reader.
Kept(n) == \/ n \in {need.obj : need \in NeedsOf(root)}
           \/ job.data /\ n \in {x.obj : x \in Extents(job.after.cur)}
           \/ n.type = "c" /\ n \in Upto(root.serial)

MadeNow(n) == \/ /\ n = NewPackage.obj /\ job.package
                 /\ phase # "package"
              \/ /\ n = NewData.obj /\ job.data
                 /\ phase \notin {"package", "packageClose", "packageVerify", "data"}

Swept ==
  /\ phase = "collect" /\ ~job.prune =>
       \A n \in Name : Present(n) => n \in scan \/ Kept(n)
  /\ phase \in Late => \A n \in Name : Present(n) => Kept(n) \/ MadeNow(n)

----------------------------------------------------------------------------
(* The writer.                                                              *)
Building == file.phase \in {"preparing", "writable", "chunk", "verify"}

\* The chunks of the file being built: named by the old root, or written.
ExtentOk(x) == /\ x.obj \in Upto(root.serial + 1)
               /\ (x.obj.type = "c" \/ x.obj \in Upto(root.serial))
               /\ x.obj.type # "p"
Fresh(x) == x.obj.gen = root.serial + 1

Slots ==
  /\ file.mode = "fill" =>
       /\ file.last <= Len(file.file)
       /\ file.phase \in {"preparing", "writable"} =>
            file.part + file.last + 1 <= MaxChunks + file.slot
       /\ file.phase \in {"chunk", "verify"} =>
            /\ file.slot <= file.last
            /\ file.part + file.last <= MaxChunks + file.slot
  /\ file.mode = "stream" =>
       /\ file.slot # 0
       /\ file.phase \in {"chunk", "verify"} =>
            /\ file.part = file.slot /\ file.slot <= MaxChunks
            /\ file.slot <= Len(file.file) + 1
  /\ file.phase \in {"chunk", "verify"} => file.part # 0
  /\ Len(file.file) <= MaxChunks

Pieces ==
  /\ Len(file.priv) = 1
  /\ (file.mode = "fill" /\ file.slot = 0) \/ ExtentOk(file.priv[1])
  /\ file.mode = "fill" /\ file.slot = 0 => ~Fresh(file.priv[1]) /\ file.last = 0
  /\ \A i \in DOMAIN file.file :
       \/ ExtentOk(file.file[i]) /\ file.file[i].obj.type = "c"
       \/ file.mode = "fill" /\ i \in file.slot..file.last
  /\ \A i \in DOMAIN file.file :
       \/ ~Fresh(file.file[i])
       \/ file.mode = "fill" /\ i < file.slot
       \/ file.mode = "stream" /\ file.file[i].obj = Chunk(root.serial + 1, i)

\* The chunks of the new generation there are.
Chunks ==
  file.phase \in {"writable", "chunk", "verify"} =>
    \A p \in Part : Present(Chunk(root.serial + 1, p)) =>
      \/ \E x \in Elements(file.priv) \cup Elements(file.file) :
           x.obj = Chunk(root.serial + 1, p)
      \/ file.phase \in {"chunk", "verify"} /\ p = file.part

Writer ==
  /\ Building => /\ root.kind = "doc" /\ root.serial < MaxSerial
                 /\ file.mode \in {"fill", "stream"}
                 /\ file.before = root
                 /\ file.after \in {NextRoot, Accepted(NextRoot)}
                 /\ Slots /\ Pieces /\ Chunks
  /\ file.phase = "preparing" =>
       phase \in {"check", "directory", "collect"} /\ job.collectOnly /\ ~job.prune

Core == RootOk(root) /\ RootWhole /\ Snapshots /\ Flags /\ Verified /\ Swept

VolumeInv == Stored /\ Owned /\ Core /\ Control /\ Writer

(***************************************************************************)
(* Names, contents, needs                                                  *)
(***************************************************************************)
LEMMA Numbers ==
  /\ MaxSerial \in Nat /\ MaxSerial >= 1 /\ MaxChunks \in Nat /\ MaxChunks >= 1
  /\ MaxFaults \in Nat
  /\ \A v \in Payload : v \in Nat
  /\ \A v \in Version : v \in Nat
BY AppDocumentsAssumption

LEMMA Names ==
  ASSUME NEW n \in Name
  PROVE  n \in Objs /\ n.gen \in 1..MaxSerial /\ n.type \in {"p", "d", "c"}
BY Numbers DEF Name, Package, Data, Chunk, Object, Serial, Part, Objs

LEMMA PairNames ==
  ASSUME NEW g \in 1..MaxSerial
  PROVE  /\ Package(g) \in Name /\ Data(g) \in Name
         /\ Package(g).gen = g /\ Data(g).gen = g
         /\ Package(g).type = "p" /\ Data(g).type = "d"
         /\ Package(g) # Data(g)
BY DEF Name, Package, Data, Object, Serial

LEMMA ChunkNames ==
  ASSUME NEW g \in 1..MaxSerial, NEW p \in Part
  PROVE  Chunk(g, p) \in Name /\ Chunk(g, p).gen = g /\ Chunk(g, p).type = "c"
BY DEF Name, Chunk, Object, Serial

LEMMA ContentKinds ==
  /\ Absent \in Conts /\ Torn \in Conts /\ Rotten \in Conts
  /\ Absent.kind = "absent" /\ Torn.kind = "torn" /\ Rotten.kind = "rotten"
  /\ \A v \in Nat : Bytes(v) \in Conts /\ Bytes(v).kind = "bytes" /\ Bytes(v).val = v
  /\ \A v \in Nat : Bytes(v) = Plain(Bytes(v).kind, Bytes(v).val)
  /\ \A v \in Nat : Bytes(v).priv = << >> /\ Bytes(v).file = << >>
BY DEF Absent, Torn, Rotten, Bytes, Plain, Conts

LEMMA NoPairOk ==
  /\ NoPair \in Pairs /\ NoRoot \in Roots /\ NoRoot.kind = "none"
  /\ NoRoot.serial = 0 /\ NoRoot.upgrade = FALSE
  /\ NoRoot.cur = NoPair /\ NoRoot.prev = NoPair
  /\ NoPair.p = 0 /\ NoPair.d = 0 /\ NoPair.data = Absent
  /\ TornRoot \in Roots /\ TornRoot.kind = "torn"
<1>1. NoPair \in Pairs /\ NoPair.p = 0 /\ NoPair.d = 0 /\ NoPair.data = Absent
  BY ContentKinds DEF NoPair, Pair, Pairs
<1>2. NoRoot = [kind |-> "none", serial |-> 0, upgrade |-> FALSE, high |-> 0,
                cur |-> NoPair, prev |-> NoPair]
  BY DEF NoRoot, Root
<1>3. NoRoot \in Roots
  BY <1>1, <1>2 DEF Roots
<1>4. TornRoot \in Roots /\ TornRoot.kind = "torn"
  BY <1>3 DEF TornRoot, Roots
<1> QED BY <1>1, <1>2, <1>3, <1>4

LEMMA NothingIn == Elements(<< >>) = {}
BY DEF Elements

LEMMA NoExtents ==
  ASSUME NEW pair, pair.data.priv = << >>, pair.data.file = << >>
  PROVE  Extents(pair) = {}
BY NothingIn DEF Extents

LEMMA NoNeeds ==
  ASSUME NEW pair, pair.p = 0, pair.d = 0, Extents(pair) = {}
  PROVE  Needs(pair) = {}
BY DEF Needs

LEMMA PlainPair ==
  ASSUME NEW pair, NEW g, PairOk(pair, g), pair.data.kind # "index"
  PROVE  Extents(pair) = {} /\ pair.data.priv = << >> /\ pair.data.file = << >>
BY NoExtents DEF PairOk, Plain

LEMMA NoPairNeeds == Needs(NoPair) = {} /\ Extents(NoPair) = {}
<1>1. Extents(NoPair) = {}
  BY NoExtents, NoPairOk DEF Absent, Plain
<1> QED BY <1>1, NoNeeds, NoPairOk

LEMMA NeedCases ==
  ASSUME NEW pair, NEW need \in Needs(pair)
  PROVE  \/ pair.p # 0 /\ need = [obj |-> Package(pair.p), content |-> Bytes(pair.pkg)]
         \/ pair.d # 0 /\ need = [obj |-> Data(pair.d), content |-> pair.data]
         \/ \E x \in Extents(pair) : need = [obj |-> x.obj, content |-> Bytes(x.val)]
BY DEF Needs

LEMMA PairNeeds ==
  ASSUME NEW pair
  PROVE  /\ pair.p # 0 => [obj |-> Package(pair.p), content |-> Bytes(pair.pkg)] \in Needs(pair)
         /\ pair.d # 0 => [obj |-> Data(pair.d), content |-> pair.data] \in Needs(pair)
         /\ \A x \in Extents(pair) : [obj |-> x.obj, content |-> Bytes(x.val)] \in Needs(pair)
BY DEF Needs

LEMMA ExtentTypes ==
  ASSUME NEW pair \in Pairs, NEW x \in Extents(pair)
  PROVE  x \in Exts /\ x.val \in Nat
<1>1. pair.data \in Conts
  BY DEF Pairs
<1>2. pair.data.priv \in Seq(Exts) /\ pair.data.file \in Seq(Exts)
  BY <1>1 DEF Conts
<1>3. x \in Exts
  BY <1>2 DEF Extents, Elements
<1> QED BY <1>3 DEF Exts

\* What an installed pair needs has bytes.
LEMMA FullNeeds ==
  ASSUME NEW pair, NEW g, FullPair(pair, g), NEW need \in Needs(pair)
  PROVE  need.obj \in Upto(g) /\ need.content.kind \in {"bytes", "index"}
<1>1. need.obj \in Upto(g) /\ pair \in Pairs /\ pair.data.kind \in {"bytes", "index"}
  BY DEF FullPair, PairOk
<1>2. CASE need = [obj |-> Package(pair.p), content |-> Bytes(pair.pkg)]
  BY <1>1, <1>2, ContentKinds DEF Pairs
<1>3. CASE need = [obj |-> Data(pair.d), content |-> pair.data]
  BY <1>1, <1>3
<1>4. ASSUME NEW x \in Extents(pair), need = [obj |-> x.obj, content |-> Bytes(x.val)]
      PROVE  need.content.kind = "bytes"
  BY <1>1, <1>4, ExtentTypes, ContentKinds
<1> QED BY <1>1, <1>2, <1>3, <1>4, NeedCases

LEMMA BareRoot ==
  ASSUME NEW r, RootOk(r), r.kind # "doc"
  PROVE  NeedsOf(r) = {} /\ Extents(r.cur) = {} /\ Extents(r.prev) = {}
<1>1. CASE r.kind = "none"
  BY <1>1, NoPairNeeds, NoPairOk DEF RootOk, NeedsOf
<1>2. CASE r.kind = "file2"
  <2>1. PairOk(r.cur, r.serial) /\ r.cur.data.kind # "index" /\ r.cur.p = 0 /\ r.cur.d = 0
        /\ r.prev = NoPair
    BY <1>2 DEF RootOk
  <2>2. Extents(r.cur) = {}
    BY <2>1, PlainPair
  <2> QED BY <2>1, <2>2, NoNeeds, NoPairNeeds DEF NeedsOf
<1>3. r.kind \in {"none", "file2"}
  BY DEF RootOk, Roots
<1> QED BY <1>1, <1>2, <1>3

LEMMA RootNeeds ==
  ASSUME NEW r, RootOk(r), NEW need \in NeedsOf(r)
  PROVE  need.obj \in Upto(r.serial) /\ need.content.kind \in {"bytes", "index"}
<1>1. r.kind = "doc"
  BY BareRoot
<1>2. FullPair(r.cur, r.serial) /\ (r.prev # NoPair => FullPair(r.prev, r.serial))
  BY <1>1 DEF RootOk
<1> QED BY <1>2, FullNeeds, NoPairNeeds DEF NeedsOf

LEMMA RootExtents ==
  ASSUME NEW r, RootOk(r), NEW x \in Extents(r.cur) \cup Extents(r.prev)
  PROVE  [obj |-> x.obj, content |-> Bytes(x.val)] \in NeedsOf(r)
BY PairNeeds DEF NeedsOf

LEMMA UptoMonotone ==
  ASSUME NEW g \in Nat, NEW h \in Nat, g <= h
  PROVE  Upto(g) \subseteq Upto(h)
BY Names DEF Upto, Objs

----------------------------------------------------------------------------
(* What a change of the objects leaves.                                     *)

\* An object that stays, or rots.
Stays(n) == objects'[n] \in {objects[n], Rotten}

LEMMA IntactStays ==
  ASSUME NEW n, NEW c, Intact(n, c), Stays(n)
  PROVE  Intact(n, c)'
BY DEF Intact, Stays

LEMMA Frame ==
  ASSUME root' = root, readers' = readers, RootWhole, Snapshots,
         \A need \in NeedsOf(root) : Stays(need.obj),
         \A r \in Reader : \A i \in DOMAIN readers[r] : Stays(readers[r][i].obj)
  PROVE  RootWhole' /\ Snapshots'
<1>1. RootWhole'
  BY IntactStays DEF RootWhole, NeedsOf
<1>2. ASSUME NEW r \in Reader
      PROVE  Held(readers[r])'
  <2>1. Held(readers[r])
    BY DEF Snapshots
  <2>2. ASSUME NEW i \in DOMAIN readers[r]
        PROVE  Intact(readers[r][i].obj, Bytes(readers[r][i].val))'
    BY <2>1, <2>2, IntactStays DEF Held
  <2> QED BY <2>1, <2>2 DEF Held, Upto
<1>3. HasSnapshots' => root'.kind = "doc"
  BY DEF HasSnapshots, Snapshots
<1> QED BY <1>1, <1>2, <1>3 DEF Snapshots

\* Nothing the root or a snapshot names is missing or written wrong, and all
\* of it is of the root's generation or older.
LEMMA NamedIntact ==
  ASSUME RootOk(root), RootWhole, NEW need \in NeedsOf(root)
  PROVE  objects[need.obj] \notin {Absent, Torn} /\ need.obj \in Upto(root.serial)
<1>1. need.obj \in Upto(root.serial) /\ need.content.kind \in {"bytes", "index"}
  BY RootNeeds
<1>2. objects[need.obj] \in {need.content, Rotten}
  BY DEF RootWhole, Intact
<1> QED BY <1>1, <1>2, ContentKinds

LEMMA SnapshotIntact ==
  ASSUME Snapshots, readers \in [Reader -> Seq(Exts)],
         NEW r \in Reader, NEW i \in DOMAIN readers[r]
  PROVE  /\ objects[readers[r][i].obj] \notin {Absent, Torn}
         /\ readers[r][i].obj \in Upto(root.serial) /\ readers[r][i].obj.type = "c"
<1>1. readers[r][i] \in Exts
  OBVIOUS
<1>2. readers[r][i].val \in Nat
  BY <1>1 DEF Exts
<1>3. Intact(readers[r][i].obj, Bytes(readers[r][i].val))
      /\ readers[r][i].obj \in Upto(root.serial) /\ readers[r][i].obj.type = "c"
  BY DEF Snapshots, Held
<1> QED BY <1>2, <1>3, ContentKinds DEF Intact

\* One object changes that is younger than the root, or not whole.
OneChanges(o) == \A n \in Name : n # o => objects'[n] = objects[n]

LEMMA FrameOne ==
  ASSUME Stored, RootOk(root), RootWhole, Snapshots, root' = root, readers' = readers,
         NEW o, OneChanges(o),
         objects[o] \in {Absent, Torn} \/ o \notin Upto(root.serial)
  PROVE  RootWhole' /\ Snapshots'
<1>1. ASSUME NEW n \in Name, n # o
      PROVE  Stays(n)
  BY <1>1 DEF OneChanges, Stays
<1>2. ASSUME NEW need \in NeedsOf(root)
      PROVE  Stays(need.obj)
  <2>1. need.obj # o /\ need.obj \in Name
    BY NamedIntact DEF Upto
  <2> QED BY <2>1, <1>1
<1>3. ASSUME NEW r \in Reader, NEW i \in DOMAIN readers[r]
      PROVE  Stays(readers[r][i].obj)
  <2>1. readers[r][i].obj # o /\ readers[r][i].obj \in Name
    BY SnapshotIntact DEF Upto, Stored
  <2> QED BY <2>1, <1>1
<1> QED BY <1>2, <1>3, Frame

LEMMA FrameSame ==
  ASSUME RootOk(root), RootWhole, Snapshots, UNCHANGED <<root, readers, objects>>
  PROVE  RootWhole' /\ Snapshots'
BY Frame DEF Stays

\* The engine at rest.
LEMMA Resting ==
  ASSUME phase' \in {"idle", "done", "failed"}, scan' = {}
  PROVE  Flags' /\ Verified' /\ Swept'
BY DEF Flags, Verified, Swept, Busy, Early, Late

LEMMA NoJobTyped == NoJob \in Jobs
BY NoPairOk DEF NoJob, Job, Jobs

LEMMA Ends ==
  ASSUME Stored, Core, RootOk(root'), RootWhole', Snapshots',
         NEW next \in {"done", "failed"}, Goto(next)
  PROVE  Core' /\ phase' = next /\ job' \in Jobs /\ scan' = {}
<1>1. phase' = next /\ job' = NoJob /\ scan' = {}
  BY DEF Goto
<1> QED BY <1>1, Resting, NoJobTyped DEF Core

----------------------------------------------------------------------------
(* The engine's steps.                                                      *)
LEMMA JobOkStays ==
  ASSUME JobOk, UNCHANGED <<root, job>>
  PROVE  JobOk'
BY DEF JobOk, Converting, NewPackage, NewData

LEMMA IntactSame ==
  ASSUME objects' = objects, NEW n, NEW c, Intact(n, c)
  PROVE  Intact(n, c)'
BY DEF Intact

\* A step on, in the same transaction, that leaves flash alone.
LEMMA Goes ==
  ASSUME Stored, Core, NEW next \in Phases \ {"done", "failed"}, Goto(next),
         UNCHANGED <<flash, faults, readers>>
  PROVE  Stored' /\ phase' = next /\ job' = job /\ scan' = scan
         /\ RootOk(root)' /\ RootWhole' /\ Snapshots'
<1>1. phase' = next /\ job' = job /\ scan' = scan
  BY DEF Goto, Phases, Early, Late
<1>2. Stored'
  BY <1>1 DEF Stored, flash
<1> QED BY <1>1, <1>2, FrameSame DEF Core, flash

LEMMA Fails ==
  ASSUME Stored, Core, NEW next \in {"done", "failed"}, Goto(next),
         UNCHANGED <<flash, readers>>, faults' \in 0..MaxFaults
  PROVE  Stored' /\ Core'
<1>1. RootOk(root') /\ RootWhole' /\ Snapshots'
  BY FrameSame DEF Core, flash
<1>2. Core' /\ phase' = next /\ job' \in Jobs /\ scan' = {}
  BY <1>1, Ends
<1> QED BY <1>2 DEF Stored, flash, Phases

LEMMA CheckKeeps ==
  ASSUME Stored, Core, Check, UNCHANGED readers
  PROVE  Stored' /\ Core'
<1>0. phase = "check" /\ UNCHANGED <<flash, faults>> /\ faults \in 0..MaxFaults
  BY DEF Check, Stored
<1>1. CASE ~(\A need \in Checked : Whole(need))
  BY <1>0, <1>1, Fails DEF Check, Continue
<1>2. CASE \A need \in Checked : Whole(need)
  <2>1. Goto("directory")
    BY <1>2 DEF Check, Continue
  <2>2. "directory" \in Phases \ {"done", "failed"}
    BY DEF Phases, Early
  <2>3. Stored' /\ phase' = "directory" /\ job' = job /\ scan' = scan
        /\ RootOk(root)' /\ RootWhole' /\ Snapshots'
    BY <1>0, <2>1, <2>2, Goes
  <2>4. JobOk /\ ~job.prune /\ scan = {}
    BY <1>0 DEF Core, Flags, Busy, Early
  <2>5. JobOk'
    BY <1>0, <2>3, <2>4, JobOkStays DEF flash
  <2>6. Flags'
    BY <2>3, <2>4, <2>5 DEF Flags, Early, Late
  <2>7. ASSUME job.data, NEW x \in Extents(job.after.cur)
        PROVE  Intact(x.obj, Bytes(x.val))'
    <3>1. ~Converting
      BY <2>4, <2>7 DEF JobOk
    <3>2. x \in References
      BY <2>4, <2>7, <3>1 DEF References
    <3>3. [obj |-> x.obj, content |-> Bytes(x.val)] \in Checked
      BY <3>2 DEF Checked
    <3>4. Whole([obj |-> x.obj, content |-> Bytes(x.val)])
      BY <1>2, <3>3
    <3> QED BY <1>0, <3>4 DEF Whole, Intact, flash
  <2>8. Verified'
    BY <2>3, <2>7 DEF Verified
  <2> QED BY <2>3, <2>6, <2>8 DEF Core, Swept, Late
<1> QED BY <1>1, <1>2

LEMMA OpenDirectoryKeeps ==
  ASSUME Stored, Core, OpenDirectory, UNCHANGED readers
  PROVE  Stored' /\ Core'
<1>0. /\ phase = "directory" /\ phase' = "collect" /\ dir' = TRUE
      /\ scan' = {n \in Name : Present(n)}
      /\ UNCHANGED <<objects, root, pending, job, faults, readers>>
  BY DEF OpenDirectory
<1>1. Stored'
  BY <1>0 DEF Stored, Phases
<1>2. RootOk(root)' /\ RootWhole' /\ Snapshots'
  BY <1>0, FrameSame DEF Core
<1>3. JobOk /\ ~job.prune
  BY <1>0 DEF Core, Flags, Busy, Early
<1>4. JobOk'
  BY <1>0, <1>3, JobOkStays
<1>5. Flags'
  BY <1>0, <1>3, <1>4 DEF Flags, Early, Late
<1>6. ASSUME job.data, NEW x \in Extents(job.after.cur)
      PROVE  Intact(x.obj, Bytes(x.val))'
  <2>1. Intact(x.obj, Bytes(x.val))
    BY <1>0, <1>6 DEF Core, Verified
  <2> QED BY <1>0, <2>1, IntactSame
<1>7. Verified'
  BY <1>0, <1>6 DEF Verified
<1>8. Swept'
  BY <1>0 DEF Swept, Late, Present
<1> QED BY <1>1, <1>2, <1>5, <1>7, <1>8 DEF Core

\* A collection keeps what the root, the new index and the snapshots name.
LEMMA KeepsNamed ==
  ASSUME JobOk, ~job.prune, ~Converting, NEW need \in NeedsOf(root)
  PROVE  Keep(need.obj)
<1>1. job.before = root
  BY DEF JobOk
<1>2. ASSUME NEW pair \in {root.cur, root.prev}, need \in Needs(pair)
      PROVE  Keep(need.obj)
  <2>1. CASE need = [obj |-> Package(pair.p), content |-> Bytes(pair.pkg)]
    BY <1>1, <2>1 DEF Keep, KeepFor, Named
  <2>2. CASE need = [obj |-> Data(pair.d), content |-> pair.data]
    BY <1>1, <2>2 DEF Keep, KeepFor, Named
  <2>3. ASSUME NEW x \in Extents(pair),
               need = [obj |-> x.obj, content |-> Bytes(x.val)]
        PROVE  Keep(need.obj)
    <3>1. x \in References
      BY <1>1, <2>3 DEF References
    <3> QED BY <2>3, <3>1 DEF Keep, KeepFor
  <2> QED BY <1>2, <2>1, <2>2, <2>3, NeedCases
<1> QED BY <1>2 DEF NeedsOf

LEMMA NotZero ==
  /\ Package(0) \notin Name /\ Data(0) \notin Name
<1>1. Package(0).gen = 0 /\ Data(0).gen = 0
  BY DEF Package, Data, Object
<1> QED BY <1>1, Names, Numbers

LEMMA RetainedOld ==
  ASSUME Stored, Snapshots, NEW n, Retained(n)
  PROVE  n \in Upto(root.serial) /\ n.type = "c"
<1>1. PICK r \in DOMAIN readers : \E x \in Elements(readers[r]) : x.obj = n
  BY DEF Retained
<1>2. r \in Reader
  BY DEF Stored
<1>3. PICK i \in DOMAIN readers[r] : readers[r][i].obj = n
  BY <1>1 DEF Elements
<1> QED BY <1>2, <1>3, SnapshotIntact DEF Stored

\* What a collection keeps is named, or an old chunk of a snapshot.
LEMMA KeepKept ==
  ASSUME Stored, Snapshots, JobOk, ~job.prune, NEW n \in Name, Keep(n)
  PROVE  Kept(n)
<1>1. job.before = root
  BY DEF JobOk
<1>2. ASSUME NEW pair \in {root.cur, root.prev}, n \in {Package(pair.p), Data(pair.d)}
      PROVE  n \in {need.obj : need \in NeedsOf(root)}
  <2>1. CASE n = Package(pair.p)
    <3>1. pair.p # 0
      BY <2>1, NotZero
    <3>2. [obj |-> Package(pair.p), content |-> Bytes(pair.pkg)] \in NeedsOf(root)
      BY <1>2, <3>1, PairNeeds DEF NeedsOf
    <3> QED BY <2>1, <3>2
  <2>2. CASE n = Data(pair.d)
    <3>1. pair.d # 0
      BY <2>2, NotZero
    <3>2. [obj |-> Data(pair.d), content |-> pair.data] \in NeedsOf(root)
      BY <1>2, <3>1, PairNeeds DEF NeedsOf
    <3> QED BY <2>2, <3>2
  <2> QED BY <1>2, <2>1, <2>2
<1>3. ASSUME n \in {x.obj : x \in References}
      PROVE  Kept(n)
  <2>1. PICK x \in References : n = x.obj
    BY <1>3
  <2>2. CASE x \in Extents(root.cur) \cup Extents(root.prev)
    <3>1. [obj |-> x.obj, content |-> Bytes(x.val)] \in NeedsOf(root)
      BY <2>2, PairNeeds DEF NeedsOf
    <3> QED BY <2>1, <3>1 DEF Kept
  <2>3. CASE job.data /\ x \in Extents(job.after.cur)
    BY <2>1, <2>3 DEF Kept
  <2> QED BY <1>1, <2>1, <2>2, <2>3 DEF References
<1>4. ASSUME n.type = "c", Retained(n)
      PROVE  Kept(n)
  BY <1>4, RetainedOld DEF Kept
<1>5. ASSUME n \in Named({job.before.cur, job.before.prev})
      PROVE  Kept(n)
  BY <1>1, <1>2, <1>5 DEF Named, Kept
<1> QED BY <1>3, <1>4, <1>5 DEF Keep, KeepFor

LEMMA CollectKeeps ==
  ASSUME Stored, Core, Collect, UNCHANGED readers
  PROVE  Stored' /\ Core'
<1>0. /\ phase = "collect" /\ Busy
      /\ objects' = IF Keep(NextEntry) THEN objects
                                       ELSE [objects EXCEPT ![NextEntry] = Absent]
      /\ scan' = scan \ {NextEntry}
      /\ UNCHANGED <<dir, root, pending, faults, phase, job, readers>>
  BY DEF Collect, Busy
<1>1. Stored'
  <2>1. objects' \in [Name -> Conts]
    BY <1>0, ContentKinds DEF Stored
  <2> QED BY <1>0, <2>1 DEF Stored
<1>2. ASSUME NEW n \in Name, n # NextEntry \/ Keep(n)
      PROVE  objects'[n] = objects[n]
  BY <1>0, <1>2 DEF Stored
<1>3. CASE job.prune
  <2>1. root = NoRoot /\ ~HasSnapshots
    BY <1>0, <1>3 DEF Core, Flags
  <2>2. NeedsOf(root) = {}
    BY <2>1, NoPairNeeds, NoPairOk DEF NeedsOf
  <2>3. \A r \in Reader : readers[r] = << >>
    BY <2>1 DEF HasSnapshots
  <2>4. RootWhole' /\ Snapshots'
    BY <1>0, <2>2, <2>3, Frame DEF Core
  <2>5. Flags' /\ Verified' /\ Swept'
    BY <1>0, <1>3, <2>1 DEF Core, Flags, Verified, Swept, HasSnapshots, Busy, Early, Late
  <2> QED BY <1>0, <1>1, <2>4, <2>5 DEF Core
<1>4. CASE ~job.prune
  <2>1. JobOk
    BY <1>0, <1>4 DEF Core, Flags
  <2>2. ASSUME NEW need \in NeedsOf(root)
        PROVE  need.obj \in Name /\ objects'[need.obj] = objects[need.obj]
    <3>1. ~Converting
      BY <2>1, <2>2, BareRoot DEF Core, JobOk, Converting
    <3> QED BY <1>2, <1>4, <2>1, <3>1, KeepsNamed, NamedIntact DEF Core, Upto
  <2>3. ASSUME NEW r \in Reader, NEW i \in DOMAIN readers[r]
        PROVE  objects'[readers[r][i].obj] = objects[readers[r][i].obj]
    <3>1. readers[r][i].obj \in Name /\ readers[r][i].obj.type = "c"
      BY SnapshotIntact DEF Core, Stored, Upto
    <3>2. Retained(readers[r][i].obj)
      BY DEF Retained, Elements, Stored
    <3> QED BY <1>2, <3>1, <3>2 DEF Keep, KeepFor
  <2>4. RootWhole' /\ Snapshots'
    BY <1>0, <2>2, <2>3, Frame DEF Core, Stays
  <2>5. Flags'
    <3>1. JobOk'
      BY <1>0, <2>1, JobOkStays
    <3> QED BY <1>0, <1>4, <3>1 DEF Core, Flags, Early, Late
  <2>6. ASSUME job.data, NEW x \in Extents(job.after.cur)
        PROVE  Intact(x.obj, Bytes(x.val))'
    <3>1. Intact(x.obj, Bytes(x.val))
      BY <1>0, <2>6 DEF Core, Verified
    <3>2. ~Converting
      BY <2>1, <2>6 DEF JobOk
    <3>3. x \in References
      BY <1>4, <2>6, <3>2 DEF References
    <3>4. Keep(x.obj)
      BY <3>3 DEF Keep, KeepFor
    <3>5. x.obj \in Name
      <4>1. [obj |-> x.obj, content |-> Bytes(x.val)] \in NeedsOf(job.after)
        BY PairNeeds DEF NeedsOf
      <4> QED BY <2>1, <4>1, RootNeeds DEF JobOk, Upto
    <3> QED BY <1>2, <3>1, <3>4, <3>5 DEF Intact
  <2>7. Verified'
    BY <1>0, <2>6 DEF Verified
  <2>8. ASSUME NEW n \in Name, Present(n)'
        PROVE  (n \in scan \/ Kept(n))'
    <3>1. Kept(n)' = Kept(n)
      BY <1>0 DEF Kept
    <3>2. CASE Keep(n)
      BY <1>4, <2>1, <3>1, <3>2, KeepKept DEF Core
    <3>3. CASE ~Keep(n)
      <4>1. n # NextEntry
        BY <1>0, <2>8, <3>3 DEF Present, Stored
      <4>2. Present(n)
        BY <1>2, <2>8, <4>1 DEF Present
      <4>3. n \in scan \/ Kept(n)
        BY <1>0, <1>4, <4>2 DEF Core, Swept
      <4> QED BY <1>0, <3>1, <4>1, <4>3
    <3> QED BY <3>2, <3>3
  <2>9. Swept'
    BY <1>0, <2>8 DEF Swept, Late
  <2> QED BY <1>0, <1>1, <2>4, <2>5, <2>7, <2>9 DEF Core
<1> QED BY <1>3, <1>4

LEMMA CollectEndsKeeps ==
  ASSUME Stored, Core, CollectEnds, UNCHANGED readers
  PROVE  Stored' /\ Core'
<1>0. /\ phase = "collect" /\ Busy /\ scan = {}
      /\ UNCHANGED <<flash, faults, readers>> /\ faults \in 0..MaxFaults
  BY DEF CollectEnds, Busy, Stored
<1>1. job.prune => ~job.package /\ ~job.data /\ ~job.collectOnly
  BY <1>0 DEF Core, Flags
<1>2. ~job.prune => JobOk
  BY <1>0 DEF Core, Flags
<1>3. job.collectOnly => ~job.package /\ ~job.data
  BY <1>1, <1>2 DEF JobOk
<1>4. CASE job.collectOnly
  <2>1. Goto("done")
    BY <1>1, <1>3, <1>4 DEF CollectEnds
  <2> QED BY <1>0, <2>1, Fails
<1>5. CASE job.prune
  <2>1. Goto("removeDirectory")
    BY <1>1, <1>5 DEF CollectEnds
  <2>2. "removeDirectory" \in Phases \ {"done", "failed"}
    BY DEF Phases
  <2>3. Stored' /\ phase' = "removeDirectory" /\ job' = job /\ scan' = scan
        /\ RootOk(root)' /\ RootWhole' /\ Snapshots'
    BY <1>0, <2>1, <2>2, Goes
  <2>4. Flags' /\ Verified' /\ Swept'
    BY <1>0, <1>1, <1>5, <2>3
    DEF Core, Flags, Verified, Swept, HasSnapshots, Busy, Early, Late, flash
  <2> QED BY <2>3, <2>4 DEF Core
<1>6. ASSUME ~job.prune, ~job.collectOnly,
             NEW next \in {"package", "data", "rootWrite"}, Goto(next),
             next = "package" => job.package,
             next = "data" => job.data /\ ~job.package,
             next = "rootWrite" => ~job.data /\ ~job.package
      PROVE  Stored' /\ Core'
  <2>1. next \in Phases \ {"done", "failed"}
    BY DEF Phases, Late
  <2>2. Stored' /\ phase' = next /\ job' = job /\ scan' = scan
        /\ RootOk(root)' /\ RootWhole' /\ Snapshots'
    BY <1>0, <1>6, <2>1, Goes
  <2>3. JobOk'
    BY <1>0, <1>2, <1>6, <2>2, JobOkStays DEF flash
  <2>4. Flags'
    BY <1>0, <1>6, <2>2, <2>3 DEF Flags, Early, Late
  <2>5. ASSUME job.data, NEW x \in Extents(job.after.cur)
        PROVE  Intact(x.obj, Bytes(x.val))'
    <3>1. Intact(x.obj, Bytes(x.val))
      BY <1>0, <2>5 DEF Core, Verified
    <3> QED BY <1>0, <3>1, IntactSame DEF flash
  <2>6. Verified'
    BY <1>6, <2>2, <2>5 DEF Verified
  <2>7. ASSUME NEW n \in Name, Present(n)'
        PROVE  Kept(n)'
    <3>1. Kept(n)' = Kept(n)
      BY <1>0, <2>2 DEF Kept, flash
    <3>2. Present(n)
      BY <1>0, <2>7 DEF Present, flash
    <3> QED BY <1>0, <1>6, <3>1, <3>2 DEF Core, Swept
  <2>8. Swept'
    BY <2>2, <2>7 DEF Swept, Late
  <2> QED BY <2>2, <2>4, <2>6, <2>8 DEF Core
<1>7. CASE ~job.prune /\ ~job.collectOnly /\ job.package
  <2>1. Goto("package")
    BY <1>7 DEF CollectEnds
  <2> QED BY <1>6, <1>7, <2>1
<1>8. CASE ~job.prune /\ ~job.collectOnly /\ ~job.package /\ job.data
  <2>1. Goto("data")
    BY <1>8 DEF CollectEnds
  <2> QED BY <1>6, <1>8, <2>1
<1>9. CASE ~job.prune /\ ~job.collectOnly /\ ~job.package /\ ~job.data
  <2>1. Goto("rootWrite")
    BY <1>9 DEF CollectEnds
  <2> QED BY <1>6, <1>9, <2>1
<1> QED BY <1>4, <1>5, <1>7, <1>8, <1>9

----------------------------------------------------------------------------
(* Writing and reading back the new objects.                                *)

\* What a late phase knows of its job.
LEMMA LateJob ==
  ASSUME Stored, Core, phase \in Late
  PROVE  /\ Busy /\ JobOk /\ ~job.prune /\ ~job.collectOnly /\ scan = {}
         /\ root.serial + 1 \in 1..MaxSerial
         /\ job.package => /\ NewPackage.obj = Package(root.serial + 1)
                           /\ NewPackage.content \notin {Absent, Torn}
                           /\ NewPackage.content \in Conts
         /\ job.data => /\ NewData.obj = Data(root.serial + 1)
                        /\ NewData.content \notin {Absent, Torn}
                        /\ NewData.content \in Conts
<1>1. Busy /\ JobOk /\ ~job.prune /\ ~job.collectOnly /\ scan = {}
  BY DEF Core, Flags, Busy, Late
<1>2. /\ RootOk(job.after) /\ job.after.kind = "doc"
      /\ job.after.serial = root.serial + 1
  BY <1>1 DEF JobOk
<1>3. root.serial \in Nat /\ job.after.serial <= MaxSerial
  BY <1>2 DEF RootOk, Stored, Roots
<1>4. FullPair(job.after.cur, job.after.serial) /\ job.after.cur \in Pairs
  BY <1>2 DEF RootOk, FullPair, PairOk
<1>5. job.after.cur.pkg \in Nat /\ job.after.cur.data \in Conts
      /\ job.after.cur.data.kind \in {"bytes", "index"}
  BY <1>4 DEF FullPair, PairOk, Pairs
<1>6. job.package => /\ NewPackage.obj = Package(root.serial + 1)
                     /\ NewPackage.content \notin {Absent, Torn}
                     /\ NewPackage.content \in Conts
  BY <1>1, <1>5, ContentKinds DEF JobOk, NewPackage
<1>7. job.data => /\ NewData.obj = Data(root.serial + 1)
                  /\ NewData.content \notin {Absent, Torn}
                  /\ NewData.content \in Conts
  BY <1>1, <1>5, ContentKinds DEF JobOk, NewData
<1> QED BY <1>1, <1>2, <1>3, <1>6, <1>7, Numbers

LEMMA ExtentIntact ==
  ASSUME Stored, Core, phase \in Late, job.data, NEW x \in Extents(job.after.cur)
  PROVE  /\ x.obj \in Name /\ Intact(x.obj, Bytes(x.val))
         /\ objects[x.obj] \notin {Absent, Torn}
<1>1. JobOk
  BY LateJob
<1>2. x.obj \in Name
  <2>1. [obj |-> x.obj, content |-> Bytes(x.val)] \in NeedsOf(job.after)
    BY PairNeeds DEF NeedsOf
  <2> QED BY <1>1, <2>1, RootNeeds DEF JobOk, Upto
<1>3. x.val \in Nat
  BY <1>1, ExtentTypes DEF JobOk, RootOk, Roots
<1>4. Intact(x.obj, Bytes(x.val))
  BY DEF Core, Verified, Late
<1> QED BY <1>2, <1>3, <1>4, ContentKinds DEF Intact

\* One new object is created or filled.
LEMMA Writes ==
  ASSUME Stored, Core, phase \in Late,
         NEW o \in Name, NEW c \in Conts,
         objects' = [objects EXCEPT ![o] = c], objects[o] \in {Absent, Torn},
         phase' \in Late, UNCHANGED <<dir, root, pending, job, scan, readers>>,
         faults' \in 0..MaxFaults
  PROVE  /\ Stored' /\ RootOk(root)' /\ RootWhole' /\ Snapshots' /\ JobOk'
         /\ objects'[o] = c
         /\ \A n \in Name : n # o => objects'[n] = objects[n]
         /\ job.data => \A x \in Extents(job.after.cur) : Intact(x.obj, Bytes(x.val))'
<1>1. objects'[o] = c /\ (\A n \in Name : n # o => objects'[n] = objects[n])
      /\ objects' \in [Name -> Conts]
  BY DEF Stored
<1>2. Stored'
  BY <1>1 DEF Stored, Phases
<1>3. RootWhole' /\ Snapshots'
  BY <1>1, FrameOne DEF OneChanges, Core
<1>4. JobOk'
  BY LateJob, JobOkStays
<1>5. ASSUME job.data, NEW x \in Extents(job.after.cur)
      PROVE  Intact(x.obj, Bytes(x.val))'
  <2>1. x.obj \in Name /\ x.obj # o /\ Intact(x.obj, Bytes(x.val))
    BY <1>5, ExtentIntact
  <2> QED BY <1>1, <2>1 DEF Intact
<1> QED BY <1>1, <1>2, <1>3, <1>4, <1>5 DEF Core

LEMMA KeptSame ==
  ASSUME UNCHANGED <<root, job>>, NEW n
  PROVE  Kept(n)' = Kept(n)
BY DEF Kept

LEMMA Created ==
  ASSUME Stored, Core, phase \in Late, NEW o \in Name, ~Present(o),
         NEW next \in Late \ {"commit"}, Goto(next), next \notin {"done", "failed"},
         objects' = [objects EXCEPT ![o] = Torn],
         UNCHANGED <<dir, root, pending, faults, readers>>
  PROVE  /\ Stored' /\ RootOk(root)' /\ RootWhole' /\ Snapshots' /\ JobOk'
         /\ phase' = next /\ UNCHANGED <<job, scan>>
         /\ objects'[o] = Torn
         /\ \A n \in Name : n # o => objects'[n] = objects[n]
         /\ job.data => \A x \in Extents(job.after.cur) : Intact(x.obj, Bytes(x.val))'
<1>1. phase' = next /\ UNCHANGED <<job, scan>>
  BY DEF Goto
<1>2. faults' \in 0..MaxFaults /\ objects[o] = Absent /\ Torn \in Conts
  BY ContentKinds DEF Stored, Present
<1> QED BY <1>1, <1>2, Writes

LEMMA PackageKeeps ==
  ASSUME Stored, Core, phase = "package", Create(NewPackage.obj, "packageClose"),
         UNCHANGED <<dir, root, pending, faults, readers>>
  PROVE  Stored' /\ Core'
<1>0. phase \in Late /\ job.package
  BY DEF Core, Flags, Late
<1>1. NewPackage.obj = Package(root.serial + 1) /\ NewPackage.obj \in Name
  BY <1>0, LateJob, PairNames
<1>2. CASE Present(NewPackage.obj)
  <2>1. Goto("failed") /\ UNCHANGED objects
    BY <1>2 DEF Create, Continue
  <2>2. UNCHANGED flash /\ faults' \in 0..MaxFaults
    BY <2>1 DEF flash, Stored
  <2> QED BY <2>1, <2>2, Fails
<1>3. CASE ~Present(NewPackage.obj)
  <2>1. Goto("packageClose") /\ objects' = [objects EXCEPT ![NewPackage.obj] = Torn]
    BY <1>3 DEF Create, Continue
  <2>2. "packageClose" \in Late \ {"commit"} /\ "packageClose" \notin {"done", "failed"}
    BY DEF Late
  <2>3. /\ Stored' /\ RootOk(root)' /\ RootWhole' /\ Snapshots' /\ JobOk'
        /\ phase' = "packageClose" /\ UNCHANGED <<job, scan>>
        /\ objects'[NewPackage.obj] = Torn
        /\ \A n \in Name : n # NewPackage.obj => objects'[n] = objects[n]
        /\ job.data => \A x \in Extents(job.after.cur) : Intact(x.obj, Bytes(x.val))'
    BY <1>0, <1>1, <1>3, <2>1, <2>2, Created
  <2>4. Flags'
    BY <1>0, <2>3, LateJob DEF Flags, Early, Late
  <2>5. Verified'
    BY <2>3 DEF Verified, NewPackage
  <2>6. ASSUME NEW n \in Name, Present(n)'
        PROVE  (Kept(n) \/ MadeNow(n))'
    <3>1. CASE n = NewPackage.obj
      BY <1>0, <2>3, <3>1 DEF MadeNow, NewPackage
    <3>2. CASE n # NewPackage.obj
      <4>1. Present(n)
        BY <2>3, <2>6, <3>2 DEF Present
      <4>2. Kept(n) \/ MadeNow(n)
        BY <1>0, <4>1 DEF Core, Swept
      <4>3. Kept(n)
        BY <4>2, <3>2 DEF MadeNow
      <4> QED BY <2>3, <4>3, KeptSame
    <3> QED BY <3>1, <3>2
  <2>7. Swept'
    BY <2>3, <2>6 DEF Swept
  <2> QED BY <2>3, <2>4, <2>5, <2>7 DEF Core
<1> QED BY <1>2, <1>3

LEMMA Filled ==
  ASSUME Stored, Core, phase \in Late, NEW o \in Name, NEW c \in Conts, Written(o, c),
         objects[o] = Torn,
         NEW next \in Late \ {"commit"}, Goto(next), next \notin {"done", "failed"},
         UNCHANGED <<dir, root, pending, readers>>
  PROVE  /\ Stored' /\ RootOk(root)' /\ RootWhole' /\ Snapshots' /\ JobOk'
         /\ phase' = next /\ UNCHANGED <<job, scan>>
         /\ \A n \in Name : n # o => objects'[n] = objects[n]
         /\ job.data => \A x \in Extents(job.after.cur) : Intact(x.obj, Bytes(x.val))'
<1>1. phase' = next /\ UNCHANGED <<job, scan>>
  BY DEF Goto
<1>2. PICK d \in {c, Torn} : objects' = [objects EXCEPT ![o] = d]
  BY DEF Written
<1>3. d \in Conts /\ faults' \in 0..MaxFaults
  BY <1>2, ContentKinds, Numbers DEF Written, Stored
<1> QED BY <1>1, <1>2, <1>3, Writes

LEMMA PackageCloseKeeps ==
  ASSUME Stored, Core, phase = "packageClose",
         Written(NewPackage.obj, NewPackage.content), Goto("packageVerify"),
         UNCHANGED <<dir, root, pending, readers>>
  PROVE  Stored' /\ Core'
<1>0. phase \in Late /\ job.package /\ objects[NewPackage.obj] = Torn
  BY DEF Core, Flags, Verified, Late
<1>1. NewPackage.obj \in Name /\ NewPackage.content \in Conts
  BY <1>0, LateJob, PairNames
<1>2. "packageVerify" \in Late \ {"commit"} /\ "packageVerify" \notin {"done", "failed"}
  BY DEF Late
<1>3. /\ Stored' /\ RootOk(root)' /\ RootWhole' /\ Snapshots' /\ JobOk'
      /\ phase' = "packageVerify" /\ UNCHANGED <<job, scan>>
      /\ \A n \in Name : n # NewPackage.obj => objects'[n] = objects[n]
      /\ job.data => \A x \in Extents(job.after.cur) : Intact(x.obj, Bytes(x.val))'
  BY <1>0, <1>1, <1>2, Filled
<1>4. Flags'
  BY <1>0, <1>3, LateJob DEF Flags, Early, Late
<1>5. Verified'
  BY <1>3 DEF Verified
<1>6. ASSUME NEW n \in Name, Present(n)'
      PROVE  (Kept(n) \/ MadeNow(n))'
  <2>1. CASE n = NewPackage.obj
    BY <1>0, <1>3, <2>1 DEF MadeNow, NewPackage
  <2>2. CASE n # NewPackage.obj
    <3>1. Present(n)
      BY <1>3, <1>6, <2>2 DEF Present
    <3>2. Kept(n)
      BY <1>0, <2>2, <3>1 DEF Core, Swept, MadeNow
    <3> QED BY <1>3, <3>2, KeptSame
  <2> QED BY <2>1, <2>2
<1>7. Swept'
  BY <1>3, <1>6 DEF Swept
<1> QED BY <1>3, <1>4, <1>5, <1>7 DEF Core

LEMMA PackageStays ==
  ASSUME Stored, Core, phase \in {"data", "dataClose"}, UNCHANGED job,
         \A n \in Name : n # NewData.obj => objects'[n] = objects[n]
  PROVE  job.package => Intact(NewPackage.obj, NewPackage.content)'
<1>1. SUFFICES ASSUME job.package
               PROVE  Intact(NewPackage.obj, NewPackage.content)'
  OBVIOUS
<1>2. phase \in Late /\ job.data
  BY DEF Core, Flags, Late
<1>3. NewPackage.obj \in Name /\ NewPackage.obj # NewData.obj
  BY <1>1, <1>2, LateJob, PairNames
<1>4. Intact(NewPackage.obj, NewPackage.content)
  BY <1>1 DEF Core, Verified
<1>5. NewPackage' = NewPackage
  BY DEF NewPackage
<1> QED BY <1>3, <1>4, <1>5 DEF Intact

LEMMA DataKeeps ==
  ASSUME Stored, Core, phase = "data", Create(NewData.obj, "dataClose"),
         UNCHANGED <<dir, root, pending, faults, readers>>
  PROVE  Stored' /\ Core'
<1>0. phase \in Late /\ job.data
  BY DEF Core, Flags, Late
<1>1. NewData.obj \in Name
  BY <1>0, LateJob, PairNames
<1>2. CASE Present(NewData.obj)
  <2>1. Goto("failed") /\ UNCHANGED objects
    BY <1>2 DEF Create, Continue
  <2>2. UNCHANGED flash /\ faults' \in 0..MaxFaults
    BY <2>1 DEF flash, Stored
  <2> QED BY <2>1, <2>2, Fails
<1>3. CASE ~Present(NewData.obj)
  <2>1. Goto("dataClose") /\ objects' = [objects EXCEPT ![NewData.obj] = Torn]
    BY <1>3 DEF Create, Continue
  <2>2. "dataClose" \in Late \ {"commit"} /\ "dataClose" \notin {"done", "failed"}
    BY DEF Late
  <2>3. /\ Stored' /\ RootOk(root)' /\ RootWhole' /\ Snapshots' /\ JobOk'
        /\ phase' = "dataClose" /\ UNCHANGED <<job, scan>>
        /\ objects'[NewData.obj] = Torn
        /\ \A n \in Name : n # NewData.obj => objects'[n] = objects[n]
        /\ job.data => \A x \in Extents(job.after.cur) : Intact(x.obj, Bytes(x.val))'
    BY <1>0, <1>1, <1>3, <2>1, <2>2, Created
  <2>4. Flags'
    BY <1>0, <2>3, LateJob DEF Flags, Early, Late
  <2>5. Verified'
    <3>1. job.package => Intact(NewPackage.obj, NewPackage.content)'
      BY <2>3, PackageStays
    <3> QED BY <2>3, <3>1 DEF Verified, NewData
  <2>6. ASSUME NEW n \in Name, Present(n)'
        PROVE  (Kept(n) \/ MadeNow(n))'
    <3>1. CASE n = NewData.obj
      BY <1>0, <2>3, <3>1 DEF MadeNow, NewData
    <3>2. CASE n # NewData.obj
      <4>1. Present(n)
        BY <2>3, <2>6, <3>2 DEF Present
      <4>2. Kept(n) \/ (n = NewPackage.obj /\ job.package)
        BY <1>0, <3>2, <4>1 DEF Core, Swept, MadeNow
      <4>3. Kept(n)' \/ (n = NewPackage.obj /\ job.package)
        BY <2>3, <4>2, KeptSame
      <4> QED BY <2>3, <4>3 DEF MadeNow, NewPackage
    <3> QED BY <3>1, <3>2
  <2>7. Swept'
    BY <2>3, <2>6 DEF Swept
  <2> QED BY <2>3, <2>4, <2>5, <2>7 DEF Core
<1> QED BY <1>2, <1>3

LEMMA DataCloseKeeps ==
  ASSUME Stored, Core, phase = "dataClose",
         Written(NewData.obj, NewData.content), Goto("dataVerify"),
         UNCHANGED <<dir, root, pending, readers>>
  PROVE  Stored' /\ Core'
<1>0. phase \in Late /\ job.data /\ objects[NewData.obj] = Torn
  BY DEF Core, Flags, Verified, Late
<1>1. NewData.obj \in Name /\ NewData.content \in Conts
  BY <1>0, LateJob, PairNames
<1>2. "dataVerify" \in Late \ {"commit"} /\ "dataVerify" \notin {"done", "failed"}
  BY DEF Late
<1>3. /\ Stored' /\ RootOk(root)' /\ RootWhole' /\ Snapshots' /\ JobOk'
      /\ phase' = "dataVerify" /\ UNCHANGED <<job, scan>>
      /\ \A n \in Name : n # NewData.obj => objects'[n] = objects[n]
      /\ job.data => \A x \in Extents(job.after.cur) : Intact(x.obj, Bytes(x.val))'
  BY <1>0, <1>1, <1>2, Filled
<1>4. Flags'
  BY <1>0, <1>3, LateJob DEF Flags, Early, Late
<1>5. Verified'
  <2>1. job.package => Intact(NewPackage.obj, NewPackage.content)'
    BY <1>3, PackageStays
  <2> QED BY <1>3, <2>1 DEF Verified
<1>6. ASSUME NEW n \in Name, Present(n)'
      PROVE  (Kept(n) \/ MadeNow(n))'
  <2>1. CASE n = NewData.obj
    BY <1>0, <1>3, <2>1 DEF MadeNow, NewData
  <2>2. CASE n # NewData.obj
    <3>1. Present(n)
      BY <1>3, <1>6, <2>2 DEF Present
    <3>2. Kept(n) \/ (n = NewPackage.obj /\ job.package)
      BY <1>0, <2>2, <3>1 DEF Core, Swept, MadeNow
    <3>3. Kept(n)' \/ (n = NewPackage.obj /\ job.package)
      BY <1>3, <3>2, KeptSame
    <3> QED BY <1>3, <3>3 DEF MadeNow, NewPackage
  <2> QED BY <2>1, <2>2
<1>7. Swept'
  BY <1>3, <1>6 DEF Swept
<1> QED BY <1>3, <1>4, <1>5, <1>7 DEF Core

\* A step on that leaves the objects alone.
LEMMA LateGoes ==
  ASSUME Stored, Core, phase \in Late,
         NEW next \in {"data", "rootWrite", "rootVerify", "commit"}, Goto(next),
         next = "data" => phase = "packageVerify" /\ job.data,
         UNCHANGED <<objects, dir, root, readers>>,
         pending' \in Roots, faults' \in 0..MaxFaults
  PROVE  /\ Stored' /\ RootOk(root)' /\ RootWhole' /\ Snapshots' /\ Flags' /\ Swept'
         /\ phase' = next /\ UNCHANGED <<job, scan>>
         /\ job.data => \A x \in Extents(job.after.cur) : Intact(x.obj, Bytes(x.val))'
<1>1. phase' = next /\ UNCHANGED <<job, scan>>
  BY DEF Goto
<1>2. Stored'
  BY <1>1 DEF Stored, Phases, Late
<1>3. RootWhole' /\ Snapshots'
  BY FrameSame DEF Core
<1>4. JobOk'
  BY <1>1, LateJob, JobOkStays
<1>5. Flags'
  BY <1>1, <1>4, LateJob DEF Flags, Early, Late
<1>6. ASSUME job.data, NEW x \in Extents(job.after.cur)
      PROVE  Intact(x.obj, Bytes(x.val))'
  BY <1>6, ExtentIntact, IntactSame
<1>7. ASSUME NEW n \in Name, Present(n)'
      PROVE  (Kept(n) \/ MadeNow(n))'
  <2>1. Kept(n) \/ MadeNow(n)
    BY <1>7 DEF Core, Swept, Present
  <2>2. CASE Kept(n)
    BY <1>1, <2>2, KeptSame
  <2>3. CASE MadeNow(n)
    BY <1>1, <2>3 DEF MadeNow, NewPackage, NewData
  <2> QED BY <2>1, <2>2, <2>3
<1>8. Swept'
  BY <1>1, <1>7 DEF Swept
<1> QED BY <1>1, <1>2, <1>3, <1>5, <1>6, <1>8 DEF Core

LEMMA VerifyKeeps ==
  ASSUME Stored, Core, Verify, UNCHANGED readers
  PROVE  Stored' /\ Core'
<1>0. /\ phase \in {"packageVerify", "dataVerify"} /\ UNCHANGED <<flash, faults, readers>>
      /\ pending' \in Roots /\ faults' \in 0..MaxFaults
      /\ UNCHANGED <<objects, dir, root>>
  BY DEF Verify, Stored, flash
<1>1. phase \in Late
  BY <1>0 DEF Late
<1>2. CASE Goto("failed")
  BY <1>0, <1>2, Fails
<1>3. CASE phase = "packageVerify" /\ Whole(NewPackage) /\ Goto(AfterPackage)
  <2>1. AfterPackage \in {"data", "rootWrite"} /\ (AfterPackage = "data" <=> job.data)
    BY DEF AfterPackage
  <2>2. /\ Stored' /\ RootOk(root)' /\ RootWhole' /\ Snapshots' /\ Flags' /\ Swept'
        /\ phase' = AfterPackage /\ UNCHANGED <<job, scan>>
        /\ job.data => \A x \in Extents(job.after.cur) : Intact(x.obj, Bytes(x.val))'
    BY <1>0, <1>1, <1>3, <2>1, LateGoes
  <2>3. Intact(NewPackage.obj, NewPackage.content)'
    BY <1>0, <1>3, <2>2 DEF Whole, Intact, NewPackage
  <2>4. Verified'
    BY <2>1, <2>2, <2>3 DEF Verified
  <2> QED BY <2>2, <2>4 DEF Core
<1>4. CASE phase = "dataVerify" /\ Whole(NewData) /\ Goto("rootWrite")
  <2>2. /\ Stored' /\ RootOk(root)' /\ RootWhole' /\ Snapshots' /\ Flags' /\ Swept'
        /\ phase' = "rootWrite" /\ UNCHANGED <<job, scan>>
        /\ job.data => \A x \in Extents(job.after.cur) : Intact(x.obj, Bytes(x.val))'
    BY <1>0, <1>1, <1>4, LateGoes
  <2>3. Intact(NewData.obj, NewData.content)'
    BY <1>0, <1>4, <2>2 DEF Whole, Intact, NewData
  <2>4. job.package => Intact(NewPackage.obj, NewPackage.content)'
    <3>1. job.package => Intact(NewPackage.obj, NewPackage.content)
      BY <1>4 DEF Core, Verified
    <3> QED BY <1>0, <2>2, <3>1 DEF Intact, NewPackage
  <2>5. Verified'
    BY <2>2, <2>3, <2>4 DEF Verified
  <2> QED BY <2>2, <2>5 DEF Core
<1> QED BY <1>2, <1>3, <1>4 DEF Verify, Continue

\* The new objects stay read back while the root is staged.
LEMMA StagingStays ==
  ASSUME Stored, Core, phase \in {"rootWrite", "rootVerify"},
         UNCHANGED <<objects, job>>, phase' \in {"rootVerify", "commit"},
         phase' = "commit" => pending' = job.after,
         job.data => \A x \in Extents(job.after.cur) : Intact(x.obj, Bytes(x.val))'
  PROVE  Verified'
<1>1. job.package => Intact(NewPackage.obj, NewPackage.content)
  BY DEF Core, Verified
<1>2. job.data => Intact(NewData.obj, NewData.content)
  BY DEF Core, Verified
<1>3. job.package => Intact(NewPackage.obj, NewPackage.content)'
  BY <1>1 DEF Intact, NewPackage
<1>4. job.data => Intact(NewData.obj, NewData.content)'
  BY <1>2 DEF Intact, NewData
<1> QED BY <1>3, <1>4 DEF Verified

LEMMA StageTyped ==
  ASSUME Stored, NEW r \in Roots, Stage(r)
  PROVE  pending' \in Roots /\ faults' \in 0..MaxFaults
BY NoPairOk, Numbers DEF Stage, Stored

LEMMA RootWriteKeeps ==
  ASSUME Stored, Core, RootWrite, UNCHANGED readers
  PROVE  Stored' /\ Core'
<1>1. /\ phase = "rootWrite" /\ phase \in Late /\ Goto("rootVerify")
      /\ UNCHANGED <<objects, dir, root>>
  BY DEF RootWrite, Late
<1>2. pending' \in Roots /\ faults' \in 0..MaxFaults
  BY <1>1, StageTyped DEF RootWrite, Stored, Jobs
<1>3. /\ Stored' /\ RootOk(root)' /\ RootWhole' /\ Snapshots' /\ Flags' /\ Swept'
      /\ phase' = "rootVerify" /\ UNCHANGED <<job, scan>>
      /\ job.data => \A x \in Extents(job.after.cur) : Intact(x.obj, Bytes(x.val))'
  BY <1>1, <1>2, LateGoes
<1>4. Verified'
  BY <1>1, <1>3, StagingStays
<1> QED BY <1>3, <1>4 DEF Core

LEMMA RootVerifyKeeps ==
  ASSUME Stored, Core, RootVerify, UNCHANGED readers
  PROVE  Stored' /\ Core'
<1>1. /\ phase = "rootVerify" /\ phase \in Late /\ UNCHANGED <<flash, faults, readers>>
      /\ UNCHANGED <<objects, dir, root, pending>>
      /\ pending' \in Roots /\ faults' \in 0..MaxFaults
  BY DEF RootVerify, Late, Stored, flash
<1>2. CASE Goto("failed")
  BY <1>1, <1>2, Fails
<1>3. CASE pending = job.after /\ Goto("commit")
  <2>1. /\ Stored' /\ RootOk(root)' /\ RootWhole' /\ Snapshots' /\ Flags' /\ Swept'
        /\ phase' = "commit" /\ UNCHANGED <<job, scan>>
        /\ job.data => \A x \in Extents(job.after.cur) : Intact(x.obj, Bytes(x.val))'
    BY <1>1, <1>3, LateGoes
  <2>2. Verified'
    BY <1>1, <1>3, <2>1, StagingStays
  <2> QED BY <2>1, <2>2 DEF Core
<1> QED BY <1>2, <1>3 DEF RootVerify, Continue

\* What is committed is whole: named before, read back now, or checked at the start.
LEMMA Renamed ==
  ASSUME Stored, Core, phase = "commit", root' = pending, UNCHANGED <<objects, readers>>
  PROVE  /\ RootOk(root)' /\ RootWhole' /\ Snapshots'
         /\ root' = job.after /\ root' \in Roots
<1>1. phase \in Late /\ root' = job.after
  BY DEF Core, Verified, Late
<1>2. JobOk /\ ~job.collectOnly
  BY <1>1, LateJob
<1>3. /\ RootOk(root') /\ root' \in Roots /\ root'.kind = "doc"
      /\ root'.serial = root.serial + 1
  BY <1>1, <1>2 DEF JobOk, RootOk
<1>4. ASSUME NEW need \in NeedsOf(job.after)
      PROVE  Intact(need.obj, need.content)'
  <2>1. CASE need \in NeedsOf(root)
    BY <2>1, IntactSame DEF Core, RootWhole
  <2>2. CASE job.package /\ need = NewPackage
    BY <2>2, IntactSame DEF Core, Verified
  <2>3. CASE job.data /\ need = NewData
    BY <2>3, IntactSame DEF Core, Verified
  <2>4. CASE job.data /\ need \in ExtentNeeds(job.after.cur)
    <3>1. PICK x \in Extents(job.after.cur) : need = [obj |-> x.obj, content |-> Bytes(x.val)]
      BY <2>4 DEF ExtentNeeds
    <3>2. Intact(x.obj, Bytes(x.val))
      BY <1>1, <2>4, ExtentIntact
    <3> QED BY <3>1, <3>2, IntactSame
  <2> QED BY <1>2, <2>1, <2>2, <2>3, <2>4 DEF JobOk
<1>5. RootWhole'
  <2>1. NeedsOf(root)' = NeedsOf(job.after)
    BY <1>1 DEF NeedsOf
  <2> QED BY <1>4, <2>1 DEF RootWhole, Intact
<1>6. ASSUME NEW r \in Reader
      PROVE  Held(readers[r])'
  <2>1. root.serial \in Nat /\ root'.serial \in Nat
    BY <1>3 DEF Stored, Roots
  <2>2. Upto(root.serial) \subseteq Upto(root'.serial)
    BY <1>3, <2>1, UptoMonotone
  <2>3. Held(readers[r])
    BY DEF Core, Snapshots
  <2> QED BY <2>2, <2>3 DEF Held, Intact, Upto
<1>7. Snapshots'
  BY <1>3, <1>6 DEF Snapshots
<1> QED BY <1>1, <1>3, <1>5, <1>7

LEMMA CommitKeeps ==
  ASSUME Stored, Core, Commit, UNCHANGED readers
  PROVE  Stored' /\ Core'
<1>1. /\ phase = "commit" /\ root' = pending /\ pending' = NoRoot /\ Goto("done")
      /\ UNCHANGED <<objects, dir, faults>>
  BY DEF Commit
<1>2. RootOk(root') /\ RootWhole' /\ Snapshots' /\ root' \in Roots
  BY <1>1, Renamed
<1>3. Core' /\ phase' = "done" /\ job' \in Jobs /\ scan' = {}
  BY <1>1, <1>2, Ends
<1> QED BY <1>1, <1>2, <1>3, NoPairOk DEF Stored, Phases

LEMMA RemoveDirectoryKeeps ==
  ASSUME Stored, Core, RemoveDirectory, UNCHANGED readers
  PROVE  Stored' /\ Core'
<1>1. PICK next \in {"done", "failed"} : Goto(next)
  BY DEF RemoveDirectory, Continue
<1>2. UNCHANGED <<objects, root, pending, faults, readers>> /\ dir' \in BOOLEAN
  BY DEF RemoveDirectory
<1>3. RootOk(root') /\ RootWhole' /\ Snapshots'
  BY <1>2, FrameSame DEF Core
<1>4. Core' /\ phase' = next /\ job' \in Jobs /\ scan' = {}
  BY <1>1, <1>3, Ends
<1> QED BY <1>2, <1>4 DEF Stored, Phases

LEMMA EngineFailsKeeps ==
  ASSUME Stored, Core, EngineFails, UNCHANGED readers
  PROVE  Stored' /\ Core'
<1>1. Goto("failed") /\ faults' \in 0..MaxFaults
  BY Numbers DEF EngineFails, Stored
<1>2. CASE UNCHANGED flash
  BY <1>1, <1>2, Fails
<1>3. CASE /\ phase = "commit" /\ root' = pending /\ pending' = NoRoot
           /\ UNCHANGED <<objects, dir>>
  <2>1. RootOk(root') /\ RootWhole' /\ Snapshots' /\ root' \in Roots
    BY <1>3, Renamed
  <2>2. Core' /\ phase' = "failed" /\ job' \in Jobs /\ scan' = {}
    BY <1>1, <2>1, Ends
  <2> QED BY <1>1, <1>3, <2>1, <2>2, NoPairOk DEF Stored, Phases
<1> QED BY <1>2, <1>3 DEF EngineFails

\* Every step of the engine keeps what is on flash and in the transaction.
LEMMA EngineKeeps ==
  ASSUME Stored, Core, EngineStep, UNCHANGED readers
  PROVE  Stored' /\ Core'
<1>1. CASE CheckStaged
  BY <1>1 DEF CheckStaged, Stored, Phases, Early, Late
<1>2. CASE WriteObject
  BY <1>2, PackageKeeps, PackageCloseKeeps, DataKeeps, DataCloseKeeps DEF WriteObject
<1> QED BY <1>1, <1>2, CheckKeeps, OpenDirectoryKeeps, CollectKeeps, CollectEndsKeeps,
     VerifyKeeps, RootWriteKeeps, RootVerifyKeeps, CommitKeeps, RemoveDirectoryKeeps,
     EngineFailsKeeps DEF EngineStep

LEMMA EnginePhases ==
  ASSUME Stored, Core, EngineStep
  PROVE  /\ Busy /\ phase' # "idle"
         /\ phase # "commit" => root' = root
         /\ phase \in {"check", "directory", "collect"} /\ job.collectOnly /\ ~job.prune =>
              \/ phase' \in {"directory", "collect"} /\ job' = job
              \/ phase' = "failed"
              \/ phase' = "done" /\ phase = "collect" /\ scan = {} /\ objects' = objects
<1>1. CASE Check \/ CheckStaged \/ OpenDirectory
  BY <1>1 DEF Check, CheckStaged, OpenDirectory, Continue, Goto, flash, Busy
<1>2. CASE Collect
  BY <1>2 DEF Collect, Busy
<1>3. CASE CollectEnds
  <2>1. phase = "collect" /\ Busy /\ scan = {} /\ UNCHANGED flash
    BY <1>3 DEF CollectEnds, Busy
  <2>2. \E next \in {"removeDirectory", "done", "package", "data", "rootWrite"} : Goto(next)
    BY <1>3 DEF CollectEnds
  <2>3. job.collectOnly /\ ~job.prune => Goto("done")
    <3>1. job.collectOnly /\ ~job.prune => ~job.package /\ ~job.data
      BY <2>1 DEF Core, Flags, JobOk
    <3> QED BY <1>3, <3>1 DEF CollectEnds
  <2> QED BY <2>1, <2>2, <2>3 DEF Goto, flash
<1>4. CASE WriteObject \/ Verify \/ RootWrite \/ RootVerify
  BY <1>4 DEF WriteObject, Create, Verify, RootWrite, RootVerify, Continue, Goto, flash, Busy,
     AfterPackage
<1>5. CASE Commit \/ RemoveDirectory
  BY <1>5 DEF Commit, RemoveDirectory, Continue, Goto, Busy
<1>6. CASE EngineFails
  BY <1>6 DEF EngineFails, Goto, flash
<1> QED BY <1>1, <1>2, <1>3, <1>4, <1>5, <1>6 DEF EngineStep

(***************************************************************************)
(* The volume                                                              *)
(***************************************************************************)
LEMMA CoreSame ==
  ASSUME Stored, Core, UNCHANGED <<flash, engine, readers>>, faults' \in 0..MaxFaults
  PROVE  Stored' /\ Core'
<1>1. UNCHANGED <<objects, dir, root, pending, phase, job, scan, readers>>
  BY DEF flash, engine
<1>2. Stored'
  BY <1>1 DEF Stored
<1>3. RootWhole' /\ Snapshots'
  BY <1>1, FrameSame DEF Core
<1>4. Flags'
  BY <1>1, JobOkStays DEF Core, Flags, Busy, HasSnapshots
<1>5. Verified'
  BY <1>1 DEF Core, Verified, NewPackage, NewData, Intact
<1>6. Swept'
  BY <1>1 DEF Core, Swept, Kept, MadeNow, NewPackage, NewData, Present
<1> QED BY <1>1, <1>2, <1>3, <1>4, <1>5, <1>6 DEF Core

Active == {"preparing", "writable", "chunk", "verify", "commit"}

LEMMA NotBuilding ==
  ASSUME file'.phase \notin Active \/ file'.phase = "commit"
  PROVE  Writer'
BY DEF Writer, Building, Active

LEMMA NoFileTyped == NoFile \in Files /\ NoFile.phase = "idle"
BY NoPairOk DEF NoFile, Files

LEMMA NoPlainTyped == NoPlain \in Plains /\ NoPlain.phase = "none"
BY NoPairOk DEF NoPlain, Plains

\* A ready volume.
LEMMA Ready ==
  ASSUME VolumeInv, vol # "busy"
  PROVE  ~Busy /\ plain.phase = "none" /\ file.phase \notin Active
BY DEF VolumeInv, Control, Owned, Plains, Active

LEMMA ReadyDocument ==
  ASSUME VolumeInv, DocumentReady
  PROVE  ~Busy /\ plain.phase = "none" /\ file = NoFile /\ vol = "ready"
BY Ready DEF VolumeInv, Control, DocumentReady

LEMMA CombinedPair ==
  ASSUME NEW pkg \in Nat, NEW v \in Nat, NEW g \in Nat
  PROVE  LET pair == Pair(0, pkg, 0, Bytes(v))
         IN  /\ PairOk(pair, g) /\ pair.p = 0 /\ pair.d = 0
             /\ pair.data.kind = "bytes"
<1> DEFINE pair == Pair(0, pkg, 0, Bytes(v))
<1>1. pair.p = 0 /\ pair.d = 0 /\ pair.data = Bytes(v) /\ pair \in Pairs
  BY ContentKinds DEF Pair, Pairs
<1>2. Needs(pair) = {}
  BY <1>1, ContentKinds, NoExtents, NoNeeds
<1>3. Len(pair.data.file) = 0 /\ DOMAIN pair.data.file = {}
  BY <1>1, ContentKinds
<1> QED BY <1>1, <1>2, <1>3, ContentKinds, Numbers DEF PairOk

LEMMA File2Ok ==
  ASSUME NEW g \in 0..MaxSerial, NEW pkg \in Nat, NEW v \in Nat
  PROVE  RootOk(File2(g, pkg, v)) /\ File2(g, pkg, v).kind = "file2"
         /\ File2(g, pkg, v) \in Roots
<1> DEFINE pair == Pair(0, pkg, 0, Bytes(v))
<1>1. PairOk(pair, g) /\ pair.p = 0 /\ pair.d = 0 /\ pair.data.kind = "bytes"
  BY CombinedPair, Numbers
<1>2. File2(g, pkg, v) = [kind |-> "file2", serial |-> g, upgrade |-> FALSE, high |-> 0,
                          cur |-> pair, prev |-> NoPair]
  BY DEF File2, Root
<1>3. pair \in Pairs
  BY <1>1 DEF PairOk
<1>4. File2(g, pkg, v) \in Roots
  BY <1>2, <1>3, NoPairOk, Numbers DEF Roots
<1> HIDE DEF pair
<1> QED BY <1>1, <1>2, <1>4, Numbers DEF RootOk

LEMMA BeginInstallKeeps ==
  ASSUME VolumeInv, BeginInstall
  PROVE  VolumeInv'
<1>1. ~Busy /\ plain.phase = "none" /\ file = NoFile /\ root.kind # "doc"
      /\ root.serial < MaxSerial
  BY ReadyDocument DEF BeginInstall, CanAdvance
<1>2. PICK pkg \in Version, data \in Payload :
        plain' = [phase |-> "write", rec |-> File2(root.serial + 1, pkg, data)]
  BY DEF BeginInstall
<1>3. vol' = "busy" /\ user' = "none" /\ UNCHANGED <<flash, engine, readers, faults, file>>
  BY DEF BeginInstall
<1>4. Stored' /\ Core'
  BY <1>3, CoreSame DEF VolumeInv, Stored
<1>5. root.serial + 1 \in 0..MaxSerial
  BY <1>1, Numbers DEF VolumeInv, Stored, Roots
<1>6. RootOk(plain'.rec) /\ plain'.rec.kind = "file2" /\ plain' \in Plains
      /\ plain'.phase = "write"
  BY <1>2, <1>5, File2Ok, Numbers DEF Plains
<1>7. Owned'
  BY <1>3, <1>6 DEF VolumeInv, Owned
<1>8. ~HasSnapshots
  BY <1>1 DEF VolumeInv, Core, Snapshots
<1>9. Control'
  BY <1>1, <1>3, <1>6, <1>8, NoFileTyped DEF Control, Busy, HasSnapshots, flash, engine
<1>10. Writer'
  BY <1>1, <1>3, NoFileTyped, NotBuilding DEF Active
<1> QED BY <1>4, <1>7, <1>9, <1>10 DEF VolumeInv

\* Steps beside an engine at rest.
LEMMA AtRest ==
  ASSUME Stored, Core, ~Busy, UNCHANGED engine,
         objects' \in [Name -> Conts], dir' \in BOOLEAN, root' \in Roots, pending' \in Roots,
         faults' \in 0..MaxFaults, readers' \in [Reader -> Seq(Exts)],
         RootOk(root'), RootWhole', Snapshots'
  PROVE  Stored' /\ Core' /\ ~Busy'
<1>1. phase \in {"idle", "done", "failed"} /\ scan = {}
  BY DEF Busy, Core, Flags
<1>2. phase' = phase /\ scan' = scan /\ job' = job
  BY DEF engine
<1>3. Flags' /\ Verified' /\ Swept'
  BY <1>1, <1>2, Resting
<1>4. Stored'
  BY <1>2 DEF Stored
<1>5. ~Busy'
  BY <1>1, <1>2 DEF Busy
<1> QED BY <1>3, <1>4, <1>5 DEF Core

\* A combined file is written, or the volume has finished or failed.
PlainStep == UNCHANGED <<engine, readers, user, file>>

LEMMA PlainControl ==
  ASSUME VolumeInv, plain.phase # "none", PlainStep,
         \/ plain' = NoPlain /\ vol' \in {"ready", "failed"}
         \/ /\ vol' = vol /\ UNCHANGED root
            /\ plain'.phase \in {"verify", "commit"} /\ plain'.rec = plain.rec
            /\ plain.phase \in {"write", "verify"} /\ plain' \in Plains
            /\ plain'.phase = "commit" => pending' = plain.rec
  PROVE  Owned' /\ Control' /\ Writer'
<1>1. /\ vol = "busy" /\ user = "none" /\ ~Busy /\ ~HasSnapshots /\ file = NoFile
      /\ plain.phase \in {"write", "verify"} => /\ root.kind # "doc" /\ RootOk(plain.rec)
                                                /\ plain.rec.kind = "file2"
  BY DEF VolumeInv, Control
<1>2. ~Busy' /\ ~HasSnapshots' /\ file' = NoFile /\ user' = "none"
  BY <1>1 DEF PlainStep, Busy, HasSnapshots, engine
<1>3. Writer'
  BY <1>2, NoFileTyped, NotBuilding DEF Active
<1>4. Owned'
  BY <1>1, <1>2, NoPlainTyped DEF PlainStep, VolumeInv, Owned
<1>5. CASE plain' = NoPlain /\ vol' \in {"ready", "failed"}
  BY <1>2, <1>3, <1>4, <1>5, NoFileTyped, NoPlainTyped DEF Control
<1>6. CASE /\ vol' = vol /\ UNCHANGED root
           /\ plain'.phase \in {"verify", "commit"} /\ plain'.rec = plain.rec
           /\ plain.phase \in {"write", "verify"}
           /\ plain'.phase = "commit" => pending' = plain.rec
  BY <1>1, <1>2, <1>3, <1>4, <1>6, NoFileTyped DEF Control
<1> QED BY <1>3, <1>4, <1>5, <1>6

LEMMA InstallStepKeeps ==
  ASSUME VolumeInv, InstallStep
  PROVE  VolumeInv'
<1>0. plain.phase \in {"write", "verify", "commit"} /\ PlainStep
  BY DEF InstallStep, PlainStep
<1>1. /\ ~Busy /\ ~HasSnapshots /\ root.kind # "doc" /\ RootOk(plain.rec)
      /\ plain.rec.kind = "file2" /\ plain.rec \in Roots
      /\ vol = "busy"
  BY <1>0 DEF VolumeInv, Control, RootOk
<1>2. CASE /\ plain.phase = "write" /\ Stage(plain.rec)
           /\ plain' = [plain EXCEPT !.phase = "verify"]
           /\ UNCHANGED <<objects, dir, root, vol, engine, readers, user, file>>
  <2>1. pending' \in Roots /\ faults' \in 0..MaxFaults
    BY <1>1, <1>2, StageTyped DEF VolumeInv
  <2>2. RootWhole' /\ Snapshots'
    BY <1>2, FrameSame DEF VolumeInv, Core
  <2>3. Stored' /\ Core'
    BY <1>1, <1>2, <2>1, <2>2, AtRest DEF VolumeInv, Core, Stored
  <2>4. plain'.phase = "verify" /\ plain'.rec = plain.rec /\ plain' \in Plains
    BY <1>2 DEF VolumeInv, Owned, Plains
  <2> QED BY <1>0, <1>2, <2>3, <2>4, PlainControl DEF VolumeInv
<1>3. CASE /\ plain.phase = "verify" /\ pending = plain.rec
           /\ plain' = [plain EXCEPT !.phase = "commit"] /\ UNCHANGED vol
           /\ UNCHANGED <<flash, engine, readers, faults, user, file>>
  <2>1. Stored' /\ Core'
    BY <1>3, CoreSame DEF VolumeInv, Stored
  <2>2. plain'.phase = "commit" /\ plain'.rec = plain.rec /\ plain' \in Plains
    BY <1>3 DEF VolumeInv, Owned, Plains
  <2>3. pending' = plain.rec /\ UNCHANGED root
    BY <1>3 DEF flash
  <2> QED BY <1>0, <1>3, <2>1, <2>2, <2>3, PlainControl DEF VolumeInv
<1>4. CASE /\ plain.phase = "verify" /\ EndPlain("failed")
           /\ UNCHANGED <<flash, engine, readers, faults, user, file>>
  <2>1. Stored' /\ Core'
    BY <1>4, CoreSame DEF VolumeInv, Stored
  <2> QED BY <1>0, <1>4, <2>1, PlainControl DEF VolumeInv, EndPlain
<1>5. CASE /\ plain.phase = "commit" /\ root' = pending /\ pending' = NoRoot
           /\ EndPlain("ready")
           /\ UNCHANGED <<objects, dir, engine, readers, faults, user, file>>
  <2>1. RootOk(root') /\ root'.kind = "file2" /\ root' \in Roots
    BY <1>1, <1>5 DEF VolumeInv, Control
  <2>2. RootWhole'
    BY <2>1, BareRoot DEF RootWhole
  <2>3. Snapshots'
    <3>1. \A r \in Reader : readers'[r] = << >>
      BY <1>1, <1>5 DEF HasSnapshots
    <3> QED BY <3>1 DEF Snapshots, Held, HasSnapshots
  <2>4. Stored' /\ Core'
    BY <1>1, <1>5, <2>1, <2>2, <2>3, NoPairOk, AtRest DEF VolumeInv, Stored
  <2> QED BY <1>0, <1>5, <2>4, PlainControl DEF VolumeInv, EndPlain
<1> QED BY <1>2, <1>3, <1>4, <1>5 DEF InstallStep

LEMMA PlainFailsKeeps ==
  ASSUME VolumeInv, PlainFails
  PROVE  VolumeInv'
<1>1. Stored' /\ Core'
  BY CoreSame, Numbers DEF VolumeInv, Stored, PlainFails
<1> QED BY <1>1, PlainControl DEF VolumeInv, PlainFails, PlainStep, EndPlain

LEMMA CancelInstallKeeps ==
  ASSUME VolumeInv, CancelInstall
  PROVE  VolumeInv'
<1>1. Stored' /\ Core'
  BY CoreSame DEF VolumeInv, Stored, CancelInstall
<1> QED BY <1>1, PlainControl DEF VolumeInv, CancelInstall, PlainStep, EndPlain

LEMMA BeginRemoveKeeps ==
  ASSUME VolumeInv, BeginRemove
  PROVE  VolumeInv'
<1>1. ~Busy /\ plain.phase = "none" /\ file = NoFile /\ ~HasSnapshots
  BY ReadyDocument DEF BeginRemove, Removal
<1>2. /\ plain' = [phase |-> "remove", rec |-> NoRoot] /\ vol' = "busy" /\ user' = "none"
      /\ UNCHANGED <<flash, engine, readers, faults, file>>
  BY DEF BeginRemove, Removal
<1>3. Stored' /\ Core'
  BY <1>2, CoreSame DEF VolumeInv, Stored
<1>4. plain' \in Plains /\ plain'.phase = "remove"
  BY <1>2, NoPairOk DEF Plains
<1>5. Owned'
  BY <1>2, <1>4 DEF VolumeInv, Owned
<1>6. Control'
  BY <1>1, <1>2, <1>4, NoFileTyped DEF Control, Busy, HasSnapshots, engine
<1>7. Writer'
  BY <1>1, <1>2, NoFileTyped, NotBuilding DEF Active
<1> QED BY <1>3, <1>5, <1>6, <1>7 DEF VolumeInv

LEMMA NoRootOk == RootOk(NoRoot) /\ NeedsOf(NoRoot) = {}
<1>1. RootOk(NoRoot)
  BY NoPairOk, Numbers DEF RootOk
<1> QED BY <1>1, BareRoot, NoPairOk

\* A removal or a start that finds objects without a root prunes them.
LEMMA Prunes ==
  ASSUME Stored, StartPrune, root' = NoRoot, ~HasSnapshots, UNCHANGED <<objects, dir, readers>>,
         pending' \in Roots, faults' \in 0..MaxFaults
  PROVE  Stored' /\ Core' /\ Busy'
<1>1. /\ job' = Job(NoRoot, NoRoot, FALSE, FALSE, FALSE, TRUE) /\ phase' = "collect"
      /\ scan' = {n \in Name : Present(n)}
  BY DEF StartPrune
<1>2. /\ job' \in Jobs /\ job'.prune /\ job'.before = NoRoot
      /\ ~job'.package /\ ~job'.data /\ ~job'.collectOnly
  BY <1>1, NoPairOk DEF Job, Jobs
<1>3. \A r \in Reader : readers'[r] = << >>
  BY DEF HasSnapshots
<1>4. Snapshots' /\ ~HasSnapshots'
  BY <1>3 DEF Snapshots, Held, HasSnapshots
<1>5. RootWhole' /\ RootOk(root)'
  BY NoRootOk DEF RootWhole
<1>6. Stored'
  BY <1>1, <1>2, NoPairOk DEF Stored, Phases
<1>7. Flags' /\ Verified' /\ Swept' /\ Busy'
  BY <1>1, <1>2, <1>4 DEF Flags, Verified, Swept, Early, Late, Busy
<1> QED BY <1>4, <1>5, <1>6, <1>7 DEF Core

LEMMA RemoveRootKeeps ==
  ASSUME VolumeInv, RemoveRoot
  PROVE  VolumeInv'
<1>1. /\ vol = "busy" /\ user = "none" /\ ~Busy /\ ~HasSnapshots /\ file = NoFile
  BY DEF VolumeInv, Control, RemoveRoot
<1>2. /\ root' = NoRoot /\ plain' = NoPlain
      /\ UNCHANGED <<objects, dir, pending, readers, faults, file>>
  BY DEF RemoveRoot
<1>3. Writer'
  BY <1>1, <1>2, NoFileTyped, NotBuilding DEF Active
<1>4. CASE dir
  <2>1. StartPrune /\ user' = "doc" /\ UNCHANGED vol
    BY <1>4 DEF RemoveRoot
  <2>2. Stored' /\ Core' /\ Busy'
    BY <1>1, <1>2, <2>1, Prunes DEF VolumeInv, Stored
  <2>3. Owned' /\ Control'
    BY <1>1, <1>2, <2>1, <2>2, NoPlainTyped, NoFileTyped DEF VolumeInv, Owned, Control
  <2> QED BY <1>3, <2>2, <2>3 DEF VolumeInv
<1>5. CASE ~dir
  <2>1. vol' = "ready" /\ UNCHANGED <<engine, user>>
    BY <1>5 DEF RemoveRoot
  <2>2. RootOk(root') /\ RootWhole' /\ root' \in Roots
    BY <1>2, NoRootOk, NoPairOk DEF RootWhole
  <2>3. Snapshots'
    <3>1. \A r \in Reader : readers'[r] = << >>
      BY <1>1, <1>2 DEF HasSnapshots
    <3> QED BY <3>1 DEF Snapshots, Held, HasSnapshots
  <2>4. Stored' /\ Core' /\ ~Busy'
    BY <1>1, <1>2, <2>1, <2>2, <2>3, AtRest DEF VolumeInv, Stored
  <2>5. Owned' /\ Control'
    BY <1>1, <1>2, <2>1, <2>4, NoPlainTyped, NoFileTyped DEF VolumeInv, Owned, Control
  <2> QED BY <1>3, <2>4, <2>5 DEF VolumeInv
<1> QED BY <1>4, <1>5

----------------------------------------------------------------------------
(* The transactions an operation begins.                                    *)
LEMMA FullMonotone ==
  ASSUME NEW g \in Nat, NEW h \in Nat, g <= h, NEW pair, FullPair(pair, g)
  PROVE  FullPair(pair, h)
<1>1. Upto(g) \subseteq Upto(h) /\ 1..g \subseteq 1..h
  BY UptoMonotone
<1> QED BY <1>1 DEF FullPair, PairOk

LEMMA FullIsPair ==
  ASSUME NEW g, NEW pair, FullPair(pair, g)
  PROVE  pair # NoPair /\ pair \in Pairs /\ pair.data \in Conts
BY NoPairOk DEF FullPair, PairOk, Pairs

LEMMA DocumentRoot ==
  ASSUME RootOk(root), root \in Roots, root.kind = "doc"
  PROVE  /\ FullPair(root.cur, root.serial)
         /\ root.prev # NoPair => FullPair(root.prev, root.serial)
         /\ root.upgrade => root.prev # NoPair
         /\ root.serial \in Nat /\ root.cur \in Pairs /\ root.prev \in Pairs
BY DEF RootOk, Roots

LEMMA UpgradeIsDocument ==
  ASSUME RootOk(root), root.upgrade
  PROVE  root.kind = "doc"
BY NoPairOk DEF RootOk, Roots

\* The pair a transaction makes of another one, with new bytes, a new package
\* or a new index.
PackageNeed(pair) == [obj |-> Package(pair.p), content |-> Bytes(pair.pkg)]
DataNeed(pair) == [obj |-> Data(pair.d), content |-> pair.data]

LEMMA SavedPair ==
  ASSUME NEW s \in Nat, s + 1 <= MaxSerial, NEW q, FullPair(q, s), NEW v \in Nat,
         NEW pair \in Pairs, pair.p = q.p, pair.pkg = q.pkg, pair.d = s + 1,
         pair.data = Bytes(v)
  PROVE  /\ FullPair(pair, s + 1) /\ Extents(pair) = {}
         /\ \A need \in Needs(pair) : need \in Needs(q) \/ need = DataNeed(pair)
<1>0. s + 1 \in Nat /\ s <= s + 1
  OBVIOUS
<1>1. q \in Pairs /\ FullPair(q, s + 1)
  BY <1>0, FullMonotone, FullIsPair
<1>2. pair.d = s + 1 /\ pair.data = Bytes(v) /\ pair.p = q.p /\ pair.pkg = q.pkg
  OBVIOUS
<1>3. Extents(pair) = {}
  BY <1>2, ContentKinds, NoExtents
<1>4. ASSUME NEW need \in Needs(pair)
      PROVE  need \in Needs(q) \/ need = DataNeed(pair)
  <2>1. \/ pair.p # 0 /\ need = [obj |-> Package(pair.p), content |-> Bytes(pair.pkg)]
        \/ need = [obj |-> Data(pair.d), content |-> pair.data]
    BY <1>3, NeedCases
  <2>2. q.p # 0 => [obj |-> Package(q.p), content |-> Bytes(q.pkg)] \in Needs(q)
    BY PairNeeds
  <2> QED BY <1>2, <2>1, <2>2 DEF DataNeed
<1>5. Data(s + 1) \in Upto(s + 1)
  BY PairNames, Numbers DEF Upto
<1>6. \A need \in Needs(pair) : need.obj \in Upto(s + 1)
  BY <1>1, <1>2, <1>4, <1>5 DEF FullPair, PairOk, DataNeed
<1>7. PairOk(pair, s + 1)
  BY <1>2, <1>6, ContentKinds, Numbers DEF PairOk
<1> QED BY <1>1, <1>2, <1>3, <1>4, <1>7, ContentKinds DEF FullPair

LEMMA UpgradedPair ==
  ASSUME NEW s \in Nat, s + 1 <= MaxSerial, NEW q, FullPair(q, s),
         NEW pair \in Pairs, pair.p = s + 1, pair.d = q.d, pair.data = q.data
  PROVE  /\ FullPair(pair, s + 1)
         /\ \A need \in Needs(pair) : need \in Needs(q) \/ need = PackageNeed(pair)
<1>0. s + 1 \in Nat /\ s <= s + 1
  OBVIOUS
<1>1. q \in Pairs /\ FullPair(q, s + 1)
  BY <1>0, FullMonotone, FullIsPair
<1>2. pair.p = s + 1 /\ pair.d = q.d /\ pair.data = q.data
  OBVIOUS
<1>3. Extents(pair) = Extents(q)
  BY <1>2 DEF Extents
<1>4. ASSUME NEW need \in Needs(pair)
      PROVE  need \in Needs(q) \/ need = PackageNeed(pair)
  <2>1. CASE need = [obj |-> Package(pair.p), content |-> Bytes(pair.pkg)]
    BY <2>1 DEF PackageNeed
  <2>2. CASE pair.d # 0 /\ need = [obj |-> Data(pair.d), content |-> pair.data]
    BY <1>2, <2>2, PairNeeds
  <2>3. ASSUME NEW x \in Extents(pair), need = [obj |-> x.obj, content |-> Bytes(x.val)]
        PROVE  need \in Needs(q)
    BY <1>3, <2>3, PairNeeds
  <2> QED BY <2>1, <2>2, <2>3, NeedCases
<1>5. Package(s + 1) \in Upto(s + 1)
  BY PairNames, Numbers DEF Upto
<1>6. \A need \in Needs(pair) : need.obj \in Upto(s + 1)
  BY <1>1, <1>2, <1>4, <1>5 DEF FullPair, PairOk, PackageNeed
<1> QED BY <1>1, <1>2, <1>4, <1>6 DEF FullPair, PairOk

LEMMA ConvertedPair ==
  ASSUME NEW s \in Nat, s + 1 <= MaxSerial, NEW pkg \in Nat, NEW v \in Nat,
         NEW pair, pair = Pair(s + 1, pkg, s + 1, Bytes(v))
  PROVE  /\ FullPair(pair, s + 1) /\ Extents(pair) = {}
         /\ \A need \in Needs(pair) : need \in {PackageNeed(pair), DataNeed(pair)}
<1>1. /\ pair \in Pairs /\ pair.p = s + 1 /\ pair.pkg = pkg /\ pair.d = s + 1
      /\ pair.data = Bytes(v)
  BY ContentKinds DEF Pair, Pairs
<1>2. Extents(pair) = {}
  BY <1>1, ContentKinds, NoExtents
<1>3. \A need \in Needs(pair) : need \in {PackageNeed(pair), DataNeed(pair)}
  BY <1>2, NeedCases DEF DataNeed, PackageNeed
<1>4. Package(s + 1) \in Upto(s + 1) /\ Data(s + 1) \in Upto(s + 1)
  BY PairNames, Numbers DEF Upto
<1>5. \A need \in Needs(pair) : need.obj \in Upto(s + 1)
  BY <1>1, <1>3, <1>4 DEF DataNeed, PackageNeed
<1>6. PairOk(pair, s + 1)
  BY <1>1, <1>5, ContentKinds, Numbers DEF PairOk
<1> QED BY <1>1, <1>2, <1>3, <1>6, ContentKinds DEF FullPair

\* The root of a save: everything but its private bytes or its file.
LEMMA CheckpointRoot ==
  ASSUME RootOk(root), root \in Roots, root.kind = "doc", root.serial < MaxSerial,
         NEW accept \in BOOLEAN, NEW a, a = Checkpointed(accept)
  PROVE  /\ a \in Roots /\ a.kind = "doc" /\ a.serial = root.serial + 1
         /\ a.cur = root.cur /\ a.prev \in {NoPair, root.cur, root.prev}
         /\ a.prev # NoPair => FullPair(a.prev, root.serial + 1)
         /\ a.upgrade => a.prev # NoPair
         /\ Needs(a.prev) \subseteq NeedsOf(root)
<1>1. /\ FullPair(root.cur, root.serial) /\ root.cur # NoPair
      /\ root.prev # NoPair => FullPair(root.prev, root.serial)
      /\ root.upgrade => root.prev # NoPair
      /\ root.serial \in Nat /\ root.cur \in Pairs /\ root.prev \in Pairs
  BY DocumentRoot, FullIsPair
<1>2. /\ NextRoot \in Roots /\ NextRoot.kind = "doc" /\ NextRoot.serial = root.serial + 1
      /\ NextRoot.cur = root.cur /\ NextRoot.upgrade = root.upgrade
      /\ NextRoot.prev = IF root.upgrade THEN root.prev ELSE root.cur
  <2> DEFINE q == IF root.upgrade THEN root.prev ELSE root.cur
  <2>1. q \in Pairs
    BY <1>1
  <2>2. NextRoot = [root EXCEPT !.serial = root.serial + 1, !.prev = q]
    BY DEF NextRoot
  <2> HIDE DEF q
  <2>3. NextRoot \in Roots
    <3>1. root.serial + 1 \in Nat
      BY <1>1
    <3> DEFINE next == [root EXCEPT !.serial = root.serial + 1, !.prev = q]
    <3>2. next \in Roots
      BY <2>1, <3>1 DEF Roots
    <3> QED BY <2>2, <3>2
  <2>4. /\ NextRoot.kind = "doc" /\ NextRoot.serial = root.serial + 1
        /\ NextRoot.cur = root.cur /\ NextRoot.upgrade = root.upgrade /\ NextRoot.prev = q
    BY <2>2 DEF Roots
  <2> QED BY <2>3, <2>4 DEF q
<1>3. CASE accept
  <2>1. a = [NextRoot EXCEPT !.upgrade = FALSE, !.prev = NoPair]
    BY <1>3 DEF Checkpointed, Accepted
  <2>2. /\ a \in Roots /\ a.kind = "doc" /\ a.serial = root.serial + 1
        /\ a.cur = root.cur /\ a.prev = NoPair /\ a.upgrade = FALSE
    BY <1>2, <2>1, NoPairOk DEF Roots
  <2> QED BY <2>2, NoPairNeeds
<1>4. CASE ~accept
  <2>1. a = NextRoot
    BY <1>4 DEF Checkpointed
  <2>2. a.prev # NoPair => FullPair(a.prev, root.serial)
    BY <1>1, <1>2, <2>1
  <2>3. a.prev # NoPair => FullPair(a.prev, root.serial + 1)
    BY <1>1, <2>2, FullMonotone
  <2> QED BY <1>1, <1>2, <2>1, <2>3 DEF NeedsOf
<1> QED BY <1>3, <1>4

\* A transaction may begin with these parameters.
LEMMA JobStarts ==
  ASSUME RootOk(root), root \in Roots, UNCHANGED root,
         NEW after, NEW p \in BOOLEAN, NEW d \in BOOLEAN,
         job' = Job(root, after, p, d, FALSE, FALSE),
         RootOk(after), after.kind = "doc", after.serial = root.serial + 1,
         \A need \in NeedsOf(after) :
           \/ need \in NeedsOf(root)
           \/ p /\ need = PackageNeed(after.cur)
           \/ d /\ (need = DataNeed(after.cur) \/ need \in ExtentNeeds(after.cur)),
         p => after.cur.p = root.serial + 1,
         d => /\ after.cur.d = root.serial + 1
              /\ root.kind = "file2" => Extents(after.cur) = {}
              /\ \A x \in Extents(after.cur) : (x.obj.type = "c" \/ x.obj \in Upto(root.serial))
  PROVE  JobOk' /\ job' \in Jobs /\ ~job'.prune /\ ~job'.collectOnly
<1>1. after \in Roots
  BY DEF RootOk
<1>2. /\ job'.before = root /\ job'.after = after /\ job'.package = p /\ job'.data = d
      /\ job'.collectOnly = FALSE /\ job'.prune = FALSE /\ job' \in Jobs
  BY <1>1 DEF Job, Jobs
<1>3. NewPackage' = PackageNeed(after.cur) /\ NewData' = DataNeed(after.cur)
  BY <1>2 DEF NewPackage, NewData, PackageNeed, DataNeed
<1>4. Converting' <=> root.kind = "file2"
  BY <1>2 DEF Converting
<1> QED BY <1>2, <1>3, <1>4 DEF JobOk

LEMMA StartKeeps ==
  ASSUME Stored, Core, NEW j, Start(j), j \in Jobs, ~j.prune, JobOk',
         UNCHANGED <<flash, faults, readers>>
  PROVE  Stored' /\ Core' /\ Busy' /\ phase' = "check" /\ job' = j
<1>1. /\ phase' = "check" /\ job' = j /\ scan' = {}
      /\ UNCHANGED <<objects, dir, root, pending>>
  BY DEF Start, flash
<1>2. Stored'
  BY <1>1 DEF Stored, Phases, Early
<1>3. RootWhole' /\ Snapshots'
  BY <1>1, FrameSame DEF Core
<1>4. Flags' /\ Verified' /\ Swept' /\ Busy'
  BY <1>1 DEF Flags, Verified, Swept, Early, Late, Busy
<1> QED BY <1>1, <1>2, <1>3, <1>4 DEF Core

LEMMA BeginDocumentKeeps ==
  ASSUME VolumeInv, CanAdvance, NEW after, NEW p \in BOOLEAN, NEW d \in BOOLEAN,
         BeginDocument(after, p, d),
         RootOk(after), after.kind = "doc", after.serial = root.serial + 1,
         \A need \in NeedsOf(after) :
           \/ need \in NeedsOf(root)
           \/ p /\ need = PackageNeed(after.cur)
           \/ d /\ (need = DataNeed(after.cur) \/ need \in ExtentNeeds(after.cur)),
         p => after.cur.p = root.serial + 1,
         d => /\ after.cur.d = root.serial + 1
              /\ root.kind = "file2" => Extents(after.cur) = {}
              /\ \A x \in Extents(after.cur) : (x.obj.type = "c" \/ x.obj \in Upto(root.serial))
  PROVE  VolumeInv'
<1>1. ~Busy /\ plain.phase = "none"
  BY ReadyDocument DEF CanAdvance
<1>2. /\ Start(Job(root, after, p, d, FALSE, FALSE)) /\ vol' = "busy" /\ user' = "doc"
      /\ file' = NoFile /\ UNCHANGED <<flash, readers, faults, plain>>
  BY DEF BeginDocument
<1>3. job' = Job(root, after, p, d, FALSE, FALSE) /\ UNCHANGED root
  BY <1>2 DEF Start, flash
<1>4. RootOk(root) /\ root \in Roots
  BY DEF VolumeInv, Core, Stored
<1>5. JobOk' /\ job' \in Jobs /\ ~job'.prune
  BY <1>3, <1>4, JobStarts
<1>6. Stored' /\ Core' /\ Busy'
  BY <1>2, <1>3, <1>5, StartKeeps DEF VolumeInv
<1>7. Owned' /\ Control'
  BY <1>1, <1>2, NoFileTyped DEF VolumeInv, Owned, Control
<1>8. Writer'
  BY <1>2, NoFileTyped, NotBuilding DEF Active
<1> QED BY <1>6, <1>7, <1>8 DEF VolumeInv

\* The root a transaction of an installed app leaves.
LEMMA DocumentOk ==
  ASSUME NEW s \in Nat, s + 1 <= MaxSerial, NEW a \in Roots, a.kind = "doc",
         a.serial = s + 1, FullPair(a.cur, s + 1),
         a.prev # NoPair => FullPair(a.prev, s + 1),
         a.upgrade => a.prev # NoPair
  PROVE  RootOk(a)
BY DEF RootOk

LEMMA Advance ==
  ASSUME VolumeInv, CanAdvance
  PROVE  /\ RootOk(root) /\ root \in Roots /\ root.serial \in Nat
         /\ root.serial < MaxSerial /\ root.serial + 1 <= MaxSerial
         /\ root.serial <= root.serial + 1 /\ root.serial + 1 \in Nat
<1>1. RootOk(root) /\ root \in Roots /\ root.serial \in Nat /\ root.serial < MaxSerial
  BY DEF VolumeInv, Core, Stored, CanAdvance, Roots
<1> QED BY <1>1, Numbers

LEMMA BeginConversionKeeps ==
  ASSUME VolumeInv, BeginConversion
  PROVE  VolumeInv'
<1>0. CanAdvance /\ root.kind = "file2"
  BY DEF BeginConversion
<1>1. /\ RootOk(root) /\ root \in Roots /\ root.serial \in Nat
      /\ root.serial < MaxSerial /\ root.serial + 1 <= MaxSerial
      /\ root.serial + 1 \in Nat
  BY <1>0, Advance
<1> DEFINE g == root.serial + 1
           pair(v) == Pair(g, root.cur.pkg, g, Bytes(v))
           after(v) == Root("doc", g, FALSE, root.cur.pkg, pair(v), NoPair)
<1>2. PICK v \in Payload : BeginDocument(after(v), TRUE, TRUE)
  BY DEF BeginConversion
<1>3. root.cur.pkg \in Nat /\ v \in Nat
  BY <1>1, Numbers DEF Roots, Pairs
<1>4. /\ FullPair(pair(v), g) /\ Extents(pair(v)) = {}
      /\ \A need \in Needs(pair(v)) : need \in {PackageNeed(pair(v)), DataNeed(pair(v))}
  BY <1>1, <1>3, ConvertedPair
<1>5. pair(v).p = g /\ pair(v).d = g
  BY DEF Pair
<1> HIDE DEF pair
<1>6. /\ after(v).kind = "doc" /\ after(v).serial = g /\ after(v).cur = pair(v)
      /\ after(v).prev = NoPair /\ after(v).upgrade = FALSE
  BY DEF Root
<1>7. after(v) \in Roots
  <2>1. pair(v) \in Pairs
    BY <1>4, FullIsPair
  <2> QED BY <1>1, <1>3, <2>1, NoPairOk DEF Root, Roots
<1> HIDE DEF after
<1>8. RootOk(after(v))
  BY <1>1, <1>4, <1>6, <1>7, DocumentOk
<1>9. \A need \in NeedsOf(after(v)) :
        need \in {PackageNeed(after(v).cur), DataNeed(after(v).cur)}
  BY <1>4, <1>6, NoPairNeeds DEF NeedsOf
<1> QED BY <1>0, <1>2, <1>4, <1>5, <1>6, <1>8, <1>9, BeginDocumentKeeps

LEMMA BeginCheckpointKeeps ==
  ASSUME VolumeInv, BeginCheckpoint
  PROVE  VolumeInv'
<1>0. CanAdvance /\ root.kind = "doc"
  BY DEF BeginCheckpoint
<1>1. /\ RootOk(root) /\ root \in Roots /\ root.serial \in Nat
      /\ root.serial < MaxSerial /\ root.serial + 1 <= MaxSerial
      /\ root.serial + 1 \in Nat
  BY <1>0, Advance
<1> DEFINE g == root.serial + 1
           saved(accept, v) == [Checkpointed(accept) EXCEPT
                                  !.cur.d = Checkpointed(accept).serial,
                                  !.cur.data = Bytes(v)]
<1>2. PICK v \in Payload, accept \in {FALSE, root.upgrade} :
        BeginDocument(saved(accept, v), FALSE, TRUE)
  BY Zenon DEF BeginCheckpoint
<1>3. accept \in BOOLEAN /\ v \in Nat
  BY <1>1, Numbers DEF Roots
<1> DEFINE a == Checkpointed(accept)
<1>4. /\ a \in Roots /\ a.kind = "doc" /\ a.serial = g
      /\ a.cur = root.cur /\ a.prev \in {NoPair, root.cur, root.prev}
      /\ a.prev # NoPair => FullPair(a.prev, g)
      /\ a.upgrade => a.prev # NoPair
      /\ Needs(a.prev) \subseteq NeedsOf(root)
  BY <1>0, <1>1, <1>3, CheckpointRoot
<1> DEFINE pair == [root.cur EXCEPT !.d = g, !.data = Bytes(v)]
           after == [a EXCEPT !.cur = pair]
<1>5. saved(accept, v) = after
  BY <1>4 DEF Roots
<1> HIDE DEF saved, a
<1>p. FullPair(root.cur, root.serial) /\ root.cur \in Pairs
  BY <1>0, <1>1, DocumentRoot
<1>q. /\ pair \in Pairs /\ pair.p = root.cur.p /\ pair.pkg = root.cur.pkg /\ pair.d = g
      /\ pair.data = Bytes(v)
  <2>1. Bytes(v) \in Conts
    BY <1>3, ContentKinds
  <2> QED BY <1>1, <1>p, <2>1 DEF Pairs
<1> HIDE DEF pair
<1>6. /\ FullPair(pair, g) /\ Extents(pair) = {}
      /\ \A need \in Needs(pair) : need \in Needs(root.cur) \/ need = DataNeed(pair)
  BY <1>1, <1>3, <1>p, <1>q, SavedPair
<1>9. after \in Roots
  BY <1>4, <1>q DEF Roots
<1>10. /\ after.kind = "doc" /\ after.serial = g /\ after.cur = pair
       /\ after.prev = a.prev /\ after.upgrade = a.upgrade
  BY <1>4 DEF Roots
<1> HIDE DEF after
<1>11. RootOk(after)
  BY <1>1, <1>4, <1>6, <1>9, <1>10, DocumentOk
<1>12. \A need \in NeedsOf(after) : need \in NeedsOf(root) \/ need = DataNeed(after.cur)
  BY <1>4, <1>6, <1>10 DEF NeedsOf
<1> QED BY <1>0, <1>2, <1>5, <1>6, <1>q, <1>10, <1>11, <1>12, BeginDocumentKeeps

LEMMA BeginUpgradeKeeps ==
  ASSUME VolumeInv, BeginUpgrade
  PROVE  VolumeInv'
<1>0. CanAdvance /\ root.kind = "doc"
  BY DEF BeginUpgrade
<1>1. /\ RootOk(root) /\ root \in Roots /\ root.serial \in Nat
      /\ root.serial < MaxSerial /\ root.serial + 1 <= MaxSerial
      /\ root.serial + 1 \in Nat /\ root.serial <= root.serial + 1
  BY <1>0, Advance
<1> DEFINE g == root.serial + 1
           pair(v) == [root.cur EXCEPT !.p = g, !.pkg = v]
           after(v) == Root("doc", g, TRUE, v, pair(v), root.cur)
<1>2. PICK v \in Version : BeginDocument(after(v), TRUE, FALSE)
  BY Zenon DEF BeginUpgrade
<1>3. v \in Nat /\ FullPair(root.cur, root.serial) /\ root.cur \in Pairs /\ root.cur # NoPair
  BY <1>0, <1>1, Numbers, DocumentRoot, FullIsPair
<1>4. FullPair(root.cur, g)
  BY <1>1, <1>3, FullMonotone
<1>6. /\ pair(v) \in Pairs /\ pair(v).p = g /\ pair(v).d = root.cur.d
      /\ pair(v).data = root.cur.data
  BY <1>1, <1>3 DEF Pairs
<1> HIDE DEF pair
<1>5. /\ FullPair(pair(v), g)
      /\ \A need \in Needs(pair(v)) : need \in Needs(root.cur) \/ need = PackageNeed(pair(v))
  BY <1>1, <1>3, <1>6, UpgradedPair
<1>7. /\ after(v).kind = "doc" /\ after(v).serial = g /\ after(v).cur = pair(v)
      /\ after(v).prev = root.cur /\ after(v).upgrade = TRUE
  BY DEF Root
<1>8. after(v) \in Roots
  BY <1>1, <1>3, <1>6 DEF Root, Roots
<1> HIDE DEF after
<1>9. RootOk(after(v))
  BY <1>1, <1>3, <1>4, <1>5, <1>7, <1>8, DocumentOk
<1>10. \A need \in NeedsOf(after(v)) :
         need \in NeedsOf(root) \/ need = PackageNeed(after(v).cur)
  BY <1>5, <1>7 DEF NeedsOf
<1> QED BY <1>0, <1>2, <1>6, <1>7, <1>9, <1>10, BeginDocumentKeeps

\* The end of an upgrade keeps one of the two pairs.
LEMMA SettledKeeps ==
  ASSUME VolumeInv, CanAdvance, root.upgrade, NEW q \in {root.cur, root.prev},
         NEW after \in Roots, after.kind = "doc", after.serial = root.serial + 1,
         after.cur = q, after.prev = NoPair, after.upgrade = FALSE,
         BeginDocument(after, FALSE, FALSE)
  PROVE  VolumeInv'
<1>1. /\ RootOk(root) /\ root \in Roots /\ root.serial \in Nat
      /\ root.serial < MaxSerial /\ root.serial + 1 <= MaxSerial
      /\ root.serial + 1 \in Nat /\ root.serial <= root.serial + 1
  BY Advance
<1>2. root.kind = "doc"
  BY <1>1, UpgradeIsDocument
<1>3. FullPair(q, root.serial)
  BY <1>1, <1>2, DocumentRoot
<1>4. FullPair(q, root.serial + 1)
  BY <1>1, <1>3, FullMonotone
<1>5. RootOk(after)
  BY <1>1, <1>4, DocumentOk
<1>6. \A need \in NeedsOf(after) : need \in NeedsOf(root)
  BY NoPairNeeds DEF NeedsOf
<1> QED BY <1>5, <1>6, BeginDocumentKeeps

LEMMA BeginAcceptKeeps ==
  ASSUME VolumeInv, BeginAccept
  PROVE  VolumeInv'
<1>1. CanAdvance /\ root.upgrade
  BY DEF BeginAccept
<1>2. root \in Roots /\ root.serial + 1 \in Nat /\ root.kind = "doc"
  BY <1>1, Advance, UpgradeIsDocument
<1> DEFINE next == [root EXCEPT !.serial = root.serial + 1]
           after == Accepted(next)
<1>3. BeginDocument(after, FALSE, FALSE)
  BY DEF BeginAccept
<1>4. next \in Roots
  BY <1>2 DEF Roots
<1>5. next.kind = "doc" /\ next.serial = root.serial + 1 /\ next.cur = root.cur
  BY <1>2 DEF Roots
<1> HIDE DEF next
<1>6. after \in Roots
  BY <1>4, NoPairOk DEF Accepted, Roots
<1>7. /\ after.kind = "doc" /\ after.serial = root.serial + 1 /\ after.cur = root.cur
      /\ after.prev = NoPair /\ after.upgrade = FALSE
  BY <1>4, <1>5 DEF Accepted, Roots
<1> QED BY <1>1, <1>3, <1>6, <1>7, SettledKeeps

LEMMA BeginRollbackKeeps ==
  ASSUME VolumeInv, BeginRollback
  PROVE  VolumeInv'
<1>1. CanAdvance /\ root.upgrade
  BY DEF BeginRollback
<1>2. root \in Roots /\ root.serial + 1 \in Nat /\ root.kind = "doc" /\ root.prev \in Pairs
  BY <1>1, Advance, UpgradeIsDocument DEF Roots
<1> DEFINE next == [root EXCEPT !.serial = root.serial + 1, !.cur = root.prev]
           after == Accepted(next)
<1>3. BeginDocument(after, FALSE, FALSE)
  BY DEF BeginRollback
<1>4. next \in Roots
  BY <1>2 DEF Roots
<1>5. next.kind = "doc" /\ next.serial = root.serial + 1 /\ next.cur = root.prev
  BY <1>2 DEF Roots
<1> HIDE DEF next
<1>6. after \in Roots
  BY <1>4, NoPairOk DEF Accepted, Roots
<1>7. /\ after.kind = "doc" /\ after.serial = root.serial + 1 /\ after.cur = root.prev
      /\ after.prev = NoPair /\ after.upgrade = FALSE
  BY <1>4, <1>5 DEF Accepted, Roots
<1> QED BY <1>1, <1>3, <1>6, <1>7, SettledKeeps

LEMMA DocumentStepKeeps ==
  ASSUME VolumeInv, DocumentStep
  PROVE  VolumeInv'
<1>1. /\ vol = "busy" /\ user \in {"doc", "init"} /\ EngineStep
      /\ UNCHANGED <<readers, file, plain>>
      /\ file = NoFile
  BY DEF DocumentStep, VolumeInv, Control
<1>2. Stored' /\ Core'
  BY <1>1, EngineKeeps DEF VolumeInv
<1>3. Busy /\ phase' # "idle" /\ plain.phase = "none"
  BY <1>1, EnginePhases DEF VolumeInv, Control, Owned, Plains
<1>4. /\ vol' = CASE phase' = "done" -> "ready"
                  [] phase' = "failed" -> "failed"
                  [] OTHER -> "busy"
      /\ user' = CASE phase' = "done" -> "none"
                   [] phase' = "failed" -> "doc"
                   [] OTHER -> user
  BY DEF DocumentStep
<1>5. /\ vol' \in {"ready", "busy", "failed"} /\ user' \in {"none", "doc", "init"}
      /\ Busy' => vol' = "busy" /\ user' # "none"
  BY <1>1, <1>3, <1>4 DEF Busy
<1>6. Owned' /\ Control'
  BY <1>1, <1>3, <1>5, NoFileTyped DEF VolumeInv, Owned, Control
<1>7. Writer'
  BY <1>1, NoFileTyped, NotBuilding DEF Active
<1> QED BY <1>2, <1>6, <1>7 DEF VolumeInv

(***************************************************************************)
(* The writer                                                              *)
(***************************************************************************)
LEMMA BlankOk == Blank \in Exts /\ Blank.obj.gen = 0
BY DEF Blank, Extent, Object, Exts, Objs

\* What the writer starts from: the extents of the current pair, or its
\* byte store as one extent.
LEMMA IndexPieces ==
  ASSUME RootOk(root), root \in Roots, root.kind = "doc", root.serial < MaxSerial,
         NEW old, old = IndexOf(root.cur)
  PROVE  /\ old.priv \in Seq(Exts) /\ Len(old.priv) = 1
         /\ ExtentOk(old.priv[1]) /\ ~Fresh(old.priv[1])
         /\ old.file \in Seq(Exts) /\ Len(old.file) <= MaxChunks
         /\ \A i \in DOMAIN old.file :
              ExtentOk(old.file[i]) /\ old.file[i].obj.type = "c" /\ ~Fresh(old.file[i])
<1>1. /\ FullPair(root.cur, root.serial) /\ PairOk(root.cur, root.serial)
      /\ root.serial \in Nat /\ root.cur \in Pairs
  BY DocumentRoot DEF FullPair
<1>2. /\ root.serial <= root.serial + 1 /\ root.serial + 1 \in Nat
  BY <1>1
<1>3. Upto(root.serial) \subseteq Upto(root.serial + 1)
  BY <1>1, <1>2, UptoMonotone
<1>4. ASSUME NEW x, x.obj \in Upto(root.serial), x.obj.type # "p"
      PROVE  ExtentOk(x) /\ ~Fresh(x)
  <2>1. x.obj.gen <= root.serial /\ x.obj.gen \in Nat
    BY <1>4, Names DEF Upto, Objs
  <2>2. x.obj.gen # root.serial + 1
    BY <1>1, <2>1
  <2> QED BY <1>3, <1>4, <2>2 DEF ExtentOk, Fresh
<1>5. CASE root.cur.data.kind = "index"
  <2>1. old = root.cur.data
    BY <1>5 DEF IndexOf
  <2>2. old.priv \in Seq(Exts) /\ old.file \in Seq(Exts)
    BY <1>1, <2>1 DEF Pairs, Conts
  <2>3. /\ Len(old.priv) = 1 /\ Len(old.file) <= MaxChunks
        /\ \A i \in DOMAIN old.file : old.file[i].obj.type = "c"
    BY <1>1, <1>5, <2>1 DEF PairOk
  <2>4. ASSUME NEW x \in Extents(root.cur)
        PROVE  x.obj \in Upto(root.serial)
    BY <1>1, PairNeeds DEF PairOk
  <2>5. 1 \in DOMAIN old.priv
    BY <2>2, <2>3
  <2>6. old.priv[1] \in Extents(root.cur)
    BY <2>1, <2>5 DEF Extents, Elements
  <2>7. \A i \in DOMAIN old.file : old.file[i] \in Extents(root.cur)
    BY <2>1 DEF Extents, Elements
  <2>8. old.priv[1].obj.type # "p"
    BY <1>1, <2>1, <2>5 DEF PairOk
  <2> QED BY <1>4, <2>2, <2>3, <2>4, <2>6, <2>7, <2>8
<1>6. CASE root.cur.data.kind # "index"
  <2> DEFINE x == Extent(Data(root.cur.d), root.cur.data.val)
  <2>1. old = Index(<<x>>, << >>)
    BY <1>6 DEF IndexOf
  <2>2. root.cur.d \in 1..MaxSerial /\ root.cur.d <= root.serial
    BY <1>1, Numbers DEF FullPair
  <2>3. x.obj = Data(root.cur.d) /\ x.obj \in Upto(root.serial)
    BY <2>2, PairNames DEF Upto, Extent
  <2>4. x \in Exts
    <3>1. root.cur.data.val \in Nat
      BY <1>1 DEF Pairs, Conts
    <3>2. Data(root.cur.d) \in Objs
      BY <2>2, PairNames, Names
    <3> QED BY <3>1, <3>2 DEF Extent, Exts
  <2>5. ExtentOk(x) /\ ~Fresh(x)
    BY <1>4, <2>2, <2>3, PairNames
  <2> HIDE DEF x
  <2>6. old.priv = <<x>> /\ old.file = << >>
    BY <2>1 DEF Index
  <2>7. Len(old.file) = 0 /\ DOMAIN old.file = {} /\ old.file \in Seq(Exts)
    BY <2>6
  <2>8. Len(old.priv) = 1 /\ old.priv[1] = x /\ old.priv \in Seq(Exts)
    BY <2>4, <2>6
  <2> QED BY <2>5, <2>7, <2>8, Numbers
<1> QED BY <1>5, <1>6

\* What an operation of the writer may start with.
Startable(mode, after, priv, named, slot, last) ==
  /\ mode \in {"fill", "stream"}
  /\ after \in {NextRoot, Accepted(NextRoot)}
  /\ priv \in Seq(Exts) /\ named \in Seq(Exts)
  /\ slot \in Nat /\ last \in Nat
  /\ mode = "fill" => last <= Len(named) /\ last + 1 <= MaxChunks + slot
  /\ mode = "stream" => slot # 0
  /\ Len(named) <= MaxChunks
  /\ Len(priv) = 1
  /\ ~Fresh(priv[1])
  /\ (mode = "fill" /\ slot = 0) \/ ExtentOk(priv[1])
  /\ mode = "fill" /\ slot = 0 => last = 0
  /\ \A i \in DOMAIN named :
       /\ ~Fresh(named[i])
       /\ \/ ExtentOk(named[i]) /\ named[i].obj.type = "c"
          \/ mode = "fill" /\ i \in slot..last

LEMMA NextRoots ==
  ASSUME RootOk(root), root \in Roots, root.kind = "doc", root.serial < MaxSerial
  PROVE  /\ NextRoot = Checkpointed(FALSE) /\ Accepted(NextRoot) = Checkpointed(TRUE)
         /\ NextRoot \in Roots /\ Accepted(NextRoot) \in Roots
         /\ NextRoot.serial = root.serial + 1 /\ Accepted(NextRoot).serial = root.serial + 1
<1>1. NextRoot = Checkpointed(FALSE) /\ Accepted(NextRoot) = Checkpointed(TRUE)
  BY DEF Checkpointed
<1>2. Checkpointed(FALSE) \in Roots /\ Checkpointed(FALSE).serial = root.serial + 1
  BY CheckpointRoot
<1>3. Checkpointed(TRUE) \in Roots /\ Checkpointed(TRUE).serial = root.serial + 1
  BY CheckpointRoot
<1> QED BY <1>1, <1>2, <1>3

LEMMA BeginFileKeeps ==
  ASSUME VolumeInv, CanAdvance, root.kind = "doc",
         NEW mode, NEW after, NEW priv, NEW named, NEW slot, NEW last,
         Startable(mode, after, priv, named, slot, last),
         BeginFile(mode, after, priv, named, slot, last)
  PROVE  VolumeInv'
<1>1. ~Busy /\ plain.phase = "none"
  BY ReadyDocument DEF CanAdvance
<1>2. RootOk(root) /\ root \in Roots /\ root.serial < MaxSerial
  BY Advance
<1>3. after \in Roots
  BY <1>2, NextRoots DEF Startable
<1>4. /\ Start(Job(root, root, FALSE, FALSE, TRUE, FALSE)) /\ vol' = "busy" /\ user' = "file"
      /\ UNCHANGED <<flash, readers, faults, plain>>
  BY DEF BeginFile
<1>5. /\ job' = Job(root, root, FALSE, FALSE, TRUE, FALSE) /\ UNCHANGED root
      /\ UNCHANGED objects
  BY <1>4 DEF Start, flash
<1>6. /\ job'.before = root /\ job'.after = root /\ job'.package = FALSE /\ job'.data = FALSE
      /\ job'.collectOnly = TRUE /\ job'.prune = FALSE /\ job' \in Jobs
  BY <1>2, <1>5 DEF Job, Jobs
<1>7. JobOk'
  BY <1>2, <1>5, <1>6 DEF JobOk
<1>8. Stored' /\ Core' /\ Busy' /\ phase' = "check"
  BY <1>4, <1>5, <1>6, <1>7, StartKeeps DEF VolumeInv
<1>9. file' = [phase |-> "preparing", mode |-> mode, before |-> root, after |-> after,
               priv |-> priv, file |-> named, slot |-> slot, last |-> last,
               part |-> 0, val |-> 0]
  BY DEF BeginFile, NoFile
<1>10. file' \in Files
  BY <1>2, <1>3, <1>9 DEF Startable, Files
<1>11. Owned' /\ Control'
  BY <1>1, <1>4, <1>8, <1>9, <1>10 DEF VolumeInv, Owned, Control
<1>12. /\ file'.phase = "preparing" /\ file'.mode = mode /\ file'.before = root
       /\ file'.after = after /\ file'.priv = priv /\ file'.file = named
       /\ file'.slot = slot /\ file'.last = last /\ file'.part = 0
  BY <1>9
<1>13. Slots'
  BY <1>12 DEF Startable, Slots
<1>14. Pieces'
  <2>1. /\ \A x : Fresh(x)' <=> Fresh(x)
        /\ \A x : ExtentOk(x)' <=> ExtentOk(x)
    BY <1>5 DEF Fresh, ExtentOk, Upto
  <2> QED BY <1>12, <2>1 DEF Startable, Pieces, Fresh, ExtentOk, Upto
<1>15. Chunks'
  BY <1>12 DEF Chunks
<1>16. Writer'
  BY <1>2, <1>5, <1>6, <1>8, <1>12, <1>13, <1>14, <1>15
     DEF Startable, Writer, Building, NextRoot, Accepted
<1> QED BY <1>8, <1>11, <1>16 DEF VolumeInv

LEMMA BeginFeedKeeps ==
  ASSUME VolumeInv, BeginFeed
  PROVE  VolumeInv'
<1>1. CanAdvance /\ root.kind = "doc" /\ root.cur.data.kind = "index"
  BY DEF BeginFeed
<1>2. PICK accept \in {FALSE, root.upgrade} :
        BeginFile("fill", Checkpointed(accept), <<Blank>>, root.cur.data.file, 0, 0)
  BY Zenon DEF BeginFeed
<1>3. /\ RootOk(root) /\ root \in Roots /\ root.serial \in Nat /\ root.serial < MaxSerial
  BY <1>1, Advance
<1>4. IndexOf(root.cur) = root.cur.data
  BY <1>1 DEF IndexOf
<1>5. LET old == root.cur.data
      IN  /\ old.file \in Seq(Exts) /\ Len(old.file) <= MaxChunks
          /\ \A i \in DOMAIN old.file :
               ExtentOk(old.file[i]) /\ old.file[i].obj.type = "c" /\ ~Fresh(old.file[i])
  BY <1>1, <1>3, <1>4, IndexPieces
<1>6. Checkpointed(accept) \in {NextRoot, Accepted(NextRoot)}
  BY DEF Checkpointed
<1>7. <<Blank>> \in Seq(Exts) /\ Len(<<Blank>>) = 1 /\ ~Fresh(<<Blank>>[1])
  BY <1>3, BlankOk DEF Fresh
<1>8. Len(root.cur.data.file) \in Nat
  BY <1>5
<1>9. Startable("fill", Checkpointed(accept), <<Blank>>, root.cur.data.file, 0, 0)
  BY <1>5, <1>6, <1>7, <1>8, Numbers DEF Startable
<1> QED BY <1>1, <1>2, <1>9, BeginFileKeeps

LEMMA BlanksOk ==
  ASSUME NEW n \in Nat
  PROVE  /\ Blanks(n) \in Seq(Exts) /\ Len(Blanks(n)) = n /\ DOMAIN Blanks(n) = 1..n
         /\ \A i \in 1..n : Blanks(n)[i] = Blank
BY BlankOk DEF Blanks

\* Starting from the current file.
LEMMA FromIndex ==
  ASSUME VolumeInv, CanAdvance, root.kind = "doc", NEW old, old = IndexOf(root.cur)
  PROVE  /\ \A n \in 0..MaxChunks : Startable("fill", NextRoot, old.priv, Blanks(n), 1, n)
         /\ \A lo \in DOMAIN old.file : \A hi \in lo..Len(old.file) :
              Startable("fill", NextRoot, old.priv, old.file, lo, hi)
         /\ \A mode \in {"fill", "stream"} : \A named \in {<< >>, old.file} :
              Startable(mode, NextRoot, old.priv, named, 1, 0)
<1>1. RootOk(root) /\ root \in Roots /\ root.serial \in Nat /\ root.serial < MaxSerial
  BY Advance
<1>2. /\ old.priv \in Seq(Exts) /\ Len(old.priv) = 1
      /\ ExtentOk(old.priv[1]) /\ ~Fresh(old.priv[1])
      /\ old.file \in Seq(Exts) /\ Len(old.file) <= MaxChunks
      /\ \A i \in DOMAIN old.file :
           ExtentOk(old.file[i]) /\ old.file[i].obj.type = "c" /\ ~Fresh(old.file[i])
  BY <1>1, IndexPieces
<1>3. ASSUME NEW n \in 0..MaxChunks
      PROVE  Startable("fill", NextRoot, old.priv, Blanks(n), 1, n)
  <2>1. n \in Nat /\ n <= MaxChunks /\ n + 1 <= MaxChunks + 1
    BY <1>3, Numbers
  <2>2. /\ Blanks(n) \in Seq(Exts) /\ Len(Blanks(n)) = n /\ DOMAIN Blanks(n) = 1..n
        /\ \A i \in 1..n : Blanks(n)[i] = Blank
    BY <2>1, BlanksOk
  <2>3. ~Fresh(Blank)
    BY <1>1, BlankOk DEF Fresh
  <2> QED BY <1>2, <2>1, <2>2, <2>3 DEF Startable
<1>4. ASSUME NEW lo \in DOMAIN old.file, NEW hi \in lo..Len(old.file)
      PROVE  Startable("fill", NextRoot, old.priv, old.file, lo, hi)
  <2>1. lo \in Nat /\ lo >= 1 /\ hi \in Nat /\ hi <= Len(old.file) /\ Len(old.file) \in Nat
    BY <1>2, <1>4
  <2>2. hi + 1 <= MaxChunks + lo
    BY <1>2, <2>1, Numbers
  <2> QED BY <1>2, <2>1, <2>2 DEF Startable
<1>5. ASSUME NEW mode \in {"fill", "stream"}, NEW named \in {<< >>, old.file}
      PROVE  Startable(mode, NextRoot, old.priv, named, 1, 0)
  <2>1. /\ named \in Seq(Exts) /\ Len(named) <= MaxChunks /\ Len(named) \in Nat
        /\ \A i \in DOMAIN named :
             ExtentOk(named[i]) /\ named[i].obj.type = "c" /\ ~Fresh(named[i])
    <3>1. CASE named = << >>
      BY <3>1, Numbers
    <3>2. CASE named = old.file
      BY <1>2, <3>2
    <3> QED BY <1>5, <3>1, <3>2
  <2> QED BY <1>2, <1>5, <2>1, Numbers DEF Startable
<1> QED BY <1>3, <1>4, <1>5

LEMMA BeginWriteKeeps ==
  ASSUME VolumeInv, BeginWrite
  PROVE  VolumeInv'
<1> DEFINE old == IndexOf(root.cur)
<1>1. CanAdvance /\ root.kind = "doc"
  BY DEF BeginWrite
<1>2. /\ \A n \in 0..MaxChunks : Startable("fill", NextRoot, old.priv, Blanks(n), 1, n)
      /\ \A lo \in DOMAIN old.file : \A hi \in lo..Len(old.file) :
           Startable("fill", NextRoot, old.priv, old.file, lo, hi)
  BY <1>1, FromIndex
<1>3. ASSUME NEW n \in 0..MaxChunks, BeginFile("fill", NextRoot, old.priv, Blanks(n), 1, n)
      PROVE  VolumeInv'
  BY <1>1, <1>2, <1>3, BeginFileKeeps
<1>4. ASSUME NEW lo \in DOMAIN old.file, NEW hi \in lo..Len(old.file),
             BeginFile("fill", NextRoot, old.priv, old.file, lo, hi)
      PROVE  VolumeInv'
  BY <1>1, <1>2, <1>4, BeginFileKeeps
<1> QED BY <1>3, <1>4 DEF BeginWrite

LEMMA BeginStreamKeeps ==
  ASSUME VolumeInv, BeginStream \/ ChangeFile
  PROVE  VolumeInv'
<1> DEFINE old == IndexOf(root.cur)
<1>1. CanAdvance /\ root.kind = "doc"
  BY DEF BeginStream, ChangeFile
<1>2. PICK mode \in {"fill", "stream"}, named \in {<< >>, old.file} :
        BeginFile(mode, NextRoot, old.priv, named, 1, 0)
  BY DEF BeginStream, ChangeFile
<1>3. Startable(mode, NextRoot, old.priv, named, 1, 0)
  BY <1>1, FromIndex
<1> QED BY <1>1, <1>2, <1>3, BeginFileKeeps

LEMMA WriterActs ==
  ASSUME VolumeInv, file.phase \in Active
  PROVE  user = "file" /\ vol = "busy" /\ plain.phase = "none"
<1>1. file # NoFile
  BY NoFileTyped DEF Active
<1>2. user = "file" /\ vol = "busy"
  BY <1>1 DEF VolumeInv, Control, Active
<1> QED BY <1>2 DEF VolumeInv, Control

\* The generation the writer makes is free for it.
LEMMA WriterAt ==
  ASSUME VolumeInv, Building
  PROVE  /\ RootOk(root) /\ root \in Roots /\ root.kind = "doc" /\ root.serial \in Nat
         /\ root.serial < MaxSerial /\ root.serial + 1 \in 1..MaxSerial
         /\ file.after \in Roots /\ file.after.serial = root.serial + 1
         /\ file.before = root /\ file.after \in {NextRoot, Accepted(NextRoot)}
         /\ file.mode \in {"fill", "stream"}
         /\ Slots /\ Pieces /\ Chunks
         /\ file \in Files /\ file.slot \in Nat /\ file.last \in Nat /\ file.part \in Nat
         /\ file.priv \in Seq(Exts) /\ file.file \in Seq(Exts) /\ Len(file.file) \in Nat
         /\ file.val \in Nat
<1>1. /\ RootOk(root) /\ root \in Roots /\ root.kind = "doc" /\ root.serial < MaxSerial
      /\ file.before = root /\ file.after \in {NextRoot, Accepted(NextRoot)}
      /\ file.mode \in {"fill", "stream"} /\ Slots /\ Pieces /\ Chunks
  BY DEF VolumeInv, Core, Stored, Writer
<1>2. file.after \in Roots /\ file.after.serial = root.serial + 1
  BY <1>1, NextRoots
<1>3. root.serial \in Nat /\ root.serial + 1 \in 1..MaxSerial
  BY <1>1, Numbers DEF Roots
<1>4. /\ file \in Files /\ file.slot \in Nat /\ file.last \in Nat /\ file.part \in Nat
      /\ file.priv \in Seq(Exts) /\ file.file \in Seq(Exts) /\ file.val \in Nat
  BY DEF VolumeInv, Owned, Files
<1>5. Len(file.file) \in Nat
  BY <1>4
<1> QED BY <1>1, <1>2, <1>3, <1>4, <1>5

LEMMA WriterIdle ==
  ASSUME VolumeInv, file.phase \in {"writable", "chunk", "verify"}
  PROVE  /\ ~Busy /\ user = "file" /\ vol = "busy" /\ plain.phase = "none" /\ Building
<1>1. user = "file" /\ vol = "busy" /\ plain.phase = "none"
  BY WriterActs DEF Active
<1> QED BY <1>1 DEF VolumeInv, Control, Building

LEMMA FileFailedKeeps ==
  ASSUME VolumeInv, Stored', Core', ~Busy', FileFailed, user = "file", UNCHANGED <<user, plain>>
  PROVE  VolumeInv'
<1>1. file' = [NoFile EXCEPT !.phase = "failed"] /\ vol' = "failed"
  BY DEF FileFailed
<1>2. file' \in Files /\ file'.phase = "failed"
  BY <1>1, NoFileTyped DEF Files
<1>3. plain.phase = "none"
  BY DEF VolumeInv, Control
<1>4. Owned' /\ Control'
  BY <1>1, <1>2, <1>3 DEF VolumeInv, Owned, Control
<1>5. Writer'
  BY <1>2, NotBuilding DEF Active
<1> QED BY <1>4, <1>5 DEF VolumeInv

LEMMA FileFailsKeeps ==
  ASSUME VolumeInv, FileFails
  PROVE  VolumeInv'
<1>1. ~Busy /\ user = "file"
  BY WriterIdle DEF FileFails
<1>2. UNCHANGED <<flash, engine, readers, user, plain>> /\ FileFailed
  BY DEF FileFails, rest
<1>3. faults' \in 0..MaxFaults
  BY Numbers DEF VolumeInv, Stored, FileFails
<1>4. Stored' /\ Core'
  BY <1>2, <1>3, CoreSame DEF VolumeInv
<1>5. ~Busy'
  BY <1>1, <1>2 DEF Busy, engine
<1> QED BY <1>1, <1>2, <1>4, <1>5, FileFailedKeeps

\* A chunk of the writer's generation changes.
LEMMA ChunkKeeps ==
  ASSUME VolumeInv, file.phase \in {"writable", "chunk", "verify"}, NEW p \in Part,
         NEW c \in Conts, objects' = [objects EXCEPT ![Chunk(root.serial + 1, p)] = c],
         UNCHANGED <<dir, root, pending, engine, readers>>, faults' \in 0..MaxFaults
  PROVE  Stored' /\ Core' /\ ~Busy'
<1> DEFINE o == Chunk(root.serial + 1, p)
<1>1. ~Busy /\ Building
  BY WriterIdle
<1>2. /\ RootOk(root) /\ root \in Roots /\ root.serial \in Nat
      /\ root.serial + 1 \in 1..MaxSerial
  BY <1>1, WriterAt
<1>3. o \in Name /\ o.gen = root.serial + 1
  BY <1>2, ChunkNames
<1>4. o \notin Upto(root.serial)
  BY <1>2, <1>3 DEF Upto
<1>5. /\ Stored /\ Core /\ RootWhole /\ Snapshots /\ objects \in [Name -> Conts]
      /\ dir \in BOOLEAN /\ pending \in Roots /\ readers \in [Reader -> Seq(Exts)]
  BY DEF VolumeInv, Core, Stored
<1> HIDE DEF o
<1>6. objects' \in [Name -> Conts] /\ OneChanges(o)
  BY <1>3, <1>5 DEF OneChanges, o
<1>7. RootWhole' /\ Snapshots'
  BY <1>2, <1>4, <1>5, <1>6, FrameOne
<1> QED BY <1>1, <1>2, <1>5, <1>6, <1>7, AtRest

LEMMA WriterControl ==
  ASSUME VolumeInv, file.phase \in {"writable", "chunk", "verify"},
         file' \in Files, file'.phase \in {"writable", "chunk", "verify"},
         UNCHANGED <<vol, user, plain, engine>>
  PROVE  Owned' /\ Control'
<1>1. ~Busy /\ user = "file" /\ vol = "busy" /\ plain.phase = "none"
  BY WriterIdle
<1>2. ~Busy'
  BY <1>1 DEF Busy, engine
<1> QED BY <1>1, <1>2 DEF VolumeInv, Owned, Control

\* The chunk that is open.
LEMMA PartOk ==
  ASSUME VolumeInv, file.phase \in {"chunk", "verify"}
  PROVE  file.part \in Part /\ file.part # 0 /\ Target = Chunk(root.serial + 1, file.part)
<1>1. Building
  BY DEF Building
<1>2. /\ Slots /\ file.mode \in {"fill", "stream"} /\ file.part \in Nat /\ file.slot \in Nat
      /\ file.last \in Nat /\ file.after.serial = root.serial + 1
  BY <1>1, WriterAt
<1>3. /\ file.part # 0
      /\ file.mode = "fill" => file.slot <= file.last
                              /\ file.part + file.last <= MaxChunks + file.slot
      /\ file.mode = "stream" => file.part = file.slot /\ file.slot <= MaxChunks
  BY <1>2 DEF Slots
<1>4. file.part \in Part
  <2>1. CASE file.mode = "fill"
    BY <1>2, <1>3, <2>1, Numbers DEF Part
  <2>2. CASE file.mode = "stream"
    BY <1>2, <1>3, <2>2, Numbers DEF Part
  <2> QED BY <1>2, <2>1, <2>2
<1> QED BY <1>2, <1>3, <1>4 DEF Target

LEMMA SameChunk ==
  ASSUME NEW g, NEW p, NEW r
  PROVE  Chunk(g, p) = Chunk(g, r) <=> p = r
BY DEF Chunk, Object

\* The pieces depend on nothing else of the file and its root.
LEMMA PiecesSame ==
  ASSUME Pieces, UNCHANGED root, file'.priv = file.priv, file'.file = file.file,
         file'.mode = file.mode, file'.last = file.last,
         file.mode = "fill" => file'.slot = file.slot
  PROVE  Pieces'
<1>1. /\ \A x : Fresh(x)' <=> Fresh(x)
      /\ \A x : ExtentOk(x)' <=> ExtentOk(x)
  BY DEF Fresh, ExtentOk, Upto
<1> QED BY <1>1 DEF Pieces, Fresh, ExtentOk, Upto

LEMMA OpenChunkKeeps ==
  ASSUME VolumeInv, file.phase = "writable", NEW p \in Part, NEW slot \in Nat,
         NEW staged \in BOOLEAN, OpenChunk(p, slot, staged),
         UNCHANGED <<dir, root, pending, faults, engine, readers, plain, user>>,
         file.mode = "fill" => /\ p = file.part + 1 /\ slot = file.slot
                               /\ slot <= file.last,
         file.mode = "stream" => /\ p = slot /\ slot # 0 /\ slot <= MaxChunks
                                 /\ slot <= Len(file.file) + 1
  PROVE  VolumeInv'
<1> DEFINE name == Chunk(file.after.serial, p)
<1>1. ~Busy /\ user = "file" /\ Building
  BY WriterIdle
<1>2. /\ root \in Roots /\ root.kind = "doc" /\ root.serial < MaxSerial
      /\ root.serial + 1 \in 1..MaxSerial
      /\ file.after.serial = root.serial + 1
      /\ file.before = root /\ file.after \in {NextRoot, Accepted(NextRoot)}
      /\ file.mode \in {"fill", "stream"}
      /\ Slots /\ Pieces /\ Chunks
      /\ file \in Files /\ file.part \in Nat /\ file.last \in Nat /\ file.slot \in Nat
  BY <1>1, WriterAt
<1>3. CASE FileFailed /\ UNCHANGED objects
  <2>1. UNCHANGED flash /\ faults' \in 0..MaxFaults
    BY <1>3 DEF flash, VolumeInv, Stored
  <2>2. Stored' /\ Core'
    BY <2>1, CoreSame DEF VolumeInv
  <2>3. ~Busy'
    BY <1>1 DEF Busy, engine
  <2> QED BY <1>1, <1>3, <2>2, <2>3, FileFailedKeeps
<1>4. ASSUME NEW v \in Payload,
             file' = [file EXCEPT !.phase = "chunk", !.part = p, !.slot = slot, !.val = v],
             objects' = IF staged THEN objects ELSE [objects EXCEPT ![name] = Torn],
             UNCHANGED vol
      PROVE  VolumeInv'
  <2>1. v \in Nat /\ p \in Nat
    BY Numbers DEF Part
  <2>2. file' \in Files
    BY <1>2, <1>4, <2>1 DEF Files
  <2>3. /\ file'.phase = "chunk" /\ file'.part = p /\ file'.slot = slot
        /\ file'.mode = file.mode /\ file'.before = file.before /\ file'.after = file.after
        /\ file'.priv = file.priv /\ file'.file = file.file /\ file'.last = file.last
    BY <1>2, <1>4 DEF Files
  <2>4. Stored' /\ Core'
    <3>1. CASE staged
      <4>1. UNCHANGED flash /\ faults' \in 0..MaxFaults
        BY <1>4, <3>1 DEF flash, VolumeInv, Stored
      <4> QED BY <4>1, CoreSame DEF VolumeInv
    <3>2. CASE ~staged
      <4>1. objects' = [objects EXCEPT ![Chunk(root.serial + 1, p)] = Torn]
            /\ faults' \in 0..MaxFaults
        BY <1>2, <1>4, <3>2 DEF VolumeInv, Stored
      <4> QED BY <4>1, ChunkKeeps, ContentKinds
    <3> QED BY <3>1, <3>2
  <2>5. Owned' /\ Control'
    BY <1>4, <2>2, <2>3, WriterControl
  <2>6. Slots'
    <3>1. p # 0
      BY DEF Part
    <3>2. file.mode = "fill" => /\ file.last <= Len(file.file)
                                /\ file.part + file.last + 1 <= MaxChunks + file.slot
      BY <1>2 DEF Slots
    <3>3. ASSUME file.mode = "fill"
          PROVE  p + file.last <= MaxChunks + slot
      <4>1. /\ p = file.part + 1 /\ slot = file.slot
            /\ file.part + file.last + 1 <= MaxChunks + file.slot
        BY <3>2, <3>3
      <4>2. /\ file.part \in Nat /\ file.last \in Nat /\ file.slot \in Nat
            /\ MaxChunks \in Nat
        BY <1>2, Numbers
      <4> QED BY <4>1, <4>2
    <3> QED BY <1>2, <2>3, <3>1, <3>2, <3>3 DEF Slots
  <2>7. Pieces'
    BY <1>2, <2>3, PiecesSame
  <2>8. Chunks'
    <3>1. ASSUME NEW r \in Part, Present(Chunk(root.serial + 1, r))', r # p
          PROVE  Present(Chunk(root.serial + 1, r))
      <4>1. Chunk(root.serial + 1, r) # name
        BY <1>2, <3>1, SameChunk
      <4>2. objects'[Chunk(root.serial + 1, r)] = objects[Chunk(root.serial + 1, r)]
        BY <1>4, <4>1
      <4> QED BY <3>1, <4>2 DEF Present
    <3>2. \A r \in Part : Present(Chunk(root.serial + 1, r)) =>
            \E x \in Elements(file.priv) \cup Elements(file.file) :
              x.obj = Chunk(root.serial + 1, r)
      BY <1>2 DEF Chunks
    <3> QED BY <2>3, <3>1, <3>2 DEF Chunks
  <2>9. Writer'
    BY <1>2, <2>3, <2>6, <2>7, <2>8 DEF Writer, Building, NextRoot, Accepted
  <2> QED BY <2>4, <2>5, <2>9 DEF VolumeInv
<1>5. \/ FileFailed /\ UNCHANGED objects
      \/ /\ \E v \in Payload :
              file' = [file EXCEPT !.phase = "chunk", !.part = p, !.slot = slot, !.val = v]
         /\ objects' = IF staged THEN objects ELSE [objects EXCEPT ![name] = Torn]
         /\ UNCHANGED vol
  BY Zenon DEF OpenChunk
<1> QED BY Zenon, <1>3, <1>4, <1>5

LEMMA PrepareChunkKeeps ==
  ASSUME VolumeInv, PrepareChunk
  PROVE  VolumeInv'
<1>1. /\ file.phase = "writable" /\ file.mode = "fill" /\ file.slot <= file.last
      /\ OpenChunk(file.part + 1, file.slot, FALSE)
      /\ UNCHANGED <<dir, root, pending, faults, engine, readers, plain, user>>
  BY DEF PrepareChunk, rest
<1>2. Building
  BY <1>1 DEF Building
<1>3. Slots /\ file.part \in Nat /\ file.last \in Nat /\ file.slot \in Nat
  BY <1>2, WriterAt
<1>4. file.part + file.last + 1 <= MaxChunks + file.slot
  BY <1>1, <1>3 DEF Slots
<1>5. file.part + 1 \in Part
  BY <1>1, <1>3, <1>4, Numbers DEF Part
<1> QED BY <1>1, <1>3, <1>5, OpenChunkKeeps

LEMMA FlushChunkKeeps ==
  ASSUME VolumeInv, FlushChunk
  PROVE  VolumeInv'
<1>1. /\ file.phase = "writable" /\ file.mode = "stream"
      /\ UNCHANGED <<dir, root, pending, faults, engine, readers, plain, user>>
  BY DEF FlushChunk, rest
<1>2. ~Busy /\ user = "file" /\ Building
  BY <1>1, WriterIdle
<1>3. file.file \in Seq(Exts) /\ Len(file.file) \in Nat
  BY <1>2, WriterAt
<1>4. ASSUME NEW slot \in (DOMAIN file.file \cup {Len(file.file) + 1}) \cap 1..MaxChunks,
             OpenChunk(slot, slot, StagedChunk(slot))
      PROVE  VolumeInv'
  <2>1. /\ slot \in Nat /\ slot # 0 /\ slot <= MaxChunks /\ slot <= Len(file.file) + 1
        /\ slot \in Part
    BY <1>3, <1>4, Numbers DEF Part
  <2>2. StagedChunk(slot) \in BOOLEAN
    BY DEF StagedChunk
  <2> QED BY <1>1, <1>4, <2>1, <2>2, OpenChunkKeeps
<1>5. CASE FileFailed /\ UNCHANGED objects
  <2>1. UNCHANGED flash /\ faults' \in 0..MaxFaults
    BY <1>1, <1>5 DEF flash, VolumeInv, Stored
  <2>2. Stored' /\ Core'
    BY <1>1, <2>1, CoreSame DEF VolumeInv
  <2>3. ~Busy'
    BY <1>1, <1>2 DEF Busy, engine
  <2> QED BY <1>1, <1>2, <1>5, <2>2, <2>3, FileFailedKeeps
<1> QED BY <1>4, <1>5 DEF FlushChunk

LEMMA CloseChunkKeeps ==
  ASSUME VolumeInv, CloseChunk
  PROVE  VolumeInv'
<1>1. /\ file.phase = "chunk" /\ Written(Target, Bytes(file.val))
      /\ file' = [file EXCEPT !.phase = "verify"]
      /\ UNCHANGED <<dir, root, pending, engine, readers, plain, vol, user>>
  BY DEF CloseChunk, rest
<1>2. file.part \in Part /\ Target = Chunk(root.serial + 1, file.part) /\ Building
  BY <1>1, PartOk DEF Building
<1>3. /\ root.kind = "doc" /\ root.serial < MaxSerial
      /\ file.before = root /\ file.after \in {NextRoot, Accepted(NextRoot)}
      /\ file.mode \in {"fill", "stream"} /\ Slots /\ Pieces /\ Chunks
      /\ file \in Files /\ file.val \in Nat
  BY <1>2, WriterAt
<1>4. faults' \in 0..MaxFaults
  BY <1>1, Numbers DEF Written, VolumeInv, Stored
<1>5. PICK c \in Conts : objects' = [objects EXCEPT ![Target] = c]
  BY <1>1, <1>3, ContentKinds DEF Written
<1>6. Stored' /\ Core'
  BY <1>1, <1>2, <1>4, <1>5, ChunkKeeps
<1>7. file' \in Files
  BY <1>1, <1>3 DEF Files
<1>8. /\ file'.phase = "verify" /\ file'.part = file.part /\ file'.slot = file.slot
      /\ file'.mode = file.mode /\ file'.before = file.before /\ file'.after = file.after
      /\ file'.priv = file.priv /\ file'.file = file.file /\ file'.last = file.last
  BY <1>1, <1>3 DEF Files
<1>9. Owned' /\ Control'
  BY <1>1, <1>7, <1>8, WriterControl
<1>10. Slots'
  BY <1>1, <1>3, <1>8 DEF Slots
<1>11. Pieces'
  BY <1>1, <1>3, <1>8, PiecesSame
<1>12. Chunks'
  <2>1. ASSUME NEW r \in Part, Present(Chunk(root.serial + 1, r))', r # file.part
        PROVE  Present(Chunk(root.serial + 1, r))
    <3>1. Chunk(root.serial + 1, r) # Target
      BY <1>2, <2>1, SameChunk
    <3>2. objects'[Chunk(root.serial + 1, r)] = objects[Chunk(root.serial + 1, r)]
      BY <1>5, <3>1
    <3> QED BY <1>1, <2>1, <3>2 DEF Present
  <2>2. \A r \in Part : Present(Chunk(root.serial + 1, r)) =>
          \/ \E x \in Elements(file.priv) \cup Elements(file.file) :
               x.obj = Chunk(root.serial + 1, r)
          \/ r = file.part
    BY <1>1, <1>3 DEF Chunks
  <2> QED BY <1>1, <1>8, <2>1, <2>2 DEF Chunks
<1>13. Writer'
  BY <1>1, <1>3, <1>8, <1>10, <1>11, <1>12 DEF Writer, Building, NextRoot, Accepted
<1> QED BY <1>6, <1>9, <1>13 DEF VolumeInv

LEMMA ExtendedOk ==
  ASSUME NEW seq \in Seq(Exts), NEW slot \in 1..(Len(seq) + 1), NEW x \in Exts,
         NEW new, new = IF slot \in DOMAIN seq THEN [seq EXCEPT ![slot] = x] ELSE Append(seq, x)
  PROVE  /\ new \in Seq(Exts) /\ DOMAIN new = DOMAIN seq \cup {slot}
         /\ Len(new) = IF slot \in DOMAIN seq THEN Len(seq) ELSE slot
         /\ new[slot] = x
         /\ \A i \in DOMAIN new : i # slot => i \in DOMAIN seq /\ new[i] = seq[i]
<1>1. Len(seq) \in Nat /\ DOMAIN seq = 1..Len(seq)
  OBVIOUS
<1>2. CASE slot \in DOMAIN seq
  <2>1. new = [seq EXCEPT ![slot] = x]
    BY <1>2
  <2> QED BY <1>1, <1>2, <2>1
<1>3. CASE slot \notin DOMAIN seq
  <2>1. new = Append(seq, x)
    BY <1>3
  <2>2. slot = Len(seq) + 1
    BY <1>1, <1>3
  <2>3. Append(seq, x) \in Seq(Exts) /\ Len(Append(seq, x)) = Len(seq) + 1
    OBVIOUS
  <2>4. /\ \A i \in 1..Len(seq) : Append(seq, x)[i] = seq[i]
        /\ Append(seq, x)[Len(seq) + 1] = x
    OBVIOUS
  <2>5. DOMAIN new = 1..(Len(seq) + 1) /\ new \in Seq(Exts) /\ Len(new) = Len(seq) + 1
    BY <2>1, <2>3
  <2>6. DOMAIN new = DOMAIN seq \cup {slot}
    BY <1>1, <2>2, <2>5
  <2>7. \A i \in DOMAIN new : i # slot => i \in DOMAIN seq /\ new[i] = seq[i]
    <3> TAKE i \in DOMAIN new
    <3> HAVE i # slot
    <3>1. i \in DOMAIN seq /\ i \in 1..Len(seq)
      BY <1>1, <2>6
    <3>2. new[i] = Append(seq, x)[i]
      BY <2>1
    <3>3. Append(seq, x)[i] = seq[i]
      BY <2>4, <3>1
    <3> QED BY <3>1, <3>2, <3>3
  <2>8. new[slot] = x
    BY <2>1, <2>2, <2>4
  <2> QED BY <1>3, <2>2, <2>5, <2>6, <2>7, <2>8
<1> QED BY <1>2, <1>3

\* A verified chunk takes its place.
LEMMA VerifyChunkKeeps ==
  ASSUME VolumeInv, VerifyChunk
  PROVE  VolumeInv'
<1> DEFINE x == Extent(Target, file.val)
<1>0. /\ file.phase = "verify"
      /\ UNCHANGED <<flash, faults, engine, readers, plain, user>>
  BY DEF VerifyChunk, rest
<1>1. ~Busy /\ user = "file" /\ Building
  BY <1>0, WriterIdle
<1>2. /\ root \in Roots /\ root.kind = "doc" /\ root.serial < MaxSerial
      /\ root.serial \in Nat /\ root.serial + 1 \in 1..MaxSerial
      /\ file.before = root /\ file.after \in {NextRoot, Accepted(NextRoot)}
      /\ file.mode \in {"fill", "stream"}
      /\ Slots /\ Pieces /\ Chunks
      /\ file \in Files /\ file.part \in Nat /\ file.last \in Nat /\ file.slot \in Nat
      /\ file.val \in Nat /\ file.priv \in Seq(Exts) /\ file.file \in Seq(Exts)
      /\ Len(file.file) \in Nat
  BY <1>1, WriterAt
<1>3. file.part \in Part /\ Target = Chunk(root.serial + 1, file.part)
  BY <1>0, PartOk
<1>4. Stored' /\ Core' /\ ~Busy'
  <2>1. UNCHANGED <<flash, engine, readers>> /\ faults' \in 0..MaxFaults
    BY <1>0 DEF VolumeInv, Stored
  <2>2. Stored' /\ Core'
    BY <2>1, CoreSame DEF VolumeInv
  <2> QED BY <1>0, <1>1, <2>2 DEF Busy, engine
<1>5. CASE FileFailed
  BY <1>0, <1>1, <1>4, <1>5, FileFailedKeeps
<1>6. CASE /\ file' = [file EXCEPT
                  !.phase = "writable",
                  !.priv = IF file.slot = 0 THEN <<x>> ELSE @,
                  !.file = IF file.slot = 0 THEN @ ELSE Extended(@, file.slot, x),
                  !.slot = @ + 1, !.val = 0]
           /\ UNCHANGED vol
  <2>1. Target \in Name /\ Target.gen = root.serial + 1 /\ Target.type = "c"
    BY <1>2, <1>3, ChunkNames
  <2>2. x.obj = Target /\ x \in Exts
    BY <1>2, <2>1, Names DEF Extent, Exts
  <2>3. ExtentOk(x) /\ x.obj.type = "c"
    BY <1>2, <2>1, <2>2 DEF ExtentOk, Upto
  <2> HIDE DEF x
  <2> DEFINE priv == IF file.slot = 0 THEN <<x>> ELSE file.priv
             named == IF file.slot = 0 THEN file.file ELSE Extended(file.file, file.slot, x)
  <2>0. /\ file.part \in Nat /\ file.last \in Nat /\ file.slot \in Nat
        /\ Len(file.file) \in Nat /\ MaxChunks \in Nat
    BY <1>2, Numbers
  <2>4. /\ file.mode = "fill" => /\ file.last <= Len(file.file) /\ file.slot <= file.last
                                 /\ file.part + file.last <= MaxChunks + file.slot
        /\ file.mode = "stream" => /\ file.slot # 0 /\ file.part = file.slot
                                   /\ file.slot <= MaxChunks
                                   /\ file.slot <= Len(file.file) + 1
        /\ Len(file.file) <= MaxChunks
    BY <1>0, <1>2 DEF Slots
  <2>5. file.slot <= Len(file.file) + 1
    <3>1. CASE file.mode = "fill"
      <4>1. file.slot <= file.last /\ file.last <= Len(file.file)
        BY <2>4, <3>1
      <4> QED BY <2>0, <4>1
    <3>2. CASE file.mode = "stream"
      BY <2>4, <3>2
    <3> QED BY <1>2, <3>1, <3>2
  <2>6. file.slot # 0 =>
          /\ named \in Seq(Exts) /\ DOMAIN named = DOMAIN file.file \cup {file.slot}
          /\ Len(named) = IF file.slot \in DOMAIN file.file THEN Len(file.file)
                                                            ELSE file.slot
          /\ named[file.slot] = x
          /\ \A i \in DOMAIN named : i # file.slot =>
               i \in DOMAIN file.file /\ named[i] = file.file[i]
    <3> DEFINE new == Extended(file.file, file.slot, x)
    <3>1. ASSUME file.slot # 0
          PROVE  named = new /\ file.slot \in 1..(Len(file.file) + 1)
      BY <2>0, <2>5, <3>1
    <3> HIDE DEF named
    <3>2. file.file \in Seq(Exts) /\ x \in Exts
      BY <1>2, <2>2
    <3>n. new = IF file.slot \in DOMAIN file.file THEN [file.file EXCEPT ![file.slot] = x]
                                               ELSE Append(file.file, x)
      BY DEF Extended
    <3> HIDE DEF new
    <3>3. ASSUME file.slot # 0
          PROVE  /\ new \in Seq(Exts) /\ DOMAIN new = DOMAIN file.file \cup {file.slot}
                 /\ Len(new) = IF file.slot \in DOMAIN file.file THEN Len(file.file)
                                                                 ELSE file.slot
                 /\ new[file.slot] = x
                 /\ \A i \in DOMAIN new : i # file.slot =>
                      i \in DOMAIN file.file /\ new[i] = file.file[i]
      <4>1. file.slot \in 1..(Len(file.file) + 1)
        BY <3>1, <3>3
      <4>2. new \in Seq(Exts) /\ DOMAIN new = DOMAIN file.file \cup {file.slot}
        BY <3>2, <3>n, <4>1, ExtendedOk
      <4>3. Len(new) = IF file.slot \in DOMAIN file.file THEN Len(file.file) ELSE file.slot
        BY <3>2, <3>n, <4>1, ExtendedOk
      <4>4. new[file.slot] = x
        BY <3>2, <3>n, <4>1, ExtendedOk
      <4>5. \A i \in DOMAIN new : i # file.slot =>
              i \in DOMAIN file.file /\ new[i] = file.file[i]
        BY <3>2, <3>n, <4>1, ExtendedOk
      <4> QED BY <4>2, <4>3, <4>4, <4>5
    <3> QED BY <3>1, <3>3
  <2>7. file.slot = 0 => named = file.file
    OBVIOUS
  <2>8. /\ file.slot = 0 => priv = <<x>>
        /\ file.slot # 0 => priv = file.priv
    OBVIOUS
  <2>9. priv \in Seq(Exts) /\ named \in Seq(Exts)
    BY <1>2, <2>2, <2>6
  <2> HIDE DEF priv, named
  <2>10. /\ file'.phase = "writable" /\ file'.mode = file.mode
         /\ file'.before = file.before /\ file'.after = file.after
         /\ file'.priv = priv /\ file'.file = named /\ file'.slot = file.slot + 1
         /\ file'.last = file.last /\ file'.part = file.part
    BY <1>2, <1>6 DEF Files, priv, named
  <2>11. file' \in Files
    <3>1. file' = [file EXCEPT !.phase = "writable", !.priv = priv, !.file = named,
                               !.slot = file.slot + 1, !.val = 0]
      BY <1>2, <1>6 DEF Files, priv, named
    <3>2. file \in Files /\ file.slot + 1 \in Nat /\ 0 \in Nat
      BY <1>2
    <3> QED BY <2>9, <3>1, <3>2 DEF Files
  <2>12. Owned' /\ Control'
    BY <1>0, <1>6, <2>10, <2>11, WriterControl
  <2>13. Len(named) <= MaxChunks /\ Len(named) \in Nat /\ Len(file.file) <= Len(named)
    <3>1. CASE file.slot = 0
      BY <1>2, <2>4, <2>7, <3>1
    <3>2. CASE file.slot \in DOMAIN file.file
      BY <1>2, <2>4, <2>6, <3>2
    <3>3. CASE file.slot # 0 /\ file.slot \notin DOMAIN file.file
      <4>1. file.slot = Len(file.file) + 1
        <5>1. DOMAIN file.file = 1..Len(file.file)
          BY <1>2
        <5> QED BY <2>0, <2>5, <3>3, <5>1
      <4>2. file.mode = "stream" /\ file.slot <= MaxChunks
        <5>1. ASSUME file.mode = "fill"
              PROVE  FALSE
          <6>1. file.slot <= file.last /\ file.last <= Len(file.file)
            BY <2>4, <5>1
          <6> QED BY <2>0, <4>1, <6>1
        <5> QED BY <1>2, <2>4, <5>1
      <4> QED BY <2>0, <2>6, <3>3, <4>1, <4>2
    <3> QED BY <3>1, <3>2, <3>3
  <2>14. Slots'
    <3>1. ASSUME file.mode = "fill"
          PROVE  /\ file.last <= Len(named)
                 /\ file.part + file.last + 1 <= MaxChunks + (file.slot + 1)
      <4>1. file.last <= Len(file.file) /\ file.part + file.last <= MaxChunks + file.slot
        BY <2>4, <3>1
      <4>2. file.last <= Len(named)
        BY <2>0, <2>13, <4>1
      <4>3. file.part + file.last + 1 <= MaxChunks + (file.slot + 1)
        <5>1. /\ file.part \in Nat /\ file.last \in Nat /\ file.slot \in Nat
              /\ MaxChunks \in Nat
          BY <2>0
        <5>2. file.part + file.last <= MaxChunks + file.slot
          BY <4>1
        <5> QED BY <5>1, <5>2
      <4> QED BY <4>2, <4>3
    <3>2. file.slot + 1 # 0
      BY <2>0
    <3> QED BY <2>10, <2>13, <3>1, <3>2 DEF Slots
  <2>15. \A i \in DOMAIN named :
           /\ \/ ExtentOk(named[i]) /\ named[i].obj.type = "c"
              \/ file.mode = "fill" /\ i \in (file.slot + 1)..file.last
           /\ \/ ~Fresh(named[i])
              \/ file.mode = "fill" /\ i < file.slot + 1
              \/ file.mode = "stream" /\ named[i].obj = Chunk(root.serial + 1, i)
    <3> SUFFICES ASSUME NEW i \in DOMAIN named
                 PROVE  /\ \/ ExtentOk(named[i]) /\ named[i].obj.type = "c"
                           \/ file.mode = "fill" /\ i \in (file.slot + 1)..file.last
                        /\ \/ ~Fresh(named[i])
                           \/ file.mode = "fill" /\ i < file.slot + 1
                           \/ file.mode = "stream" /\ named[i].obj = Chunk(root.serial + 1, i)
      OBVIOUS
    <3>1. i \in Nat /\ i >= 1
      BY <2>9
    <3>2. CASE file.slot # 0 /\ i = file.slot
      <4>1. named[i] = x
        BY <2>6, <3>2
      <4> QED BY <1>2, <1>3, <2>2, <2>3, <2>4, <3>1, <3>2, <4>1
    <3>3. CASE ~(file.slot # 0 /\ i = file.slot)
      <4>1. i \in DOMAIN file.file /\ named[i] = file.file[i]
        BY <2>6, <2>7, <3>3
      <4>2. /\ \/ ExtentOk(file.file[i]) /\ file.file[i].obj.type = "c"
               \/ file.mode = "fill" /\ i \in file.slot..file.last
            /\ \/ ~Fresh(file.file[i])
               \/ file.mode = "fill" /\ i < file.slot
               \/ file.mode = "stream" /\ file.file[i].obj = Chunk(root.serial + 1, i)
            /\ file.mode = "fill" /\ file.slot = 0 => file.last = 0
        BY <1>2, <4>1 DEF Pieces
      <4>3. i # file.slot
        BY <3>1, <3>3
      <4>4. file.mode = "fill" /\ i \in file.slot..file.last =>
              i \in (file.slot + 1)..file.last
        BY <1>2, <3>1, <4>3
      <4>5. i < file.slot => i < file.slot + 1
        BY <1>2, <3>1
      <4> QED BY <4>1, <4>2, <4>4, <4>5
    <3> QED BY <3>2, <3>3
  <2>16. Len(priv) = 1 /\ ExtentOk(priv[1])
    <3>1. CASE file.slot = 0
      BY <2>3, <2>8, <3>1
    <3>2. CASE file.slot # 0
      BY <1>2, <2>8, <3>2 DEF Pieces
    <3> QED BY <3>1, <3>2
  <2>17. Pieces'
    <3>1. UNCHANGED root
      BY <1>0 DEF flash
    <3>2. file'.slot # 0
      BY <1>2, <2>10
    <3> QED BY <2>10, <2>15, <2>16, <3>1, <3>2 DEF Pieces, ExtentOk, Fresh, Upto
  <2>18. Chunks'
    <3> SUFFICES ASSUME NEW p \in Part, Present(Chunk(root.serial + 1, p))
                 PROVE  \E y \in Elements(priv) \cup Elements(named) :
                          y.obj = Chunk(root.serial + 1, p)
      BY <1>0, <2>10 DEF Chunks, flash, Present
    <3>1. x \in Elements(priv) \cup Elements(named)
      <4>1. CASE file.slot = 0
        BY <2>8, <4>1 DEF Elements
      <4>2. CASE file.slot # 0
        BY <2>6, <4>2 DEF Elements
      <4> QED BY <4>1, <4>2
    <3>2. CASE p = file.part
      BY <1>3, <2>2, <3>1, <3>2
    <3>3. CASE p # file.part
      <4>1. PICK y \in Elements(file.priv) \cup Elements(file.file) :
              y.obj = Chunk(root.serial + 1, p)
        BY <1>0, <1>2, <3>3 DEF Chunks
      <4>2. Fresh(y)
        BY <1>2, <4>1, ChunkNames DEF Fresh
      <4>3. CASE y \in Elements(file.priv)
        <5>1. y = file.priv[1]
          BY <1>2, <4>3 DEF Pieces, Elements
        <5>2. file.slot # 0
          BY <1>2, <2>4, <4>2, <5>1 DEF Pieces
        <5> QED BY <2>8, <4>1, <4>3, <5>2
      <4>4. ASSUME NEW i \in DOMAIN file.file, y = file.file[i]
            PROVE  y \in Elements(named)
        <5>1. CASE file.slot = 0
          BY <2>7, <4>4, <5>1 DEF Elements
        <5>2. CASE file.slot # 0 /\ i # file.slot
          <6>1. i \in DOMAIN named /\ named[i] = file.file[i]
            BY <2>6, <5>2
          <6> QED BY <4>4, <6>1 DEF Elements
        <5>3. CASE file.slot # 0 /\ i = file.slot
          <6>1. \/ file.mode = "fill" /\ i < file.slot
                \/ file.mode = "stream" /\ file.file[i].obj = Chunk(root.serial + 1, i)
            BY <1>2, <4>2, <4>4 DEF Pieces
          <6>2. i \in Nat /\ ~(i < file.slot)
            BY <1>2, <5>3
          <6>3. file.mode = "stream" /\ Chunk(root.serial + 1, p) = Chunk(root.serial + 1, i)
            BY <4>1, <4>4, <6>1, <6>2
          <6>4. p = i /\ i = file.part
            BY <2>4, <5>3, <6>3, SameChunk
          <6> QED BY <3>3, <6>4
        <5> QED BY <5>1, <5>2, <5>3
      <4> QED BY <4>1, <4>3, <4>4 DEF Elements
    <3> QED BY <3>2, <3>3
  <2>19. UNCHANGED root
    BY <1>0 DEF flash
  <2>20. Writer'
    BY <1>2, <2>10, <2>14, <2>17, <2>18, <2>19 DEF Writer, Building, NextRoot, Accepted
  <2> QED BY <1>4, <2>12, <2>20 DEF VolumeInv
<1> QED BY <1>5, <1>6 DEF VerifyChunk

LEMMA IndexOk ==
  ASSUME NEW priv \in Seq(Exts), NEW named \in Seq(Exts)
  PROVE  /\ Index(priv, named) \in Conts /\ Index(priv, named).kind = "index"
         /\ Index(priv, named).priv = priv /\ Index(priv, named).file = named
BY DEF Index, Conts

LEMMA IndexedPair ==
  ASSUME NEW s \in Nat, s + 1 <= MaxSerial, NEW q, FullPair(q, s),
         NEW priv \in Seq(Exts), NEW named \in Seq(Exts),
         Len(priv) = 1, Len(named) <= MaxChunks,
         \A x \in Elements(priv) \cup Elements(named) : x.obj \in Upto(s + 1),
         \A x \in Elements(priv) : x.obj.type # "p",
         \A i \in DOMAIN named : named[i].obj.type = "c",
         NEW pair \in Pairs, pair.p = q.p, pair.pkg = q.pkg, pair.d = s + 1,
         pair.data = Index(priv, named)
  PROVE  /\ FullPair(pair, s + 1) /\ Extents(pair) = Elements(priv) \cup Elements(named)
         /\ \A need \in Needs(pair) :
              need \in Needs(q) \/ need = DataNeed(pair) \/ need \in ExtentNeeds(pair)
<1>0. s + 1 \in Nat /\ s <= s + 1
  OBVIOUS
<1>1. q \in Pairs /\ FullPair(q, s + 1)
  BY <1>0, FullMonotone, FullIsPair
<1>2. /\ pair.d = s + 1 /\ pair.p = q.p /\ pair.pkg = q.pkg
      /\ pair.data.kind = "index" /\ pair.data.priv = priv /\ pair.data.file = named
  BY IndexOk
<1>3. Extents(pair) = Elements(priv) \cup Elements(named)
  BY <1>2 DEF Extents
<1>4. ASSUME NEW need \in Needs(pair)
      PROVE  need \in Needs(q) \/ need = DataNeed(pair) \/ need \in ExtentNeeds(pair)
  <2>1. CASE pair.p # 0 /\ need = [obj |-> Package(pair.p), content |-> Bytes(pair.pkg)]
    <3>1. q.p # 0 => [obj |-> Package(q.p), content |-> Bytes(q.pkg)] \in Needs(q)
      BY PairNeeds
    <3> QED BY <1>2, <2>1, <3>1
  <2>2. CASE need = [obj |-> Data(pair.d), content |-> pair.data]
    BY <2>2 DEF DataNeed
  <2>3. ASSUME NEW x \in Extents(pair), need = [obj |-> x.obj, content |-> Bytes(x.val)]
        PROVE  need \in ExtentNeeds(pair)
    BY <2>3 DEF ExtentNeeds
  <2> QED BY <2>1, <2>2, <2>3, NeedCases
<1>5. Data(s + 1) \in Upto(s + 1)
  BY PairNames, Numbers DEF Upto
<1>6. ASSUME NEW need \in Needs(pair)
      PROVE  need.obj \in Upto(s + 1)
  <2>1. need \in ExtentNeeds(pair) => need.obj \in Upto(s + 1)
    BY <1>3 DEF ExtentNeeds
  <2> QED BY <1>1, <1>2, <1>4, <1>5, <2>1 DEF FullPair, PairOk, DataNeed
<1>7. PairOk(pair, s + 1)
  <2>1. ASSUME NEW i \in DOMAIN priv
        PROVE  priv[i].obj.type \in {"c", "d"}
    <3>1. priv[i] \in Elements(priv)
      BY DEF Elements
    <3>2. priv[i].obj \in Upto(s + 1) /\ priv[i].obj.type # "p"
      BY <3>1
    <3>3. priv[i].obj \in Name
      BY <3>2 DEF Upto
    <3> QED BY <3>2, <3>3, Names
  <2> QED BY <1>2, <1>6, <2>1 DEF PairOk
<1>8. pair.p \in 1..(s + 1) /\ pair.d \in 1..(s + 1)
  BY <1>1, <1>2, <1>0 DEF FullPair
<1> QED BY <1>2, <1>3, <1>4, <1>7, <1>8 DEF FullPair

\* The new index names old chunks and those of its generation.
LEMMA PublishIndexKeeps ==
  ASSUME VolumeInv, PublishIndex
  PROVE  VolumeInv'
<1> DEFINE s == root.serial
           pair == [root.cur EXCEPT !.d = s + 1, !.data = Index(file.priv, file.file)]
           after == [file.after EXCEPT !.cur = pair]
<1>0. /\ file.phase = "writable"
      /\ file.mode = "fill" => file.slot > file.last
      /\ Start(Job(file.before, [file.after EXCEPT !.cur.d = file.after.serial,
                                 !.cur.data = Index(file.priv, file.file)],
                   FALSE, TRUE, FALSE, FALSE))
      /\ file' = [NoFile EXCEPT !.phase = "commit"]
      /\ UNCHANGED <<flash, faults, readers, plain, vol, user>>
  BY DEF PublishIndex, rest
<1>1. ~Busy /\ user = "file" /\ vol = "busy" /\ plain.phase = "none" /\ Building
  BY <1>0, WriterIdle
<1>2. /\ RootOk(root) /\ root \in Roots /\ root.kind = "doc" /\ root.serial < MaxSerial
      /\ s \in Nat /\ s + 1 \in 1..MaxSerial
      /\ file.before = root /\ file.after \in {NextRoot, Accepted(NextRoot)}
      /\ file.after.serial = s + 1
      /\ file.mode \in {"fill", "stream"} /\ Slots /\ Pieces
      /\ file.priv \in Seq(Exts) /\ file.file \in Seq(Exts)
      /\ file.slot \in Nat /\ file.last \in Nat
  BY <1>1, WriterAt
<1>3. PICK accept \in BOOLEAN : file.after = Checkpointed(accept)
  BY <1>2, NextRoots
<1>4. /\ file.after \in Roots /\ file.after.kind = "doc" /\ file.after.serial = s + 1
      /\ file.after.cur = root.cur /\ file.after.prev \in {NoPair, root.cur, root.prev}
      /\ file.after.prev # NoPair => FullPair(file.after.prev, s + 1)
      /\ file.after.upgrade => file.after.prev # NoPair
      /\ Needs(file.after.prev) \subseteq NeedsOf(root)
  BY <1>2, <1>3, CheckpointRoot
<1>5. after = [file.after EXCEPT !.cur.d = file.after.serial,
                                 !.cur.data = Index(file.priv, file.file)]
  BY <1>4 DEF Roots
<1>6. FullPair(root.cur, s) /\ root.cur \in Pairs
  BY <1>2, DocumentRoot
<1>7. /\ pair \in Pairs /\ pair.p = root.cur.p /\ pair.pkg = root.cur.pkg
      /\ pair.d = s + 1 /\ pair.data = Index(file.priv, file.file)
  <2>1. Index(file.priv, file.file) \in Conts
    BY <1>2, IndexOk
  <2>2. s + 1 \in Nat
    BY <1>2
  <2> QED BY <1>6, <2>1, <2>2 DEF Pairs
<1> HIDE DEF pair
<1>8. /\ Len(file.priv) = 1 /\ Len(file.file) <= MaxChunks
      /\ ExtentOk(file.priv[1])
      /\ \A i \in DOMAIN file.file : ExtentOk(file.file[i]) /\ file.file[i].obj.type = "c"
  <2>1. ASSUME file.mode = "fill"
        PROVE  /\ file.slot..file.last = {}
               /\ file.slot # 0
    <3>1. file.slot > file.last
      BY <1>0, <2>1
    <3> QED BY <1>2, <3>1
  <2> QED BY <1>2, <2>1 DEF Slots, Pieces
<1>9. \A x \in Elements(file.priv) \cup Elements(file.file) :
        /\ x.obj \in Upto(s + 1) /\ (x.obj.type = "c" \/ x.obj \in Upto(s))
        /\ x.obj.type # "p"
  <2>1. ASSUME NEW x \in Elements(file.priv)
        PROVE  x = file.priv[1]
    BY <1>2, <1>8 DEF Elements
  <2> QED BY <1>8, <2>1 DEF Elements, ExtentOk
<1>10. /\ FullPair(pair, s + 1)
       /\ Extents(pair) = Elements(file.priv) \cup Elements(file.file)
       /\ \A need \in Needs(pair) :
            need \in Needs(root.cur) \/ need = DataNeed(pair) \/ need \in ExtentNeeds(pair)
  <2>1. s + 1 <= MaxSerial
    BY <1>2, Numbers
  <2>2. /\ \A x \in Elements(file.priv) \cup Elements(file.file) : x.obj \in Upto(s + 1)
        /\ \A i \in DOMAIN file.file : file.file[i].obj.type = "c"
        /\ \A x \in Elements(file.priv) : x.obj.type # "p"
    BY <1>8, <1>9
  <2>3. /\ file.priv \in Seq(Exts) /\ file.file \in Seq(Exts) /\ s \in Nat
        /\ Len(file.priv) = 1 /\ Len(file.file) <= MaxChunks
    BY <1>2, <1>8
  <2> HIDE DEF s
  <2>4. FullPair(root.cur, s)
    BY <1>6
  <2>5. FullPair(pair, s + 1)
    BY <1>7, <2>1, <2>2, <2>3, <2>4, IndexedPair
  <2>7. Extents(pair) = Elements(file.priv) \cup Elements(file.file)
    BY <1>7, <2>3, IndexOk DEF Extents
  <2>6. \A need \in Needs(pair) :
          need \in Needs(root.cur) \/ need = DataNeed(pair) \/ need \in ExtentNeeds(pair)
    BY <1>7, <2>1, <2>2, <2>3, <2>4, IndexedPair
  <2> QED BY <2>5, <2>6, <2>7
<1>11. after \in Roots
  BY <1>4, <1>7 DEF Roots
<1>12. /\ after.kind = "doc" /\ after.serial = s + 1 /\ after.cur = pair
       /\ after.prev = file.after.prev /\ after.upgrade = file.after.upgrade
  BY <1>4 DEF Roots
<1> HIDE DEF after
<1>13. RootOk(after)
  <2>1. s + 1 <= MaxSerial
    BY <1>2, Numbers
  <2> QED BY <1>2, <1>4, <1>10, <1>11, <1>12, <2>1, DocumentOk
<1>14. \A need \in NeedsOf(after) :
         \/ need \in NeedsOf(root)
         \/ need = DataNeed(after.cur) \/ need \in ExtentNeeds(after.cur)
  BY <1>4, <1>10, <1>12 DEF NeedsOf
<1>15. Start(Job(root, after, FALSE, TRUE, FALSE, FALSE))
  BY <1>0, <1>2, <1>5
<1>16. job' = Job(root, after, FALSE, TRUE, FALSE, FALSE) /\ UNCHANGED root
  BY <1>0, <1>15 DEF Start, flash
<1>17. JobOk' /\ job' \in Jobs /\ ~job'.prune
  <2>1. \A x \in Extents(after.cur) : (x.obj.type = "c" \/ x.obj \in Upto(root.serial))
    BY <1>9, <1>10, <1>12
  <2>2. after.cur.d = root.serial + 1 /\ root.kind # "file2"
    BY <1>2, <1>7, <1>12
  <2> QED BY <1>2, <1>12, <1>13, <1>14, <1>16, <2>1, <2>2, JobStarts
<1>18. Stored' /\ Core' /\ Busy' /\ phase' = "check"
  BY <1>0, <1>15, <1>16, <1>17, StartKeeps DEF VolumeInv
<1>19. file' \in Files /\ file'.phase = "commit"
  BY <1>0, NoFileTyped DEF Files
<1>20. Owned' /\ Control'
  BY <1>0, <1>1, <1>18, <1>19 DEF VolumeInv, Owned, Control
<1>21. Writer'
  BY <1>18, <1>19, NotBuilding
<1> QED BY <1>18, <1>20, <1>21 DEF VolumeInv

\* Once the old root's objects are collected, the new generation has no chunk.
LEMMA GenerationFree ==
  ASSUME Stored, Core, phase = "collect", scan = {}, job.collectOnly, ~job.prune,
         NEW p \in Part, root.serial + 1 \in 1..MaxSerial
  PROVE  ~Present(Chunk(root.serial + 1, p))
<1> DEFINE n == Chunk(root.serial + 1, p)
<1>1. n \in Name /\ n.gen = root.serial + 1
  BY ChunkNames
<1>2. root.serial \in Nat /\ RootOk(root)
  BY DEF Stored, Roots, Core
<1>3. n \notin Upto(root.serial)
  BY <1>1, <1>2 DEF Upto
<1>4. ~job.data
  BY DEF Core, Flags, Busy, JobOk
<1> HIDE DEF n
<1>5. ~Kept(n)
  BY <1>2, <1>3, <1>4, RootNeeds DEF Kept
<1>6. ~Present(n)
  BY <1>1, <1>5 DEF Core, Swept
<1> QED BY <1>6 DEF n

LEMMA BuildingStays ==
  ASSUME VolumeInv, file.phase = "preparing", UNCHANGED root,
         \/ file' = file
         \/ file' = [file EXCEPT !.phase = "writable"] /\ Chunks',
         file'.phase = "preparing" =>
           phase' \in {"check", "directory", "collect"} /\ job'.collectOnly /\ ~job'.prune
  PROVE  Writer' /\ file' \in Files /\ file'.phase \in {"preparing", "writable"}
<1>1. Building
  BY DEF Building
<1>2. /\ root.kind = "doc" /\ root.serial < MaxSerial
      /\ file.before = root /\ file.after \in {NextRoot, Accepted(NextRoot)}
      /\ file.mode \in {"fill", "stream"} /\ Slots /\ Pieces /\ file \in Files
  BY <1>1, WriterAt
<1>3. /\ file'.phase \in {"preparing", "writable"} /\ file'.part = file.part
      /\ file'.slot = file.slot
      /\ file'.mode = file.mode /\ file'.before = file.before /\ file'.after = file.after
      /\ file'.priv = file.priv /\ file'.file = file.file /\ file'.last = file.last
      /\ file' \in Files
  BY <1>2 DEF Files
<1>4. Slots'
  BY <1>2, <1>3 DEF Slots
<1>5. Pieces'
  BY <1>2, <1>3, PiecesSame
<1>6. Chunks'
  BY <1>3 DEF Chunks
<1> QED BY <1>2, <1>3, <1>4, <1>5, <1>6 DEF Writer, Building, NextRoot, Accepted

LEMMA FileStepKeeps ==
  ASSUME VolumeInv, FileStep
  PROVE  VolumeInv'
<1>0. file.phase \in {"preparing", "commit"} /\ EngineStep /\ UNCHANGED <<readers, plain>>
  BY DEF FileStep, rest
<1>1. user = "file" /\ vol = "busy" /\ plain.phase = "none"
  BY <1>0, WriterActs DEF Active
<1>2. Stored' /\ Core'
  BY <1>0, EngineKeeps DEF VolumeInv
<1>3. /\ Busy /\ phase' # "idle"
      /\ phase # "commit" => root' = root
      /\ phase \in {"check", "directory", "collect"} /\ job.collectOnly /\ ~job.prune =>
           \/ phase' \in {"directory", "collect"} /\ job' = job
           \/ phase' = "failed"
           \/ phase' = "done" /\ phase = "collect" /\ scan = {} /\ objects' = objects
  BY <1>0, EnginePhases DEF VolumeInv
<1>4. file.phase = "preparing" =>
        phase \in {"check", "directory", "collect"} /\ job.collectOnly /\ ~job.prune
  BY DEF VolumeInv, Writer
<1>5. file.phase = "preparing" => root' = root
  BY <1>3, <1>4
<1>6. CASE phase' = "failed"
  <2>1. FileFailed /\ UNCHANGED user
    BY <1>6 DEF FileStep
  <2>2. ~Busy'
    BY <1>6 DEF Busy
  <2> QED BY <1>0, <1>1, <1>2, <2>1, <2>2, FileFailedKeeps
<1>7. CASE phase' = "done" /\ file.phase = "preparing"
  <2>1. file' = [file EXCEPT !.phase = "writable"] /\ UNCHANGED <<vol, user>>
    BY <1>7 DEF FileStep
  <2>2. Building
    BY <1>7 DEF Building
  <2>3. root.serial + 1 \in 1..MaxSerial /\ file \in Files
    BY <2>2, WriterAt
  <2>4. phase = "collect" /\ scan = {} /\ objects' = objects
    BY <1>3, <1>4, <1>7
  <2>5. \A p \in Part : ~Present(Chunk(root.serial + 1, p))
    BY <1>4, <1>7, <2>3, <2>4, GenerationFree DEF VolumeInv
  <2>6. Chunks'
    BY <1>5, <1>7, <2>4, <2>5 DEF Chunks, Present
  <2>7. file'.phase = "writable"
    BY <2>1, <2>3 DEF Files
  <2>8. Writer' /\ file' \in Files
    BY <1>5, <1>7, <2>1, <2>6, <2>7, BuildingStays
  <2>9. ~Busy'
    BY <1>7 DEF Busy
  <2>10. Owned' /\ Control'
    BY <1>0, <1>1, <2>1, <2>7, <2>8, <2>9 DEF VolumeInv, Owned, Control
  <2> QED BY <1>2, <2>8, <2>10 DEF VolumeInv
<1>8. CASE phase' = "done" /\ file.phase = "commit"
  <2>1. file' = NoFile /\ vol' = "ready" /\ user' = "none"
    BY <1>8 DEF FileStep
  <2>2. ~Busy'
    BY <1>8 DEF Busy
  <2>3. Owned' /\ Control'
    BY <1>0, <1>1, <2>1, <2>2, NoFileTyped DEF VolumeInv, Owned, Control
  <2>4. Writer'
    BY <2>1, NoFileTyped, NotBuilding DEF Active
  <2> QED BY <1>2, <2>3, <2>4 DEF VolumeInv
<1>9. CASE phase' \notin {"done", "failed"}
  <2>1. UNCHANGED <<file, vol, user>>
    BY <1>9 DEF FileStep
  <2>2. Owned' /\ Control'
    BY <1>0, <1>1, <2>1 DEF VolumeInv, Owned, Control
  <2>3. CASE file.phase = "commit"
    <3>1. Writer'
      BY <2>1, <2>3, NotBuilding
    <3> QED BY <1>2, <2>2, <3>1 DEF VolumeInv
  <2>4. CASE file.phase = "preparing"
    <3>1. phase' \in {"directory", "collect"} /\ job' = job
      BY <1>3, <1>4, <1>9, <2>4
    <3>2. Writer'
      BY <1>4, <1>5, <2>1, <2>4, <3>1, BuildingStays
    <3> QED BY <1>2, <2>2, <3>2 DEF VolumeInv
  <2> QED BY <1>0, <2>3, <2>4
<1> QED BY <1>0, <1>6, <1>7, <1>8, <1>9

(***************************************************************************)
(* Readers, cancellation, power                                            *)
(***************************************************************************)
LEMMA WriterSame ==
  ASSUME VolumeInv, UNCHANGED <<root, objects, file, phase, job>>
  PROVE  Writer'
BY DEF VolumeInv, Writer, Building, Slots, Pieces, Chunks, ExtentOk, Fresh, Present, Upto,
       NextRoot, Accepted

\* A snapshot is opened on what the root names.
LEMMA OpenSnapshotKeeps ==
  ASSUME VolumeInv, OpenSnapshot
  PROVE  VolumeInv'
<1>1. /\ ~Busy /\ HasFile
      /\ UNCHANGED <<flash, engine, faults, vol, user, file, plain>>
  BY DEF OpenSnapshot
<1>2. PICK r \in Reader : readers' = [readers EXCEPT ![r] = root.cur.data.file]
  BY DEF OpenSnapshot
<1>3. /\ root.kind = "doc" /\ ~Busy /\ RootOk(root) /\ root \in Roots /\ RootWhole
      /\ Stored /\ Core /\ readers \in [Reader -> Seq(Exts)] /\ Snapshots
      /\ UNCHANGED <<objects, dir, root, pending, faults>>
  BY DEF OpenSnapshot, HasFile, VolumeInv, Core, Stored, flash
<1>4. PairOk(root.cur, root.serial) /\ root.cur \in Pairs
  BY <1>3, DocumentRoot DEF FullPair
<1>5. root.cur.data.file \in Seq(Exts)
  BY <1>4 DEF Pairs, Conts
<1>6. readers' \in [Reader -> Seq(Exts)]
  BY <1>2, <1>3, <1>5
<1>7. ASSUME NEW i \in DOMAIN root.cur.data.file
      PROVE  LET x == root.cur.data.file[i]
             IN  x.obj \in Upto(root.serial) /\ x.obj.type = "c"
                   /\ Intact(x.obj, Bytes(x.val))
  <2> DEFINE x == root.cur.data.file[i]
  <2>1. x \in Extents(root.cur)
    BY DEF Extents, Elements
  <2> HIDE DEF x
  <2>2. [obj |-> x.obj, content |-> Bytes(x.val)] \in Needs(root.cur)
    BY <2>1, PairNeeds
  <2>3. x.obj \in Upto(root.serial) /\ Intact(x.obj, Bytes(x.val))
    BY <1>3, <1>4, <2>2 DEF PairOk, RootWhole, NeedsOf
  <2>4. x.obj.type = "c"
    BY <1>4 DEF PairOk, x
  <2> QED BY <2>3, <2>4 DEF x
<1>8. RootWhole'
  BY <1>3 DEF RootWhole, Intact
<1>9. ASSUME NEW q \in Reader
      PROVE  Held(readers[q])'
  <2>1. CASE q = r
    <3>1. readers'[q] = root.cur.data.file
      BY <1>2, <1>3, <2>1
    <3> QED BY <1>3, <1>7, <3>1 DEF Held, Intact, Upto
  <2>2. CASE q # r
    <3>1. readers'[q] = readers[q]
      BY <1>2, <1>3, <2>2
    <3> QED BY <1>3, <3>1 DEF Snapshots, Held, Intact, Upto
  <2> QED BY <2>1, <2>2
<1>10. Snapshots'
  BY <1>3, <1>9 DEF Snapshots
<1>11. Stored' /\ Core' /\ ~Busy'
  BY <1>1, <1>3, <1>6, <1>8, <1>10, AtRest DEF Stored
<1>12. plain.phase = "none"
  <2>1. vol = "ready" \/ user = "file"
    BY DEF OpenSnapshot, DocumentReady
  <2> QED BY <2>1 DEF VolumeInv, Control
<1>13. Owned' /\ Control'
  BY <1>1, <1>11, <1>12 DEF VolumeInv, Owned, Control
<1>14. Writer'
  BY <1>1, <1>3, WriterSame DEF engine
<1> QED BY <1>11, <1>13, <1>14 DEF VolumeInv

\* Snapshots are closed.
LEMMA Closes ==
  ASSUME Stored, Core, UNCHANGED <<flash, engine, faults>>,
         readers' \in [Reader -> Seq(Exts)],
         \A r \in Reader : readers'[r] \in {readers[r], << >>}
  PROVE  Stored' /\ Core' /\ (HasSnapshots' => HasSnapshots)
<1>1. UNCHANGED <<objects, dir, root, pending, phase, job, scan>>
  BY DEF flash, engine
<1>2. HasSnapshots' => HasSnapshots
  BY DEF HasSnapshots
<1>3. Stored'
  BY <1>1 DEF Stored
<1>4. ASSUME NEW r \in Reader
      PROVE  Held(readers[r])'
  <2>1. CASE readers'[r] = << >>
    BY <2>1 DEF Held
  <2>2. CASE readers'[r] = readers[r]
    <3>1. Held(readers[r])
      BY DEF Core, Snapshots
    <3> QED BY <1>1, <2>2, <3>1 DEF Held, Intact, Upto
  <2> QED BY <2>1, <2>2
<1>5. Snapshots' /\ RootWhole' /\ RootOk(root)'
  BY <1>1, <1>2, <1>4 DEF Core, Snapshots, RootWhole, Intact
<1>6. Flags'
  BY <1>1, <1>2, JobOkStays DEF Core, Flags, Busy
<1>7. Verified'
  BY <1>1 DEF Core, Verified, NewPackage, NewData, Intact
<1>8. Swept'
  BY <1>1 DEF Core, Swept, Kept, MadeNow, NewPackage, NewData, Present
<1> QED BY <1>2, <1>3, <1>5, <1>6, <1>7, <1>8 DEF Core

LEMMA CloseSnapshotKeeps ==
  ASSUME VolumeInv, CloseSnapshot
  PROVE  VolumeInv'
<1>1. UNCHANGED <<flash, engine, faults, vol, user, file, plain>>
  BY DEF CloseSnapshot
<1>2. PICK r \in Reader : readers' = [readers EXCEPT ![r] = << >>]
  BY DEF CloseSnapshot
<1>3. readers \in [Reader -> Seq(Exts)] /\ << >> \in Seq(Exts)
  BY DEF VolumeInv, Stored
<1>4. /\ readers' \in [Reader -> Seq(Exts)]
      /\ \A q \in Reader : readers'[q] \in {readers[q], << >>}
  BY <1>2, <1>3
<1>5. Stored' /\ Core' /\ (HasSnapshots' => HasSnapshots)
  BY <1>1, <1>4, Closes DEF VolumeInv
<1>6. Owned' /\ Control'
  BY <1>1, <1>5 DEF VolumeInv, Owned, Control, Busy, flash, engine
<1>7. Writer'
  BY <1>1, WriterSame DEF flash, engine
<1> QED BY <1>5, <1>6, <1>7 DEF VolumeInv

LEMMA NoReadersOk ==
  /\ NoReaders \in [Reader -> Seq(Exts)]
  /\ \A r \in Reader : NoReaders[r] = << >>
BY DEF NoReaders

LEMMA MountKeeps ==
  ASSUME VolumeInv, Mount
  PROVE  VolumeInv'
<1>1. vol # "busy" /\ vol' = "ready" /\ readers' = NoReaders
      /\ UNCHANGED <<flash, engine, faults, user, file, plain>>
  BY DEF Mount
<1>2. ~Busy /\ plain.phase = "none" /\ file.phase \notin Active
  BY <1>1, Ready
<1>3. Stored' /\ Core'
  BY <1>1, NoReadersOk, Closes DEF VolumeInv
<1>4. ~Busy'
  BY <1>1, <1>2 DEF Busy, engine
<1>5. Owned' /\ Control'
  BY <1>1, <1>2, <1>4 DEF VolumeInv, Owned, Control, Active
<1>6. Writer'
  BY <1>1, <1>2, NotBuilding
<1> QED BY <1>3, <1>5, <1>6 DEF VolumeInv

LEMMA OpenFileKeeps ==
  ASSUME VolumeInv, OpenFile
  PROVE  VolumeInv'
<1>1. /\ DocumentReady /\ file' = [NoFile EXCEPT !.phase = "reading"] /\ user' = "file"
      /\ UNCHANGED <<flash, engine, readers, faults, vol, plain>>
  BY DEF OpenFile
<1>2. ~Busy /\ plain.phase = "none" /\ vol = "ready"
  BY <1>1, ReadyDocument
<1>3. file' \in Files /\ file'.phase = "reading"
  BY <1>1, NoFileTyped DEF Files
<1>4. Stored' /\ Core'
  BY <1>1, CoreSame DEF VolumeInv, Stored
<1>5. ~Busy'
  BY <1>1, <1>2 DEF Busy, engine
<1>6. Owned' /\ Control'
  BY <1>1, <1>2, <1>3, <1>5 DEF VolumeInv, Owned, Control
<1>7. Writer'
  BY <1>3, NotBuilding DEF Active
<1> QED BY <1>4, <1>6, <1>7 DEF VolumeInv

LEMMA Stopped ==
  ASSUME Stored, Core, StopEngine, UNCHANGED <<flash, faults>>,
         readers' \in [Reader -> Seq(Exts)], Snapshots'
  PROVE  Stored' /\ Core' /\ ~Busy'
<1>1. /\ phase' = "idle" /\ job' = NoJob /\ scan' = {}
      /\ UNCHANGED <<objects, dir, root, pending>>
  BY DEF StopEngine, flash
<1>2. Flags' /\ Verified' /\ Swept' /\ ~Busy'
  BY <1>1, Resting DEF Busy
<1>3. RootWhole' /\ RootOk(root)'
  BY <1>1 DEF Core, RootWhole, Intact
<1>4. Stored'
  BY <1>1, NoJobTyped DEF Stored, Phases
<1> QED BY <1>2, <1>3, <1>4 DEF Core

\* Nobody uses the volume any longer.
LEMMA Released ==
  ASSUME VolumeInv, Stored', Core', ~Busy', file' = NoFile, user' \in {"none", "doc"},
         vol' \in {"ready", "failed"}, UNCHANGED plain, plain.phase = "none"
  PROVE  VolumeInv'
<1>1. Owned' /\ Control'
  BY NoFileTyped DEF VolumeInv, Owned, Control
<1>2. Writer'
  BY NoFileTyped, NotBuilding DEF Active
<1> QED BY <1>1, <1>2 DEF VolumeInv

LEMMA CancelWriterKeeps ==
  ASSUME VolumeInv, CancelWriter
  PROVE  VolumeInv'
<1>1. /\ user = "file" /\ file' = NoFile /\ user' = "none" /\ vol' = "ready"
      /\ UNCHANGED <<dir, root, pending, readers, faults, plain>>
  BY DEF CancelWriter
<1>2. plain.phase = "none"
  BY <1>1 DEF VolumeInv, Control
<1>3. Stored /\ Core /\ faults \in 0..MaxFaults /\ readers \in [Reader -> Seq(Exts)]
  BY DEF VolumeInv, Stored
<1>4. CASE file.phase \in {"preparing", "commit"}
  <2>1. StopEngine /\ UNCHANGED objects
    BY <1>4 DEF CancelWriter
  <2>2. UNCHANGED <<flash, faults>>
    BY <1>1, <2>1 DEF flash
  <2>3. Snapshots'
    BY <1>1, <1>3, <2>1, FrameSame DEF Core
  <2>4. Stored' /\ Core' /\ ~Busy'
    BY <1>1, <1>3, <2>1, <2>2, <2>3, Stopped
  <2> QED BY <1>1, <1>2, <2>4, Released
<1>5. CASE file.phase = "chunk"
  <2>1. UNCHANGED engine /\ objects' = [objects EXCEPT ![Target] = Torn]
    BY <1>5 DEF CancelWriter
  <2>2. file.part \in Part /\ Target = Chunk(root.serial + 1, file.part)
    BY <1>5, PartOk
  <2>3. objects' = [objects EXCEPT ![Chunk(root.serial + 1, file.part)] = Torn]
        /\ Torn \in Conts /\ faults' \in 0..MaxFaults
    BY <1>1, <1>3, <2>1, <2>2, ContentKinds
  <2>4. Stored' /\ Core' /\ ~Busy'
    BY <1>1, <1>5, <2>1, <2>2, <2>3, ChunkKeeps
  <2> QED BY <1>1, <1>2, <2>4, Released
<1>6. CASE file.phase \notin {"preparing", "commit", "chunk"}
  <2>1. UNCHANGED <<objects, engine>>
    BY <1>6 DEF CancelWriter
  <2>2. ~Busy
    BY <1>1, <1>6 DEF VolumeInv, Control
  <2>3. ~Busy'
    BY <2>1, <2>2 DEF Busy, engine
  <2>4. UNCHANGED <<flash, engine, readers>> /\ faults' \in 0..MaxFaults
    BY <1>1, <1>3, <2>1 DEF flash
  <2>5. Stored' /\ Core'
    BY <1>3, <2>4, CoreSame
  <2> QED BY <1>1, <1>2, <2>3, <2>5, Released
<1> QED BY <1>4, <1>5, <1>6

LEMMA CancelDocumentKeeps ==
  ASSUME VolumeInv, CancelDocument
  PROVE  VolumeInv'
<1>1. /\ user = "doc" /\ UNCHANGED <<flash, readers, faults, file, plain>>
  BY DEF CancelDocument
<1>2. plain.phase = "none" /\ file = NoFile /\ file' = NoFile
  BY <1>1 DEF VolumeInv, Control
<1>3. Stored /\ Core /\ readers \in [Reader -> Seq(Exts)] /\ faults \in 0..MaxFaults
  BY DEF VolumeInv, Stored
<1>4. CASE StopEngine /\ user' = "none" /\ vol' = "ready"
  <2>1. Snapshots'
    BY <1>1, <1>3, FrameSame DEF Core, flash
  <2>2. Stored' /\ Core' /\ ~Busy'
    BY <1>1, <1>3, <1>4, <2>1, Stopped
  <2> QED BY <1>1, <1>2, <1>4, <2>2, Released
<1>5. CASE phase = "failed" /\ vol' = "failed" /\ UNCHANGED <<engine, user>>
  <2>1. Stored' /\ Core'
    BY <1>1, <1>3, <1>5, CoreSame
  <2>2. ~Busy'
    BY <1>5 DEF Busy, engine
  <2> QED BY <1>1, <1>2, <1>5, <2>1, <2>2, Released
<1> QED BY <1>4, <1>5 DEF CancelDocument

LEMMA InitializeKeeps ==
  ASSUME VolumeInv, Initialize
  PROVE  VolumeInv'
<1>1. /\ vol = "off" /\ pending' = NoRoot
      /\ UNCHANGED <<objects, dir, root, readers, faults, file, plain>>
  BY DEF Initialize
<1>2. /\ user = "none" /\ file = NoFile /\ ~Busy /\ plain.phase = "none"
  BY <1>1, Ready DEF VolumeInv, Control
<1>3. /\ Stored /\ Core /\ RootOk(root) /\ Snapshots /\ pending' \in Roots
      /\ faults' \in 0..MaxFaults
  BY <1>1, NoPairOk DEF VolumeInv, Core, Stored
<1>4. CASE dir /\ root = NoRoot
  <2>1. StartPrune /\ vol' = "busy" /\ user' = "init"
    BY <1>4 DEF Initialize
  <2>2. ~HasSnapshots
    BY <1>3, <1>4, NoPairOk DEF Snapshots
  <2>3. Stored' /\ Core' /\ Busy'
    BY <1>1, <1>3, <1>4, <2>1, <2>2, Prunes
  <2>4. Owned' /\ Control'
    BY <1>1, <1>2, <2>1, <2>3, NoFileTyped DEF VolumeInv, Owned, Control
  <2>5. Writer'
    BY <1>1, <1>2, NoFileTyped, NotBuilding DEF Active
  <2> QED BY <2>3, <2>4, <2>5 DEF VolumeInv
<1>5. CASE ~(dir /\ root = NoRoot)
  <2>1. vol' = "ready" /\ UNCHANGED <<engine, user>>
    BY <1>5 DEF Initialize
  <2>2. RootWhole' /\ Snapshots'
    BY <1>1, <1>3, FrameSame DEF Core
  <2>3. /\ objects' \in [Name -> Conts] /\ dir' \in BOOLEAN /\ root' \in Roots
        /\ readers' \in [Reader -> Seq(Exts)] /\ RootOk(root')
    BY <1>1, <1>3 DEF Stored
  <2>4. Stored' /\ Core' /\ ~Busy'
    BY <1>2, <1>3, <2>1, <2>2, <2>3, AtRest
  <2> QED BY <1>1, <1>2, <2>1, <2>4, Released
<1> QED BY <1>4, <1>5

LEMMA PowerLossKeeps ==
  ASSUME VolumeInv, PowerLoss
  PROVE  VolumeInv'
<1>1. /\ vol' = "off" /\ StopEngine /\ readers' = NoReaders /\ user' = "none"
      /\ file' = NoFile /\ plain' = NoPlain /\ UNCHANGED <<flash, faults>>
  BY DEF PowerLoss
<1>2. Snapshots' /\ ~HasSnapshots'
  BY <1>1, NoReadersOk DEF Snapshots, Held, HasSnapshots
<1>3. Stored' /\ Core' /\ ~Busy'
  BY <1>1, <1>2, NoReadersOk, Stopped DEF VolumeInv
<1>4. Owned' /\ Control'
  BY <1>1, <1>3, NoFileTyped, NoPlainTyped DEF VolumeInv, Owned, Control
<1>5. Writer'
  BY <1>1, NoFileTyped, NotBuilding DEF Active
<1> QED BY <1>3, <1>4, <1>5 DEF VolumeInv

\* What rots was whole; nothing appears or vanishes.
LEMMA DecayKeeps ==
  ASSUME VolumeInv, Decay
  PROVE  VolumeInv'
<1>1. UNCHANGED <<dir, root, pending, engine, readers, vol, user, file, plain>>
  BY DEF Decay
<1>2. PICK n \in Name : /\ objects[n].kind \in {"bytes", "index"}
                        /\ objects' = [objects EXCEPT ![n] = Rotten]
  BY DEF Decay
<1>3. /\ Stored /\ Core /\ RootOk(root) /\ RootWhole /\ Snapshots /\ Flags /\ Verified /\ Swept
      /\ objects \in [Name -> Conts] /\ faults' \in 0..MaxFaults
  BY Numbers DEF VolumeInv, Core, Stored, Decay
<1>4. UNCHANGED <<phase, job, scan>>
  BY <1>1 DEF engine
<1>5. /\ \A m \in Name : Stays(m)
      /\ \A m \in Name : m # n => objects'[m] = objects[m]
      /\ objects'[n] = Rotten /\ objects' \in [Name -> Conts]
  BY <1>2, <1>3, ContentKinds DEF Stays
<1>6. \A m \in Name : Present(m)' <=> Present(m)
  BY <1>2, <1>5, ContentKinds DEF Present
<1>7. \A m \in Name : objects[m] = Torn => objects'[m] = Torn
  BY <1>2, <1>5, ContentKinds
<1>8. Stored'
  BY <1>1, <1>3, <1>4, <1>5 DEF Stored
<1>9. RootWhole' /\ Snapshots'
  <2>1. \A need \in NeedsOf(root) : Stays(need.obj)
    BY <1>3, <1>5, NamedIntact DEF Upto
  <2>2. \A r \in Reader : \A i \in DOMAIN readers[r] : Stays(readers[r][i].obj)
    BY <1>3, <1>5, SnapshotIntact DEF Upto, Stored
  <2> QED BY <1>1, <1>3, <2>1, <2>2, Frame
<1>10. Flags'
  BY <1>1, <1>3, <1>4, JobOkStays DEF Flags, Busy, HasSnapshots
<1>11. Verified'
  <2>1. ASSUME phase \in Late \cup {"directory", "collect"}, job.data,
               NEW x \in Extents(job.after.cur)
        PROVE  Intact(x.obj, Bytes(x.val))'
    <3>1. JobOk
      BY <1>3, <2>1 DEF Flags, Busy, Late
    <3>2. [obj |-> x.obj, content |-> Bytes(x.val)] \in NeedsOf(job.after)
      BY PairNeeds DEF NeedsOf
    <3>3. x.obj \in Name
      BY <3>1, <3>2, RootNeeds DEF JobOk, Upto
    <3>4. Intact(x.obj, Bytes(x.val))
      BY <1>3, <2>1 DEF Verified
    <3> QED BY <1>5, <3>3, <3>4, IntactStays
  <2>2. phase \in Late /\ job.package => NewPackage.obj \in Name
    BY <1>3, LateJob, PairNames
  <2>3. phase \in Late /\ job.data => NewData.obj \in Name
    BY <1>3, LateJob, PairNames
  <2>4. phase = "packageClose" => objects'[NewPackage.obj] = Torn
    BY <1>3, <1>7, <2>2 DEF Verified, Flags, Late
  <2>5. phase = "dataClose" => objects'[NewData.obj] = Torn
    BY <1>3, <1>7, <2>3 DEF Verified, Flags, Late
  <2>6. job.package /\ phase \in {"data", "dataClose", "dataVerify", "rootWrite",
                                  "rootVerify", "commit"} =>
          Intact(NewPackage.obj, NewPackage.content)'
    <3>1. ASSUME job.package, phase \in {"data", "dataClose", "dataVerify", "rootWrite",
                                         "rootVerify", "commit"}
          PROVE  Intact(NewPackage.obj, NewPackage.content)'
      <4>1. NewPackage.obj \in Name
        BY <2>2, <3>1 DEF Late
      <4>2. Intact(NewPackage.obj, NewPackage.content)
        BY <1>3, <3>1 DEF Verified
      <4>3. objects'[NewPackage.obj] \in {NewPackage.content, Rotten}
        BY <1>5, <4>1, <4>2 DEF Intact, Stays
      <4> QED BY <1>4, <4>3 DEF Intact, NewPackage
    <3> QED BY <3>1
  <2>7. job.data /\ phase \in {"rootWrite", "rootVerify", "commit"} =>
          Intact(NewData.obj, NewData.content)'
    <3>1. ASSUME job.data, phase \in {"rootWrite", "rootVerify", "commit"}
          PROVE  Intact(NewData.obj, NewData.content)'
      <4>1. NewData.obj \in Name
        BY <2>3, <3>1 DEF Late
      <4>2. Intact(NewData.obj, NewData.content)
        BY <1>3, <3>1 DEF Verified
      <4>3. objects'[NewData.obj] \in {NewData.content, Rotten}
        BY <1>5, <4>1, <4>2 DEF Intact, Stays
      <4> QED BY <1>4, <4>3 DEF Intact, NewData
    <3> QED BY <3>1
  <2>8. phase = "commit" => pending = job.after
    BY <1>3 DEF Verified
  <2>9. /\ NewPackage' = NewPackage /\ NewData' = NewData
    BY <1>4 DEF NewPackage, NewData
  <2> QED BY <1>1, <1>4, <2>1, <2>4, <2>5, <2>6, <2>7, <2>8, <2>9 DEF Verified
<1>12. Swept'
  <2>1. \A m : Kept(m)' = Kept(m)
    BY <1>1, <1>4 DEF Kept, Upto
  <2>2. \A m : MadeNow(m)' = MadeNow(m)
    BY <1>4 DEF MadeNow, NewPackage, NewData
  <2> QED BY <1>3, <1>4, <1>6, <2>1, <2>2 DEF Swept
<1>13. Core'
  BY <1>1, <1>3, <1>9, <1>10, <1>11, <1>12 DEF Core
<1>14. Owned' /\ Control'
  BY <1>1, <1>4 DEF VolumeInv, Owned, Control, Busy, HasSnapshots
<1>15. Writer'
  <2>1. CASE Building
    <3>1. /\ root.kind = "doc" /\ root.serial < MaxSerial /\ root.serial + 1 \in 1..MaxSerial
          /\ file.before = root /\ file.after \in {NextRoot, Accepted(NextRoot)}
          /\ file.mode \in {"fill", "stream"} /\ Slots /\ Pieces /\ Chunks
      BY <2>1, WriterAt
    <3>2. Chunks'
      BY <1>1, <1>6, <3>1, ChunkNames DEF Chunks
    <3>3. Slots' /\ Pieces'
      BY <1>1, <3>1, PiecesSame DEF Slots
    <3> QED BY <1>1, <1>4, <3>1, <3>2, <3>3 DEF VolumeInv, Writer, Building, NextRoot, Accepted
  <2>2. CASE ~Building
    BY <1>1, <2>2, NotBuilding DEF Building, Active
  <2> QED BY <2>1, <2>2
<1> QED BY <1>8, <1>13, <1>14, <1>15 DEF VolumeInv

(***************************************************************************)
(* The theorems                                                            *)
(***************************************************************************)
LEMMA VolumeInit == Init => VolumeInv
<1> SUFFICES ASSUME Init
             PROVE  VolumeInv
  OBVIOUS
<1>1. /\ objects = [n \in Name |-> Absent] /\ dir = FALSE /\ root = NoRoot /\ pending = NoRoot
      /\ faults = 0 /\ phase = "idle" /\ job = NoJob /\ scan = {} /\ readers = NoReaders
      /\ vol = "off" /\ user = "none" /\ file = NoFile /\ plain = NoPlain
  BY DEF Init
<1>2. Stored
  <2>1. objects \in [Name -> Conts] /\ dir \in BOOLEAN /\ root \in Roots /\ pending \in Roots
    BY <1>1, ContentKinds, NoPairOk
  <2>2. faults \in 0..MaxFaults /\ phase \in Phases
    BY <1>1, Numbers DEF Phases
  <2>3. job \in Jobs /\ scan \subseteq Name /\ readers \in [Reader -> Seq(Exts)]
    BY <1>1, NoJobTyped, NoReadersOk
  <2> QED BY <2>1, <2>2, <2>3 DEF Stored
<1>3. Owned
  BY <1>1, NoFileTyped, NoPlainTyped DEF Owned
<1>4. Snapshots /\ ~HasSnapshots
  BY <1>1, NoReadersOk DEF Snapshots, Held, HasSnapshots
<1>5. RootOk(root) /\ RootWhole
  BY <1>1, NoRootOk DEF RootWhole
<1>6. Flags /\ Verified /\ Swept /\ ~Busy
  BY <1>1 DEF Flags, Verified, Swept, Busy, Early, Late
<1>7. Control /\ Writer
  BY <1>1, <1>6, NoFileTyped, NoPlainTyped DEF Control, Writer, Building
<1> QED BY <1>2, <1>3, <1>4, <1>5, <1>6, <1>7 DEF VolumeInv, Core

LEMMA VolumeNext ==
  ASSUME VolumeInv, [Next]_vars
  PROVE  VolumeInv'
<1>1. CASE UNCHANGED vars
  <2>1. UNCHANGED <<flash, engine, readers, faults, vol, user, file, plain>>
    BY <1>1 DEF vars
  <2>2. Stored' /\ Core'
    BY <2>1, CoreSame DEF VolumeInv, Stored
  <2>3. Owned' /\ Control'
    BY <2>1 DEF VolumeInv, Owned, Control, Busy, HasSnapshots, flash, engine
  <2>4. Writer'
    BY <2>1, WriterSame DEF flash, engine
  <2> QED BY <2>2, <2>3, <2>4 DEF VolumeInv
<1>2. CASE Begin
  BY <1>2, BeginInstallKeeps, BeginRemoveKeeps, BeginConversionKeeps, BeginCheckpointKeeps,
     BeginUpgradeKeeps, BeginAcceptKeeps, BeginRollbackKeeps, BeginFeedKeeps,
     BeginWriteKeeps, BeginStreamKeeps DEF Begin
<1>3. CASE Step
  BY <1>3, InstallStepKeeps, RemoveRootKeeps, DocumentStepKeeps, PrepareChunkKeeps,
     FlushChunkKeeps, CloseChunkKeeps, VerifyChunkKeeps, PublishIndexKeeps,
     FileStepKeeps DEF Step
<1>4. CASE PlainFails \/ FileFails \/ CancelInstall
  BY <1>4, PlainFailsKeeps, FileFailsKeeps, CancelInstallKeeps
<1>5. CASE OpenSnapshot \/ CloseSnapshot \/ OpenFile
  BY <1>5, OpenSnapshotKeeps, CloseSnapshotKeeps, OpenFileKeeps
<1>6. CASE CancelWriter \/ CancelDocument
  BY <1>6, CancelWriterKeeps, CancelDocumentKeeps
<1>7. CASE Mount \/ Initialize \/ PowerLoss \/ Decay
  BY <1>7, MountKeeps, InitializeKeeps, PowerLossKeeps, DecayKeeps
<1> QED BY <1>1, <1>2, <1>3, <1>4, <1>5, <1>6, <1>7 DEF Next

\* AppVolume!Spec: the invariant holds of the volume of app_storage.cpp with the
\* writer of app_file_store.cpp, over the engine of app_document_store.cpp.
THEOREM VolumeHolds == Spec => []VolumeInv
<1>1. VolumeInv /\ [Next]_vars => VolumeInv'
  BY VolumeNext
<1> QED BY VolumeInit, <1>1, PTL DEF Spec

LEMMA InvTyped == VolumeInv => TypeOK
<1> SUFFICES ASSUME VolumeInv
             PROVE  TypeOK
  OBVIOUS
<1>1. /\ Stored /\ RootOk(root) /\ file \in Files /\ plain \in Plains
      /\ vol \in {"off", "ready", "busy", "failed"}
      /\ user \in {"none", "doc", "init", "file"}
  BY DEF VolumeInv, Core, Owned
<1>2. /\ DOMAIN objects = Name /\ dir \in BOOLEAN /\ faults \in 0..MaxFaults
      /\ scan \subseteq Name /\ DOMAIN readers = Reader
  BY <1>1 DEF Stored
<1>3. root.kind \in {"none", "file2", "doc"} /\ root.serial \in 0..MaxSerial
  BY <1>1, Numbers DEF Stored, RootOk, Roots
<1>4. pending.kind \in {"none", "torn", "file2", "doc"}
  BY <1>1 DEF Stored, Roots
<1>5. phase \in Phases
  BY <1>1 DEF Stored
<1>6. /\ file.phase \in {"idle", "preparing", "writable", "chunk", "verify",
                         "commit", "reading", "failed"}
      /\ plain.phase \in {"none", "write", "verify", "commit", "remove"}
  BY <1>1 DEF Files, Plains
<1> QED BY <1>1, <1>2, <1>3, <1>4, <1>5, <1>6 DEF TypeOK, Phases, Early, Late

\* Every variable of the volume keeps its type.
THEOREM VolumeTyped == Spec => []TypeOK
BY VolumeHolds, InvTyped, PTL

\* Whatever is interrupted, cancelled or fails - a transaction, the writer, the
\* collection, the power - the objects of both pairs of the canonical root and of
\* every chunk of their indexes have the content the root recorded, or rotted.
THEOREM RootStaysWhole == Spec => []RootWhole
<1>1. VolumeInv => RootWhole
  BY DEF VolumeInv, Core
<1> QED BY VolumeHolds, <1>1, PTL

LEMMA InvReaders == VolumeInv => ReadersWhole
<1> SUFFICES ASSUME VolumeInv, NEW r \in Reader, NEW x \in Elements(readers[r])
             PROVE  Intact(x.obj, Bytes(x.val))
  BY DEF ReadersWhole
<1>1. Held(readers[r])
  BY DEF VolumeInv, Core, Snapshots
<1> QED BY <1>1 DEF Held, Elements

\* The chunks an open snapshot reads (Volume::retainChunk) survive every later
\* replacement, removal and collection.
THEOREM SnapshotsStayWhole == Spec => []ReadersWhole
BY VolumeHolds, InvReaders, PTL

\* What a transaction is about to write is named by nobody.
LEMMA NewIsFree ==
  ASSUME Stored, Core, phase \in Late, NEW o \in Name, o.gen = root.serial + 1,
         o.type # "c"
  PROVE  ~Kept(o)
<1>1. JobOk /\ RootOk(root) /\ root.serial \in Nat
  BY LateJob DEF Core, Stored, Roots
<1>2. o \notin Upto(root.serial)
  BY <1>1 DEF Upto
<1>3. o \notin {need.obj : need \in NeedsOf(root)}
  BY <1>1, <1>2, RootNeeds
<1>4. ASSUME job.data
      PROVE  o \notin {x.obj : x \in Extents(job.after.cur)}
  BY <1>1, <1>2, <1>4 DEF JobOk
<1> QED BY <1>2, <1>3, <1>4 DEF Kept

LEMMA InvNames == VolumeInv => NamesFree
<1> SUFFICES ASSUME VolumeInv
             PROVE  NamesFree
  OBVIOUS
<1>1. Stored /\ Core /\ Flags /\ Swept
  BY DEF VolumeInv, Core
<1>2. ASSUME phase = "package"
      PROVE  ~Present(NewPackage.obj)
  <2>1. phase \in Late /\ job.package
    BY <1>1, <1>2 DEF Late, Flags
  <2>2. NewPackage.obj = Package(root.serial + 1) /\ root.serial + 1 \in 1..MaxSerial
        /\ (job.data => NewData.obj = Data(root.serial + 1))
    BY <1>1, <2>1, LateJob
  <2>3. /\ NewPackage.obj \in Name /\ NewPackage.obj.gen = root.serial + 1
        /\ NewPackage.obj.type = "p"
    BY <2>2, PairNames
  <2>4. ~Kept(NewPackage.obj)
    BY <1>1, <2>1, <2>3, NewIsFree
  <2>5. ~MadeNow(NewPackage.obj)
    BY <1>2 DEF MadeNow
  <2> QED BY <1>1, <2>1, <2>3, <2>4, <2>5 DEF Swept
<1>3. ASSUME phase = "data"
      PROVE  ~Present(NewData.obj)
  <2>1. phase \in Late /\ job.data
    BY <1>1, <1>3 DEF Late, Flags
  <2>2. NewData.obj = Data(root.serial + 1) /\ root.serial + 1 \in 1..MaxSerial
        /\ (job.package => NewPackage.obj = Package(root.serial + 1))
    BY <1>1, <2>1, LateJob
  <2>3. /\ NewData.obj \in Name /\ NewData.obj.gen = root.serial + 1
        /\ NewData.obj.type = "d"
    BY <2>2, PairNames
  <2>4. ~Kept(NewData.obj)
    BY <1>1, <2>1, <2>3, NewIsFree
  <2>5. ~MadeNow(NewData.obj)
    BY <1>3, <2>2, PairNames DEF MadeNow
  <2> QED BY <1>1, <2>1, <2>3, <2>4, <2>5 DEF Swept
<1>4. ASSUME file.phase = "writable", NEW p \in Part, Present(Chunk(file.after.serial, p))
      PROVE  \E x \in Elements(file.priv) \cup Elements(file.file) :
               x.obj = Chunk(file.after.serial, p)
  <2>1. Building
    BY <1>4 DEF Building
  <2>2. file.after.serial = root.serial + 1 /\ Chunks
    BY <2>1, WriterAt
  <2> QED BY <1>4, <2>2 DEF Chunks
<1> QED BY <1>2, <1>3, <1>4 DEF NamesFree

\* An exclusive creation never meets a leftover: the package and the data object
\* are absent when their turn comes, and the chunks of the new generation are
\* those the writer made.
THEOREM LeftoversNeverBlock == Spec => []NamesFree
BY VolumeHolds, InvNames, PTL

LEMMA InvGarbage == VolumeInv => NoGarbage
<1> SUFFICES ASSUME VolumeInv, phase = "commit", NEW n \in Name, Present(n)
             PROVE  \/ n \in {need.obj : need \in NeedsOf(root) \cup NeedsOf(pending)}
                    \/ n.type = "c" /\ n.gen <= root.serial
  BY DEF NoGarbage
<1>1. Stored /\ Core /\ Swept /\ phase \in Late /\ pending = job.after
  BY DEF VolumeInv, Core, Verified, Late
<1>2. JobOk /\ root.serial + 1 \in 1..MaxSerial
  BY <1>1, LateJob
<1>3. Kept(n) \/ MadeNow(n)
  BY <1>1 DEF Swept
<1>4. CASE n \in {need.obj : need \in NeedsOf(root)}
  BY <1>4
<1>5. ASSUME job.data, NEW x \in Extents(job.after.cur), n = x.obj
      PROVE  n \in {need.obj : need \in NeedsOf(pending)}
  <2>1. [obj |-> x.obj, content |-> Bytes(x.val)] \in NeedsOf(pending)
    BY <1>1, PairNeeds DEF NeedsOf
  <2> QED BY <1>5, <2>1
<1>6. CASE n.type = "c" /\ n \in Upto(root.serial)
  BY <1>6 DEF Upto
<1>7. CASE n = NewPackage.obj /\ job.package
  <2>1. job.after.cur.p # 0
    BY <1>2, <1>7 DEF JobOk
  <2>2. NewPackage \in NeedsOf(pending)
    BY <1>1, <2>1, PairNeeds DEF NewPackage, NeedsOf
  <2> QED BY <1>7, <2>2
<1>8. CASE n = NewData.obj /\ job.data
  <2>1. job.after.cur.d # 0
    BY <1>2, <1>8 DEF JobOk
  <2>2. NewData \in NeedsOf(pending)
    BY <1>1, <2>1, PairNeeds DEF NewData, NeedsOf
  <2> QED BY <1>8, <2>2
<1> QED BY <1>3, <1>4, <1>5, <1>6, <1>7, <1>8 DEF Kept, MadeNow

\* When a new root is about to be renamed over the old one, every object on flash
\* is named by one of them or is a chunk of an earlier generation: what abandoned
\* transactions left is gone (Store::collect before the first write).
THEOREM NothingLeftBehind == Spec => []NoGarbage
BY VolumeHolds, InvGarbage, PTL

(***************************************************************************)
(* AppVolume implements AppStore: what an app's root names changes only as *)
(* the promise allows, in one step, whatever is interrupted or fails.      *)
(*                                                                         *)
(* The renamed root was composed when its transaction began, so the        *)
(* invariant carries the promise: the transaction on its way, the FILE2    *)
(* file on its way and the file the writer has built so far would change   *)
(* the present root as AppStore allows.  The invariant of the volume shows *)
(* that nobody else changes the root meanwhile.                            *)
(***************************************************************************)

(***************************************************************************)
(* What the transactions mean                                              *)
(***************************************************************************)
\* What an installed pair lists can be read: a package, and bytes in every chunk.
Listed(pair) == /\ pair.pkg \in Version
                /\ \A i \in DOMAIN pair.data.file : pair.data.file[i].val \in Payload

RootMeans(r) == /\ r # NoRoot => Listed(r.cur)
                /\ r.prev # NoPair => Listed(r.prev)
                /\ r.kind # "doc" => r.high = 0

NewBytes(r, s) == \E v \in Payload : View(s.cur) = [View(r.cur) EXCEPT !.priv = v]
NewFile(r, s) == \E n \in 0..MaxChunks : \E f \in [1..n -> Payload] :
                   View(s.cur) = [View(r.cur) EXCEPT !.file = f]
KeepsOld(r, s) == /\ s.upgrade = r.upgrade
                  /\ s.prev = IF r.upgrade THEN r.prev ELSE r.cur
Settles(r, s) == r.upgrade /\ s.upgrade = FALSE /\ s.prev = NoPair

\* The change of the root r into the root s is one the promise allows.
Leads(r, s) ==
  /\ s.kind = "doc"
  /\ RootMeans(s)
  /\ \/ /\ r.kind = "file2" /\ s.prev = NoPair /\ s.upgrade = FALSE
        /\ s.high = r.cur.pkg /\ NewBytes(r, s)
     \/ /\ r.kind = "doc" /\ s.high = r.high /\ KeepsOld(r, s)
        /\ NewBytes(r, s) \/ NewFile(r, s)
     \/ r.kind = "doc" /\ s.high = r.high /\ Settles(r, s) /\ NewBytes(r, s)
     \/ /\ r.kind = "doc" /\ ~r.upgrade /\ s.upgrade = TRUE /\ s.prev = r.cur
        /\ s.high \in Version /\ s.high > r.high
        /\ View(s.cur) = [View(r.cur) EXCEPT !.pkg = s.high]
     \/ /\ r.kind = "doc" /\ s.high = r.high /\ Settles(r, s)
        /\ View(s.cur) \in {View(r.cur), View(r.prev)}

\* The FILE2 file being installed is a package with its data.
PlainMeans ==
  plain.phase \in {"write", "verify", "commit"} =>
    \E pkg \in Version, data \in Payload : plain.rec = File2(root.serial + 1, pkg, data)

\* The transaction on its way.
JobMeans == Busy /\ ~job.prune /\ ~job.collectOnly => Leads(root, job.after)

\* The writer replaces the private bytes and leaves the file alone, or leaves
\* the private bytes alone and has bytes for every chunk but those it has yet
\* to write.
Feeding == /\ file.mode = "fill" /\ file.last = 0
           /\ file.after # NextRoot => root.upgrade
           /\ View(root.cur).file = [i \in DOMAIN file.file |-> file.file[i].val]
           /\ file.slot = 0 \/ file.priv[1].val \in Payload

Storing == /\ file.slot # 0
           /\ file.after = NextRoot
           /\ file.priv[1].val = Value(root.cur)

WriterMeans ==
  Building =>
    /\ file.phase \in {"chunk", "verify"} => file.val \in Payload
    /\ \A i \in DOMAIN file.file :
         \/ file.file[i].val \in Payload
         \/ file.mode = "fill" /\ i \in file.slot..file.last
    /\ Feeding \/ Storing

StepMeans == RootMeans(root) /\ PlainMeans /\ JobMeans /\ WriterMeans

StepInv == VolumeInv /\ StepMeans

\* How a step may change the root.
Changes == \/ root' = root
           \/ Leads(root, root')
           \/ root' = NoRoot
           \/ /\ root.kind # "doc"
              /\ \E pkg \in Version, data \in Payload :
                   root' = File2(root.serial + 1, pkg, data)

(***************************************************************************)
(* Each change is a step of the promise                                    *)
(***************************************************************************)
LEMMA ViewTyped ==
  ASSUME NEW pair
  PROVE  /\ View(pair).pkg = pair.pkg /\ View(pair).priv = Value(pair)
         /\ View(pair).file = [i \in DOMAIN pair.data.file |-> pair.data.file[i].val]
BY DEF View

\* What a pair shows depends on its package and its data only.
Shown(data) == [i \in DOMAIN data.file |-> data.file[i].val]

LEMMA ViewShown ==
  ASSUME NEW p, NEW q, p.data = q.data
  PROVE  Value(p) = Value(q) /\ View(p).file = View(q).file
<1>1. View(p).file = Shown(p.data) /\ View(q).file = Shown(q.data)
  BY DEF View, Shown
<1> QED BY <1>1 DEF Value

LEMMA ViewListed ==
  ASSUME NEW pair, Listed(pair)
  PROVE  View(pair) # NotKept
<1>1. View(pair).pkg = pair.pkg /\ pair.pkg # 0
  BY AppDocumentsAssumption DEF View, Listed
<1> QED BY <1>1 DEF NotKept

LEMMA ChangePromised ==
  ASSUME VolumeInv, StepMeans, Changes
  PROVE  [Store!Next]_(Store!vars)
<1>1. /\ RootOk(root) /\ root \in Roots /\ root.upgrade \in BOOLEAN
      /\ RootMeans(root)
  BY DEF VolumeInv, Core, Stored, Roots, StepMeans
<1>2. /\ root.kind \in {"none", "file2", "doc"}
      /\ root.kind = "none" => root = NoRoot
      /\ root.kind # "doc" => root.prev = NoPair /\ ~root.upgrade /\ root.high = 0
      /\ root.kind = "doc" => root.cur # NoPair
      /\ root.upgrade => root.kind = "doc" /\ root.prev # NoPair
      /\ root # NoRoot => View(root.cur) # NotKept
  <2>1. root.kind \in {"none", "file2", "doc"} /\ (root.kind = "none" => root = NoRoot)
    BY <1>1 DEF RootOk, Roots
  <2>2. root.kind # "doc" => root.prev = NoPair /\ ~root.upgrade
    BY <1>1, <2>1, NoPairOk DEF RootOk
  <2>3. root.kind # "doc" => root.high = 0
    BY <1>1 DEF RootMeans
  <2>4. root.kind = "doc" => root.cur # NoPair
    BY <1>1, DocumentRoot, FullIsPair
  <2>5. root.upgrade => root.kind = "doc" /\ root.prev # NoPair
    BY <1>1, UpgradeIsDocument, DocumentRoot
  <2>6. root # NoRoot => View(root.cur) # NotKept
    BY <1>1, ViewListed DEF RootMeans
  <2> QED BY <2>1, <2>2, <2>3, <2>4, <2>5, <2>6
<1>3. NoRoot.kind = "none" /\ NoRoot.prev = NoPair /\ NoRoot.upgrade = FALSE /\ NoRoot.high = 0
  BY NoPairOk DEF NoRoot, Root
<1>4. CASE root' = root
  BY <1>4 DEF Store!vars
<1>5. CASE root' = NoRoot /\ root # NoRoot
  <2>1. Store!Remove
    BY <1>2, <1>3, <1>5 DEF Store!Remove
  <2> QED BY <2>1 DEF Store!Next
<1>6. CASE root.kind # "doc" /\ \E pkg \in Version, data \in Payload :
             root' = File2(root.serial + 1, pkg, data)
  <2>1. PICK pkg \in Version, data \in Payload : root' = File2(root.serial + 1, pkg, data)
    BY <1>6
  <2>2. /\ root'.kind = "file2" /\ root'.upgrade = FALSE /\ root'.high = 0
        /\ root'.cur = Pair(0, pkg, 0, Bytes(data)) /\ root'.prev = NoPair
    BY <2>1 DEF File2, Root
  <2>3. View(root'.cur) = [pkg |-> pkg, priv |-> data, file |-> << >>]
    BY <2>2 DEF View, Value, Pair, Bytes, Plain
  <2>4. /\ (root'.kind = "doc") = (root.kind = "doc") /\ root'.upgrade = root.upgrade
        /\ root'.high = root.high /\ root'.prev = root.prev /\ root' # NoRoot
    BY <1>1, <1>2, <1>3, <1>6, <2>2
  <2>5. View(root.prev)' = View(root.prev)
    BY <2>4
  <2>6. Store!Install(pkg, data)
    BY <1>6, <2>3, <2>4, <2>5 DEF Store!Install, Store!State
  <2> QED BY <2>6 DEF Store!Next
<1>7. CASE Leads(root, root')
  <2>0. root'.kind = "doc" /\ root' # NoRoot
    BY <1>3, <1>7 DEF Leads
  <2>1. CASE /\ root.kind = "file2" /\ root'.prev = NoPair /\ root'.upgrade = FALSE
             /\ root'.high = root.cur.pkg /\ NewBytes(root, root')
    <3>1. PICK v \in Payload : View(root'.cur) = [View(root.cur) EXCEPT !.priv = v]
      BY <2>1 DEF NewBytes
    <3>2. /\ root'.upgrade = root.upgrade /\ root'.prev = root.prev /\ root # NoRoot
          /\ View(root.cur).pkg = root.cur.pkg /\ (root'.kind = "doc") = TRUE
      BY <1>1, <1>2, <1>3, <2>0, <2>1, ViewTyped
    <3>3. View(root.prev)' = View(root.prev)
      BY <3>2
    <3>4. Store!Convert(v)
      BY <1>2, <2>0, <2>1, <3>1, <3>2, <3>3 DEF Store!Convert
    <3> QED BY <3>4 DEF Store!Next
  <2>2. CASE /\ root.kind = "doc" /\ root'.high = root.high /\ KeepsOld(root, root')
             /\ NewBytes(root, root') \/ NewFile(root, root')
    <3>1. root # NoRoot
      BY <1>3, <2>2
    <3>2. ASSUME NEW s, View(root'.cur) = s
          PROVE  Store!Save(s)
      BY <1>1, <1>2, <2>0, <2>2, <3>1, <3>2 DEF KeepsOld, Store!Save, Store!Keep
    <3>3. CASE NewBytes(root, root')
      <4>1. PICK v \in Payload : View(root'.cur) = [View(root.cur) EXCEPT !.priv = v]
        BY <3>3 DEF NewBytes
      <4>2. Store!Save([View(root.cur) EXCEPT !.priv = v])
        BY <3>2, <4>1
      <4> QED BY <2>2, <3>1, <4>2 DEF Store!Next
    <3>4. CASE NewFile(root, root')
      <4>0. PICK n \in 0..MaxChunks : \E f \in [1..n -> Payload] :
              View(root'.cur) = [View(root.cur) EXCEPT !.file = f]
        BY <3>4 DEF NewFile
      <4>1. PICK f \in [1..n -> Payload] :
              View(root'.cur) = [View(root.cur) EXCEPT !.file = f]
        BY <4>0
      <4>2. Store!Save([View(root.cur) EXCEPT !.file = f])
        BY <3>2, <4>1
      <4>3. f \in Store!Files
        BY DEF Store!Files
      <4> QED BY <2>2, <3>1, <4>2, <4>3 DEF Store!Next
    <3> QED BY <2>2, <3>3, <3>4
  <2>3. CASE /\ root.kind = "doc" /\ root'.high = root.high /\ Settles(root, root')
             /\ NewBytes(root, root')
    <3>1. root # NoRoot
      BY <1>3, <2>3
    <3>2. PICK v \in Payload : View(root'.cur) = [View(root.cur) EXCEPT !.priv = v]
      BY <2>3 DEF NewBytes
    <3>3. Store!SaveAndAccept([View(root.cur) EXCEPT !.priv = v])
      BY <1>1, <2>0, <2>3, <3>1, <3>2 DEF Settles, Store!SaveAndAccept
    <3> QED BY <2>3, <3>1, <3>3 DEF Store!Next
  <2>4. CASE /\ root.kind = "doc" /\ ~root.upgrade /\ root'.upgrade = TRUE /\ root'.prev = root.cur
             /\ root'.high \in Version /\ root'.high > root.high
             /\ View(root'.cur) = [View(root.cur) EXCEPT !.pkg = root'.high]
    <3>1. root # NoRoot
      BY <1>3, <2>4
    <3>2. Store!Upgrade(root'.high)
      BY <1>1, <1>2, <2>0, <2>4, <3>1 DEF Store!Upgrade
    <3> QED BY <2>4, <3>2 DEF Store!Next
  <2>5. CASE /\ root.kind = "doc" /\ root'.high = root.high /\ Settles(root, root')
             /\ View(root'.cur) \in {View(root.cur), View(root.prev)}
    <3>1. root # NoRoot
      BY <1>3, <2>5
    <3>2. ASSUME NEW s, View(root'.cur) = s
          PROVE  Store!Resolve(s)
      BY <1>1, <2>0, <2>5, <3>1, <3>2 DEF Settles, Store!Resolve
    <3>3. Store!Resolve(View(root.cur)) \/ Store!Resolve(View(root.prev))
      BY <2>5, <3>2
    <3> QED BY <1>2, <2>5, <3>1, <3>3 DEF Settles, Store!Next
  <2> QED BY <1>7, <2>1, <2>2, <2>3, <2>4, <2>5 DEF Leads
<1> QED BY <1>4, <1>5, <1>6, <1>7 DEF Changes

(***************************************************************************)
(* Steps that leave the root and what is on its way                        *)
(***************************************************************************)
LEMMA Undisturbed ==
  ASSUME StepMeans, root' = root,
         plain' = plain \/ plain'.phase \notin {"write", "verify", "commit"},
         ~Busy' \/ job'.collectOnly \/ job'.prune \/ (Busy /\ job' = job),
         file' = file \/ ~Building'
  PROVE  StepMeans' /\ Changes
<1>1. RootMeans(root)' /\ PlainMeans'
  BY DEF StepMeans, PlainMeans
<1>2. JobMeans'
  BY DEF StepMeans, JobMeans
<1>3. WriterMeans'
  <2>1. CASE file' = file
    BY <2>1 DEF StepMeans, WriterMeans, Building, Feeding, Storing, NextRoot
  <2>2. CASE ~Building'
    BY <2>2 DEF WriterMeans
  <2> QED BY <2>1, <2>2
<1> QED BY <1>1, <1>2, <1>3 DEF StepMeans, Changes

LEMMA NotBuilt == NoFile.phase = "idle" /\ NoPlain.phase = "none"
BY DEF NoFile, NoPlain

LEMMA SameEngine ==
  ASSUME UNCHANGED engine
  PROVE  ~Busy' \/ (Busy /\ job' = job)
BY DEF engine, Busy

LEMMA Halted ==
  ASSUME StopEngine
  PROVE  ~Busy'
BY DEF StopEngine, Busy

LEMMA QuietMeans ==
  ASSUME VolumeInv, StepMeans,
         \/ PlainFails \/ FileFails \/ CancelInstall \/ OpenSnapshot \/ CloseSnapshot
         \/ OpenFile \/ CancelWriter \/ CancelDocument \/ Mount \/ Initialize
         \/ PowerLoss \/ Decay \/ BeginRemove
  PROVE  StepMeans' /\ Changes
<1>1. CASE PlainFails \/ CancelInstall
  BY <1>1, NotBuilt, SameEngine, Undisturbed
     DEF PlainFails, CancelInstall, EndPlain, flash
<1>2. CASE FileFails
  <2>1. file'.phase = "failed" /\ UNCHANGED <<root, plain, engine>>
    BY <1>2 DEF FileFails, FileFailed, NoFile, flash, rest
  <2>2. ~Building'
    BY <2>1 DEF Building
  <2> QED BY <2>1, <2>2, SameEngine, Undisturbed
<1>3. CASE OpenSnapshot \/ CloseSnapshot \/ Mount \/ Decay
  <2>1. UNCHANGED <<root, plain, engine, file>>
    BY <1>3 DEF OpenSnapshot, CloseSnapshot, Mount, Decay, flash
  <2> QED BY <2>1, SameEngine, Undisturbed
<1>4. CASE OpenFile
  <2>1. file'.phase = "reading" /\ UNCHANGED <<root, plain, engine>>
    BY <1>4 DEF OpenFile, NoFile, flash
  <2>2. ~Building'
    BY <2>1 DEF Building
  <2> QED BY <2>1, <2>2, SameEngine, Undisturbed
<1>5. CASE CancelWriter
  <2>1. file' = NoFile /\ UNCHANGED <<root, plain>> /\ (StopEngine \/ UNCHANGED engine)
    BY <1>5 DEF CancelWriter
  <2>2. ~Building'
    BY <2>1, NotBuilt DEF Building
  <2> QED BY <2>1, <2>2, SameEngine, Halted, Undisturbed
<1>6. CASE CancelDocument
  <2>1. UNCHANGED <<root, plain, file>> /\ (StopEngine \/ UNCHANGED engine)
    BY <1>6 DEF CancelDocument, flash
  <2> QED BY <2>1, SameEngine, Halted, Undisturbed
<1>7. CASE Initialize
  <2>1. UNCHANGED <<root, plain, file>> /\ (StartPrune \/ UNCHANGED engine)
    BY <1>7 DEF Initialize
  <2>2. StartPrune => job'.prune
    BY DEF StartPrune, Job
  <2> QED BY <2>1, <2>2, SameEngine, Undisturbed
<1>8. CASE PowerLoss
  <2>1. file' = NoFile /\ plain' = NoPlain /\ root' = root /\ StopEngine
    BY <1>8 DEF PowerLoss, flash
  <2>2. ~Building'
    BY <2>1, NotBuilt DEF Building
  <2> QED BY <2>1, <2>2, NotBuilt, Halted, Undisturbed
<1>9. CASE BeginRemove
  <2>1. plain'.phase = "remove" /\ UNCHANGED <<root, engine, file>>
    BY <1>9 DEF BeginRemove, Removal, flash
  <2> QED BY <2>1, SameEngine, Undisturbed
<1> QED BY <1>1, <1>2, <1>3, <1>4, <1>5, <1>6, <1>7, <1>8, <1>9

----------------------------------------------------------------------------
(* The FILE2 file and the removal.                                          *)
LEMMA CombinedMeans ==
  ASSUME NEW pkg \in Version, NEW v \in Payload, NEW g \in Nat
  PROVE  RootMeans(File2(g, pkg, v))
<1>1. /\ File2(g, pkg, v).cur = Pair(0, pkg, 0, Bytes(v)) /\ File2(g, pkg, v).prev = NoPair
      /\ File2(g, pkg, v).high = 0
  BY DEF File2, Root
<1>2. Listed(Pair(0, pkg, 0, Bytes(v)))
  BY DEF Listed, Pair, Bytes, Plain
<1> QED BY <1>1, <1>2 DEF RootMeans

LEMMA BareMeans == RootMeans(NoRoot)
BY NoPairOk DEF RootMeans, NoRoot, Root

LEMMA InstallMeans ==
  ASSUME VolumeInv, StepMeans, BeginInstall
  PROVE  StepMeans' /\ Changes
<1>1. PICK pkg \in Version, data \in Payload :
        plain' = [phase |-> "write", rec |-> File2(root.serial + 1, pkg, data)]
  BY DEF BeginInstall
<1>2. UNCHANGED <<root, engine, file, phase, job>>
  BY DEF BeginInstall, flash, engine
<1>3. PlainMeans'
  BY <1>1, <1>2 DEF PlainMeans
<1>4. RootMeans(root)' /\ JobMeans' /\ WriterMeans'
  BY <1>2 DEF StepMeans, JobMeans, Busy, WriterMeans, Building, Feeding, Storing, NextRoot
<1> QED BY <1>2, <1>3, <1>4 DEF StepMeans, Changes

LEMMA NobodyWrites ==
  ASSUME VolumeInv, plain.phase # "none"
  PROVE  ~Busy /\ ~Building
<1>1. ~Busy /\ file = NoFile
  BY DEF VolumeInv, Control
<1> QED BY <1>1, NotBuilt DEF Building

LEMMA InstallStepMeans ==
  ASSUME VolumeInv, StepMeans, InstallStep
  PROVE  StepMeans' /\ Changes
<1>1. /\ plain.phase \in {"write", "verify", "commit"}
      /\ UNCHANGED <<engine, file>>
  BY DEF InstallStep
<1>2. ~Busy /\ ~Building
  BY <1>1, NobodyWrites
<1>3. PICK pkg \in Version, data \in Payload : plain.rec = File2(root.serial + 1, pkg, data)
  BY <1>1 DEF StepMeans, PlainMeans
<1>4. CASE root' = root /\ plain'.rec = plain.rec
  <2>1. PlainMeans'
    BY <1>3, <1>4 DEF PlainMeans
  <2>2. RootMeans(root)'
    BY <1>4 DEF StepMeans
  <2>3. JobMeans' /\ WriterMeans'
    BY <1>1, <1>2 DEF JobMeans, WriterMeans, Busy, Building, engine
  <2> QED BY <1>4, <2>1, <2>2, <2>3 DEF StepMeans, Changes
<1>5. CASE root' = root /\ plain' = NoPlain
  BY <1>1, <1>5, NotBuilt, SameEngine, Undisturbed
<1>6. CASE plain.phase = "commit" /\ root' = pending /\ plain' = NoPlain
  <2>1. pending = plain.rec /\ root.kind # "doc" /\ root.serial + 1 \in Nat
    BY <1>6 DEF VolumeInv, Control, Stored, Roots
  <2>2. root' = File2(root.serial + 1, pkg, data)
    BY <1>3, <1>6, <2>1
  <2>3. RootMeans(root')
    BY <2>1, <2>2, CombinedMeans
  <2>4. PlainMeans' /\ JobMeans' /\ WriterMeans'
    BY <1>1, <1>2, <1>6, NotBuilt DEF PlainMeans, JobMeans, WriterMeans, Busy, Building, engine
  <2> QED BY <2>1, <2>2, <2>3, <2>4 DEF StepMeans, Changes
<1>7. \/ root' = root /\ plain'.rec = plain.rec
      \/ root' = root /\ plain' = NoPlain
      \/ plain.phase = "commit" /\ root' = pending /\ plain' = NoPlain
  <2>1. plain \in Plains
    BY DEF VolumeInv, Owned
  <2> QED BY <2>1 DEF InstallStep, EndPlain, flash, Plains
<1> QED BY <1>4, <1>5, <1>6, <1>7

LEMMA RemoveRootMeans ==
  ASSUME VolumeInv, StepMeans, RemoveRoot
  PROVE  StepMeans' /\ Changes
<1>1. /\ plain.phase = "remove" /\ root' = NoRoot /\ plain' = NoPlain /\ file' = file
      /\ StartPrune \/ UNCHANGED engine
  BY DEF RemoveRoot
<1>2. ~Busy /\ ~Building
  BY <1>1, NobodyWrites
<1>3. JobMeans'
  BY <1>1, <1>2 DEF JobMeans, Busy, StartPrune, Job, engine
<1>4. PlainMeans' /\ WriterMeans'
  BY <1>1, <1>2, NotBuilt DEF PlainMeans, WriterMeans, Building
<1> QED BY <1>1, <1>3, <1>4, BareMeans DEF StepMeans, Changes

----------------------------------------------------------------------------
(* Document transactions.                                                   *)
LEMMA DocumentMeans ==
  ASSUME VolumeInv, StepMeans, NEW after, NEW p, NEW d, BeginDocument(after, p, d),
         Leads(root, after)
  PROVE  StepMeans' /\ Changes
<1>1. /\ job' = Job(root, after, p, d, FALSE, FALSE) /\ file' = NoFile
      /\ UNCHANGED <<root, plain>>
  BY DEF BeginDocument, Start, flash
<1>2. job'.after = after
  BY <1>1 DEF Job
<1>3. JobMeans'
  BY <1>1, <1>2 DEF JobMeans
<1>4. RootMeans(root)' /\ PlainMeans' /\ WriterMeans'
  BY <1>1, NotBuilt DEF StepMeans, PlainMeans, WriterMeans, Building
<1> QED BY <1>1, <1>3, <1>4 DEF StepMeans, Changes

LEMMA InstalledMeans ==
  ASSUME VolumeInv, StepMeans, root.kind \in {"file2", "doc"}
  PROVE  /\ RootOk(root) /\ root \in Roots /\ RootMeans(root)
         /\ Listed(root.cur) /\ root.cur.pkg \in Version
         /\ PairOk(root.cur, root.serial) /\ root.cur \in Pairs
         /\ root.prev # NoPair => Listed(root.prev)
<1>1. RootOk(root) /\ root \in Roots /\ RootMeans(root) /\ root # NoRoot
  BY NoPairOk DEF VolumeInv, Core, Stored, StepMeans
<1>2. PairOk(root.cur, root.serial)
  BY <1>1 DEF RootOk, FullPair
<1> QED BY <1>1, <1>2 DEF RootMeans, Listed, PairOk

\* A pair with bytes has no file.
LEMMA BytesView ==
  ASSUME NEW pair, NEW g, PairOk(pair, g), pair.data.kind = "bytes"
  PROVE  View(pair) = [pkg |-> pair.pkg, priv |-> pair.data.val, file |-> << >>]
<1>1. pair.data.file = << >>
  BY PlainPair
<1> QED BY <1>1 DEF View, Value

LEMMA ConversionMeans ==
  ASSUME VolumeInv, StepMeans, BeginConversion
  PROVE  StepMeans' /\ Changes
<1> DEFINE g == root.serial + 1
           pair(v) == Pair(g, root.cur.pkg, g, Bytes(v))
           after(v) == Root("doc", g, FALSE, root.cur.pkg, pair(v), NoPair)
<1>1. PICK v \in Payload : BeginDocument(after(v), TRUE, TRUE)
  BY DEF BeginConversion
<1>2. root.kind = "file2"
  BY DEF BeginConversion
<1>3. root.cur.pkg \in Version /\ PairOk(root.cur, root.serial) /\ root.cur.data.kind = "bytes"
  BY <1>2, InstalledMeans DEF RootOk
<1>4. View(root.cur) = [pkg |-> root.cur.pkg, priv |-> root.cur.data.val, file |-> << >>]
  BY <1>3, BytesView
<1>5. View(pair(v)) = [pkg |-> root.cur.pkg, priv |-> v, file |-> << >>]
  BY DEF View, Value, Pair, Bytes, Plain
<1>6. /\ after(v).kind = "doc" /\ after(v).cur = pair(v) /\ after(v).prev = NoPair
      /\ after(v).upgrade = FALSE /\ after(v).high = root.cur.pkg
  BY DEF Root
<1>7. Listed(pair(v))
  BY <1>3 DEF Listed, Pair, Bytes, Plain
<1> HIDE DEF pair, after
<1>8. RootMeans(after(v))
  BY <1>6, <1>7 DEF RootMeans
<1>9. NewBytes(root, after(v))
  BY <1>4, <1>5, <1>6 DEF NewBytes
<1>10. Leads(root, after(v))
  BY <1>2, <1>6, <1>8, <1>9 DEF Leads
<1> QED BY <1>1, <1>10, DocumentMeans

LEMMA NextFields ==
  ASSUME root \in Roots
  PROVE  /\ NextRoot.kind = root.kind /\ NextRoot.high = root.high
         /\ NextRoot.cur = root.cur /\ NextRoot.upgrade = root.upgrade
         /\ NextRoot.prev = IF root.upgrade THEN root.prev ELSE root.cur
         /\ Accepted(NextRoot).kind = root.kind /\ Accepted(NextRoot).high = root.high
         /\ Accepted(NextRoot).cur = root.cur /\ Accepted(NextRoot).upgrade = FALSE
         /\ Accepted(NextRoot).prev = NoPair
<1> DEFINE old == IF root.upgrade THEN root.prev ELSE root.cur
<1>0. NextRoot = [root EXCEPT !.serial = root.serial + 1, !.prev = old]
  BY DEF NextRoot
<1>o. old \in Pairs
  BY DEF Roots
<1> HIDE DEF old
<1>1. /\ NextRoot.kind = root.kind /\ NextRoot.high = root.high
      /\ NextRoot.cur = root.cur /\ NextRoot.upgrade = root.upgrade
      /\ NextRoot.prev = old /\ NextRoot \in Roots
  <2>1. root.serial + 1 \in Nat
    BY DEF Roots
  <2> DEFINE next == [root EXCEPT !.serial = root.serial + 1, !.prev = old]
  <2>2. next \in Roots
    BY <1>o, <2>1 DEF Roots
  <2>3. /\ next.kind = root.kind /\ next.high = root.high /\ next.cur = root.cur
        /\ next.upgrade = root.upgrade /\ next.prev = old
    BY DEF Roots
  <2> QED BY <1>0, <2>2, <2>3
<1>2. /\ Accepted(NextRoot).kind = NextRoot.kind /\ Accepted(NextRoot).high = NextRoot.high
      /\ Accepted(NextRoot).cur = NextRoot.cur /\ Accepted(NextRoot).upgrade = FALSE
      /\ Accepted(NextRoot).prev = NoPair
  BY <1>1 DEF Accepted, Roots
<1> QED BY <1>1, <1>2 DEF old

\* What a save may make of the root.
LEMMA SaveLeads ==
  ASSUME VolumeInv, StepMeans, root.kind = "doc", NEW a, NEW s,
         a = NextRoot \/ (a = Accepted(NextRoot) /\ root.upgrade),
         s.kind = a.kind, s.high = a.high, s.upgrade = a.upgrade, s.prev = a.prev,
         Listed(s.cur),
         NewBytes(root, s) \/ (a = NextRoot /\ NewFile(root, s))
  PROVE  Leads(root, s)
<1>1. /\ RootOk(root) /\ root \in Roots /\ Listed(root.cur)
      /\ root.prev # NoPair => Listed(root.prev)
  BY InstalledMeans
<1>2. s.kind = "doc" /\ s.high = root.high /\ s.prev \in {NoPair, root.cur, root.prev}
  BY <1>1, NextFields
<1>3. RootMeans(s)
  BY <1>1, <1>2 DEF RootMeans
<1>4. CASE a = NextRoot
  <2>1. KeepsOld(root, s)
    BY <1>1, <1>4, NextFields DEF KeepsOld
  <2> QED BY <1>2, <1>3, <2>1 DEF Leads
<1>5. CASE a = Accepted(NextRoot) /\ root.upgrade /\ NewBytes(root, s)
  <2>1. Settles(root, s)
    BY <1>1, <1>5, NextFields DEF Settles
  <2> QED BY <1>2, <1>3, <1>5, <2>1 DEF Leads
<1> QED BY <1>4, <1>5

LEMMA CheckpointMeans ==
  ASSUME VolumeInv, StepMeans, BeginCheckpoint
  PROVE  StepMeans' /\ Changes
<1> DEFINE saved(accept, v) == [Checkpointed(accept) EXCEPT
                                  !.cur.d = Checkpointed(accept).serial,
                                  !.cur.data = Bytes(v)]
<1>1. PICK v \in Payload, accept \in {FALSE, root.upgrade} :
        BeginDocument(saved(accept, v), FALSE, TRUE)
  BY Zenon DEF BeginCheckpoint
<1>2. root.kind = "doc" /\ root.cur.data.kind = "bytes"
  BY DEF BeginCheckpoint
<1>3. /\ RootOk(root) /\ root \in Roots /\ root.cur.pkg \in Version
      /\ PairOk(root.cur, root.serial) /\ root.cur \in Pairs /\ root.serial < MaxSerial
      /\ root.upgrade \in BOOLEAN
  BY <1>2, InstalledMeans, Advance DEF BeginCheckpoint, Roots
<1> DEFINE a == Checkpointed(accept)
           pair == [root.cur EXCEPT !.d = a.serial, !.data = Bytes(v)]
<1>4. a = NextRoot \/ (a = Accepted(NextRoot) /\ root.upgrade)
  BY <1>1, <1>3 DEF Checkpointed
<1>5. a \in Roots /\ a.cur = root.cur
  BY <1>2, <1>3, <1>4, NextRoots, NextFields
<1>6. saved(accept, v) = [a EXCEPT !.cur = pair]
  BY <1>5 DEF Roots
<1>7. pair.pkg = root.cur.pkg /\ pair.data = Bytes(v)
  BY <1>3 DEF Pairs
<1> HIDE DEF a, saved, pair
<1>8. /\ [a EXCEPT !.cur = pair].kind = a.kind /\ [a EXCEPT !.cur = pair].high = a.high
      /\ [a EXCEPT !.cur = pair].upgrade = a.upgrade /\ [a EXCEPT !.cur = pair].prev = a.prev
      /\ [a EXCEPT !.cur = pair].cur = pair
  BY <1>5 DEF Roots
<1>9. View(root.cur) = [pkg |-> root.cur.pkg, priv |-> root.cur.data.val, file |-> << >>]
  BY <1>2, <1>3, BytesView
<1>10. View(pair) = [pkg |-> root.cur.pkg, priv |-> v, file |-> << >>]
  BY <1>7 DEF View, Value, Bytes, Plain
<1>11. Listed(pair)
  BY <1>3, <1>7 DEF Listed, Bytes, Plain
<1> DEFINE s == [a EXCEPT !.cur = pair]
<1> HIDE DEF s
<1>12. NewBytes(root, s)
  BY <1>8, <1>9, <1>10 DEF NewBytes, s
<1>13. Leads(root, s)
  BY <1>2, <1>4, <1>8, <1>11, <1>12, SaveLeads DEF s
<1> QED BY <1>1, <1>6, <1>13, DocumentMeans DEF s

LEMMA UpgradeMeans ==
  ASSUME VolumeInv, StepMeans, BeginUpgrade
  PROVE  StepMeans' /\ Changes
<1> DEFINE g == root.serial + 1
           pair(v) == [root.cur EXCEPT !.p = g, !.pkg = v]
           after(v) == Root("doc", g, TRUE, v, pair(v), root.cur)
<1>1. PICK v \in Version : v > root.high /\ BeginDocument(after(v), TRUE, FALSE)
  BY DEF BeginUpgrade
<1>2. root.kind = "doc" /\ ~root.upgrade
  BY DEF BeginUpgrade
<1>3. Listed(root.cur) /\ root.cur \in Pairs
  BY <1>2, InstalledMeans
<1>4. pair(v).pkg = v /\ pair(v).data = root.cur.data
  BY <1>3 DEF Pairs
<1>5. /\ after(v).kind = "doc" /\ after(v).cur = pair(v) /\ after(v).prev = root.cur
      /\ after(v).upgrade = TRUE /\ after(v).high = v
  BY DEF Root
<1> HIDE DEF pair, after
<1>6. RootMeans(after(v))
  BY <1>3, <1>4, <1>5 DEF RootMeans, Listed
<1>7. View(pair(v)) = [View(root.cur) EXCEPT !.pkg = v]
  <2>1. /\ View(pair(v)).file = View(root.cur).file
        /\ Value(pair(v)) = Value(root.cur)
    BY <1>4, ViewShown
  <2>2. \A p : View(p) = [pkg |-> p.pkg, priv |-> Value(p), file |-> View(p).file]
    BY DEF View
  <2> QED BY <1>4, <2>1, <2>2
<1>8. Leads(root, after(v))
  BY <1>1, <1>2, <1>5, <1>6, <1>7 DEF Leads
<1> QED BY <1>1, <1>8, DocumentMeans

LEMMA SettleMeans ==
  ASSUME VolumeInv, StepMeans, BeginAccept \/ BeginRollback
  PROVE  StepMeans' /\ Changes
<1>1. CanAdvance /\ root.upgrade
  BY DEF BeginAccept, BeginRollback
<1>2. RootOk(root) /\ root \in Roots /\ root.kind = "doc" /\ root.prev # NoPair
  BY <1>1, Advance, UpgradeIsDocument, DocumentRoot
<1>3. Listed(root.cur) /\ Listed(root.prev)
  BY <1>2, InstalledMeans
<1>4. ASSUME NEW s, s.kind = "doc", s.high = root.high, s.upgrade = FALSE, s.prev = NoPair,
             s.cur \in {root.cur, root.prev}
      PROVE  Leads(root, s)
  <2>1. RootMeans(s)
    BY <1>3, <1>4 DEF RootMeans
  <2> QED BY <1>1, <1>2, <1>4, <2>1 DEF Leads, Settles
<1>5. CASE BeginAccept
  <2> DEFINE s == Accepted([root EXCEPT !.serial = @ + 1])
  <2>1. /\ s.kind = "doc" /\ s.high = root.high /\ s.upgrade = FALSE /\ s.prev = NoPair
        /\ s.cur = root.cur
    BY <1>2 DEF Accepted, Roots
  <2>2. BeginDocument(s, FALSE, FALSE)
    BY <1>5 DEF BeginAccept
  <2> HIDE DEF s
  <2> QED BY <1>4, <2>1, <2>2, DocumentMeans
<1>6. CASE BeginRollback
  <2> DEFINE s == Accepted([root EXCEPT !.serial = @ + 1, !.cur = root.prev])
  <2>1. /\ s.kind = "doc" /\ s.high = root.high /\ s.upgrade = FALSE /\ s.prev = NoPair
        /\ s.cur = root.prev
    BY <1>2 DEF Accepted, Roots
  <2>2. BeginDocument(s, FALSE, FALSE)
    BY <1>6 DEF BeginRollback
  <2> HIDE DEF s
  <2> QED BY <1>4, <2>1, <2>2, DocumentMeans
<1> QED BY <1>5, <1>6

\* The engine leaves the root alone until it renames the new one.
LEMMA EngineMeans ==
  ASSUME VolumeInv, EngineStep
  PROVE  /\ Busy' => Busy /\ job' = job
         /\ \/ root' = root
            \/ /\ root' = job.after /\ ~Busy'
               /\ phase = "commit" /\ Busy /\ ~job.prune /\ ~job.collectOnly
<1>1. Stored /\ Core /\ Flags /\ Verified
  BY DEF VolumeInv, Core
<1>2. Busy /\ (phase # "commit" => root' = root)
  BY <1>1, EnginePhases
<1>3. Busy' => job' = job
  <2>1. ASSUME NEW next, Goto(next), Busy'
        PROVE  job' = job
    BY <2>1 DEF Goto, Busy
  <2> QED BY <2>1 DEF EngineStep, Check, CheckStaged, OpenDirectory, Collect, CollectEnds,
       WriteObject, Create, Verify, RootWrite, RootVerify, Commit, RemoveDirectory,
       EngineFails, Continue
<1>4. CASE phase = "commit"
  <2>1. pending = job.after /\ ~job.prune /\ ~job.collectOnly
    BY <1>1, <1>4 DEF Verified, Flags, Late
  <2>2. EngineStep => Commit \/ EngineFails
    BY <1>4 DEF EngineStep, Check, CheckStaged, OpenDirectory, Collect, CollectEnds,
       WriteObject, Verify, RootWrite, RootVerify, RemoveDirectory
  <2>3. ~Busy'
    BY <2>2 DEF Commit, EngineFails, Goto, Busy
  <2>4. root' = root \/ root' = pending
    BY <2>2 DEF Commit, EngineFails, flash
  <2> QED BY <1>2, <1>4, <2>1, <2>3, <2>4
<1> QED BY <1>2, <1>3, <1>4

LEMMA RunMeans ==
  ASSUME VolumeInv, StepMeans, EngineStep, plain' = plain, ~Building,
         file' = file \/ ~Building'
  PROVE  StepMeans' /\ Changes
<1>1. /\ Busy' => Busy /\ job' = job
      /\ \/ root' = root
         \/ /\ root' = job.after /\ ~Busy'
            /\ phase = "commit" /\ Busy /\ ~job.prune /\ ~job.collectOnly
  BY EngineMeans
<1>2. CASE root' = root
  BY <1>1, <1>2, Undisturbed
<1>3. CASE /\ root' = job.after /\ ~Busy'
           /\ phase = "commit" /\ Busy /\ ~job.prune /\ ~job.collectOnly
  <2>1. Leads(root, root')
    BY <1>3 DEF StepMeans, JobMeans
  <2>2. RootMeans(root')
    BY <2>1 DEF Leads
  <2>3. plain.phase = "none"
    BY <1>3, NobodyWrites
  <2>4. PlainMeans' /\ JobMeans' /\ WriterMeans'
    BY <1>3, <2>3 DEF PlainMeans, JobMeans, WriterMeans, Building
  <2> QED BY <2>1, <2>2, <2>4 DEF StepMeans, Changes
<1> QED BY <1>1, <1>2, <1>3

LEMMA DocumentStepMeans ==
  ASSUME VolumeInv, StepMeans, DocumentStep
  PROVE  StepMeans' /\ Changes
<1>1. EngineStep /\ UNCHANGED <<file, plain>> /\ file = NoFile
  BY DEF DocumentStep, VolumeInv, Control
<1>2. ~Building
  BY <1>1, NotBuilt DEF Building
<1> QED BY <1>1, <1>2, RunMeans

----------------------------------------------------------------------------
(* The writer.                                                              *)

\* What an operation of the writer may start with.
StartMeans(mode, after, priv, named, slot, last) ==
  /\ \A i \in DOMAIN named : named[i].val \in Payload \/ (mode = "fill" /\ i \in slot..last)
  /\ \/ /\ mode = "fill" /\ last = 0 /\ slot = 0
        /\ after # NextRoot => root.upgrade
        /\ View(root.cur).file = [i \in DOMAIN named |-> named[i].val]
     \/ slot # 0 /\ after = NextRoot /\ priv[1].val = Value(root.cur)

LEMMA BeginFileMeans ==
  ASSUME VolumeInv, StepMeans, NEW mode, NEW after, NEW priv, NEW named, NEW slot, NEW last,
         BeginFile(mode, after, priv, named, slot, last),
         StartMeans(mode, after, priv, named, slot, last)
  PROVE  StepMeans' /\ Changes
<1>1. /\ job' = Job(root, root, FALSE, FALSE, TRUE, FALSE) /\ UNCHANGED <<root, plain>>
      /\ file' = [phase |-> "preparing", mode |-> mode, before |-> root, after |-> after,
                  priv |-> priv, file |-> named, slot |-> slot, last |-> last,
                  part |-> 0, val |-> 0]
  BY DEF BeginFile, Start, NoFile, flash
<1>2. job'.collectOnly
  BY <1>1 DEF Job
<1>3. /\ file'.phase = "preparing" /\ file'.mode = mode /\ file'.after = after
      /\ file'.priv = priv /\ file'.file = named /\ file'.slot = slot /\ file'.last = last
  BY <1>1
<1>4. Value(root.cur)' = Value(root.cur) /\ View(root.cur)' = View(root.cur)
      /\ NextRoot' = NextRoot
  BY <1>1 DEF NextRoot
<1>5. (Feeding \/ Storing)'
  BY <1>1, <1>3, <1>4 DEF StartMeans, Feeding, Storing
<1>6. WriterMeans'
  BY <1>3, <1>5 DEF StartMeans, WriterMeans
<1>7. RootMeans(root)' /\ PlainMeans' /\ JobMeans'
  BY <1>1, <1>2 DEF StepMeans, PlainMeans, JobMeans
<1> QED BY <1>1, <1>6, <1>7 DEF StepMeans, Changes

\* The current file as an index: its private bytes, and bytes in every chunk.
LEMMA IndexMeans ==
  ASSUME VolumeInv, StepMeans, root.kind = "doc", NEW old, old = IndexOf(root.cur)
  PROVE  /\ old.priv[1].val = Value(root.cur)
         /\ \A i \in DOMAIN old.file : old.file[i].val \in Payload
<1>1. Listed(root.cur)
  BY InstalledMeans
<1>2. CASE root.cur.data.kind = "index"
  BY <1>1, <1>2 DEF IndexOf, Value, Listed
<1>3. CASE root.cur.data.kind # "index"
  <2>1. old.priv = <<Extent(Data(root.cur.d), root.cur.data.val)>> /\ old.file = << >>
    BY <1>3 DEF IndexOf, Index
  <2>2. old.priv[1].val = root.cur.data.val
    BY <2>1 DEF Extent
  <2> QED BY <1>3, <2>1, <2>2 DEF Value
<1> QED BY <1>2, <1>3

LEMMA FeedMeans ==
  ASSUME VolumeInv, StepMeans, BeginFeed
  PROVE  StepMeans' /\ Changes
<1>1. PICK accept \in {FALSE, root.upgrade} :
        BeginFile("fill", Checkpointed(accept), <<Blank>>, root.cur.data.file, 0, 0)
  BY Zenon DEF BeginFeed
<1>2. root.kind = "doc"
  BY DEF BeginFeed
<1>3. Listed(root.cur) /\ root.upgrade \in BOOLEAN
  BY <1>2, InstalledMeans DEF Roots
<1>4. Checkpointed(accept) # NextRoot => root.upgrade
  BY <1>3 DEF Checkpointed
<1>5. View(root.cur).file = [i \in DOMAIN root.cur.data.file |-> root.cur.data.file[i].val]
  BY ViewTyped
<1>6. StartMeans("fill", Checkpointed(accept), <<Blank>>, root.cur.data.file, 0, 0)
  BY <1>3, <1>4, <1>5 DEF StartMeans, Listed
<1> QED BY <1>1, <1>6, BeginFileMeans

LEMMA WriteMeans ==
  ASSUME VolumeInv, StepMeans, BeginWrite \/ BeginStream \/ ChangeFile
  PROVE  StepMeans' /\ Changes
<1> DEFINE old == IndexOf(root.cur)
<1>1. root.kind = "doc" /\ CanAdvance
  BY DEF BeginWrite, BeginStream, ChangeFile
<1>2. /\ old.priv[1].val = Value(root.cur)
      /\ \A i \in DOMAIN old.file : old.file[i].val \in Payload
  BY <1>1, IndexMeans
<1>3. old.file \in Seq(Exts)
  BY <1>1, Advance, IndexPieces
<1> HIDE DEF old
<1>4. ASSUME NEW mode, NEW named \in {<< >>, old.file}, NEW slot, NEW last, slot # 0,
             BeginFile(mode, NextRoot, old.priv, named, slot, last)
      PROVE  StepMeans' /\ Changes
  <2>1. StartMeans(mode, NextRoot, old.priv, named, slot, last)
    BY <1>2, <1>4 DEF StartMeans
  <2> QED BY <1>4, <2>1, BeginFileMeans
<1>5. ASSUME NEW n \in 0..MaxChunks, BeginFile("fill", NextRoot, old.priv, Blanks(n), 1, n)
      PROVE  StepMeans' /\ Changes
  <2>1. DOMAIN Blanks(n) = 1..n
    BY DEF Blanks
  <2>2. StartMeans("fill", NextRoot, old.priv, Blanks(n), 1, n)
    BY <1>2, <2>1 DEF StartMeans
  <2> QED BY <1>5, <2>2, BeginFileMeans
<1>6. ASSUME NEW lo \in DOMAIN old.file, NEW hi \in lo..Len(old.file),
             BeginFile("fill", NextRoot, old.priv, old.file, lo, hi)
      PROVE  StepMeans' /\ Changes
  <2>1. lo # 0
    BY <1>3
  <2> QED BY <1>4, <1>6, <2>1
<1>7. CASE BeginWrite
  BY <1>5, <1>6, <1>7 DEF BeginWrite, old
<1>8. CASE BeginStream \/ ChangeFile
  <2>1. PICK mode \in {"fill", "stream"}, named \in {<< >>, old.file} :
          BeginFile(mode, NextRoot, old.priv, named, 1, 0)
    BY <1>8 DEF BeginStream, ChangeFile, old
  <2> QED BY <1>4, <2>1
<1> QED BY <1>7, <1>8

\* A step of the writer alone.
LEMMA WriterStep ==
  ASSUME VolumeInv, StepMeans, Building, UNCHANGED <<root, plain, engine>>, WriterMeans'
  PROVE  StepMeans' /\ Changes
<1>1. RootMeans(root)' /\ PlainMeans' /\ JobMeans'
  BY DEF StepMeans, PlainMeans, JobMeans, Busy, engine
<1> QED BY <1>1 DEF StepMeans, Changes

LEMMA FailedMeans ==
  ASSUME FileFailed
  PROVE  ~Building' /\ WriterMeans'
<1>1. file'.phase = "failed"
  BY DEF FileFailed, NoFile
<1> QED BY <1>1 DEF Building, WriterMeans

LEMMA OpenChunkMeans ==
  ASSUME VolumeInv, StepMeans, file.phase = "writable", UNCHANGED <<root, plain, engine>>,
         NEW part, NEW slot, NEW staged, OpenChunk(part, slot, staged),
         slot = file.slot \/ (file.mode = "stream" /\ slot # 0)
  PROVE  StepMeans' /\ Changes
<1>1. Building
  BY DEF Building
<1>2. /\ \A i \in DOMAIN file.file :
           \/ file.file[i].val \in Payload
           \/ file.mode = "fill" /\ i \in file.slot..file.last
      /\ Feeding \/ Storing
  BY <1>1 DEF StepMeans, WriterMeans
<1>3. CASE FileFailed
  BY <1>1, <1>3, FailedMeans, WriterStep
<1>4. CASE ~FileFailed
  <2>1. PICK v \in Payload : file' = [file EXCEPT !.phase = "chunk", !.part = part,
                                                  !.slot = slot, !.val = v]
    BY <1>4 DEF OpenChunk
  <2>2. file \in Files
    BY <1>1, WriterAt
  <2>3. /\ file'.mode = file.mode /\ file'.after = file.after /\ file'.priv = file.priv
        /\ file'.file = file.file /\ file'.last = file.last /\ file'.slot = slot
        /\ file'.val = v /\ file'.phase = "chunk"
    BY <2>1, <2>2 DEF Files
  <2>4. Value(root.cur)' = Value(root.cur) /\ View(root.cur)' = View(root.cur)
        /\ NextRoot' = NextRoot /\ root' = root
    BY DEF NextRoot
  <2>5. CASE slot = file.slot
    <3>1. (Feeding \/ Storing)'
      BY <1>2, <2>3, <2>4, <2>5 DEF Feeding, Storing
    <3>2. WriterMeans'
      BY <1>2, <2>3, <2>5, <3>1 DEF WriterMeans
    <3> QED BY <1>1, <3>2, WriterStep
  <2>6. CASE file.mode = "stream" /\ slot # 0
    <3>1. Storing
      BY <1>2, <2>6 DEF Feeding
    <3>2. Storing'
      BY <2>3, <2>4, <2>6, <3>1 DEF Storing
    <3>3. WriterMeans'
      BY <1>2, <2>3, <2>6, <3>2 DEF WriterMeans
    <3> QED BY <1>1, <3>3, WriterStep
  <2> QED BY <2>5, <2>6
<1> QED BY <1>3, <1>4

LEMMA ChunkMeans ==
  ASSUME VolumeInv, StepMeans, PrepareChunk \/ FlushChunk \/ CloseChunk
  PROVE  StepMeans' /\ Changes
<1>1. CASE PrepareChunk
  <2>1. /\ file.phase = "writable" /\ OpenChunk(file.part + 1, file.slot, FALSE)
        /\ UNCHANGED <<root, plain, engine>>
    BY <1>1 DEF PrepareChunk, rest
  <2> QED BY <2>1, OpenChunkMeans
<1>2. CASE FlushChunk
  <2>1. /\ file.phase = "writable" /\ file.mode = "stream"
        /\ UNCHANGED <<root, plain, engine>>
    BY <1>2 DEF FlushChunk, rest
  <2>2. Building
    BY <2>1 DEF Building
  <2>3. CASE FileFailed
    BY <2>1, <2>2, <2>3, FailedMeans, WriterStep
  <2>4. ASSUME NEW slot \in 1..MaxChunks, OpenChunk(slot, slot, StagedChunk(slot))
        PROVE  StepMeans' /\ Changes
    <3>1. slot # 0
      BY Numbers
    <3> QED BY <2>1, <2>4, <3>1, OpenChunkMeans
  <2> QED BY <1>2, <2>3, <2>4 DEF FlushChunk
<1>3. CASE CloseChunk
  <2>1. /\ file.phase = "chunk" /\ file' = [file EXCEPT !.phase = "verify"]
        /\ UNCHANGED <<root, plain, engine>>
    BY <1>3 DEF CloseChunk, rest
  <2>2. Building
    BY <2>1 DEF Building
  <2>3. file \in Files
    BY <2>2, WriterAt
  <2>4. /\ file'.mode = file.mode /\ file'.after = file.after /\ file'.priv = file.priv
        /\ file'.file = file.file /\ file'.last = file.last /\ file'.slot = file.slot
        /\ file'.val = file.val /\ file'.phase = "verify"
    BY <2>1, <2>3 DEF Files
  <2>5. /\ file.val \in Payload
        /\ \A i \in DOMAIN file.file :
             \/ file.file[i].val \in Payload
             \/ file.mode = "fill" /\ i \in file.slot..file.last
        /\ Feeding \/ Storing
    BY <2>1, <2>2 DEF StepMeans, WriterMeans
  <2>6. Value(root.cur)' = Value(root.cur) /\ View(root.cur)' = View(root.cur)
        /\ NextRoot' = NextRoot
    BY <2>1 DEF NextRoot
  <2>7. (Feeding \/ Storing)'
    BY <2>1, <2>4, <2>5, <2>6 DEF Feeding, Storing
  <2>8. WriterMeans'
    BY <2>4, <2>5, <2>7 DEF WriterMeans
  <2> QED BY <2>1, <2>2, <2>8, WriterStep
<1> QED BY <1>1, <1>2, <1>3

\* A chunk put in its place.
LEMMA ExtendedMeans ==
  ASSUME NEW seq \in Seq(Exts), NEW slot, NEW x,
         NEW i \in DOMAIN Extended(seq, slot, x)
  PROVE  \/ Extended(seq, slot, x)[i] = x
         \/ i \in DOMAIN seq /\ Extended(seq, slot, x)[i] = seq[i] /\ i # slot
<1>1. CASE slot \in DOMAIN seq
  BY <1>1 DEF Extended
<1>2. CASE slot \notin DOMAIN seq
  <2>1. Extended(seq, slot, x) = Append(seq, x)
    BY <1>2 DEF Extended
  <2>2. i \in 1..(Len(seq) + 1) /\ DOMAIN seq = 1..Len(seq) /\ Len(seq) \in Nat
    <3>1. DOMAIN Append(seq, x) = 1..(Len(seq) + 1)
      OBVIOUS
    <3> QED BY <2>1, <3>1
  <2>3. CASE i = Len(seq) + 1
    BY <2>1, <2>3
  <2>4. CASE i # Len(seq) + 1
    <3>1. i \in 1..Len(seq)
      BY <2>2, <2>4
    <3>2. Append(seq, x)[i] = seq[i]
      BY <3>1
    <3> QED BY <1>2, <2>1, <2>2, <3>1, <3>2
  <2> QED BY <2>3, <2>4
<1> QED BY <1>1, <1>2

LEMMA VerifyChunkMeans ==
  ASSUME VolumeInv, StepMeans, VerifyChunk
  PROVE  StepMeans' /\ Changes
<1> DEFINE x == Extent(Target, file.val)
           next == [file EXCEPT
                     !.phase = "writable",
                     !.priv = IF file.slot = 0 THEN <<x>> ELSE file.priv,
                     !.file = IF file.slot = 0 THEN file.file
                                               ELSE Extended(file.file, file.slot, x),
                     !.slot = file.slot + 1, !.val = 0]
<1>1. /\ file.phase = "verify" /\ UNCHANGED <<root, plain, engine>>
      /\ FileFailed \/ file' = next
  BY DEF VerifyChunk, rest, flash
<1>2. Building
  BY <1>1 DEF Building
<1>3. /\ file \in Files /\ file.slot \in Nat /\ file.last \in Nat /\ file.file \in Seq(Exts)
      /\ Slots /\ file.mode \in {"fill", "stream"}
  BY <1>2, WriterAt
<1>4. /\ file.val \in Payload
      /\ \A i \in DOMAIN file.file :
           \/ file.file[i].val \in Payload
           \/ file.mode = "fill" /\ i \in file.slot..file.last
      /\ Feeding \/ Storing
  BY <1>1, <1>2 DEF StepMeans, WriterMeans
<1>5. CASE FileFailed
  BY <1>1, <1>2, <1>5, FailedMeans, WriterStep
<1>6. CASE file' = next
  <2>1. /\ file'.mode = file.mode /\ file'.after = file.after /\ file'.last = file.last
        /\ file'.slot = file.slot + 1 /\ file'.phase = "writable"
        /\ file'.priv = IF file.slot = 0 THEN <<x>> ELSE file.priv
        /\ file'.file = IF file.slot = 0 THEN file.file
                                         ELSE Extended(file.file, file.slot, x)
    BY <1>3, <1>6 DEF Files
  <2>2. x.val = file.val
    BY DEF Extent
  <2> HIDE DEF x, next
  <2>3. Value(root.cur)' = Value(root.cur) /\ View(root.cur)' = View(root.cur)
        /\ NextRoot' = NextRoot
    BY <1>1 DEF NextRoot
  <2>4. (Feeding \/ Storing)'
    <3>1. CASE file.slot = 0
      <4>1. Feeding
        BY <1>4, <3>1 DEF Storing
      <4>2. file'.priv[1].val \in Payload
        BY <1>4, <2>1, <2>2, <3>1
      <4>3. file'.file = file.file
        BY <2>1, <3>1
      <4>4. Feeding'
        BY <1>1, <2>1, <2>3, <4>1, <4>2, <4>3 DEF Feeding
      <4> QED BY <4>4
    <3>2. CASE file.slot # 0
      <4>1. ~Feeding
        BY <1>1, <1>3, <3>2 DEF Feeding, Slots
      <4>2. Storing /\ file.slot + 1 # 0
        BY <1>3, <1>4, <4>1
      <4> QED BY <2>1, <2>3, <3>2, <4>2 DEF Storing
    <3> QED BY <3>1, <3>2
  <2>5. ASSUME NEW i \in DOMAIN file'.file
        PROVE  \/ file'.file[i].val \in Payload
               \/ file'.mode = "fill" /\ i \in file'.slot..file'.last
    <3>1. CASE file.slot = 0
      <4>1. file'.file = file.file
        BY <2>1, <3>1
      <4>2. CASE file.file[i].val \in Payload
        BY <4>1, <4>2
      <4>3. CASE file.mode = "fill" /\ i \in file.slot..file.last
        <5>1. i \in 1..Len(file.file) /\ Len(file.file) \in Nat
          BY <1>3, <2>5, <4>1
        <5>2. i \in (file.slot + 1)..file.last
          BY <1>3, <3>1, <4>3, <5>1
        <5> QED BY <2>1, <4>3, <5>2
      <4> QED BY <1>4, <2>5, <4>1, <4>2, <4>3
    <3>2. CASE file.slot # 0
      <4>1. file'.file = Extended(file.file, file.slot, x)
        BY <2>1, <3>2
      <4>2. \/ file'.file[i] = x
            \/ i \in DOMAIN file.file /\ file'.file[i] = file.file[i] /\ i # file.slot
        BY <1>3, <2>5, <4>1, ExtendedMeans
      <4>3. CASE file'.file[i] = x
        BY <1>4, <2>2, <4>3
      <4>4. CASE i \in DOMAIN file.file /\ file'.file[i] = file.file[i] /\ i # file.slot
        <5>1. CASE file.file[i].val \in Payload
          BY <4>4, <5>1
        <5>2. CASE file.mode = "fill" /\ i \in file.slot..file.last
          <6>1. i \in (file.slot + 1)..file.last
            BY <1>3, <4>4, <5>2
          <6> QED BY <2>1, <5>2, <6>1
        <5> QED BY <1>4, <4>4, <5>1, <5>2
      <4> QED BY <4>2, <4>3, <4>4
    <3> QED BY <3>1, <3>2
  <2>6. WriterMeans'
    BY <2>1, <2>4, <2>5 DEF WriterMeans
  <2> QED BY <1>1, <1>2, <2>6, WriterStep
<1> QED BY <1>1, <1>5, <1>6

LEMMA Publishes ==
  ASSUME StepMeans, NEW s, Leads(root, s),
         Start(Job(root, s, FALSE, TRUE, FALSE, FALSE)),
         file' = [NoFile EXCEPT !.phase = "commit"], UNCHANGED <<root, plain>>
  PROVE  StepMeans' /\ Changes
<1>1. job'.after = s
  BY DEF Start, Job
<1>2. ~Building'
  BY DEF NoFile, Building
<1>3. JobMeans'
  BY <1>1 DEF JobMeans
<1>4. RootMeans(root)' /\ PlainMeans' /\ WriterMeans'
  BY <1>2 DEF StepMeans, PlainMeans, WriterMeans
<1> QED BY <1>3, <1>4 DEF StepMeans, Changes

\* The new index holds new bytes and the old file, or the old bytes and a file
\* with bytes in every chunk.
LEMMA PublishMeans ==
  ASSUME VolumeInv, StepMeans, PublishIndex
  PROVE  StepMeans' /\ Changes
<1> DEFINE index == Index(file.priv, file.file)
           pair == [root.cur EXCEPT !.d = file.after.serial, !.data = index]
           s == [file.after EXCEPT !.cur = pair]
<1>1. /\ file.phase = "writable"
      /\ file.mode = "fill" => file.slot > file.last
      /\ Start(Job(file.before, [file.after EXCEPT !.cur.d = file.after.serial,
                                                   !.cur.data = index],
                   FALSE, TRUE, FALSE, FALSE))
      /\ file' = [NoFile EXCEPT !.phase = "commit"]
      /\ UNCHANGED <<root, plain>>
  BY DEF PublishIndex, rest, flash
<1>2. Building
  BY <1>1 DEF Building
<1>3. /\ RootOk(root) /\ root \in Roots /\ root.kind = "doc" /\ file.before = root
      /\ file.after \in {NextRoot, Accepted(NextRoot)} /\ file.after \in Roots
      /\ file.mode \in {"fill", "stream"} /\ Slots
      /\ file.file \in Seq(Exts) /\ file.slot \in Nat /\ file.last \in Nat
      /\ Len(file.file) \in Nat
  BY <1>2, WriterAt
<1>4. /\ \A i \in DOMAIN file.file :
           \/ file.file[i].val \in Payload
           \/ file.mode = "fill" /\ i \in file.slot..file.last
      /\ Feeding \/ Storing
  BY <1>2 DEF StepMeans, WriterMeans
<1>5. \A i \in DOMAIN file.file : file.file[i].val \in Payload
  <2>1. ASSUME NEW i \in file.slot..file.last, file.mode = "fill"
        PROVE  FALSE
    BY <1>1, <1>3, <2>1
  <2> QED BY <1>4, <2>1
<1>6. file.after.cur = root.cur /\ root.cur \in Pairs
  BY <1>3, NextFields DEF Roots
<1>7. [file.after EXCEPT !.cur.d = file.after.serial, !.cur.data = index] = s
  BY <1>3, <1>6 DEF Roots
<1>8. pair.pkg = root.cur.pkg /\ pair.data = index
  BY <1>6 DEF Pairs
<1>9. index.kind = "index" /\ index.priv = file.priv /\ index.file = file.file
  BY DEF Index
<1> HIDE DEF index, pair
<1>10. /\ s.kind = file.after.kind /\ s.high = file.after.high /\ s.prev = file.after.prev
       /\ s.upgrade = file.after.upgrade /\ s.cur = pair
  BY <1>3 DEF Roots
<1> HIDE DEF s
<1>11. View(pair) = [pkg |-> root.cur.pkg, priv |-> file.priv[1].val,
                     file |-> [i \in DOMAIN file.file |-> file.file[i].val]]
  <2>1. Value(pair) = file.priv[1].val
    BY <1>8, <1>9 DEF Value
  <2>2. View(pair).file = Shown(index)
    BY <1>8 DEF View, Shown
  <2>3. Shown(index) = [i \in DOMAIN file.file |-> file.file[i].val]
    BY <1>9 DEF Shown
  <2>4. View(pair) = [pkg |-> pair.pkg, priv |-> Value(pair), file |-> View(pair).file]
    BY DEF View
  <2> QED BY <1>8, <2>1, <2>2, <2>3, <2>4
<1>12. View(root.cur) = [pkg |-> root.cur.pkg, priv |-> Value(root.cur),
                         file |-> View(root.cur).file]
  BY DEF View
<1>13. Listed(s.cur)
  <2>1. root.cur.pkg \in Version
    BY <1>3, InstalledMeans
  <2> QED BY <1>5, <1>8, <1>9, <1>10, <2>1 DEF Listed
<1>14. CASE Feeding
  <2>1. file.mode = "fill" /\ file.last = 0 /\ (file.after # NextRoot => root.upgrade)
        /\ View(root.cur).file = [i \in DOMAIN file.file |-> file.file[i].val]
        /\ (file.slot = 0 \/ file.priv[1].val \in Payload)
    BY <1>14 DEF Feeding
  <2>2. file.priv[1].val \in Payload
    BY <1>1, <1>3, <2>1
  <2>3. View(s.cur) = [View(root.cur) EXCEPT !.priv = file.priv[1].val]
    BY <1>10, <1>11, <1>12, <2>1
  <2>4. NewBytes(root, s)
    BY <2>2, <2>3 DEF NewBytes
  <2>5. file.after = NextRoot \/ (file.after = Accepted(NextRoot) /\ root.upgrade)
    BY <1>3, <2>1
  <2>6. Leads(root, s)
    BY <1>3, <1>10, <1>13, <2>4, <2>5, SaveLeads
  <2> QED BY <1>1, <1>3, <1>7, <2>6, Publishes
<1>15. CASE Storing
  <2> DEFINE f == [i \in DOMAIN file.file |-> file.file[i].val]
             n == Len(file.file)
  <2>1. file.after = NextRoot /\ file.priv[1].val = Value(root.cur)
    BY <1>15 DEF Storing
  <2>2. n \in 0..MaxChunks /\ DOMAIN file.file = 1..n
    BY <1>3, Numbers DEF Slots
  <2>3. f \in [1..n -> Payload]
    BY <1>5, <2>2
  <2>4. View(pair) = [pkg |-> root.cur.pkg, priv |-> Value(root.cur), file |-> f]
    BY <1>11, <2>1
  <2> HIDE DEF f, n
  <2>5. View(s.cur) = [View(root.cur) EXCEPT !.file = f]
    BY <1>10, <1>12, <2>4
  <2>6. NewFile(root, s)
    BY <2>2, <2>3, <2>5 DEF NewFile
  <2>7. Leads(root, s)
    BY <1>3, <1>10, <1>13, <2>1, <2>6, SaveLeads
  <2> QED BY <1>1, <1>3, <1>7, <2>7, Publishes
<1> QED BY <1>4, <1>14, <1>15

LEMMA FileStepMeans ==
  ASSUME VolumeInv, StepMeans, FileStep
  PROVE  StepMeans' /\ Changes
<1>1. file.phase \in {"preparing", "commit"} /\ EngineStep /\ UNCHANGED <<readers, plain>>
  BY DEF FileStep, rest
<1>2. \/ file' = file \/ FileFailed \/ file' = NoFile
      \/ file.phase = "preparing" /\ phase' = "done" /\ file' = [file EXCEPT !.phase = "writable"]
  BY DEF FileStep
<1>3. CASE file.phase = "commit"
  <2>1. ~Building
    BY <1>3 DEF Building
  <2>2. file' = file \/ ~Building'
    BY <1>2, <1>3, FailedMeans, NotBuilt DEF Building
  <2> QED BY <1>1, <2>1, <2>2, RunMeans
<1>4. CASE file.phase = "preparing"
  <2>1. Building /\ phase # "commit"
    BY <1>4 DEF Building, VolumeInv, Writer
  <2>2. root' = root
    BY <1>1, <2>1, EngineMeans
  <2>3. Busy' => Busy /\ job' = job
    BY <1>1, EngineMeans
  <2>4. CASE file' = file \/ ~Building'
    BY <1>1, <2>2, <2>3, <2>4, Undisturbed
  <2>5. CASE file' = [file EXCEPT !.phase = "writable"] /\ phase' = "done"
    <3>1. file \in Files
      BY <2>1, WriterAt
    <3>2. /\ file'.mode = file.mode /\ file'.after = file.after /\ file'.priv = file.priv
          /\ file'.file = file.file /\ file'.last = file.last /\ file'.slot = file.slot
          /\ file'.phase = "writable"
      BY <2>5, <3>1 DEF Files
    <3>3. /\ \A i \in DOMAIN file.file :
               \/ file.file[i].val \in Payload
               \/ file.mode = "fill" /\ i \in file.slot..file.last
          /\ Feeding \/ Storing
      BY <2>1 DEF StepMeans, WriterMeans
    <3>4. Value(root.cur)' = Value(root.cur) /\ View(root.cur)' = View(root.cur)
          /\ NextRoot' = NextRoot
      BY <2>2 DEF NextRoot
    <3>5. (Feeding \/ Storing)'
      BY <2>2, <3>2, <3>3, <3>4 DEF Feeding, Storing
    <3>6. WriterMeans'
      BY <3>2, <3>3, <3>5 DEF WriterMeans
    <3>7. JobMeans'
      BY <2>5 DEF JobMeans, Busy
    <3>8. RootMeans(root)' /\ PlainMeans'
      BY <1>1, <2>2 DEF StepMeans, PlainMeans
    <3> QED BY <2>2, <3>6, <3>7, <3>8 DEF StepMeans, Changes
  <2>6. ~Building' \/ file' = file \/ (file' = [file EXCEPT !.phase = "writable"] /\ phase' = "done")
    BY <1>2, FailedMeans, NotBuilt DEF Building
  <2> QED BY <2>4, <2>5, <2>6
<1> QED BY <1>1, <1>3, <1>4

(***************************************************************************)
(* The theorems                                                            *)
(***************************************************************************)
LEMMA MeansInit == Init => StepMeans
<1> SUFFICES ASSUME Init
             PROVE  StepMeans
  OBVIOUS
<1>1. root = NoRoot /\ plain = NoPlain /\ phase = "idle" /\ file = NoFile
  BY DEF Init
<1>2. PlainMeans /\ JobMeans /\ WriterMeans
  BY <1>1, NotBuilt DEF PlainMeans, JobMeans, WriterMeans, Busy, Building
<1> QED BY <1>1, <1>2, BareMeans DEF StepMeans

LEMMA MeansNext ==
  ASSUME VolumeInv, StepMeans, [Next]_vars
  PROVE  StepMeans' /\ Changes
<1>1. CASE UNCHANGED vars
  <2>1. UNCHANGED <<root, plain, file, engine>>
    BY <1>1 DEF vars, flash
  <2> QED BY <2>1, SameEngine, Undisturbed
<1>2. CASE Begin
  BY <1>2, InstallMeans, QuietMeans, ConversionMeans, CheckpointMeans, UpgradeMeans,
     SettleMeans, FeedMeans, WriteMeans DEF Begin
<1>3. CASE Step
  BY <1>3, InstallStepMeans, RemoveRootMeans, DocumentStepMeans, ChunkMeans,
     VerifyChunkMeans, PublishMeans, FileStepMeans DEF Step
<1>4. CASE ~Begin /\ ~Step /\ Next
  BY <1>4, QuietMeans DEF Next
<1> QED BY <1>1, <1>2, <1>3, <1>4

\* AppVolume!Spec: what is on its way - a FILE2 file, a transaction, the file the
\* writer builds - would change the present root as AppStore allows.
THEOREM StepsHold == Spec => []StepInv
<1>1. Init => StepInv
  BY VolumeInit, MeansInit DEF StepInv
<1>2. StepInv /\ [Next]_vars => StepInv'
  BY VolumeNext, MeansNext DEF StepInv
<1> QED BY <1>1, <1>2, PTL DEF Spec

LEMMA StoreInit == Init => Store!Init
<1> SUFFICES ASSUME Init
             PROVE  Store!Init
  OBVIOUS
<1>1. root = NoRoot
  BY DEF Init
<1> QED BY <1>1, NoPairOk DEF Store!Init, NoRoot, Root

\* The volume of app_storage.cpp implements AppStore: package, private bytes and
\* file of an app change together, at once and only as the promise allows, although
\* every operation takes many steps, any of which may fail, be cancelled or be the
\* last before the power goes.
THEOREM VolumeKeepsPromise == Spec => ImplementsStore
<1>1. StepInv /\ [Next]_vars => [Store!Next]_(Store!vars)
  BY MeansNext, ChangePromised DEF StepInv
<1> QED BY <1>1, StoreInit, StepsHold, PTL DEF Spec, ImplementsStore, Store!Spec

=============================================================================
