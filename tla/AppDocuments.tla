---------------------------- MODULE AppDocuments ----------------------------
(***************************************************************************)
(* The document transaction engine of one app (app_document_store.cpp)     *)
(* over littlefs.  The canonical root apps/ID.app names immutable package, *)
(* data and chunk objects under objects/ID by generation; a transaction    *)
(* checks what the old root names, collects what neither it nor an open    *)
(* reader needs, writes and reads back the new objects, stages and reads   *)
(* back the new root as apps/.pending, and renames it over the old one.    *)
(*                                                                         *)
(* A content stands for bytes and for their digest at once.  littlefs      *)
(* makes creation, close, rename and removal atomic: between creation and  *)
(* close a new file reads empty, and a truncated one keeps its content.    *)
(***************************************************************************)
EXTENDS Naturals, Sequences

CONSTANTS
  Version,     \* the packages, ordered by version
  Payload,     \* the bytes a data object or a chunk can hold
  MaxSerial,   \* bound on root serials
  MaxChunks,   \* bound on the chunks of the app's named file
  MaxFaults    \* bound on operations and objects that go bad

ASSUME AppDocumentsAssumption ==
  /\ Version \subseteq Nat \ {0}
  /\ Payload \subseteq Nat \ {0}
  /\ MaxSerial \in Nat \ {0}
  /\ MaxChunks \in Nat \ {0}
  /\ MaxFaults \in Nat

VARIABLES
  objects,   \* objects/ID: the content of every name
  dir,       \* does the directory objects/ID exist?
  root,      \* apps/ID.app
  pending,   \* apps/.pending
  faults,    \* how many operations failed or objects decayed so far
  phase,     \* m_phase
  job,       \* the transaction's parameters
  scan,      \* directory entries m_dir has yet to return
  readers    \* Volume::m_readers: the extents each snapshot holds; <<>> closed

flash == <<objects, dir, root, pending>>
engine == <<phase, job, scan>>

----------------------------------------------------------------------------
(* Object names and contents.                                               *)

Serial == 1..MaxSerial
Part == 1..(MaxChunks + 1)
Object(type, gen, part) == [type |-> type, gen |-> gen, part |-> part]
Package(gen) == Object("p", gen, 0)
Data(gen) == Object("d", gen, 0)
Chunk(gen, part) == Object("c", gen, part)
Name == {Package(g) : g \in Serial} \cup {Data(g) : g \in Serial}
          \cup {Chunk(g, p) : g \in Serial, p \in Part}

Plain(kind, val) == [kind |-> kind, val |-> val, priv |-> <<>>, file |-> <<>>]
Absent == Plain("absent", 0)
Torn == Plain("torn", 0)      \* no content yet, or written wrong
Rotten == Plain("rotten", 0)  \* was whole, no longer reads back
Bytes(v) == Plain("bytes", v)

(* An AppFileIndex: the extents of the private byte store (entry 0) and of  *)
(* the app's one named file.                                                *)
Index(priv, file) ==
  [kind |-> "index", val |-> 0, priv |-> priv, file |-> file]
Extent(object, v) == [obj |-> object, val |-> v]

Present(name) == objects[name] # Absent

(* A package/data pair.  Generation 0 is no object: an empty previous pair, *)
(* or the two halves of a combined FILE2 file.                              *)
Pair(p, pkg, d, data) == [p |-> p, pkg |-> pkg, d |-> d, data |-> data]
NoPair == Pair(0, 0, 0, Absent)

Root(kind, serial, pendingUpgrade, high, cur, prev) ==
  [kind |-> kind, serial |-> serial, upgrade |-> pendingUpgrade, high |-> high,
   cur |-> cur, prev |-> prev]
NoRoot == Root("none", 0, FALSE, 0, NoPair, NoPair)
TornRoot == [NoRoot EXCEPT !.kind = "torn"]
File2(gen, pkg, data) ==
  Root("file2", gen, FALSE, 0, Pair(0, pkg, 0, Bytes(data)), NoPair)

Elements(seq) == {seq[i] : i \in DOMAIN seq}
Extents(pair) == Elements(pair.data.priv) \cup Elements(pair.data.file)

(* The objects a pair stands for, each with what it must contain. *)
Needs(pair) ==
  {[obj |-> Package(g), content |-> Bytes(pair.pkg)] : g \in {pair.p} \ {0}}
    \cup {[obj |-> Data(g), content |-> pair.data] : g \in {pair.d} \ {0}}
    \cup {[obj |-> x.obj, content |-> Bytes(x.val)] : x \in Extents(pair)}

NeedsOf(r) == Needs(r.cur) \cup Needs(r.prev)
Whole(need) == objects[need.obj] = need.content

----------------------------------------------------------------------------
(* The transaction's parameters: m_before, m_after and the flags.           *)

Job(before, after, writePackage, writeData, collectOnly, prune) ==
  [before |-> before, after |-> after, package |-> writePackage,
   data |-> writeData, collectOnly |-> collectOnly, prune |-> prune]
NoJob == Job(NoRoot, NoRoot, FALSE, FALSE, FALSE, FALSE)

Busy == phase \notin {"idle", "done", "failed"}
Converting == job.before.kind = "file2"

(* State::Busy: what cancel() stops.  A prune, and a root that is being     *)
(* renamed, are past the cancellation boundary.                             *)
Cancellable == Busy /\ phase # "commit" /\ ~job.prune

(* Store::begin, collect and prune. *)
Start(newJob) ==
  /\ ~Busy
  /\ job' = newJob
  /\ scan' = {}
  /\ phase' = "check"

StartPrune ==
  /\ job' = Job(NoRoot, NoRoot, FALSE, FALSE, FALSE, TRUE)
  /\ scan' = {n \in Name : Present(n)}
  /\ phase' = "collect"

(* Store::publishStaged: every object of the new root is there already, and *)
(* nothing is collected.                                                    *)
StartStaged(after) ==
  /\ ~Busy
  /\ job' = Job(root, after, FALSE, FALSE, FALSE, FALSE)
  /\ scan' = {}
  /\ phase' = "checkStaged"

StopEngine == phase' = "idle" /\ job' = NoJob /\ scan' = {}

Goto(next) ==
  /\ phase' = next
  /\ job' = IF next \in {"done", "failed"} THEN NoJob ELSE job
  /\ scan' = IF next \in {"done", "failed"} THEN {} ELSE scan

Continue(ok, next) == Goto(IF ok THEN next ELSE "failed")

(* Slip: the old root's chunks are not referenced. *)
OnlyNewChunks == IF job.data THEN Extents(job.after.cur) ELSE {}

(* m_references: the chunks of the old root and of a new index; none for a  *)
(* prune, or when a FILE2 file is converted.                                *)
References ==
  IF job.prune \/ Converting THEN {}
  ELSE Extents(job.before.cur) \cup Extents(job.before.prev)
         \cup (IF job.data THEN Extents(job.after.cur) ELSE {})

(* What must read back before anything is changed.  The objects are hashed  *)
(* one after the other; nothing else writes meanwhile.                      *)
Checked ==
  (IF Converting THEN {} ELSE NeedsOf(job.before))
    \cup {[obj |-> x.obj, content |-> Bytes(x.val)] : x \in References}

Check == /\ phase = "check"
         /\ Continue(\A need \in Checked : Whole(need), "directory")
         /\ UNCHANGED <<flash, faults>>

CheckStaged == /\ phase = "checkStaged"
               /\ Continue(\A need \in NeedsOf(job.after) : Whole(need), "rootWrite")
               /\ UNCHANGED <<flash, faults>>

(* Directory, AppDirectory and CollectOpen. *)
OpenDirectory == /\ phase = "directory"
                 /\ dir' = TRUE
                 /\ scan' = {n \in Name : Present(n)}
                 /\ phase' = "collect"
                 /\ UNCHANGED <<objects, root, pending, job, faults>>

Kinds == <<"c", "d", "p">>
Rank(type) == CHOOSE i \in 1..3 : Kinds[i] = type

(* littlefs keeps a directory sorted by name. *)
Precedes(n, m) ==
  \/ Rank(n.type) < Rank(m.type)
  \/ n.type = m.type /\ n.gen < m.gen
  \/ n.type = m.type /\ n.gen = m.gen /\ n.part < m.part

NextEntry == CHOOSE n \in scan : \A m \in scan \ {n} : Precedes(n, m)

(* Slip: what only an open reader still uses is not kept. *)
NobodyReads(n) == FALSE

(* m_chunkRetainer: Volume::retainChunk and Reader::retains.                *)
Retained(n) == \E r \in DOMAIN readers : \E x \in Elements(readers[r]) : x.obj = n

Named(pairs) == {Package(pair.p) : pair \in pairs} \cup {Data(pair.d) : pair \in pairs}

KeepFor(pairs, n) == \/ n \in Named(pairs)
                     \/ n \in {x.obj : x \in References}
                     \/ n.type = "c" /\ Retained(n)

(* Slip: the previous pair is forgotten. *)
KeepCurrent(n) == KeepFor({job.before.cur}, n)

(* Slip: what is newer than the root is taken for somebody else's. *)
KeepNewer(n) == KeepFor({job.before.cur, job.before.prev}, n) \/ n.gen > job.before.serial

(* Slip: packages are never collected. *)
KeepPackages(n) == KeepFor({job.before.cur, job.before.prev}, n) \/ n.type = "p"

(* Store::retained, m_references and the volume's readers. *)
Keep(n) == KeepFor({job.before.cur, job.before.prev}, n)

(* One directory entry. *)
Collect ==
  /\ phase = "collect"
  /\ scan # {}
  /\ objects' = IF Keep(NextEntry) THEN objects
                                  ELSE [objects EXCEPT ![NextEntry] = Absent]
  /\ scan' = scan \ {NextEntry}
  /\ UNCHANGED <<dir, root, pending, faults, phase, job>>

CollectEnds ==
  /\ phase = "collect"
  /\ scan = {}
  /\ Goto(CASE job.prune -> "removeDirectory"
            [] job.collectOnly -> "done"
            [] job.package -> "package"
            [] ~job.package /\ job.data -> "data"
            [] OTHER -> "rootWrite")
  /\ UNCHANGED <<flash, faults>>

(* A write that is not read back as it was meant costs a fault. *)
Written(name, content) ==
  \/ objects' = [objects EXCEPT ![name] = content] /\ UNCHANGED faults
  \/ /\ faults < MaxFaults
     /\ faults' = faults + 1
     /\ objects' = [objects EXCEPT ![name] = Torn]

(* LFS_O_CREAT | LFS_O_EXCL *)
Create(name, next) ==
  /\ Continue(~Present(name), next)
  /\ objects' = IF Present(name) THEN objects
                                 ELSE [objects EXCEPT ![name] = Torn]

NewPackage == [obj |-> Package(job.after.cur.p), content |-> Bytes(job.after.cur.pkg)]
NewData == [obj |-> Data(job.after.cur.d), content |-> job.after.cur.data]
AfterPackage == IF job.data THEN "data" ELSE "rootWrite"

WriteObject ==
  \/ /\ phase = "package"
     /\ Create(NewPackage.obj, "packageClose")
     /\ UNCHANGED <<dir, root, pending, faults>>
  \/ /\ phase = "packageClose"
     /\ Written(NewPackage.obj, NewPackage.content)
     /\ Goto("packageVerify")
     /\ UNCHANGED <<dir, root, pending>>
  \/ /\ phase = "data"
     /\ Create(NewData.obj, "dataClose")
     /\ UNCHANGED <<dir, root, pending, faults>>
  \/ /\ phase = "dataClose"
     /\ Written(NewData.obj, NewData.content)
     /\ Goto("dataVerify")
     /\ UNCHANGED <<dir, root, pending>>

(* Slip: what was written is not read back. *)
VerifyNothing ==
  /\ \/ phase = "packageVerify" /\ Goto(AfterPackage)
     \/ phase = "dataVerify" /\ Goto("rootWrite")
  /\ UNCHANGED <<flash, faults>>

Verify ==
  /\ \/ phase = "packageVerify" /\ Continue(Whole(NewPackage), AfterPackage)
     \/ phase = "dataVerify" /\ Continue(Whole(NewData), "rootWrite")
  /\ UNCHANGED <<flash, faults>>

Stage(r) == \/ pending' = r /\ UNCHANGED faults
            \/ /\ faults < MaxFaults
               /\ faults' = faults + 1
               /\ pending' = TornRoot

RootWrite == /\ phase = "rootWrite"
             /\ Stage(job.after)
             /\ Goto("rootVerify")
             /\ UNCHANGED <<objects, dir, root>>

(* Slip: the staged root is not read back. *)
RootNotRead == /\ phase = "rootVerify"
               /\ Goto("commit")
               /\ UNCHANGED <<flash, faults>>

RootVerify == /\ phase = "rootVerify"
              /\ Continue(pending = job.after, "commit")
              /\ UNCHANGED <<flash, faults>>

(* The rename is the commit. *)
Commit == /\ phase = "commit"
          /\ root' = pending
          /\ pending' = NoRoot
          /\ Goto("done")
          /\ UNCHANGED <<objects, dir, faults>>

(* littlefs removes empty directories only. *)
RemoveDirectory ==
  /\ phase = "removeDirectory"
  /\ LET empty == \A n \in Name : ~Present(n)
     IN Continue(empty, "done") /\ dir' = ~empty
  /\ UNCHANGED <<objects, root, pending, faults>>

(* An input or output error ends the transaction; a rename that reports one *)
(* may have happened.                                                       *)
EngineFails ==
  /\ Busy
  /\ faults < MaxFaults
  /\ faults' = faults + 1
  /\ Goto("failed")
  /\ \/ UNCHANGED flash
     \/ /\ phase = "commit"
        /\ root' = pending
        /\ pending' = NoRoot
        /\ UNCHANGED <<objects, dir>>

(* Store::step *)
EngineStep ==
  \/ Check \/ CheckStaged \/ OpenDirectory \/ Collect \/ CollectEnds
  \/ WriteObject \/ Verify \/ RootWrite \/ RootVerify \/ Commit
  \/ RemoveDirectory \/ EngineFails
=============================================================================
