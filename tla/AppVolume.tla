------------------------------ MODULE AppVolume ------------------------------
(***************************************************************************)
(* The app volume (app_storage.cpp) and its writer (app_file_store.cpp)    *)
(* for one installed app, over the transaction engine of AppDocuments:     *)
(* installation, checkpoints, upgrades, named files, snapshot readers,     *)
(* cancellation, removal, failed operations, remounts and power loss.      *)
(*                                                                         *)
(* The app has one named file of up to MaxChunks chunks.                   *)
(***************************************************************************)
EXTENDS AppDocuments

CONSTANT Reader   \* the volume's reader slots

VARIABLES
  vol,    \* m_state: "ready" stands for Ready and Complete, "busy" for
          \* Writing, Verifying and Committing; "off" before initialize
  user,   \* whose step() the volume runs: m_fileOperation, m_documentOperation
  file,   \* the writer
  plain   \* a combined FILE2 file being installed, or the root's removal

vars == <<flash, engine, readers, faults, vol, user, file, plain>>
rest == <<readers, plain>>

NoFile == [phase |-> "idle", mode |-> "none", before |-> NoRoot,
           after |-> NoRoot, priv |-> <<>>, file |-> <<>>,
           slot |-> 0, last |-> 0, part |-> 0, val |-> 0]
NoPlain == [phase |-> "none", rec |-> NoRoot]
NoReaders == [r \in Reader |-> <<>>]

Init == /\ objects = [n \in Name |-> Absent]
        /\ dir = FALSE
        /\ root = NoRoot /\ pending = NoRoot
        /\ faults = 0
        /\ phase = "idle" /\ job = NoJob /\ scan = {}
        /\ readers = NoReaders
        /\ vol = "off" /\ user = "none" /\ file = NoFile /\ plain = NoPlain

(* Volume::documentReady *)
DocumentReady == vol = "ready" /\ user # "file"

CanAdvance == DocumentReady /\ root.serial < MaxSerial

----------------------------------------------------------------------------
(* The combined FILE2 file: Volume::begin and step with a package.          *)

(* An installed document root is never replaced by a FILE2 file.            *)
BeginInstall ==
  /\ CanAdvance
  /\ root.kind # "doc"
  /\ \E pkg \in Version, data \in Payload :
       plain' = [phase |-> "write", rec |-> File2(root.serial + 1, pkg, data)]
  /\ vol' = "busy"
  /\ user' = "none"
  /\ UNCHANGED <<flash, engine, readers, faults, file>>

EndPlain(state) == plain' = NoPlain /\ vol' = state

InstallStep ==
  \/ /\ plain.phase = "write"
     /\ Stage(plain.rec)
     /\ plain' = [plain EXCEPT !.phase = "verify"]
     /\ UNCHANGED <<objects, dir, root, vol, engine, readers, user, file>>
  \/ /\ plain.phase = "verify"
     /\ IF pending = plain.rec
          THEN plain' = [plain EXCEPT !.phase = "commit"] /\ UNCHANGED vol
          ELSE EndPlain("failed")
     /\ UNCHANGED <<flash, engine, readers, faults, user, file>>
  \/ /\ plain.phase = "commit"
     /\ root' = pending
     /\ pending' = NoRoot
     /\ EndPlain("ready")
     /\ UNCHANGED <<objects, dir, engine, readers, faults, user, file>>

----------------------------------------------------------------------------
(* Removal: Volume::begin without a package.                                *)

HasSnapshots == \E r \in Reader : readers[r] # <<>>

(* Store::index: a byte store has no index object to read. *)
IndexReadable(pair) ==
  pair.data.kind = "index" => objects[Data(pair.d)] = pair.data

Removal == /\ DocumentReady
           /\ root # NoRoot
           /\ IndexReadable(root.cur)
           /\ plain' = [phase |-> "remove", rec |-> NoRoot]
           /\ vol' = "busy"
           /\ user' = "none"
           /\ UNCHANGED <<flash, engine, readers, faults, file>>

(* Slip: live readers do not keep the app. *)
RemoveReadApp == Removal

(* Refused while a reader is open or the app's entry does not read back.    *)
BeginRemove == ~HasSnapshots /\ Removal

(* The root goes first; the objects are pruned by the following steps.      *)
RemoveRoot ==
  /\ plain.phase = "remove"
  /\ root' = NoRoot
  /\ plain' = NoPlain
  /\ IF dir THEN StartPrune /\ user' = "doc" /\ UNCHANGED vol
            ELSE vol' = "ready" /\ UNCHANGED <<engine, user>>
  /\ UNCHANGED <<objects, dir, pending, readers, faults, file>>

PlainFails ==
  /\ plain.phase # "none"
  /\ faults < MaxFaults
  /\ faults' = faults + 1
  /\ EndPlain("failed")
  /\ UNCHANGED <<flash, engine, readers, user, file>>

----------------------------------------------------------------------------
(* Document transactions.                                                   *)

(* Slip: every checkpoint replaces the previous pair. *)
NextRootOverPrevious == [root EXCEPT !.serial = @ + 1, !.prev = root.cur]

(* nextFileRoot and beginCheckpoint: the pair kept for a rollback stays the *)
(* one from before the upgrade.                                             *)
NextRoot ==
  [root EXCEPT !.serial = @ + 1,
               !.prev = IF root.upgrade THEN root.prev ELSE root.cur]

Accepted(r) == [r EXCEPT !.upgrade = FALSE, !.prev = NoPair]

BeginDocument(after, writePackage, writeData) ==
  /\ Start(Job(root, after, writePackage, writeData, FALSE, FALSE))
  /\ vol' = "busy"
  /\ user' = "doc"
  /\ file' = NoFile
  /\ UNCHANGED <<flash, readers, faults, plain>>

(* beginCheckpoint over a FILE2 file: the package is copied once. *)
BeginConversion ==
  /\ CanAdvance
  /\ root.kind = "file2"
  /\ \E v \in Payload :
       LET g == root.serial + 1
       IN BeginDocument(Root("doc", g, FALSE, root.cur.pkg,
                             Pair(g, root.cur.pkg, g, Bytes(v)), NoPair),
                        TRUE, TRUE)

Checkpointed(accept) == IF accept THEN Accepted(NextRoot) ELSE NextRoot

BeginCheckpoint ==
  /\ CanAdvance
  /\ root.kind = "doc"
  /\ root.cur.data.kind = "bytes"
  /\ \E v \in Payload, accept \in {FALSE, root.upgrade} :
       LET after == Checkpointed(accept)
       IN BeginDocument([after EXCEPT !.cur.d = after.serial, !.cur.data = Bytes(v)],
                        FALSE, TRUE)

BeginUpgrade ==
  /\ CanAdvance
  /\ root.kind = "doc"
  /\ ~root.upgrade
  /\ \E v \in Version :
       /\ v > root.high
       /\ LET g == root.serial + 1
          IN BeginDocument(
               Root("doc", g, TRUE, v, [root.cur EXCEPT !.p = g, !.pkg = v], root.cur),
               TRUE, FALSE)

BeginAccept ==
  /\ CanAdvance
  /\ root.upgrade
  /\ BeginDocument(Accepted([root EXCEPT !.serial = @ + 1]), FALSE, FALSE)

BeginRollback ==
  /\ CanAdvance
  /\ root.upgrade
  /\ BeginDocument(Accepted([root EXCEPT !.serial = @ + 1, !.cur = root.prev]),
                   FALSE, FALSE)

(* Volume::step and finish over the engine. *)
DocumentStep ==
  /\ vol = "busy"
  /\ user \in {"doc", "init"}
  /\ EngineStep
  /\ vol' = CASE phase' = "done" -> "ready"
              [] phase' = "failed" -> "failed"
              [] OTHER -> "busy"
  /\ user' = CASE phase' = "done" -> "none"
               [] phase' = "failed" -> "doc"
               [] OTHER -> user
  /\ UNCHANGED <<readers, file, plain>>

----------------------------------------------------------------------------
(* The writer.                                                              *)

(* Store::index makes a byte store an index of one raw data object.         *)
IndexOf(pair) == IF pair.data.kind = "index" THEN pair.data
                 ELSE Index(<<Extent(Data(pair.d), pair.data.val)>>, <<>>)

Blank == Extent(Object("none", 0, 0), 0)
Blanks(n) == [i \in 1..n |-> Blank]

(* Store::setup; the old root's objects are collected first. *)
BeginFile(mode, after, priv, named, slot, last) ==
  /\ IndexReadable(root.cur)
  /\ file' = [NoFile EXCEPT !.phase = "preparing", !.mode = mode,
                            !.before = root, !.after = after,
                            !.priv = priv, !.file = named,
                            !.slot = slot, !.last = last]
  /\ Start(Job(root, root, FALSE, FALSE, TRUE, FALSE))
  /\ vol' = "busy"
  /\ user' = "file"
  /\ UNCHANGED <<flash, readers, faults, plain>>

(* beginCheckpoint once the pair has an index: the private byte store       *)
(* becomes a chunk, and the bytes are fed by step().                        *)
BeginFeed ==
  /\ CanAdvance
  /\ root.kind = "doc"
  /\ root.cur.data.kind = "index"
  /\ \E accept \in {FALSE, root.upgrade} :
       BeginFile("fill", Checkpointed(accept), <<Blank>>, root.cur.data.file, 0, 0)

(* beginFile, replacing the file or patching some of its chunks. *)
BeginWrite ==
  /\ CanAdvance
  /\ root.kind = "doc"
  /\ LET old == IndexOf(root.cur)
     IN \/ \E n \in 0..MaxChunks :
             BeginFile("fill", NextRoot, old.priv, Blanks(n), 1, n)
        \/ \E lo \in DOMAIN old.file : \E hi \in lo..Len(old.file) :
             BeginFile("fill", NextRoot, old.priv, old.file, lo, hi)

(* beginStream: truncating, updating or appending. *)
BeginStream ==
  /\ CanAdvance
  /\ root.kind = "doc"
  /\ LET old == IndexOf(root.cur)
     IN \E named \in {<<>>, old.file} :
          BeginFile("stream", NextRoot, old.priv, named, 1, 0)

(* changeFile: removing the file, renaming it or making a directory. *)
ChangeFile ==
  /\ CanAdvance
  /\ root.kind = "doc"
  /\ LET old == IndexOf(root.cur)
     IN \E named \in {<<>>, old.file} :
          BeginFile("fill", NextRoot, old.priv, named, 1, 0)

FileFailed == /\ file' = [NoFile EXCEPT !.phase = "failed"]
              /\ vol' = "failed"

Target == Chunk(file.after.serial, file.part)

(* An exclusive open that fails ends the operation. *)
OpenChunk(part, slot, staged) ==
  LET name == Chunk(file.after.serial, part)
  IN IF Present(name) /\ ~staged
       THEN FileFailed /\ UNCHANGED objects
       ELSE /\ \E v \in Payload :
                 file' = [file EXCEPT !.phase = "chunk", !.part = part,
                                      !.slot = slot, !.val = v]
            /\ objects' = IF staged THEN objects
                                    ELSE [objects EXCEPT ![name] = Torn]
            /\ UNCHANGED vol

(* prepareChunk *)
PrepareChunk ==
  /\ file.phase = "writable"
  /\ file.mode = "fill"
  /\ file.slot <= file.last
  /\ OpenChunk(file.part + 1, file.slot, FALSE)
  /\ UNCHANGED <<dir, root, pending, faults, engine, rest, user>>

StagedChunk(slot) == /\ slot \in DOMAIN file.file
                     /\ file.file[slot].obj.gen = file.after.serial

Loadable(slot) == slot \in DOMAIN file.file =>
  objects[file.file[slot].obj] = Bytes(file.file[slot].val)

(* StreamLoad and StreamFlush of any chunk up to the one after the last; a  *)
(* staged chunk may still be in the buffer, and is truncated.               *)
FlushChunk ==
  /\ file.phase = "writable"
  /\ file.mode = "stream"
  /\ \E slot \in (DOMAIN file.file \cup {Len(file.file) + 1}) \cap 1..MaxChunks :
       \/ /\ Loadable(slot) \/ StagedChunk(slot)
          /\ OpenChunk(slot, slot, StagedChunk(slot))
       \/ ~Loadable(slot) /\ FileFailed /\ UNCHANGED objects
  /\ UNCHANGED <<dir, root, pending, faults, engine, rest, user>>

CloseChunk ==
  /\ file.phase = "chunk"
  /\ Written(Target, Bytes(file.val))
  /\ file' = [file EXCEPT !.phase = "verify"]
  /\ UNCHANGED <<dir, root, pending, engine, rest, vol, user>>

Extended(seq, slot, x) ==
  IF slot \in DOMAIN seq THEN [seq EXCEPT ![slot] = x] ELSE Append(seq, x)

VerifyChunk ==
  /\ file.phase = "verify"
  /\ LET x == Extent(Target, file.val)
     IN IF objects[x.obj] # Bytes(x.val) THEN FileFailed
        ELSE /\ file' = [file EXCEPT
                  !.phase = "writable",
                  !.priv = IF file.slot = 0 THEN <<x>> ELSE @,
                  !.file = IF file.slot = 0 THEN @ ELSE Extended(@, file.slot, x),
                  !.slot = @ + 1, !.val = 0]
             /\ UNCHANGED vol
  /\ UNCHANGED <<flash, faults, engine, rest, user>>

(* commit and publishIndex *)
PublishIndex ==
  /\ file.phase = "writable"
  /\ file.mode = "fill" => file.slot > file.last
  /\ LET after == [file.after EXCEPT !.cur.d = file.after.serial,
                                     !.cur.data = Index(file.priv, file.file)]
     IN Start(Job(file.before, after, FALSE, TRUE, FALSE, FALSE))
  /\ file' = [NoFile EXCEPT !.phase = "commit"]
  /\ UNCHANGED <<flash, faults, rest, vol, user>>

(* Preparing and Commit: the engine's steps. *)
FileStep ==
  /\ file.phase \in {"preparing", "commit"}
  /\ EngineStep
  /\ CASE phase' = "failed" -> FileFailed /\ UNCHANGED user
       [] phase' = "done" /\ file.phase = "preparing" ->
            file' = [file EXCEPT !.phase = "writable"] /\ UNCHANGED <<vol, user>>
       [] phase' = "done" /\ file.phase = "commit" ->
            file' = NoFile /\ vol' = "ready" /\ user' = "none"
       [] OTHER -> UNCHANGED <<file, vol, user>>
  /\ UNCHANGED rest

(* Input, output, or the admission of more blocks is refused. *)
FileFails ==
  /\ file.phase \in {"writable", "chunk", "verify"}
  /\ faults < MaxFaults
  /\ faults' = faults + 1
  /\ FileFailed
  /\ UNCHANGED <<flash, engine, rest, user>>

----------------------------------------------------------------------------
(* Readers.                                                                 *)

HasFile == /\ root.kind = "doc"
           /\ IndexReadable(root.cur)
           /\ root.cur.data.file # <<>>

(* openSnapshot: also while the writer works, unless the engine is busy.    *)
OpenSnapshot ==
  /\ vol # "failed"
  /\ DocumentReady \/ user = "file"
  /\ ~Busy
  /\ HasFile
  /\ \E r \in Reader : /\ readers[r] = <<>>
                       /\ readers' = [readers EXCEPT ![r] = root.cur.data.file]
  /\ UNCHANGED <<flash, engine, faults, vol, user, file, plain>>

CloseSnapshot ==
  /\ \E r \in Reader : /\ readers[r] # <<>>
                       /\ readers' = [readers EXCEPT ![r] = <<>>]
  /\ UNCHANGED <<flash, engine, faults, vol, user, file, plain>>

(* The single-stream reader, which blocks the volume; closed by cancel too. *)
OpenFile ==
  /\ DocumentReady
  /\ HasFile
  /\ file' = [NoFile EXCEPT !.phase = "reading"]
  /\ user' = "file"
  /\ UNCHANGED <<flash, engine, readers, faults, vol, plain>>

----------------------------------------------------------------------------
(* Cancellation, remounts, power.                                           *)

(* Closing a half-written chunk leaves it with part of its bytes. *)
CancelWriter ==
  /\ user = "file"
  /\ IF file.phase \in {"preparing", "commit"}
       THEN Cancellable /\ StopEngine
       ELSE UNCHANGED engine
  /\ objects' = IF file.phase = "chunk" THEN [objects EXCEPT ![Target] = Torn]
                                        ELSE objects
  /\ file' = NoFile
  /\ user' = "none"
  /\ vol' = "ready"
  /\ UNCHANGED <<dir, root, pending, readers, faults, plain>>

CancelDocument ==
  /\ user = "doc"
  /\ \/ /\ Cancellable
        /\ StopEngine
        /\ user' = "none"
        /\ vol' = "ready"
     \/ /\ phase = "failed"
        /\ vol = "ready"
        /\ vol' = "failed"
        /\ UNCHANGED <<engine, user>>
  /\ UNCHANGED <<flash, readers, faults, file, plain>>

CancelInstall ==
  /\ plain.phase \in {"write", "verify"}
  /\ EndPlain("ready")
  /\ UNCHANGED <<flash, engine, readers, faults, user, file>>

(* Volume::mount on its own, when the host asks for a recovery. *)
Mount ==
  /\ vol \in {"ready", "failed"}
  /\ vol' = "ready"
  /\ readers' = NoReaders
  /\ UNCHANGED <<flash, engine, faults, user, file, plain>>

(* Volume::initialize at start-up, and pruneOrphans. *)
Initialize ==
  /\ vol = "off"
  /\ pending' = NoRoot
  /\ IF dir /\ root = NoRoot
       THEN StartPrune /\ vol' = "busy" /\ user' = "init"
       ELSE vol' = "ready" /\ UNCHANGED <<engine, user>>
  /\ UNCHANGED <<objects, dir, root, readers, faults, file, plain>>

PowerLoss ==
  /\ vol # "off"
  /\ vol' = "off"
  /\ StopEngine
  /\ readers' = NoReaders
  /\ user' = "none"
  /\ file' = NoFile
  /\ plain' = NoPlain
  /\ UNCHANGED <<flash, faults>>

Decay ==
  /\ faults < MaxFaults
  /\ faults' = faults + 1
  /\ \E n \in Name : /\ objects[n].kind \in {"bytes", "index"}
                     /\ objects' = [objects EXCEPT ![n] = Rotten]
  /\ UNCHANGED <<dir, root, pending, engine, readers, vol, user, file, plain>>

Begin == \/ BeginInstall \/ BeginRemove \/ BeginConversion \/ BeginCheckpoint
         \/ BeginUpgrade \/ BeginAccept \/ BeginRollback \/ BeginFeed
         \/ BeginWrite \/ BeginStream \/ ChangeFile

Step == \/ InstallStep \/ RemoveRoot \/ DocumentStep
        \/ PrepareChunk \/ FlushChunk \/ CloseChunk \/ VerifyChunk
        \/ PublishIndex \/ FileStep

Next == \/ Begin \/ Step \/ PlainFails \/ FileFails
        \/ OpenSnapshot \/ CloseSnapshot \/ OpenFile
        \/ CancelWriter \/ CancelDocument \/ CancelInstall
        \/ Mount \/ Initialize \/ PowerLoss \/ Decay

Spec == Init /\ [][Next]_vars

(* Power stays on long enough for a step of the cleanup now and then, and   *)
(* the volume is initialized after a start.                                 *)
FairSpec ==
  /\ Spec
  /\ WF_vars(Initialize)
  /\ SF_vars(RemoveRoot)
  /\ SF_vars(DocumentStep /\ phase = "collect" /\ scan # {})
  /\ SF_vars(DocumentStep /\ phase = "collect" /\ scan = {})
  /\ SF_vars(DocumentStep /\ phase = "removeDirectory")

----------------------------------------------------------------------------
TypeOK ==
  /\ DOMAIN objects = Name
  /\ dir \in BOOLEAN
  /\ root.kind \in {"none", "file2", "doc"}
  /\ root.serial \in 0..MaxSerial
  /\ pending.kind \in {"none", "torn", "file2", "doc"}
  /\ faults \in 0..MaxFaults
  /\ phase \in {"idle", "check", "checkStaged", "directory", "collect", "package",
                "packageClose", "packageVerify", "data", "dataClose",
                "dataVerify", "rootWrite", "rootVerify", "commit",
                "removeDirectory", "done", "failed"}
  /\ scan \subseteq Name
  /\ DOMAIN readers = Reader
  /\ vol \in {"off", "ready", "busy", "failed"}
  /\ user \in {"none", "doc", "init", "file"}
  /\ file.phase \in {"idle", "preparing", "writable", "chunk", "verify",
                     "commit", "reading", "failed"}
  /\ plain.phase \in {"none", "write", "verify", "commit", "remove"}

Intact(name, content) == objects[name] \in {content, Rotten}

(* Whatever is interrupted, cancelled or fails, every object the canonical  *)
(* root names - both pairs, and every chunk of their indexes - has the      *)
(* content the root recorded, unless it decayed in place.                   *)
RootWhole == \A need \in NeedsOf(root) : Intact(need.obj, need.content)

(* A snapshot reader keeps the chunks it opened through every later         *)
(* replacement, removal of the file and collection.                         *)
ReadersWhole ==
  \A r \in Reader : \A x \in Elements(readers[r]) : Intact(x.obj, Bytes(x.val))

(* The names a transaction creates exclusively are free, whatever earlier   *)
(* transactions of the same serial left behind: an app is never blocked by  *)
(* its own leftovers.                                                       *)
NamesFree ==
  /\ phase = "package" => ~Present(NewPackage.obj)
  /\ phase = "data" => ~Present(NewData.obj)
  /\ file.phase = "writable" =>
       \A part \in Part :
         Present(Chunk(file.after.serial, part)) =>
           \E x \in Elements(file.priv) \cup Elements(file.file) :
             x.obj = Chunk(file.after.serial, part)

(* When a root is about to be renamed, the old root and the new one name    *)
(* every object on flash, but for chunks of earlier generations that were   *)
(* kept for a reader: what an abandoned transaction left is gone by the     *)
(* time the next one commits.                                               *)
NoGarbage ==
  phase = "commit" =>
    \A n \in Name : Present(n) =>
      \/ n \in {need.obj : need \in NeedsOf(root) \cup NeedsOf(pending)}
      \/ n.type = "c" /\ n.gen <= root.serial

(* An app that was removed is cleaned up, although power fails during the   *)
(* removal again and again.                                                 *)
Orphaned == root = NoRoot /\ dir

OrphansReclaimed == Orphaned ~> ~dir

(* The refinement: what the root names, read back.                          *)
Value(pair) == IF pair.data.kind = "index" THEN pair.data.priv[1].val
               ELSE pair.data.val
View(pair) ==
  [pkg |-> pair.pkg, priv |-> Value(pair),
   file |-> [i \in DOMAIN pair.data.file |-> pair.data.file[i].val]]
NotKept == [pkg |-> 0, priv |-> 0, file |-> <<>>]

Store == INSTANCE AppStore WITH
           current <- IF root = NoRoot THEN NotKept ELSE View(root.cur),
           previous <- IF root.prev = NoPair THEN NotKept ELSE View(root.prev),
           versioned <- root.kind = "doc",
           upgrade <- root.upgrade,
           high <- root.high,
           None <- NotKept

ImplementsStore == Store!Spec
=============================================================================
