----------------------------- MODULE AppRestore -----------------------------
(***************************************************************************)
(* Restoring an app from an archive (app_archive_restore.cpp, driven by    *)
(* app_archive_session.cpp) on the volume of AppVolume.  The current pair  *)
(* of the archive is staged as generation base + 1 and its recovery pair   *)
(* as base + 2, reusing whole chunks of the installed app; the transaction *)
(* engine then reads everything back and renames the root.  An archive is  *)
(* taken as received: what it holds is chosen when the restore begins, and *)
(* a damaged or refused one is a restore that is abandoned.                *)
(***************************************************************************)
EXTENDS AppVolume, FiniteSets

(* One pair of an archive: its package, private bytes and named file. *)
ArchivedPair == [pkg : Version, priv : Payload, file : Seq(Payload)]

CONSTANTS
  Archive,       \* the archives there are: pairs and highest version
  MaxRestores    \* bound on the restores that are begun

(* valid(Header) and the order of versions in parsed(): the highest one is  *)
(* a version, no pair is above it, and there is a second pair exactly when  *)
(* an upgrade was pending.                                                  *)
ASSUME AppRestoreAssumption ==
  /\ MaxRestores \in Nat
  /\ \A a \in Archive :
       /\ a.high \in Version
       /\ a.pairs \in Seq(ArchivedPair)
       /\ Len(a.pairs) \in 1..2
       /\ \A k \in DOMAIN a.pairs : /\ a.pairs[k].pkg <= a.high
                                    /\ Len(a.pairs[k].file) <= MaxChunks
       /\ Len(a.pairs) = 2 => a.pairs[2].pkg < a.pairs[1].pkg

VARIABLES
  restore,    \* the Restore object
  restores    \* how many restores were begun

restoreVars == <<vars, restore, restores>>
volume == <<readers, vol, user, file, plain>>

NoRestore == [phase |-> "idle", pairs |-> <<>>, high |-> 0, old |-> <<>>,
              new |-> <<>>, staged |-> {}, madeDir |-> FALSE,
              publisher |-> FALSE]

RestoreInit == Init /\ restore = NoRestore /\ restores = 0

----------------------------------------------------------------------------
(* Session::initialize, Restore::begin and the verdict on the first package *)
(* (Session::authenticate).  Nothing is written before it.                  *)

InstalledHigh == IF root.kind = "file2" THEN root.cur.pkg ELSE root.high

CodeReadable == root.kind = "doc" =>
  objects[Package(root.cur.p)] = Bytes(root.cur.pkg)

(* The installed package itself, also as a repair when its code does not    *)
(* read back, or one above every version accepted before.                   *)
Authorized(pkg) == \/ root = NoRoot
                   \/ pkg = root.cur.pkg
                   \/ CodeReadable /\ pkg > InstalledHigh

BeginRestore ==
  /\ restore.phase = "idle"
  /\ restores < MaxRestores
  /\ restores' = restores + 1
  /\ DocumentReady
  /\ ~HasSnapshots
  /\ \E a \in Archive :
       /\ Authorized(a.pairs[1].pkg)
       /\ root.serial + Len(a.pairs) <= MaxSerial
       /\ restore' = [NoRestore EXCEPT !.phase = "directory", !.pairs = a.pairs,
                        !.high = IF a.high > InstalledHigh THEN a.high
                                                           ELSE InstalledHigh]
  /\ UNCHANGED vars

(* The extents of an installed pair that may be reused: none of a pair      *)
(* whose index does not read back.                                          *)
Reusable(pair) ==
  IF pair = NoPair \/ ~IndexReadable(pair) THEN <<>>
  ELSE IndexOf(pair).priv \o IndexOf(pair).file

(* Directory, AppDirectory, OldCurrent and OldPrevious. *)
OpenRestore ==
  /\ restore.phase = "directory"
  /\ dir' = TRUE
  /\ restore' = [restore EXCEPT
       !.phase = "package", !.madeDir = ~dir,
       !.old = IF root.kind = "doc" THEN Reusable(root.cur) \o Reusable(root.prev)
                                    ELSE <<>>,
       !.new = <<Index(<<>>, <<>>)>>]
  /\ UNCHANGED <<objects, root, pending, faults, engine, volume>>

----------------------------------------------------------------------------
(* Staging one pair: its package, its chunks and its index.                 *)

Number == Len(restore.new)                 \* the pair being staged
Staging == restore.pairs[Number]
Generation == root.serial + Number
NewIndex == restore.new[Number]
Placed == NewIndex.priv \o NewIndex.file   \* the extents the index has so far
Contents == <<Staging.priv>> \o Staging.file
NextContent == Contents[Len(Placed) + 1]
AllPlaced == Len(Placed) = Len(Contents)

(* Restore::stage: a leftover of that name is truncated, and what is        *)
(* written is not read back before the root is published.  An object that   *)
(* is left half written is a leftover like a whole one: no index names it.  *)
StageObject(name, content) ==
  /\ Written(name, content)
  /\ UNCHANGED <<dir, root, pending, engine, volume>>

StagePackage ==
  /\ restore.phase = "package"
  /\ StageObject(Package(Generation), Bytes(Staging.pkg))
  /\ restore' = [restore EXCEPT !.phase = "content",
                                !.staged = @ \cup {Package(Generation)}]

Placing(x) == IF Placed = <<>> THEN [NewIndex EXCEPT !.priv = <<x>>]
                               ELSE [NewIndex EXCEPT !.file = Append(@, x)]

(* The extents findReuse goes through: those of the installed pairs, then   *)
(* those of the pair just staged.                                           *)
Offered ==
  restore.old \o (IF Number = 2 THEN restore.new[1].priv \o restore.new[1].file ELSE <<>>)

(* findReuse and checkReuse: where there is an extent with these bytes that *)
(* reads back and is not in the index yet; a raw byte store only as such.   *)
Candidates ==
  {i \in DOMAIN Offered :
     LET x == Offered[i]
     IN /\ x.val = NextContent
        /\ x.obj.type = "d" => Placed = <<>>
        /\ \A y \in Elements(Placed) : y.obj # x.obj
        /\ objects[x.obj] = Bytes(x.val)}

ReuseChunk ==
  /\ restore.phase = "content"
  /\ ~AllPlaced
  /\ \E i \in Candidates :
       /\ \A j \in Candidates : i <= j
       /\ restore' = [restore EXCEPT !.new[Number] = Placing(Offered[i])]
  /\ UNCHANGED vars

(* m_parts counts the chunks that were written, not those that were reused. *)
NextChunk ==
  Chunk(Generation,
        1 + Cardinality({n \in restore.staged : n.type = "c" /\ n.gen = Generation}))

StageChunk ==
  /\ restore.phase = "content"
  /\ ~AllPlaced
  /\ Candidates = {}
  /\ StageObject(NextChunk, Bytes(NextContent))
  /\ restore' = [restore EXCEPT !.staged = @ \cup {NextChunk},
                    !.new[Number] = Placing(Extent(NextChunk, NextContent))]

StageIndex ==
  /\ restore.phase = "content"
  /\ AllPlaced
  /\ StageObject(Data(Generation), NewIndex)
  /\ LET more == Number < Len(restore.pairs)
     IN restore' = [restore EXCEPT
          !.phase = IF more THEN "package" ELSE "ready",
          !.staged = @ \cup {Data(Generation)},
          !.new = IF more THEN Append(@, Index(<<>>, <<>>)) ELSE @]

----------------------------------------------------------------------------
(* Publication.                                                             *)

StagedPair(k) == LET g == root.serial + k
                 IN Pair(g, restore.pairs[k].pkg, g, restore.new[k])

(* m_after *)
RestoredRoot ==
  Root("doc", root.serial + Len(restore.pairs), Len(restore.pairs) = 2, restore.high,
       StagedPair(1), IF Len(restore.pairs) = 2 THEN StagedPair(2) ELSE NoPair)

CommitRestore ==
  /\ restore.phase = "ready"
  /\ StartStaged(RestoredRoot)
  /\ restore' = [restore EXCEPT !.phase = "publish", !.publisher = TRUE]
  /\ UNCHANGED <<flash, faults, volume>>

(* Slip: a rename that reports an error is taken for one that did nothing.  *)
PublishOrClean ==
  /\ restore.phase = "publish"
  /\ EngineStep
  /\ restore' = CASE phase' = "done" -> NoRestore
                  [] phase' = "failed" -> [restore EXCEPT !.phase = "cleanup"]
                  [] OTHER -> restore
  /\ UNCHANGED volume

(* Phase::Publish and fail(): once the rename was attempted nothing is      *)
(* removed any more (CommitUnknown).                                        *)
PublishStep ==
  /\ restore.phase = "publish"
  /\ EngineStep
  /\ restore' = CASE phase' = "done" \/ (phase' = "failed" /\ phase = "commit") -> NoRestore
                  [] phase' = "failed" /\ phase # "commit" ->
                       [restore EXCEPT !.phase = "cleanup"]
                  [] OTHER -> restore
  /\ UNCHANGED volume

----------------------------------------------------------------------------
(* Abandoning a restore, and its cleanup.                                   *)

(* cancel(), fail() and every refusal of the archive, the author, the space *)
(* or the user, up to the rename.                                           *)
Abandon ==
  /\ \/ /\ restore.phase \in {"directory", "package", "content", "ready"}
        /\ UNCHANGED engine
     \/ /\ restore.phase = "publish"
        /\ Cancellable
        /\ StopEngine
  /\ restore' = [restore EXCEPT !.phase = "cleanup"]
  /\ UNCHANGED <<flash, faults, volume>>

(* By generation: chunks from the last to the first, index, package. *)
RemovedFirst(n, m) ==
  \/ n.gen < m.gen
  \/ n.gen = m.gen /\ Rank(n.type) < Rank(m.type)
  \/ n.gen = m.gen /\ n.type = m.type /\ n.part > m.part

NextRemoved ==
  CHOOSE n \in restore.staged : \A m \in restore.staged \ {n} : RemovedFirst(n, m)

(* cleanup(): the staged root, then one name at a time, then the directory  *)
(* if the restore made it.  A removal that fails is passed over.            *)
CleanupRestore ==
  /\ restore.phase = "cleanup"
  /\ \/ /\ restore.publisher
        /\ pending' = NoRoot
        /\ restore' = [restore EXCEPT !.publisher = FALSE]
        /\ UNCHANGED <<objects, dir, faults>>
     \/ /\ ~restore.publisher /\ restore.staged # {}
        /\ \/ /\ objects' = [objects EXCEPT ![NextRemoved] = Absent]
              /\ UNCHANGED faults
           \/ /\ faults < MaxFaults
              /\ faults' = faults + 1
              /\ UNCHANGED objects
        /\ restore' = [restore EXCEPT !.staged = @ \ {NextRemoved}]
        /\ UNCHANGED <<dir, pending>>
     \/ /\ ~restore.publisher /\ restore.staged = {}
        /\ dir' = (dir /\ (restore.madeDir => \E n \in Name : Present(n)))
        /\ restore' = NoRestore
        /\ UNCHANGED <<objects, pending, faults>>
  /\ UNCHANGED <<root, engine, volume>>

----------------------------------------------------------------------------
(* The volume and the archive session exclude each other                    *)
(* (AppManagement::busy); power and storage fail at any time.               *)
VolumeStep == restore.phase = "idle" /\ Next /\ UNCHANGED restore

RestoreLost == restore.phase # "idle" /\ PowerLoss /\ restore' = NoRestore
RestoreDecay == restore.phase # "idle" /\ Decay /\ UNCHANGED restore

RestoreNext ==
  \/ BeginRestore
  \/ /\ \/ VolumeStep \/ RestoreLost \/ RestoreDecay
        \/ OpenRestore \/ StagePackage \/ ReuseChunk \/ StageChunk \/ StageIndex
        \/ CommitRestore \/ PublishStep \/ Abandon \/ CleanupRestore
     /\ UNCHANGED restores

RestoreSpec == RestoreInit /\ [][RestoreNext]_restoreVars
=============================================================================
