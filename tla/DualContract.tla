------------------------------ MODULE DualContract ------------------------------
(***************************************************************************)
(* The dual-boot layout as the host tools and the boot chain see it: what  *)
(* a NAND region can hold, which system the boot ROM and the loader reach  *)
(* from it, and the ordered plans of block replacements that turn one      *)
(* installation into another.  No state: DualTransaction executes a plan.  *)
(*                                                                         *)
(* A block stands for a run of blocks the tools treat alike.  The four ROM *)
(* control copies are f1 and f0 (replaced in that order, searched in the   *)
(* other), a boot stream is a head (with the IVT) and a body.              *)
(***************************************************************************)
EXTENDS Naturals, Sequences

Control == {"f0", "f1"}
Stream  == [p0 |-> "primary", p1 |-> "primary", s0 |-> "secondary", s1 |-> "secondary"]
Layout  == {"l0", "l1"}
UserData == {"fs", "apps"}
Block   == Control \cup DOMAIN Stream \cup Layout \cup UserData \cup {"sys", "img"}

System  == {"stock", "legacy", "dual"}

\* What a block holds: the bytes of one system and release (or of a number of
\* uses, for user data), nothing, a prefix of the pages of a stream block, or
\* pages no codec decodes.
Of(system, n) == [is |-> system, n |-> n]
Blank == Of("blank", 0)
Torn  == Of("torn", 0)
Short(content) == Of("short", content.n)

-----------------------------------------------------------------------------
\* The three installations the tools accept as a source, as functions on Block.

StockBoard ==
  [b \in Block |-> IF b \in DOMAIN Stream \cup Layout THEN Blank ELSE Of("stock", 0)]

LegacyBoard ==
  [b \in Block |-> IF b \in DOMAIN Stream \cup Layout THEN Blank ELSE Of("legacy", 0)]

\* Release n of the dual layout over HP's own system area.
DualBoard(n) ==
  [b \in Block |-> CASE b = "sys"       -> Of("stock", 0)
                     [] b \in UserData -> Of("dual", 0)
                     [] OTHER           -> Of("dual", n)]

-----------------------------------------------------------------------------
\* The boot ROM.  A control copy decodes unless its page is erased or torn, and
\* names the system whose two streams it tries; the streams of both old systems
\* live in "sys".  A dual stream loads when its first pages hold an IVT and no
\* page read is uncorrectable: erased pages and pages of another release decode.

StreamBlocks(copy) == IF copy = 1 THEN <<"p0", "p1">> ELSE <<"s0", "s1">>

StreamLoads(nand, copy) ==
  LET s == StreamBlocks(copy)
  IN  nand[s[1]].is \in {"dual", "short"} /\ nand[s[2]].is # "torn"

FirmwareLoads(nand, fcb, copy) ==
  \/ nand[fcb].is = "dual" /\ StreamLoads(nand, copy)
  \/ nand[fcb].is \in {"stock", "legacy"} /\ nand["sys"].is = nand[fcb].is

\* The search order: both streams of the first copy, then of the next one.
Search == << <<"f0", 1>>, <<"f0", 2>>, <<"f1", 1>>, <<"f1", 2>> >>

Loading(nand) == {k \in 1..4 : FirmwareLoads(nand, Search[k][1], Search[k][2])}

\* A stream is whole when both its parts are of one release and the control copy
\* counts at least that release's pages.
StreamWhole(nand, fcb, copy) ==
  LET s == StreamBlocks(copy)
  IN  /\ nand[s[1]] = nand[s[2]]
      /\ nand[s[1]].is = "dual"
      /\ nand[s[1]].n <= nand[fcb].n

-----------------------------------------------------------------------------
\* The loader: redundant layout records must agree on the transaction, and the
\* images must match the signed descriptor of the selected one.

ValidRecords(nand) == {b \in Layout : nand[b].is = "dual"}

SelectedRelease(nand) ==
  LET releases == {nand[b].n : b \in ValidRecords(nand)}
  IN  IF \E n \in releases : releases = {n} THEN CHOOSE n \in releases : TRUE ELSE 0

Committed(nand) == SelectedRelease(nand) # 0

LoaderBoots(nand) ==
  Committed(nand) /\ nand["img"] = Of("dual", SelectedRelease(nand))

\* The data a dual installation runs on; a migrated board starts with an empty
\* application region, a legacy one keeps its own.
DualData(nand) ==
  /\ nand["sys"].is = "stock"
  /\ nand["fs"].is = "dual"
  /\ nand["apps"].is \in {"blank", "dual", "legacy"}

\* What a reset leads to.  "mixed" is a loader made of two releases, "broken" a
\* system started over data that is not all its own.
Boot(nand) ==
  LET ok    == Loading(nand)
      first == CHOOSE k \in ok : \A j \in ok : k <= j
      fcb   == Search[first][1]
      system == nand[fcb].is
  IN  IF ok = {} THEN "none"
      ELSE IF system # "dual"
           THEN IF \A b \in UserData \cup {"img"} : nand[b].is = system
                THEN system ELSE "broken"
           ELSE IF ~StreamWhole(nand, fcb, Search[first][2]) THEN "mixed"
           ELSE IF ~LoaderBoots(nand) THEN "recovery"
           ELSE IF DualData(nand) THEN "dual" ELSE "broken"

\* verify_routes: every control copy is redirected and both streams are whole.
RoutesVerify(nand) ==
  /\ \A f \in Control : nand[f].is = "dual"
  /\ \A copy \in 1..2, f \in Control : StreamWhole(nand, f, copy)

-----------------------------------------------------------------------------
\* Plans.  A step names a block and its phase; a change adds the content it must
\* replace and the one it writes.  Blocks that already agree are left out.

Phased(phase, blocks) == [k \in 1..Len(blocks) |-> <<blocks[k], phase>>]

\* Mutant: the control copies are redirected before the streams are there.
RedirectFirst ==
  Phased("redirect-rom", <<"f1", "f0">>) \o
  Phased("stage-recovery", <<"p0", "p1", "s0", "s1">>) \o
  Phased("migrate-data", <<"fs", "apps">>) \o
  Phased("stage-images", <<"img">>) \o
  Phased("commit-layout", <<"l0", "l1">>)

MigrateOrder ==
  Phased("stage-recovery", <<"p0", "p1", "s0", "s1">>) \o
  Phased("redirect-rom", <<"f1", "f0">>) \o
  Phased("migrate-data", <<"fs", "apps">>) \o
  Phased("stage-images", <<"img">>) \o
  Phased("commit-layout", <<"l0", "l1">>)

AddHpOrder ==
  Phased("stage-recovery", <<"p0", "p1", "s0", "s1">>) \o
  Phased("redirect-rom", <<"f1", "f0">>) \o
  Phased("restore-hp-system", <<"sys">>) \o
  Phased("migrate-data", <<"fs">>) \o
  Phased("stage-images", <<"img">>) \o
  Phased("commit-layout", <<"l0", "l1">>)

RestoreOrder ==
  Phased("disable-boot", <<"l0", "l1">>) \o
  Phased("restore-data", <<"sys", "fs", "img", "apps">>) \o
  Phased("restore-rom", <<"f1", "f0">>) \o
  Phased("restore-cleanup", <<"p0", "p1", "s0", "s1">>)

RefreshOrder ==
  Phased("redirect-rom", <<"f1", "f0">>) \o
  Phased("stage-recovery", <<"s0", "s1", "p0", "p1">>) \o
  Phased("stage-images", <<"img">>) \o
  Phased("commit-layout", <<"l1", "l0">>)

Change(nand, desired, step) ==
  [block |-> step[1], phase |-> step[2],
   before |-> nand[step[1]], after |-> desired[step[1]]]

\* The change of a step, if its block does not agree already.
Kept(nand, desired, order, k) ==
  IF k \in 1..Len(order) /\ nand[order[k][1]] # desired[order[k][1]]
  THEN <<Change(nand, desired, order[k])>> ELSE <<>>

\* No order has more steps than there are blocks.
Plan(nand, desired, order) ==
  LET kept(k) == Kept(nand, desired, order, k)
  IN  kept(1) \o kept(2) \o kept(3) \o kept(4) \o kept(5) \o kept(6) \o
      kept(7) \o kept(8) \o kept(9) \o kept(10) \o kept(11) \o kept(12)

MigratePlan(nand) == Plan(nand, [DualBoard(1) EXCEPT !["apps"] = Blank], MigrateOrder)
AddHpPlan(nand)   == Plan(nand, DualBoard(1), AddHpOrder)
RefreshPlan(nand) == Plan(nand, DualBoard(nand["img"].n + 1), RefreshOrder)
RestorePlan(nand, backup) == Plan(nand, backup, RestoreOrder)

\* A plan done: the flash it promises.
Promised(initial, changes) ==
  [b \in Block |-> IF \E k \in 1..Len(changes) : changes[k].block = b
                   THEN (CHOOSE c \in {changes[k] : k \in 1..Len(changes)} : c.block = b).after
                   ELSE initial[b]]
=============================================================================
