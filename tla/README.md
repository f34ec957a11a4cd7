# Formal models of Lefony OS

Lefony OS is firmware for the HP Prime G2 calculator with a host installer, an
update system and a native-app platform. Most of its risk is in storage: raw
NAND that wears out, power that can go at any instruction, and several programs
(U-Boot, the OS, the host installer, the emulator) that edit the same records.
The rest is in protocols whose two ends stop, retry and go on at different times:
publishing to the app store, and the USB channel between an app and a computer.
This directory holds TLA+ models of that part of the system, TLC configurations
that check them and TLAPS proofs about them.

Paths in this file are relative to the repository; `P/` stands for
`ports/lefony-prime-g2/ion/src/prime_g2/`.

## 1. The system

| component | where | state it keeps | operations | talks to |
|---|---|---|---|---|
| Physical bootloader | `native/prime_g2/lefony_ab_physical.c` | two copies of the boot-control record in NAND, hand-off page in RAM | `lefony_ab boot`: consume token, count an attempt, roll back, verify and load a slot | OS (hand-off page, SNVS token), installer (record) |
| Emulator bootloader | `vm/u-boot/lefony_ab.c` | the same record | as above, plus `lefony_ab seed` | OS (record, hand-off) |
| OS update code | `P/nand_update.cpp` | update status, manifest, hand-off slot | read hand-off, accept manifest and capsule, install (emulator), confirm boot, abort | U-Boot, USB requests |
| Host A/B update | `scripts/lefony_installer.py`, `scripts/prime_g2_ab_metadata.py`, `scripts/prime_g2_provision_ab.py` | authenticated package and status | provision, write inactive slot, publish record | recovery image over USB |
| USB diagnostics | `P/usb_diagnostics.cpp`, `P/development_update.cpp` | upload windows, request state | about fifty vendor requests, bulk transfers | nearly every other part |
| Watchdog | `P/watchdog.cpp` | SNVS words, reset reason | poll, request recovery, reboot for update | U-Boot |
| Document store | `P/app_document_store.cpp`, `P/app_root_record.cpp`, `P/app_document_root.h` | per app: a root file, immutable objects `p<gen>`, `d<gen>`, `c<gen>.<part>` | begin, step, cancel, collect, prune, publish staged | littlefs, file store, volume |
| File store and readers | `P/app_file_store.cpp` | stream under construction, open snapshots, read cache | write, commit, read, seek, close | document store |
| App volume | `P/app_storage.cpp`, `P/legacy_app_storage.cpp` | mounted littlefs, current operation | mount, migrate, install, checkpoint, upgrade, accept, roll back, remove | both stores, app management |
| App management and sessions | `P/app_management.cpp`, `P/app_data_session.cpp`, `P/app_file_session.cpp`, `P/app_file_exchange.cpp`, `P/app_archive_*.cpp` | one host- or app-driven operation at a time | install, back up, restore, exchange files | volume, USB, user consent |
| Developer keys | `P/app_developer_key*.cpp` | trust store | add, remove, restore | volume, USB, user consent |
| Native app runtime | `P/native_app.cpp`, `P/services.cpp`, `P/app_system.cpp` | one running app | system calls, scheduling | volume, display, input |
| Preferences | `P/persistence.cpp`, `P/block_storage.cpp` | redundant records in NAND | load, save | NAND |
| Start-up menu and dual boot | `native/prime_g2/bootmenu/`, `native/prime_g2/dual_boot/` | saved priority, boot choice | choose, save, hand off to HP OS or Lefony | NAND, SNVS |
| Dual-boot migration and restore | `vm/prime_dual_migration.py`, `scripts/prime_dual_*.py`, `scripts/prime_phase6_*.py`, `scripts/prime_hp_raw_restore.py` | reviews and operation directories on the host, two journal blocks on the NAND | review, approve, run, resume, confirm; migrate, add HP OS, refresh, restore | recovery loader in the calculator's RAM, boot ROM, dual-boot loader |
| Store publishing | `sdk/tools/store_publish.py`, `store_mutations.py`, `store_listing_sync.py`, `store_snapshot.py` | per project: attempts, operations and receipts, a baseline, a pull plan and journal | publish, resume, status, cancel; listing push, pull, recover | the app store over HTTPS, the author's files |
| App USB channel | `P/app_channel.h`, `P/app_channel.cpp`, `sdk/tools/channel_device.py`, `sdk/tools/companion.py` | a session with two bounded queues on the calculator, a client with one pending frame | open, attach, consent, send, receive, acknowledge, close | native app runtime, USB control transfers |
| Drivers, display, input, math, themes | `P/*.cpp`, `ports/lefony-prime-g2/apps` | hardware registers, UI | - | - |
| Host tools | `scripts/`, `sdk/tools/` | files on a development machine | build, package, sign, transfer | - |
| QEMU device models, littlefs | `vm/qemu/`, `P/littlefs/` | models of hardware; vendored library | - | - |

### What is hard, and what correctness means

* **A/B update.** Power may fail between an erase and a program, blocks wear
  out, the confirmation that an image came up travels through a battery-backed
  word and is consumed at the *next* boot, and the installer acts on a status it
  read some resets ago. Correct: there is always a valid record; the image to
  fall back to is never touched; only a candidate that came up becomes active;
  every candidate is resolved; all readers of the record agree.
* **Document store.** A transaction is a long sequence of bounded steps that can
  be cancelled or cut short by power loss while snapshots are being read.
  Correct: the published root always refers to whole objects; a reader keeps the
  bytes it opened; what a crash leaves behind never blocks a later transaction;
  an app's data changes atomically.
* **Volume, sessions, archives.** One owner at a time, host disconnects,
  consent given for something that changed meanwhile.
* **Dual-boot migration.** Hundreds of erases and programs replace the system
  the calculator boots, and any of them may be cut short; the job is resumed
  later, by another process, from two redundant journal copies, over a board that
  may have been used or changed by another job meanwhile. Correct: a reset always
  finds something whole to boot; the journal never runs ahead of the flash; a job
  nobody disturbed can be continued and ends; a plan the board has left is refused.
* **Store publishing.** The store's listing is edited on a web site while a
  publication is built and sent; answers are lost, staging expires, commands die
  between two files. Correct: no edit is lost on either side; what the folder
  remembers of the store is true; an author is only sent to start again when the
  attempt can no longer be accepted.
* **App channel.** The computer checks a status and acts on it one transfer later;
  a transfer it saw fail may have arrived. Correct: within a session nothing is
  lost, repeated or reordered; nothing crosses from one session, or app, to another.
* **USB requests.** Re-initialisation in the middle of a transfer, retry after abort.

## 2. Modules

| module | models | lines it follows |
|---|---|---|
| `ABMetadata` | the redundant boot-control record, `commit_metadata` one flash operation at a time, and the boot policy of `do_ab_boot` | `native/prime_g2/lefony_ab_physical.c`, `vm/u-boot/lefony_ab.c` |
| `ABBoot` | the physical update: `ABMetadata` with the OS, the SNVS token, the installer, power loss, rotting slots | + `P/nand_update.cpp`, `P/usb_diagnostics.cpp`, `scripts/lefony_installer.py`, `scripts/prime_g2_ab_metadata.py` |
| `ABEmulator` | the emulator's variant: factory seed, installation by the OS itself, fallback write | `vm/u-boot/lefony_ab.c`, `P/nand_update.cpp` |
| `ABPolicy` | abstract specification: what an A/B update promises | `docs/LEFONY-UPDATE-ARCHITECTURE.md:120-147` |
| `ABBoot_proofs` | theorems about `ABBoot`; the last part counts losses | - |
| `ABEmulator_proofs` | theorems about `ABEmulator` | - |
| `AppDocuments` | the transaction engine of one app, one object, directory entry or root operation at a time | `P/app_document_store.cpp`, `P/app_document_root.h`, `P/app_file_index.h` |
| `AppVolume` | the volume and the file writer over `AppDocuments`, with readers, cancellation, failures, remounts and power loss | `P/app_storage.cpp`, `P/app_file_store.cpp` |
| `AppVolume_proofs` | theorems about `AppVolume` with its engine, and that it implements `AppStore` | - |
| `AppRestore` | the restore of an archive on that volume: staging, reuse, publication, abandonment, cleanup | `P/app_archive_restore.cpp`, `P/app_archive_session.cpp`, `P/app_archive_format.h` |
| `AppRestore_proofs` | theorems about `AppRestore`: the same volume while archives are restored over it | - |
| `MCAppRestore` | archives and starting volumes for TLC | - |
| `AppStore` | abstract specification: what the volume promises about one app | `docs/NATIVE-APP-DOCUMENT-TRANSACTIONS.md` |
| `DualContract` | what a NAND region can hold, what the boot ROM and the loader make of it, and the ordered plans (no state) | `scripts/prime_dual_boot_contract.py`, `vm/prime_dual_migration.py`, `scripts/prime_dual_legacy.py`, `scripts/prime_dual_refresh.py`, `vm/qemu/prime_g2_peripherals.c`, `native/prime_g2/dual_boot/dual_boot.c` |
| `DualTransaction` | the restartable NAND transaction, one flash operation at a time | `scripts/prime_dual_boot_transaction.py`, `scripts/prime_dual_physical.py`, `scripts/prime_phase6_install_trial.py`, `scripts/prime_phase6_restore.py` |
| `DualSession` | the companion's jobs around it, the calculator's owner, power cuts | `scripts/prime_dual_service.py` and the two `prime_phase6_*.py` |
| `DualPromise` | abstract specification: how a reviewed plan may change a board | the contract stated in `scripts/prime_dual_boot_transaction.py` |
| `DualPlan_proofs` | lemmas about `DualContract`: what a plan contains, where it can stop, what boots there | - |
| `DualSession_proofs` | theorems about `DualSession` with its transaction, and the refinement of `DualPromise` | - |
| `StoreService` | the app store as the publishing client uses it | external: from the requests `sdk/tools/store_publish.py` and `store_mutations.py` send and the answers they accept |
| `StoreProject` | a project folder, its commands, the author, the web site and the network | `sdk/tools/store_publish.py`, `store_mutations.py`, `store_listing_sync.py`, `store_snapshot.py` |
| `StoreProject_proofs` | theorems about `StoreProject`: of any author, and of a careful one | - |
| `AppChannel` | the session on the calculator and the client on the computer over transfers that fail | `P/app_channel.h`, `P/app_channel.cpp`, `P/usb_diagnostics.cpp`, `P/native_app.cpp`, `sdk/tools/channel_device.py`, `sdk/tools/companion.py` |
| `ChannelPromise` | abstract specification: two queues between an app and a program | `sdk/CHANNEL.md` |
| `AppChannel_proofs` | theorems about `AppChannel`, with the refinement of `ChannelPromise` | - |

### ABMetadata

`copy[0]`, `copy[1]` are the two erase blocks at `METADATA_A_OFFSET` and
`METADATA_B_OFFSET`; `flash[s]` is a slot. A record is a TLA+ record with the
fields of `struct ab_metadata`; an image is one number that stands for version,
length and SHA-256 together, so `load_slot`'s digest check is an equality.
`pc` is what the processor does next and `cont` where a successful commit
returns to; a commit is the four steps erase, program, erase mirror, program
mirror (`EraseFirst`, `ProgramFirst`, `EraseMirror`, `ProgramMirror`) with a
failing variant of each (`FirstFails`, `MirrorFails`). A flash operation that
fails may leave the old contents, an erased block or the new record whose
read-back went wrong, and may leave the block unusable for ever (`worn`).
`SelectActive`, `SelectPending`, `AbandonPending`, `Boot` and `LoadFails` are
the branches of `do_ab_boot`. An interrupted erase or program is the same as one
that finished or did not start: the CRC makes a half-written record invalid,
which is what `Erased` stands for.

### ABBoot

`Init` is a calculator provisioned by `prime_g2_provision_ab.py`. A round is:
the OS authenticates a newer package (`AuthenticateCapsule`), is asked to reboot
into recovery (`RequestRecovery`; also `EnterRecovery`, by hand after any reset
or failed boot, with a status that may be old), the installer re-reads the
record, erases and writes the inactive slot, commits the record
(`BeginUpdate`, `EraseSlot`, `WriteSlot`, then the commit steps), the user
resets (`PowerLoss`), U-Boot counts an attempt and boots the candidate, the
candidate leaves a token once its first screen is up (`ConfirmBootIfReady`), and
the next boot consumes the token and commits (`AcceptBootSuccess`). `PowerLoss`
may happen in every state and may take the battery-backed token with it.
`vouched`, `tries` and `losses` are history: no action reads them.

A second package in the same boot must be newer than the first one
(`sStatus.version`); the model lets it be any package newer than the running
image, which is a superset.

### ABEmulator

The OS writes slot and record itself and confirms by itself, and both writers
fall back to erasing the newest copy when the stale one fails. U-Boot's seed is
taken when no record is valid. The image that runs may be one whose first screen
never comes up; USB is still served then, by the fatal-fault screen.

### AppDocuments

`objects` is `objects/ID`: the content of every name `p<gen>`, `d<gen>` and
`c<gen>.<part>`; `dir` says whether the directory exists; `root` is
`apps/ID.app` and `pending` is `apps/.pending`. A content stands for bytes and
for their digest: an object is whole when it has the content its root recorded.
`job` holds what `begin` was given (`m_before`, `m_after`, the flags), `scan`
the entries the open directory has still to return, in name order. `Check`,
`OpenDirectory`, `Collect` (one entry), `CollectEnds`, `WriteObject`, `Verify`,
`RootWrite`, `RootVerify`, `Commit` and `RemoveDirectory` are the phases of
`Store::step`; `EngineFails` is an input or output error in any of them, a
rename that reports an error having happened or not. The hashing of a list of
objects is one step, since it changes nothing and nothing else writes to the
objects meanwhile; creation and close of a new object are two, because power can
fail between them.

### AppVolume

`user` says whose `step()` the volume runs (`m_documentOperation`,
`m_fileOperation`, or neither: a combined FILE2 file in `plain`); `file` is the
writer with the index it is building (`priv` and `file` are the extents of the
private byte store and of the named file). `BeginInstall`, `BeginRemove`,
`BeginConversion`, `BeginCheckpoint`, `BeginFeed` (a checkpoint once the app has
an index), `BeginUpgrade`, `BeginAccept`, `BeginRollback`, `BeginWrite`
(replacing or patching), `BeginStream` and `ChangeFile` are the volume's entry
points. A file operation first collects (`Preparing`), then writes and reads
back chunks (`PrepareChunk` or `FlushChunk`, `CloseChunk`, `VerifyChunk`), then
publishes the index through the engine (`PublishIndex`). Which bytes a chunk
gets is left open. `OpenSnapshot` may come while a writer is active;
`CloseSnapshot` at any time. `CancelWriter`, `CancelDocument` and `CancelInstall`
are `Volume::cancel`; a cancelled half-written chunk stays on flash. `Mount`,
`Initialize` (with `pruneOrphans`), `PowerLoss` and `Decay` complete the life of
the volume.

`AppStore` has no flash: `current` and `previous` states of an app that change
atomically. `AppVolume!Store` maps the canonical root to it, and
`ImplementsStore` says that every behaviour of the volume is one of the store's.

### AppRestore

`restore` is the `Restore` object of `P/app_archive_restore.cpp`; it runs only while
the volume is idle, and the volume only while it is (`AppManagement::busy`).
`BeginRestore` stands for the session's checks and its verdict on the first package
(`Authorized`: the installed package, also as a repair, or one above every version
accepted before); nothing is written before it. `OpenRestore` makes the directory and
reads the installed pairs' indexes. Then each pair is staged under its own
generation: `StagePackage`, one `ReuseChunk` or `StageChunk` per chunk of the archive
(`Offered` are the extents `findReuse` goes through, of the installed pairs and then of
the pair just staged; `Candidates` the places among them where it and `checkReuse`
accept one, of which the first is taken), `StageIndex`. `CommitRestore` hands the new root
to the engine (`StartStaged`), whose steps `PublishStep` drives: everything staged is
read back (`CheckStaged`), the root written, read back and renamed. `Abandon` is a
cancellation, a disconnected host, a timeout, a malformed or refused archive, lack of
space or a user who says no, at any point up to the rename; `CleanupRestore` then
removes one name at a time. A rename that reports an error ends the restore with
everything kept (`CommitUnknown`).

Opening, writing and closing a staged object is one step: an object left half
written is not named by any index, so it is a leftover as a whole one would be. What
is written may be wrong (`Written`), since it is read back only before publication.
A restore publishes without collecting, so what its root superseded stays until the
next transaction: `NoGarbage` is stated of the volume's own transactions only.
`AppStore!Restore` is its abstract counterpart: a restored app has the archive's
states and never a lower version floor.

### DualContract, DualTransaction, DualSession

A block of `nand` stands for a run of NAND blocks that the tools treat alike: two
of the ROM's control copies (`f0`, `f1`), head and body of the two boot streams
(`p0` `p1`, `s0` `s1`), the two layout records, HP's system area, the images, and
the user data of two partitions. Its content is a system with a release or use
count, or blank, torn, or a prefix of its pages (`Short`). `Boot(nand)` is what a
reset leads to: the ROM's search over control copies and streams, then the
loader's checks. A plan (`MigratePlan`, `AddHpPlan`, `RefreshPlan`,
`RestorePlan`) is the sequence of changes the planners emit, blocks that agree
left out.

`DualTransaction` has one executor. `pc` says where it stands; `Start` chooses
between a first start, a resume, a restart of the initialization and the
recognition of a completed restore, with the whole-board inspections that
`prime_dual_physical.py` and the file executor make for each. `Check` is
`Engine.run`'s loop head (barrier, before-image, pending record), `Save` and
`ProgramCopy` the two halves of a journal write, `WriteBlock` and `ProgramBlock`
those of a block, `Advance` the completed record, `Final` the last reading, and
`ClearJournals`/`RetireJournals` what starts and ends a restore. `Stop` leaves
what was being erased or programmed as it was, torn, or with a prefix of its
pages. A plan is its own identity: the owner written into a journal is the first
job with the same mode, backup and changes, as the digest of the retained review is.

`DualSession` adds the reviews (`Review`, only of boards the bundle or the route
check accepts), the single-use approval (`Approve`), the operation directory
(`MakeDirectory`, then `Launch`), the retained read-backs (`Snapshot`), `Qualify`,
`Resume`, `Confirm`, and the owner of the calculator, who may use it whenever no
job holds it in RAM (`Use`). `alone` and `faults` are history.

### StoreService, StoreProject

`history` is the list of accepted revisions, each with its author and, for each
listing field, the *set of edits* its text contains: an edit is lost when a
revision does not contain what its predecessor had. `staged` is the upload of an
attempt. In the folder, `files`, `base` (`.lefony/store-base.json`), `jobs`
(attempts with `remote.json` and `receipt.json`, and saved listing operations),
the reviewed `plan` of a pull and the `journal` of its application are durable;
`run` is the command that holds the lock, with what it has in memory, and `Stop`
kills it at any step. `Publish`, `Prepare`, `Record`, `Query`, `Lookup`, `Start`,
`SaveUpload`, `Put`, `Finish`, `Cancel`, `WriteReceipt`, `WriteBase` are the
stages of `publish`, `transfer` and `accepted`; `Push`, `ReopenPush`, `Edit` those
of `push`; `Pull`, `ApplyPlan`, `Replace`, `Applied`, `Recover`, `RollbackCheck`,
`Rollback`, `RolledBack` those of the pull. `Lose` puts a request on the wire whose
answer the client never gets; `ServeLate` serves it, any number of times. A retry
is `Lose` followed by the same exchange.

### AppChannel

`dev` is `Session` with the queues as sequences, `host` the client with at most
one `pending` frame it is not sure of and one `received` message it has not
acknowledged; `host.call` is what remains of a call once its status check has
passed, so that the app, the user, a deadline or a bus reset can act between the
check and the transfer. `Accepts` and `Handled` are the calculator's answer to a
transfer and the session after it. A transfer that fails stays in `late` and is
handled, if at all, before the next one (one endpoint, one request at a time).
`Promise` maps both to the two queues of `ChannelPromise`.

## 3. Runs

| run | question | bounds | states |
|---|---|---|---|
| `ABBoot_safety` | does the physical update keep its record, its fallback image, its token discipline and its policy whatever is interrupted or fails, and is every candidate resolved unless the flash fails? | three images of which one never comes up, boot limit 2, two flash faults, generation up to 5 when an update starts | 96,824 |
| `ABBoot_bootable` (violated) | does a failing commit "keep the current generation bootable"? | two images, one fault | - |
| `ABEmulator_faults` | the same for the emulator variant, from an empty flash | three images, boot limit 2, two faults, generation 5 | 82,748 |
| `ABEmulator_reset` (violated) | does a reset at any point leave a valid record? | two images, one fault | - |
| `AppVolume_safety` | does the root name only whole objects, and is it never torn, whatever fails once and wherever power fails or the user cancels? | two packages, four generations, two-chunk file, one fault, no reader | 920,024 |
| `AppRestore_safety` | with a restore that is abandoned, interrupted or failing anywhere: does the root name only whole objects, are new names free, and do volume and restore implement the abstract store? | two packages, archives of one and of two pairs, one restore, three generations, one chunk, one fault; an empty volume or one restored earlier | 1,819,031 |
| `AppVolume_history` | do readers keep their chunks, is everything else collected, and is a removed app cleaned up? | one package, six generations, one-chunk file, one reader, no fault | 297,390 |
| `DualSession_jobs` | does a reset always find something whole, is the journal true, is a job resumed exactly when it may be, and does a verified job leave what it promised? | three source boards, physical and file media, two jobs, two power cuts or uses | 682,850 |
| `DualSession_liveness` | does an approved job end verified? | as above, one power cut or use | 75,980 |
| `DualSession_refresh` (violated) | does "every prefix" of a refresh retain a ROM route? | dual board, one job, one power cut | - |
| `StoreProject_edits` | is no edit lost on either side, and is what the folder remembers true? | two fields, one attempt, one listing operation, one edit each by author and web site, one chunk, one staging, one delayed request | 1,373,777 |
| `AppChannel_link` | is the channel two queues that a session's end empties, do both ends agree, and is every call settled? | two sessions, two pairings, two apps, queues of two, three sequence numbers | 143,545 |

The bounds. An update may start below generation 5, which leaves room for one that
is accepted, or given up because its slot does not load, and for the next one, which
overwrites what the first left in the inactive slot and is tried and resolved in its
turn. A second update after a candidate that used up its attempts starts at
generation 5; with a bound of 6 the run passes as well (209,919 states) and takes
more than twice as long, so it is not kept. Two candidates after the seed, one of
which never comes up, give each case its good and its bad image. A boot limit of 2
separates "first", "last" and "one too many". Two faults are needed for a worn
metadata block to meet a second failure; a third would only repeat a block that
already fails. In the runs of the A/B modules and of the app volume deadlock is
checked: power loss is always possible.

For the app volume: four generations are an installation, a conversion and two
transactions, so that the previous pair is in use and a leftover of an interrupted
transaction meets its successor with the same serial, and a save during a pending
upgrade is followed by an acceptance or a rollback; six are what it takes for a
chunk to leave both pairs while a reader holds it (installation, conversion, file,
two replacements, and the transaction that collects). Two chunks let a patch share
one with the generation before it. Faults are an object or root written wrong, an
operation that fails, or an object that rots, one per behaviour. The run with the
restore takes one chunk and three generations, so that a restore of two pairs over
an installed app and one of a single pair after another transaction both fit; its
second start, an app that was restored earlier, is a state the volume reaches by
itself with one generation more, and `AppStore`'s initial states allow it. The reuse
of chunks between two pairs happens in it, as both have the same bytes. The readers'
run has no fault, since none is needed to lose a chunk to the collection.

For dual boot: a second job is what it takes to resume a plan over a board
another plan has changed; two interruptions let a resume be interrupted itself,
and an interruption be followed by a use of the calculator. The runs start from
every supported installation and end, like the program, when no review is left
(deadlock is not checked in them for that reason).

For the store: `MaxGen` is how often an attempt is staged and `MaxWire` how many
requests are under way unanswered. Once the author, the web site and the client have
used up their edits and attempts the run ends, so deadlock is not checked. One attempt and one operation compete for the
baseline with the web site; two fields make a pull a sequence of replacements that
can stop in the middle. An instance with one field, two edits on the web site and
two stagings (5,170,655 states) passes as well; it is not kept because of its size.
Two constants state assumptions about people: `LateResume = FALSE` (an author does
not resume an attempt prepared before a later pull or push; `sdk/PUBLISHING.md:177`
asks for a rebuild and a test after a pull, before publishing) and `EditsInRollback = FALSE` (an author does not save a file
in the instant between a rollback's check and its replacement). What happens when
they are TRUE is under "Findings".

For the channel: `LastSeq` 4 stands for the sequence number `0xffffffff` and
`MaxSession` for the last session number, so that both limits are reached; a queue
of two distinguishes full from one waiting; a second session and a second pairing
are what a late transfer or a stale client needs to reach the wrong one. Nonces
are fresh, as the client draws them from 128 random bits. Clocks are left out: a
deadline or a lease may run out at any moment, which includes every moment at
which it does, and leaves `keepalive`, whose only effect is on the lease, without
one. Sessions are used up in the end, so deadlock is not checked.

What the passing runs show is stated beside each property. Two deserve a word.
`HealthyKept` allows a healthy candidate to be given up only after `BootLimit`
power losses in its trial boots: U-Boot clears the token *before* it commits the
acceptance, so a power loss there forgets the confirmation, and the model shows
that this costs one attempt and nothing more. `ImplementsPolicy` is a refinement:
an observer who reads the newest valid record sees an atomic register that moves
as `ABPolicy` allows.

Fairness (`ABBoot!FairSpec`, of use to `CandidateResolved` alone): strong
fairness of each U-Boot step (power does not fail at the same step for ever) and
weak fairness of `PowerLoss` (a calculator that hangs in a candidate without a
first screen, or that stops in a failed boot, is eventually reset by its
watchdog or its user). Flash may fail in that run, and then the calculator owes
nothing more: a metadata block that cannot be written ends every boot of a
pending candidate (finding 1). The installer and the user owe nothing.

`AppVolume!FairSpec` (run `AppVolume_history`, for `OrphansReclaimed`) assumes weak
fairness of `Initialize` (a calculator that was switched off is started again) and
strong fairness of the removal's own steps: the volume is stepped by the main
loop, and power does not fail at the same step for ever. The user owes nothing. In
that run nothing fails but power: after an input error the volume stays failed
until it is restarted.

`DualSession!FairSpec` (run `DualSession_liveness`): weak fairness of the steps of
the process that holds the lock, and of `Resume`, because the promise of the tool
is to someone who reconnects the calculator and resumes; interruptions are
bounded by `MaxFaults`. Approving and confirming are owed by nobody.

`AppChannel!Fairness`: weak fairness that a transfer the endpoint still holds is
handled or dropped, that the app reads what it was sent and that a call once begun
returns; strong fairness of `Flush`, `Acknowledge` and of *successful* transfers, for
a link that does not fail for ever and a caller that goes on with what it began.
`sdk/CHANNEL.md` puts that duty on users of the library; `companion.py` itself
closes the session on an error instead, and then `CallsResolve` holds because the
pairing is over.

`TypeOK` of `AppVolume` is more than types in one place: the canonical root is
never torn, because only a staged root that was read back is renamed.
`NoGarbage` exempts chunks of earlier generations: a chunk that was spared for a
reader is collected one transaction late if the reader closes after the
collection.

`ImplementsPromise` of `DualSession` compares flash and journal with `DualPromise`:
blocks change one at a time, in the plan's order, and only while the rest of the
board is where the plan has it. It is what refuses a job that is resumed after the
calculator was used or another job has changed the board. `JobFinishes` exempts
jobs that such a change overtook, and the two places where a companion that dies
strands its own job (`Stranded`; see below).

`BaseHonest` of `StoreProject` is why the baseline is replaced last in a pull and
restored first in a rollback: at no moment do the files miss something the
baseline says the author has seen, or the next publication would remove it from
the store without a conflict.

`PeerAgrees` of `AppChannel` says that a client which shares session and nonce with
the calculator is talking to the app it was started for, although the identity was
read before the attach was sent, and that both count the same messages up to the
one each may hold: "sequence changed" and "replayed message" are never raised
against the paired app.

### Findings

1. *A worn metadata block and a pending candidate end every boot.*
   `commit_metadata` says that when the stale copy is unusable it will "stop and
   keep the current generation bootable", but `do_ab_boot` treats a commit that
   failed as a failed boot, before it has loaded any slot. While no candidate is
   pending there is nothing to commit and the calculator boots; while one is,
   each boot must commit an attempt or a rollback and ends in the serial-download
   ROM although the active image is intact (run `ABBoot_bootable`).
2. *"A reset at any point therefore leaves at least one valid record"* does not
   hold in the emulator's writers: the fallback erases the only valid copy
   (run `ABEmulator_reset`; `RecordSurvivesResets` in `ABEmulator_faults` shows
   that it does hold as long as no flash operation fails).
3. *A refresh can leave a loader made of two releases.* The comment at
   `scripts/prime_dual_refresh.py:120` says "Every prefix retains a ROM route".
   The primary stream is replaced block by block and each block decodes, so after
   a power cut the ROM loads new first blocks with old later ones as one image and
   does not turn to the secondary, which is whole (run `DualSession_refresh`;
   `BootsWhole` shows that migrations and restores are free of it).

Found while modelling, where the code and what is said of it do not disagree
outright and which have no run of their own:

* `sdk/tools/store_listing_sync.py:293`: `rollback()` checks every file first and then
  hands `replace_file` the value it has just read, so the comparison before the
  replacement compares the file with itself. An edit saved in between is
  overwritten (`UserEditsKept` fails with `EditsInRollback = TRUE`).
* `sdk/tools/store_publish.py:195`: an attempt without `remote.json` takes its
  baseline when it is resumed, whatever its content was prepared on; after a pull
  it can drop what the pull brought (`NoEditLost` fails with `LateResume = TRUE`).
* `scripts/prime_phase6_install_trial.py:93` and `:113`: a companion that dies after
  it made the operation directory and before the review is in it, or while it
  compares a second read-back, leaves a job that cannot be resumed any more. The
  board is untouched, or complete.
* `publish --status` is refused while an interrupted pull waits for `listing recover`,
  although it changes nothing.
* `Volume::cancel` after a failed file operation returns to ready without a remount;
  `Mount` alone (request 0x60) does not prune orphans; a rotten object of the
  previous state blocks acceptance and rollback alike; patching a chunk copies its
  old bytes without hashing them again.

## 4. Proofs

Every theorem holds for all values of the constants that satisfy the modules' named
assumptions; those only give constants their types and say that model values which
stand for different things differ (`ABAssumption`, `ABBootAssumption`,
`ABEmulatorAssumption`, `StoreAssumption`, `NoneAssumption`, `ChannelConstants`,
`AppDocumentsAssumption`, `BoundAssumption`). `AppRestoreAssumption` also says what
`valid(Header)` and `parsed()` establish of an archive: one or two pairs, none above its
highest version, the second below the first. "-" marks an inductive invariant:
the strengthening, itself checked with TLC on the component's run before it was proved.

| module | theorem | property |
|---|---|---|
| `ABBoot_proofs` | `TypeCorrect` | `TypeOK` |
| | `Invariance` | - (`IInv`) |
| | `RecordNeverLost` | `SomeCopyValid` |
| | `CopiesAgree` | `MirrorsAgree` |
| | `ActiveSlotIntact` | `ActiveIntact` |
| | `TokenIsFresh` | `TokenNamesCandidate` |
| | `TriesAreBounded` | `TriesBounded` |
| | `Refinement` | `ImplementsPolicy` |
| | `Kept` | - (`KeptInv`) |
| | `HealthyIsKept` | `HealthyKept` |
| `ABEmulator_proofs` | `EmulatorHolds` | - (`EmulatorInv`) |
| | `EmulatorTyped` | `TypeOK` |
| | `ActiveStaysIntact` | `ActiveIntact` |
| | `OnlyConfirmedActive` | `ActiveCameUp` |
| | `ResetsKeepRecord` | `RecordSurvivesResets` |
| `StoreProject_proofs` | `FolderHolds` | - (`FolderInv`) |
| | `StoreTyped` | `TypeOK` |
| | `BaselineExact` | `BaseExact` |
| | `ReceiptsHold` | `ReceiptsTrue` |
| | `VerdictsFinal` | `VerdictFinal` |
| | `BaselineNeverBack` | `BaselineForward` |
| | `HonestHolds` | - (`HonestInv`) |
| | `NoEditIsLost` | `NoEditLost` |
| | `BaselineHonest` | `BaseHonest` |
| | `EditsStay` | `UserEditsKept` |
| `AppChannel_proofs` | `ChannelHolds` | - (`ChannelInv`) |
| | `ChannelTyped` | `TypeOK` |
| | `PeersAgree` | `PeerAgrees` |
| | `ChannelKeepsPromise` | `ImplementsPromise` |
| `AppVolume_proofs` | `VolumeHolds` | - (`VolumeInv`) |
| | `VolumeTyped` | `TypeOK` |
| | `RootStaysWhole` | `RootWhole` |
| | `SnapshotsStayWhole` | `ReadersWhole` |
| | `LeftoversNeverBlock` | `NamesFree` |
| | `NothingLeftBehind` | `NoGarbage` |
| | `StepsHold` | - (`StepInv`) |
| | `VolumeKeepsPromise` | `ImplementsStore` |
| `AppRestore_proofs` | `RestoreHolds` | - (`RestoreInv`) |
| | `RestoredRootStaysWhole` | `RootWhole` |
| | `RestoredLeftoversNeverBlock` | `NamesFree` |
| | `RestoreImplementsStore` | `ImplementsStore` |
| `DualSession_proofs` | `DualHolds` | - (`IInv`) |
| | `DualTypes` | `TypeOK` |
| | `DualBoots` | `BootsWhole` |
| | `DualJournals` | `JournalTruthful` |
| | `DualResumes` | `ResumeAccepted` |
| | `DualVerifies` | `VerifiedBoots` |
| | `DualKeepsPromise` | `ImplementsPromise` |

*Physical update.* None of the properties is inductive: that the active image is
intact depends on what the commit in progress is about to write, which depends
on where it came from. `IInv` therefore says, for the newest record, that its
active image is in place and a candidate is a newer image, whole in the other
slot (`Good`); for a commit in progress, that the source copy is the newest one
and that the record in RAM is its acceptance, its next attempt, its rollback or
its update according to `cont` (`Committing`); that the token is only there
while the candidate it names is pending and no commit is in progress
(`TokenInv`); and that boots never outnumber the attempts paid for (`TrialInv`).
The lemmas follow that split: one group says what each operation does to a
record (`Advance`), one says which copy is the newest after a write, and then
there is one lemma per action. `HealthyKept` needs one fact more (`PaidFor`):
attempts of a whole candidate never exceed the losses suffered, plus one if an attempt is in
flight or a token stands for it (`Owing`).

*Emulator.* Its writers fall back to the newest copy when the stale one fails, so
"the source copy is the newest" is not available. Instead a commit in progress
carries a generation above that of every copy that is not its own record already
(`CommitOk`), and as long as no flash operation failed the record in RAM is also
known to follow from the copy it was read from (`FaultFree`).

*Store.* The invariant rests on time. What a job would send never changes once
recorded, an upload that stopped being live stays so and revisions are only appended
(`Grows`, a relation between two states that every action is shown to satisfy),
so a request served late still says what its job says; and the files a pull may
touch are a function of its plan, which is fixed while it is applied. The results
above `HonestHolds` in the table hold whatever the author does. It and those below
have the premise `Careful == ~LateResume /\ ~EditsInRollback`,
under which the run checks them too; section 3 names what fails without it.
Their invariant `HonestInv` says that a job contains what the revision it was made on has and
that an attempt which sent nothing yet says no more than the files do.

*Channel.* A client that is paired began with counters as fresh as the calculator's,
so the two are apart by at most the frame the client holds as pending and
the message it holds as received; a transfer that failed is the client's last
one, so what may still arrive is what the client holds, or the client is gone
and nothing follows. The refinement takes each action, and each late transfer, to
one step of `ChannelPromise` or to a stutter.

*App volume.* The invariant rests on generations. What the root and the open
snapshots name is of the root's generation or older; what an operation writes is
one younger (`Upto`, `FullPair`, `Held`). A job needs nothing but what the old
root has and what it writes itself (`JobOk`); what it has checked, or read back
after writing, stays as it is until the commit (`Verified`), because a collection
keeps what the old root, the new index and the snapshots name, in whatever order
it visits the objects, and because nobody else writes while the engine is busy
(`Control`). What the collection did not keep is gone, which frees the names an
exclusive creation is going to use and leaves no garbage at the commit. Each
action of the volume, of the writer and of the engine has a lemma of its own, for
any number of generations, chunks, readers and faults. For the refinement
(`StepMeans`) the invariant carries the promise along: the root that a transaction
will rename was composed when it began, so the transaction on its way, the FILE2
file on its way and what the writer has built so far are each required to lead
from the *present* root to one `AppStore` allows (`Leads`); every step then either
leaves the root alone, a stutter, or is one step of `AppStore`. These theorems are
about `AppVolume!Spec`.

*Archive restore.* `AppRestore` composes that volume with the actions of a restore,
and its theorems are about `RestoreSpec` (the run's `MCSpec` starts, besides, from
apps an earlier restore left behind). While a restore is on its way its objects lie
beside the root without any index naming them, and the volume's own invariant does not
hold. It is not needed either: a restore has the volume for itself, so no reader, writer
or installation relies on anything (`Calm`), and once the engine rests the invariant
follows again from the root alone (`CalmRests`). `RestoreInv` says what the restore
itself relies on: whatever is staged, and so whatever a cleanup removes, is younger
than the root (`Leftovers`); an index holds what the archive does, as far as it got, in
objects of its pair's generation or older (`Built`, `Placement`); the engine works for the
root that was staged, and what it has checked stays as it is (`Publishing`). What is
renamed has therefore been read back in full and says what the archive says, and since
the archive was accepted over the root still there (`Taken`, `HighKnown`) the rename is
`AppStore!Restore`. That a cleanup always finds a name to remove next is the one
place where a finite set has to have a least element (`NextRemoved`).

*Dual boot.* `DualPlan_proofs` settles what does not depend on time: a plan is the
order of its planner less the blocks that agree, no block twice; and at every place
a plan can stop, with its open block torn or a prefix of its pages, the board is
`Whole` (HP, the old Lefony or the new loader boots with its own data beside it),
or `Routed` for a refresh (some route is left, whose loader may be a mixture; see
`RefreshRouteKept` in section 3). `IInv` then says of every reachable state where in
which plan the board is. For the flash (`FlashInv`): a reset finds something; two
valid records have one owner and the older is one step behind (`JournalsOK`); a
plan of which a journal calls a change done could not be reviewed again over this
board (`BegunOK`). This last one is what makes owners mean anything: two reviews of
the same board with the same outcome are one plan, and without it the journal of
the first could be taken for progress of the second. For the plans (`PlansOK`): what
each review found, accepted and planned. For each job nobody else disturbed
(`AloneInv`): the board is as captured, on the way its newest record says, or
restored with journals still to retire. For the running job (`EngineInv`): at each
`pc`, how far the flash is, which record is in memory and which copy is being
replaced. Each action has a lemma per part; none of the properties alone is
inductive, because what a resume may rely on is what the step before the
interruption had established. For the refinement, the recorded plan and its position
are read from the journals alone, in every state, also where several jobs and the
owner have met: each step is one of `DualPromise` or a stutter, and losing a copy
costs at most the last step because the other is at most one behind.

`StoreProject`'s `Query` and `Lookup` are written with disjoint guards rather than
an ordered CASE, because the provers treat overlapping CASE guards as unspecified;
the state graph is the same.

Model-checked only: liveness, which is out of the prover's reach
(`CandidateResolved`, `OrphansReclaimed`, `JobFinishes`, `CallsResolve`), and the
combination of `RestoreSpec` with the starting volumes only the run of `AppRestore` has.
Every other property of a passing run is a theorem of its component's specification.

## 5. Not modelled

*A/B update.* Cryptography (signatures are right or the package is not offered),
the transfer of the capsule over USB, bad blocks inside a slot, the counter width
of `generation` (a wrap needs 2^32 commits), dual-boot builds (which refuse A/B
updates), the offline NAND-image tool `scripts/prime_g2_nand_update.py`.

*App volume.* Provisioning and migration, icons and the home order, space and
quota admission (a refusal appears as a failure), the second copy inside a root
record, more than one app or named file, and the reading of chunks. Of the archive
sessions, the transfer itself and the export, which only reads; a space check that
refuses a restore is one of the reasons to abandon it.

*Dual boot.* The transport of captures, bad blocks, reviews that fail, the repair
boot, the journal trial, and the start-up menu with its saved priority. The
preferences region is folded into the images' block, since the plans replace both
in the same phase. "working" and "reconnect" of a job whose companion died are not
told apart; both are resumed alike. A session on a file works on its own copy, so
at most one of them is continued.

*Store.* Links and project identities (the first link takes what the store has as
seen, even where the files lack it), media, withdrawal of a release, the choice of
one side in a conflict, which drops the other on purpose, and the service itself,
which is not in the repository and is modelled from its use.

*App channel.* Both clocks and `keepalive` (above), encoding of packets, and the
HTTPS bridge in `companion.py`, which carries a request per message.

*Whole components* listed as `not_modelled` in `PROJECT.json`: vendored code
(littlefs), register-level drivers and models of hardware, user interface and
mathematics, which are sequential; command-line tools run by one person at a time;
and front ends (the USB dispatcher, app management, sessions and file exchange)
whose effects on shared state enter the models as operations that may come at any
moment, but whose own request state is not modelled. Of these the USB update
session is the one most worth a module; the hazards in `PROJECT.json` without a
property name the places.

The Python tools are by far the larger part of the repository (packaging, test
drivers, capture and diagnosis scripts); most of them keep no state between two
steps that anything else could change, so there is nothing for a state machine to
say about them, and the share of source lines the map covers stays small.

## 6. Plan

Modelled, checked and proved: A/B update, app volume and archive restore, dual-boot
jobs, store publishing, app channel. What is left:

1. `UpdateSession`: the status of an update over USB, re-initialisation in the middle
   of a transfer, retry after an abort.
2. The start-up menu's saved priority.
