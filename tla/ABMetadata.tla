----------------------------- MODULE ABMetadata -----------------------------
(***************************************************************************)
(* The redundant A/B boot-control record and the boot policy U-Boot runs   *)
(* over it: native/prime_g2/lefony_ab_physical.c, and with Fallback = TRUE *)
(* the emulator's vm/u-boot/lefony_ab.c.                                   *)
(*                                                                         *)
(* Two NAND erase blocks each hold one copy of a record (generation,       *)
(* active slot, pending slot, attempts, one image description per slot).   *)
(* A commit erases and programs the copy that does not hold the newest     *)
(* generation; the verified program is the commit point, and the other     *)
(* copy is then rewritten as a mirror.  Power may go between any two       *)
(* steps.                                                                  *)
(*                                                                         *)
(* An image is a number that stands for its version, its length and its    *)
(* SHA-256 at once: two images are the same exactly when the digests are.  *)
(***************************************************************************)
EXTENDS Naturals

CONSTANTS
  Image,       \* images that can be installed; the numbers order the versions
  BootLimit,   \* metadata.boot_limit
  MaxFaults,   \* bound on flash operations that fail
  Fallback     \* does a failed first write fall back to the newest copy?

Slot == {0, 1}
NoSlot == 2
Copy == {0, 1}
Blank == 0    \* an erased or partly written slot; also an empty slot record
Rotten == 1   \* a slot whose image no longer reads back as it was written

ASSUME ABAssumption ==
  /\ Image \subseteq Nat \ {Blank, Rotten}
  /\ BootLimit \in 1..10
  /\ MaxFaults \in Nat
  /\ Fallback \in BOOLEAN

VARIABLES
  copy,    \* the two metadata blocks
  worn,    \* worn[c]: every further erase or program of copy c fails
  faults,  \* flash failures so far, at most MaxFaults
  flash,   \* what each slot's blocks hold
  pc,      \* what the processor is doing
  cont,    \* where a successful commit continues
  md, src, \* the record in RAM and the copy it was read from (*source)
  sel,     \* slot selected for this boot
  trial,   \* pending_boot: is this boot an attempt of the candidate?
  os       \* the hand-off page, as the booted system read it

store == <<copy, worn, faults>>
ram == <<md, src, sel, trial>>

----------------------------------------------------------------------------
Record == [gen : Nat, active : Slot, pending : Slot \cup {NoSlot},
           attempts : Nat, slots : [Slot -> Image \cup {Blank}]]

(* An erased block has no magic, no COMM word and no CRC: metadata_valid    *)
(* refuses it.  Generations of committed records start at one.              *)
Erased == [gen |-> 0, active |-> 0, pending |-> NoSlot, attempts |-> 0,
           slots |-> [s \in Slot |-> Blank]]

Valid(r) == r.gen > 0

SomeValid == \E c \in Copy : Valid(copy[c])

(* read_metadata: copy 1 only when it is valid and copy 0 is not, or is     *)
(* strictly older.                                                          *)
NewestOf(f) == IF Valid(f[1]) /\ (~Valid(f[0]) \/ f[1].gen > f[0].gen)
                 THEN 1 ELSE 0

NewestCopy == NewestOf(copy)

Newest == copy[NewestCopy]

NoHandoff == [booted |-> NoSlot, active |-> 0, pending |-> NoSlot,
              gen |-> 0, version |-> Blank]

----------------------------------------------------------------------------
(* commit_metadata.  The block being written is always the one the record   *)
(* was not read from; a verified write moves src onto it.                   *)
(*                                                                          *)
(* An operator whose comment begins with "Slip:" is a plausible mistake in  *)
(* the definition that follows it.  No specification uses one: they are     *)
(* there to show that a property would notice (PROJECT.json, "mutants").    *)

Commit(record, k) == /\ md' = record
                     /\ cont' = k
                     /\ pc' = "erase"

(* Slip: the copy the record came from is erased first. *)
NewestAsTarget == src

Target == 1 - src

(* A block that is already unusable fails again; any other failure is drawn *)
(* from the MaxFaults the model allows, and may leave the block unusable.   *)
FaultPossible == worn[Target] \/ faults < MaxFaults

Fault == /\ FaultPossible
         /\ faults' = IF worn[Target] THEN faults ELSE faults + 1
         /\ \E w \in {worn[Target], TRUE} : worn' = [worn EXCEPT ![Target] = w]

(* erase_metadata_copy *)
Erase(next) == /\ ~worn[Target]
               /\ copy' = [copy EXCEPT ![Target] = Erased]
               /\ pc' = next
               /\ UNCHANGED <<worn, faults, src, cont>>

(* nand_write_skip_bad and the read-back that must match *)
Program(next) == /\ ~worn[Target]
                 /\ copy' = [copy EXCEPT ![Target] = md]
                 /\ pc' = next
                 /\ UNCHANGED <<worn, faults, cont>>

(* A failed write leaves the old contents, an erased block or - when only   *)
(* the read-back went wrong - the new record.                               *)
FaultLeaves(next, left) == /\ Fault
                           /\ \E r \in left : copy' = [copy EXCEPT ![Target] = r]
                           /\ pc' = next
                           /\ UNCHANGED cont

commitUnchanged == UNCHANGED <<flash, md, sel, trial, os>>

EraseFirst == /\ pc = "erase"
              /\ Erase("program")
              /\ commitUnchanged

ProgramFirst == /\ pc = "program"
                /\ Program("mirrorErase")
                /\ src' = Target
                /\ commitUnchanged

(* The physical build stops here; the emulator's then turns to the copy the *)
(* record was read from.                                                    *)
FirstFails == /\ pc \in {"erase", "program"}
              /\ FaultLeaves(IF Fallback THEN "fallbackErase" ELSE "failed",
                             IF pc = "erase" THEN {copy[Target], Erased}
                                             ELSE {Erased, md})
              /\ src' = IF Fallback THEN Target ELSE src
              /\ commitUnchanged

EraseMirror == /\ pc = "mirrorErase"
               /\ Erase("mirrorProgram")
               /\ commitUnchanged

(* Mirroring ends the commit whether or not it worked. *)
ProgramMirror == /\ pc = "mirrorProgram"
                 /\ Program(cont)
                 /\ UNCHANGED src
                 /\ commitUnchanged

MirrorFails == /\ pc \in {"mirrorErase", "mirrorProgram"}
               /\ FaultLeaves(cont, IF pc = "mirrorErase" THEN {copy[Target], Erased}
                                                          ELSE {Erased, md})
               /\ UNCHANGED src
               /\ commitUnchanged

----------------------------------------------------------------------------
(* do_ab_boot.  k is where the boot goes once the record is read: to the    *)
(* confirmation token on the physical device, to the slot choice otherwise. *)

ReadMetadata(k) == /\ pc = "off"
                   /\ IF SomeValid
                        THEN /\ src' = NewestCopy
                             /\ md' = Newest
                             /\ pc' = k
                        ELSE /\ pc' = "failed"
                             /\ UNCHANGED <<md, src>>
                   /\ UNCHANGED <<store, flash, cont, sel, trial, os>>

(* Every commit advances the generation of the record it replaces. *)
Advance(r, active, pending, attempts, slots) ==
  [gen |-> r.gen + 1, active |-> active, pending |-> pending,
   attempts |-> attempts, slots |-> slots]

(* Slip: the rollback keeps the generation of the record it replaces. *)
RolledBackSameGen(r) == [r EXCEPT !.pending = NoSlot, !.attempts = 0]

(* The record rollback() commits. *)
RolledBack(r) == Advance(r, r.active, NoSlot, 0, r.slots)

(* Slip: the attempt is not counted before the candidate is booted. *)
AttemptNotCounted(r) == r

(* The record committed before the candidate is booted. *)
Attempted(r) == Advance(r, r.active, r.pending, r.attempts + 1, r.slots)

(* Slip: one attempt too many. *)
BootLimitPassed(r) == r.attempts > BootLimit

(* Slip: one attempt too few. *)
BootLimitNear(r) == r.attempts + 1 >= BootLimit

BootLimitReached(r) == r.attempts >= BootLimit

SelectActive == /\ pc = "select"
                /\ md.pending = NoSlot
                /\ sel' = md.active
                /\ trial' = FALSE
                /\ pc' = "load"
                /\ UNCHANGED <<store, flash, cont, md, src, os>>

SelectPending == /\ pc = "select"
                 /\ md.pending \in Slot
                 /\ ~BootLimitReached(md)
                 /\ sel' = md.pending
                 /\ trial' = TRUE
                 /\ Commit(Attempted(md), "load")
                 /\ UNCHANGED <<store, flash, src, os>>

AbandonPending == /\ pc = "select"
                  /\ md.pending \in Slot
                  /\ BootLimitReached(md)
                  /\ sel' = md.active
                  /\ trial' = FALSE
                  /\ Commit(RolledBack(md), "load")
                  /\ UNCHANGED <<store, flash, src, os>>

(* load_slot: length, SHA-256 and zImage header agree with the record. *)
LoadSlot(s) == md.slots[s] # Blank /\ flash[s] = md.slots[s]

(* set_handoff, and the jump into the image. *)
Boot == /\ pc = "load"
        /\ LoadSlot(sel)
        /\ os' = [booted |-> sel, active |-> md.active, pending |-> md.pending,
                  gen |-> md.gen, version |-> md.slots[sel]]
        /\ pc' = "os"
        /\ UNCHANGED <<store, flash, cont, ram>>

(* A candidate that does not verify is rolled back and the active slot is   *)
(* loaded in its place; anything else that does not verify ends the boot.   *)
LoadFails == /\ pc = "load"
             /\ ~LoadSlot(sel)
             /\ IF trial
                  THEN /\ sel' = md.active
                       /\ trial' = FALSE
                       /\ Commit(RolledBack(md), "load")
                  ELSE /\ pc' = "failed"
                       /\ UNCHANGED <<cont, md, sel, trial>>
             /\ UNCHANGED <<store, flash, src, os>>

UBootWrites == EraseFirst \/ ProgramFirst \/ FirstFails
                 \/ EraseMirror \/ ProgramMirror \/ MirrorFails

UBootDecides == SelectActive \/ SelectPending \/ AbandonPending \/ Boot \/ LoadFails

(* Everything but the NAND (and the battery-backed token) is lost. *)
Reset == /\ pc' = "off"
         /\ cont' = "off"
         /\ md' = Erased
         /\ src' = 0
         /\ sel' = 0
         /\ trial' = FALSE
         /\ os' = NoHandoff
         /\ UNCHANGED <<store, flash>>

(* The image in slot s stops reading back as it was written. *)
Decay(s) == /\ faults < MaxFaults
            /\ faults' = faults + 1
            /\ flash' = [flash EXCEPT ![s] = Rotten]
            /\ UNCHANGED <<copy, worn, pc, cont, ram, os>>
=============================================================================
