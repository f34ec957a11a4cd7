------------------------------- MODULE ABBoot -------------------------------
(***************************************************************************)
(* A signed A/B update of the physical calculator: the running OS, the     *)
(* recovery-side writer on the host, U-Boot and power loss, over the       *)
(* redundant record of ABMetadata.                                         *)
(*                                                                         *)
(*   - nand_update.cpp: the hand-off is read once, a healthy candidate     *)
(*     leaves a token in the battery-backed SNVS words, and a new update   *)
(*     is authenticated only when none is pending;                         *)
(*   - lefony_installer.py and prime_g2_ab_metadata.py: from the recovery  *)
(*     image, the inactive slot is written and read back and the record    *)
(*     that makes it pending is committed;                                 *)
(*   - lefony_ab_physical.c: the token is consumed, then the boot policy   *)
(*     of ABMetadata runs.                                                 *)
(***************************************************************************)
EXTENDS ABMetadata

CONSTANTS
  Healthy,   \* the images whose first screen comes up once they are booted
  MaxGen     \* bound on the generation an update may start from

ASSUME ABBootAssumption ==
  /\ Healthy \subseteq Image
  /\ MaxGen \in Nat
  /\ ~Fallback

VARIABLES
  token,    \* the slot named by the LFOK token; NoSlot when there is none
  session,  \* the status and the package the installer authenticated
  \* History, read by no action:
  vouched,  \* has the candidate been marked healthy since it was staged?
  tries,    \* boots of the candidate since it was staged
  losses    \* power losses and failed boots since then, up to BootLimit

history == <<vouched, tries, losses>>
vars == <<store, flash, pc, cont, ram, os, token, session, history>>

NoSession == [active |-> 0, gen |-> 0, version |-> Blank]

Handoff == [booted : Slot \cup {NoSlot}, active : Slot,
            pending : Slot \cup {NoSlot}, gen : Nat,
            version : Image \cup {Blank}]

TypeOK ==
  /\ copy \in [Copy -> Record]
  /\ worn \in [Copy -> BOOLEAN]
  /\ faults \in 0..MaxFaults
  /\ flash \in [Slot -> Image \cup {Blank, Rotten}]
  /\ pc \in {"off", "token", "select", "erase", "program", "mirrorErase",
             "mirrorProgram", "load", "os", "running", "recovery",
             "eraseSlot", "writeSlot", "parked", "failed"}
  /\ cont \in {"off", "select", "load", "parked"}
  /\ md \in Record
  /\ src \in Copy
  /\ sel \in Slot
  /\ trial \in BOOLEAN
  /\ os \in Handoff
  /\ token \in Slot \cup {NoSlot}
  /\ session \in [active : Slot, gen : Nat, version : Image \cup {Blank}]
  /\ vouched \in BOOLEAN
  /\ tries \in Nat
  /\ losses \in 0..BootLimit

(* scripts/prime_g2_provision_ab.py: both copies hold the seed record.      *)
Seed(image) == [gen |-> 1, active |-> 0, pending |-> NoSlot, attempts |-> 0,
                slots |-> [s \in Slot |-> IF s = 0 THEN image ELSE Blank]]

Init == /\ \E image \in Healthy :
             /\ copy = [c \in Copy |-> Seed(image)]
             /\ flash = Seed(image).slots
        /\ worn = [c \in Copy |-> FALSE]
        /\ faults = 0
        /\ pc = "off" /\ cont = "off"
        /\ md = Erased /\ src = 0
        /\ sel = 0 /\ trial = FALSE
        /\ os = NoHandoff
        /\ token = NoSlot
        /\ session = NoSession
        /\ vouched = FALSE /\ tries = 0 /\ losses = 0

----------------------------------------------------------------------------
(* U-Boot: lefony_ab boot.                                                  *)

PowerOn == /\ ReadMetadata("token")
           /\ UNCHANGED <<token, session, history>>

(* The record accept_boot_success() commits. *)
Accepted(r, s) == Advance(r, s, NoSlot, 0, r.slots)

(* Slip: the range check on the slot word is gone. *)
TokenNotChecked == md.pending = token

TokenAccepted == token \in Slot /\ md.pending = token

ConsumeToken(left) ==
  /\ pc = "token"
  /\ token' = left
  /\ IF TokenAccepted
       THEN Commit(Accepted(md, token), "select")
       ELSE pc' = "select" /\ UNCHANGED <<md, cont>>
  /\ UNCHANGED <<store, flash, src, sel, trial, os, session, history>>

(* Slip: the token stays in its battery-backed words. *)
TokenKept == ConsumeToken(token)

(* The token is cleared before the record that honours it is committed. *)
AcceptBootSuccess == ConsumeToken(NoSlot)

Decide == /\ SelectActive \/ SelectPending \/ AbandonPending \/ LoadFails
          /\ UNCHANGED <<token, session, history>>

BootImage == /\ Boot
             /\ tries' = IF trial THEN tries + 1 ELSE tries
             /\ UNCHANGED <<token, session, vouched, losses>>

(* A commit that continues at "parked" is the installer's: its record is    *)
(* the one that makes a candidate pending.                                  *)
Published == copy'[Target] # copy[Target] /\ copy'[Target] = md

Write(step) == /\ step
               /\ IF cont = "parked" /\ pc = "program" /\ Published
                    THEN vouched' = FALSE /\ tries' = 0 /\ losses' = 0
                    ELSE UNCHANGED history
               /\ UNCHANGED <<token, session>>

CommitStep == Write(EraseFirst \/ ProgramFirst \/ EraseMirror \/ ProgramMirror)

CommitFault == Write(FirstFails \/ MirrorFails)

----------------------------------------------------------------------------
(* The running OS: nand_update.cpp.                                         *)

(* Slip: every boot that comes up is confirmed, on trial or not. *)
BootedAnything == os.booted \in Slot

BootedCandidate == os.booted = os.pending

(* prime_g2_update_boot_ready, once the first application is on screen.     *)
ConfirmBootIfReady ==
  /\ pc = "os"
  /\ os.version \in Healthy
  /\ pc' = "running"
  /\ IF BootedCandidate
       THEN token' = os.booted /\ vouched' = TRUE
       ELSE UNCHANGED <<token, vouched>>
  /\ UNCHANGED <<store, flash, cont, ram, os, session, tries, losses>>

(* acceptManifest and noteCapsuleReady: a package newer than the image that *)
(* runs, and no update pending when this boot was handed off.               *)
AuthenticateCapsule ==
  /\ pc = "running"
  /\ os.pending = NoSlot
  /\ \E v \in Image :
       /\ v > os.version
       /\ session' = [active |-> os.active, gen |-> os.gen, version |-> v]
  /\ UNCHANGED <<store, flash, pc, cont, ram, os, token, history>>

(* Request 0x4C: refused while a confirmation token is waiting for U-Boot.  *)
RequestRecovery ==
  /\ pc = "running"
  /\ session # NoSession
  /\ token = NoSlot
  /\ pc' = "recovery"
  /\ UNCHANGED <<store, flash, cont, ram, os, token, session, history>>

----------------------------------------------------------------------------
(* The installer, through the recovery image.                               *)

(* The serial-download ROM is also reached by hand, and after a reset when  *)
(* the boot failed (bmode usb): the installer's status may be an old one.   *)
EnterRecovery ==
  /\ pc = "off"
  /\ session # NoSession
  /\ pc' = "recovery"
  /\ UNCHANGED <<store, flash, cont, ram, os, token, session, history>>

(* Slip: the candidate is written over the active image. *)
UpdatedInPlace(r, v) ==
  Advance(r, r.active, r.active, 0, [r.slots EXCEPT ![r.active] = v])

(* Metadata.with_update *)
Updated(r, v) ==
  Advance(r, r.active, 1 - r.active, 0, [r.slots EXCEPT ![1 - r.active] = v])

(* _physical_ab_update: what must hold of the record read in recovery.      *)
UpdateAllowed(r) == /\ r.active = session.active
                    /\ r.gen = session.gen
                    /\ r.pending = NoSlot
                    /\ session.version > r.slots[r.active]

BeginUpdate ==
  /\ pc = "recovery"
  /\ IF SomeValid /\ UpdateAllowed(Newest) /\ Newest.gen < MaxGen
       THEN /\ md' = Updated(Newest, session.version)
            /\ src' = NewestCopy
            /\ pc' = "eraseSlot"
       ELSE /\ pc' = "parked"
            /\ UNCHANGED <<md, src>>
  /\ session' = NoSession
  /\ UNCHANGED <<store, flash, cont, sel, trial, os, token, history>>

EraseSlot ==
  /\ pc = "eraseSlot"
  /\ flash' = [flash EXCEPT ![md.pending] = Blank]
  /\ pc' = "writeSlot"
  /\ UNCHANGED <<store, cont, ram, os, token, session, history>>

(* nandwrite and the cmp of its read-back; the record is touched only after *)
(* both succeeded.                                                          *)
WriteSlot ==
  /\ pc = "writeSlot"
  /\ flash' = [flash EXCEPT ![md.pending] = md.slots[md.pending]]
  /\ Commit(md, "parked")
  /\ UNCHANGED <<store, src, sel, trial, os, token, session, history>>

WriteSlotFails ==
  /\ pc = "writeSlot"
  /\ faults < MaxFaults
  /\ faults' = faults + 1
  /\ pc' = "parked"
  /\ UNCHANGED <<copy, worn, flash, cont, ram, os, token, session, history>>

----------------------------------------------------------------------------
(* Power loss, a reset, or a restart asked for by the user; the token's     *)
(* battery-backed word may be lost with it.                                 *)

(* Losing power costs the candidate an attempt unless its boot was over.    *)
Harmless == pc \in {"running", "recovery", "parked"} /\ token' = token

PowerLoss ==
  /\ pc # "off"
  /\ Reset
  /\ token' \in {token, NoSlot}
  /\ losses' = IF Harmless \/ losses = BootLimit THEN losses ELSE losses + 1
  /\ UNCHANGED <<session, vouched, tries>>

SlotDecays == /\ \E s \in Slot : Decay(s)
              /\ UNCHANGED <<token, session, history>>

UBoot == PowerOn \/ AcceptBootSuccess \/ Decide \/ BootImage

Installer == BeginUpdate \/ EraseSlot \/ WriteSlot

Next == UBoot \/ CommitStep \/ CommitFault
          \/ ConfirmBootIfReady \/ AuthenticateCapsule \/ RequestRecovery
          \/ EnterRecovery \/ Installer \/ WriteSlotFails
          \/ PowerLoss \/ SlotDecays

Spec == Init /\ [][Next]_vars

(* Power does not fail at the same step for ever, a started operation goes  *)
(* on, and a calculator that hangs or runs is eventually restarted.         *)
FairSpec == /\ Spec
            /\ SF_vars(PowerOn)
            /\ SF_vars(AcceptBootSuccess)
            /\ SF_vars(Decide)
            /\ SF_vars(BootImage)
            /\ SF_vars(Write(EraseFirst))
            /\ SF_vars(Write(ProgramFirst))
            /\ SF_vars(Write(EraseMirror \/ ProgramMirror))
            /\ WF_vars(PowerLoss)

----------------------------------------------------------------------------
(* Whatever step power fails at, and whichever flash operation fails, one   *)
(* of the two copies of the boot-control record still reads back valid.     *)
SomeCopyValid == SomeValid

(* The newest record's active slot holds exactly the image it describes:    *)
(* no update, accepted or abandoned, ever overwrote the image to fall back  *)
(* to (only the image rotting in place can take it away).                   *)
ActiveIntact ==
  LET s == Newest.active
  IN Newest.slots[s] \in Image /\ flash[s] \in {Newest.slots[s], Rotten}

(* Two valid copies of one generation are the same record, so that it does  *)
(* not matter which one U-Boot, the firmware or the installer picks.        *)
MirrorsAgree ==
  Valid(copy[0]) /\ copy[0].gen = copy[1].gen => copy[0] = copy[1]

(* A confirmation token names the candidate that is pending, and was left   *)
(* by that candidate: no update staged later can be accepted by it.         *)
TokenNamesCandidate ==
  token # NoSlot => Newest.pending = token /\ vouched

(* A candidate that never gets its first screen up is booted BootLimit      *)
(* times at most, whatever is lost in between.                              *)
TriesBounded == tries <= BootLimit

Candidate == IF Newest.pending \in Slot THEN Newest.slots[Newest.pending] ELSE Blank

Abandoned == /\ Newest.pending # NoSlot
             /\ Newest'.pending = NoSlot
             /\ Newest'.active = Newest.active

(* A healthy candidate whose image is intact is given up only after at      *)
(* least BootLimit power losses or failed boots: the token is consumed      *)
(* before the commit that honours it, and that costs one attempt at most.   *)
HealthyKept ==
  [][Abandoned /\ Candidate \in Healthy /\ flash[Newest.pending] = Candidate
       => losses = BootLimit]_vars

(* The record an observer reads implements the update policy.               *)
Policy == INSTANCE ABPolicy WITH
            active <- Newest.slots[Newest.active],
            candidate <- Candidate,
            attempts <- Newest.attempts,
            None <- Blank

ImplementsPolicy == Policy!Spec

(* Every trial ends, unless flash fails in it: the candidate becomes active *)
(* or is given up, although power fails again and again.                    *)
CandidateResolved ==
  (Newest.pending # NoSlot) ~> (Newest.pending = NoSlot \/ faults > 0)

(* "If the stale copy is physically unusable, stop and keep the current     *)
(* generation bootable" (lefony_ab_physical.c, commit_metadata): a boot     *)
(* fails only when a flash operation goes wrong in it or the active image   *)
(* no longer reads back.                                                    *)
BootFails == pc # "failed" /\ pc' = "failed" /\ cont # "parked"

KeepsBootable ==
  [][BootFails => faults' > faults \/ flash[Newest.active] = Rotten]_vars

----------------------------------------------------------------------------
(* The inductive invariant behind the safety properties.                    *)

(* A record that may be the newest over slots that hold f: the active image *)
(* is in place, and a candidate is a newer image, whole in the other slot.  *)
InPlace(r, f, s) == r.slots[s] \in Image /\ f[s] \in {r.slots[s], Rotten}

Good(r, f) ==
  /\ Valid(r)
  /\ r.attempts <= BootLimit
  /\ InPlace(r, f, r.active)
  /\ r.pending \in Slot => /\ r.pending = 1 - r.active
                           /\ InPlace(r, f, r.pending)
                           /\ r.slots[r.pending] > r.slots[r.active]

(* src holds the newest record. *)
SourceNewest == /\ Valid(copy[src])
                /\ copy[src].gen >= copy[Target].gen

(* What the record being committed may be, by where the commit came from. *)
Committing(r) ==
  \/ /\ cont = "select" /\ r.pending \in Slot /\ vouched
     /\ md = Accepted(r, r.pending)
  \/ /\ cont = "load" /\ r.pending \in Slot /\ trial
     /\ r.attempts < BootLimit /\ sel = r.pending
     /\ md = Attempted(r)
  \/ /\ cont = "load" /\ r.pending \in Slot /\ ~trial
     /\ sel = r.active
     /\ md = RolledBack(r)
  \/ /\ cont = "parked" /\ r.pending = NoSlot
     /\ md.slots[1 - r.active] > r.slots[r.active]
     /\ md = Updated(r, md.slots[1 - r.active])
     /\ InPlace(md, flash, 1 - r.active)

(* The slot about to be loaded is the one the committed record says. *)
Selected == IF trial THEN /\ sel = md.pending /\ md.pending \in Slot
                          /\ tries < md.attempts
                     ELSE sel = md.active

StepInv ==
  /\ pc \in {"token", "select", "load", "mirrorErase", "mirrorProgram"} =>
       SourceNewest /\ md = copy[src]
  /\ pc \in {"erase", "program"} => SourceNewest /\ Committing(copy[src])
  /\ pc \in {"program", "mirrorProgram"} => copy[Target] = Erased
  /\ pc \in {"eraseSlot", "writeSlot"} =>
       /\ SourceNewest
       /\ copy[src].pending = NoSlot
       /\ md.slots[1 - copy[src].active] \in Image
       /\ md.slots[1 - copy[src].active] > copy[src].slots[copy[src].active]
       /\ md = Updated(copy[src], md.slots[1 - copy[src].active])
  /\ pc \in {"mirrorErase", "mirrorProgram"} => cont \in {"select", "load", "parked"}
  /\ pc = "load" \/ (pc \in {"mirrorErase", "mirrorProgram"} /\ cont = "load") =>
       Selected
  /\ pc = "os" /\ os.pending = os.booted =>
       Newest.pending = os.pending /\ os.pending \in Slot /\ tries > 0

(* The record is at least as far as the boots it has paid for.              *)
TrialInv ==
  /\ tries <= BootLimit
  /\ Newest.pending \in Slot => tries <= Newest.attempts

(* A token stands for the candidate until the next boot consumes it.        *)
TokenInv ==
  token # NoSlot =>
    /\ Newest.pending = token /\ vouched
    /\ pc \in {"off", "token", "running", "recovery", "parked"}

IInv ==
  /\ TypeOK
  /\ SomeCopyValid
  /\ MirrorsAgree
  /\ Good(Newest, flash)
  /\ TrialInv
  /\ TokenInv
  /\ StepInv
=============================================================================
