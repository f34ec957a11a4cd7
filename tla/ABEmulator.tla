----------------------------- MODULE ABEmulator -----------------------------
(***************************************************************************)
(* The emulator's variant of the A/B update: vm/u-boot/lefony_ab.c seeds   *)
(* and boots, and the OS itself writes the inactive slot and the record    *)
(* (nand_update.cpp under PRIME_G2_EMULATOR).  Both fall back to the copy  *)
(* that holds the newest record when the other one cannot be written.      *)
(***************************************************************************)
EXTENDS ABMetadata

CONSTANTS
  Healthy,   \* the images whose first screen comes up once they are booted
  MaxGen     \* bound on the generation an update may start from

ASSUME ABEmulatorAssumption ==
  /\ Healthy \subseteq Image
  /\ MaxGen \in Nat
  /\ Fallback

VARIABLE staged   \* the authenticated package; Blank when there is none

vars == <<store, flash, pc, cont, ram, os, staged>>

Init == /\ copy = [c \in Copy |-> Erased]
        /\ worn = [c \in Copy |-> FALSE]
        /\ faults = 0
        /\ flash = [s \in Slot |-> Blank]
        /\ pc = "off" /\ cont = "off"
        /\ md = Erased /\ src = 0
        /\ sel = 0 /\ trial = FALSE
        /\ os = NoHandoff
        /\ staged = Blank

(* writeMetadata and commit_metadata after the first write failed.  The     *)
(* firmware returns as soon as this copy is verified; U-Boot mirrors.       *)
ByFirmware == cont \in {"running", "os"}

EraseFallback == /\ pc = "fallbackErase"
                 /\ Erase("fallbackProgram")
                 /\ commitUnchanged

ProgramFallback == /\ pc = "fallbackProgram"
                   /\ Program(IF ByFirmware THEN cont ELSE "mirrorErase")
                   /\ src' = Target
                   /\ commitUnchanged

FallbackFails == /\ pc \in {"fallbackErase", "fallbackProgram"}
                 /\ FaultLeaves(IF ByFirmware THEN cont ELSE "failed",
                                IF pc = "fallbackErase" THEN {copy[Target], Erased}
                                                        ELSE {Erased, md})
                 /\ UNCHANGED src
                 /\ commitUnchanged

(* do_ab_seed, reached from bootcmd when lefony_ab boot failed: slot A is   *)
(* erased and written, then the first record is committed.                  *)
FactorySeed ==
  /\ pc = "failed"
  /\ ~SomeValid
  /\ flash' = [flash EXCEPT ![0] = Blank]
  /\ pc' = "seed"
  /\ UNCHANGED <<store, cont, ram, os, staged>>

CommitSeed ==
  /\ pc = "seed"
  /\ \E image \in Healthy :
       /\ flash' = [flash EXCEPT ![0] = image]
       /\ Commit([Erased EXCEPT !.gen = 1, !.slots[0] = image], "load")
  /\ src' = 1
  /\ sel' = 0
  /\ trial' = FALSE
  /\ UNCHANGED <<store, os, staged>>

(* Slip: a record that was made up is taken to come from no copy at all.    *)
SourceUnknown == IF SomeValid THEN NewestCopy ELSE NoSlot

(* currentMetadata: with no valid copy the firmware makes a record up, of   *)
(* generation zero and with two empty slots.                                *)
CurrentSource == IF SomeValid THEN NewestCopy ELSE 1

ConfirmBoot(up) ==
  /\ pc = "os"
  /\ up
  /\ IF os.booted = os.pending /\ Newest.pending \in Slot
       THEN /\ src' = CurrentSource
            /\ Commit(Advance(Newest, Newest.pending, NoSlot, 0, Newest.slots),
                      "running")
       ELSE /\ pc' = "running"
            /\ UNCHANGED <<md, src, cont>>
  /\ UNCHANGED <<store, flash, sel, trial, os, staged>>

(* Slip: the boot is confirmed before the first screen is up.               *)
ConfirmEarly == ConfirmBoot(TRUE)

(* confirmBootIfReady and confirmPending: the record is read again.         *)
ConfirmBootIfReady == ConfirmBoot(os.version \in Healthy)

(* USB is answered by the event loop, and by the screen a fatal fault shows *)
(* before the boot was confirmed.                                           *)
Serving == pc = "running" \/ (pc = "os" /\ os.version \notin Healthy)

(* acceptManifest and noteCapsuleReady.                                     *)
AuthenticateCapsule ==
  /\ Serving
  /\ staged = Blank
  /\ \E v \in Image : v > os.version /\ staged' = v
  /\ UNCHANGED <<store, flash, pc, cont, ram, os>>

InstallInto(target) ==
  /\ Serving
  /\ staged # Blank
  /\ Newest.gen < MaxGen
  /\ src' = CurrentSource
  /\ flash' = [flash EXCEPT ![target] = Blank]
  /\ md' = Advance(Newest, Newest.active, target, 0,
                   [Newest.slots EXCEPT ![target] = staged])
  /\ pc' = "install"
  /\ UNCHANGED <<store, cont, sel, trial, os, staged>>

(* Slip: the image goes to the slot the running one does not occupy.        *)
InstallBesideRunning == InstallInto(1 - os.booted)

(* installPayload: the inactive slot is erased, then written and read back, *)
(* and only then does the record name it.                                   *)
Install == InstallInto(1 - Newest.active)

Resumed == IF os.version \in Healthy THEN "running" ELSE "os"

CommitInstall ==
  /\ pc = "install"
  /\ flash' = [flash EXCEPT ![md.pending] = staged]
  /\ Commit(md, Resumed)
  /\ staged' = Blank
  /\ UNCHANGED <<store, src, sel, trial, os>>

(* A page that cannot be programmed or read back ends the installation.     *)
InstallFails ==
  /\ pc = "install"
  /\ faults < MaxFaults
  /\ faults' = faults + 1
  /\ pc' = Resumed
  /\ staged' = Blank
  /\ UNCHANGED <<copy, worn, flash, cont, ram, os>>

Restart == /\ pc # "off"
           /\ Reset
           /\ staged' = Blank

Next == \/ /\ ReadMetadata("select") \/ UBootDecides \/ UBootWrites
                \/ EraseFallback \/ ProgramFallback \/ FallbackFails
           /\ UNCHANGED staged
        \/ FactorySeed \/ CommitSeed \/ ConfirmBootIfReady
        \/ AuthenticateCapsule \/ Install \/ CommitInstall \/ InstallFails
        \/ Restart

Spec == Init /\ [][Next]_vars

----------------------------------------------------------------------------
TypeOK ==
  /\ copy \in [Copy -> Record]
  /\ flash \in [Slot -> Image \cup {Blank, Rotten}]
  /\ pc \in {"off", "select", "erase", "program", "fallbackErase",
             "fallbackProgram", "mirrorErase", "mirrorProgram", "load", "os",
             "running", "install", "seed", "failed"}
  /\ md \in Record /\ src \in Copy
  /\ staged \in Image \cup {Blank}

(* Until flash fails, the active image is never the one that is erased for  *)
(* an installation, whatever boot, rollback or reset comes in between.      *)
ActiveIntact ==
  SomeValid /\ faults = 0 =>
    LET s == Newest.active
    IN Newest.slots[s] \in Image /\ flash[s] = Newest.slots[s]

(* Only an image that came up when it was booted ever becomes active: the   *)
(* confirmation reads the record again, after installations and fallbacks   *)
(* may have changed which copy and which candidate is the newest.           *)
ActiveCameUp ==
  SomeValid => Newest.slots[Newest.active] \in Healthy \cup {Blank}

(* Resets alone never leave the flash without a valid record.               *)
RecordSurvivesResets == [][SomeValid => SomeValid' \/ faults' > 0]_vars

(* "A reset at any point therefore leaves at least one valid record"        *)
(* (nand_update.cpp, writeMetadata): once a valid record exists, no step    *)
(* leaves the flash without one.                                            *)
RecordSurvives == [][SomeValid => SomeValid']_vars
=============================================================================
