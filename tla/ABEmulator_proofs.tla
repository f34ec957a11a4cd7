-------------------------- MODULE ABEmulator_proofs --------------------------
(***************************************************************************)
(* Theorems about ABEmulator, for every set of images, every boot limit    *)
(* and any number of flash failures: type correctness, that only an image  *)
(* that came up becomes active, that the active image is never erased      *)
(* while flash works, and that resets alone never lose the record.         *)
(*                                                                         *)
(* A commit always carries a generation above every copy that is not       *)
(* already its record, whichever copies failed before it; so the newest    *)
(* record is either still the old one or already the new one, and the two  *)
(* copies never disagree about a generation.  Between the hand-off and the *)
(* confirmation of a healthy image nothing is written, and an image that   *)
(* may be replaced meanwhile never confirms.                               *)
(***************************************************************************)
EXTENDS ABEmulator, TLAPS

USE DEF Slot, NoSlot, Copy, Blank, Rotten

(***************************************************************************)
(* The inductive invariant                                                 *)
(***************************************************************************)
Writing == {"erase", "program", "fallbackErase", "fallbackProgram",
            "mirrorErase", "mirrorProgram"}

Handoffs == [booted : Slot \cup {NoSlot}, active : Slot,
             pending : Slot \cup {NoSlot}, gen : Nat, version : Image \cup {Blank}]

Typed ==
  /\ TypeOK
  /\ worn \in [Copy -> BOOLEAN] /\ faults \in Nat
  /\ sel \in Slot /\ trial \in BOOLEAN /\ os \in Handoffs

\* The image a record falls back to is one that came up, or there is none.
CameUp(r) == r.slots[r.active] \in Healthy \cup {Blank}

\* The slot a record falls back to holds the image it names.
Holds(r) == r.slots[r.active] \in Image /\ flash[r.active] = r.slots[r.active]

CopiesOk ==
  /\ \A c \in Copy : CameUp(copy[c])
  /\ copy[0].gen > 0 /\ copy[0].gen = copy[1].gen => copy[0] = copy[1]

\* The copy the record in RAM came from is the newest there is.
FromNewest == copy[src].gen > 0 /\ copy[src].gen >= copy[1 - src].gen

\* A record on its way to the flash is newer than what it replaces.
CommitOk ==
  /\ pc \in Writing \cup {"install"} =>
       /\ md.gen > 0 /\ CameUp(md)
       /\ \A c \in Copy : copy[c].gen < md.gen \/ copy[c] = md
  /\ pc \in Writing => cont \in {"load", "running", "os"}
  /\ pc \in Writing /\ cont = "os" => os.version \notin Healthy
  /\ pc \in {"install", "erase", "program"} /\ SomeValid => FromNewest
  /\ pc \in {"select", "load", "mirrorErase", "mirrorProgram"} =>
       /\ md.gen > 0 /\ copy[src] = md
       /\ copy[1 - src].gen < md.gen \/ copy[1 - src] = md
  /\ pc = "seed" => ~SomeValid

\* What the running system goes by is still what the flash says.
RunOk ==
  /\ pc = "install" =>
       /\ staged \in Image /\ md.active = Newest.active
       /\ md.pending = 1 - md.active
       /\ md.slots[md.active] = Newest.slots[Newest.active]
  /\ pc = "os" /\ os.version \in Healthy /\ os.booted = os.pending
       /\ Newest.pending \in Slot =>
       /\ Newest.slots[Newest.pending] \in Healthy
       /\ flash[Newest.pending] = Newest.slots[Newest.pending]

\* Until flash fails.
FaultFree ==
  faults = 0 =>
    /\ \A c \in Copy : ~worn[c]
    /\ pc \notin {"fallbackErase", "fallbackProgram"}
    /\ SomeValid => Holds(Newest)
    /\ pc \in Writing => Holds(md)
    /\ pc \in {"os", "running", "install"} => SomeValid

EmulatorInv == Typed /\ CopiesOk /\ CommitOk /\ RunOk /\ FaultFree

(***************************************************************************)
(* Lemmas about records and the newest of two                              *)
(***************************************************************************)
LEMMA Constants ==
  /\ Image \subseteq Nat /\ Blank \notin Image /\ Rotten \notin Image
  /\ BootLimit \in Nat /\ MaxFaults \in Nat /\ MaxGen \in Nat
  /\ Healthy \subseteq Image /\ Fallback
BY ABAssumption, ABEmulatorAssumption DEF ABAssumption, ABEmulatorAssumption

LEMMA RecordFields ==
  ASSUME NEW r \in Record
  PROVE  /\ r.gen \in Nat /\ r.active \in Slot /\ r.pending \in Slot \cup {NoSlot}
         /\ r.attempts \in Nat /\ r.slots \in [Slot -> Image \cup {Blank}]
BY DEF Record

LEMMA ErasedFields ==
  Erased \in Record /\ Erased.gen = 0 /\ CameUp(Erased)
BY DEF Record, Erased, CameUp

LEMMA NewestIs ==
  ASSUME NEW f \in [Copy -> Record], NEW s \in Copy, f[s].gen > 0,
         f[1 - s].gen < f[s].gen \/ f[1 - s] = f[s]
  PROVE  f[NewestOf(f)] = f[s]
<1>1. f[0].gen \in Nat /\ f[1].gen \in Nat
  BY RecordFields
<1>2. CASE s = 0
  BY <1>1, <1>2 DEF NewestOf, Valid
<1>3. CASE s = 1
  BY <1>1, <1>3 DEF NewestOf, Valid
<1> QED BY <1>2, <1>3

LEMMA NewestByDef ==
  /\ Newest = copy[NewestOf(copy)] /\ Newest' = copy'[NewestOf(copy')]
BY DEF Newest, NewestCopy, NewestOf, Valid

\* What the newest record is, whether or not there is a valid one.
LEMMA NewestTop ==
  ASSUME Typed, CopiesOk
  PROVE  /\ NewestCopy \in Copy /\ Newest = copy[NewestCopy]
         /\ Newest \in Record /\ CameUp(Newest)
         /\ \A c \in Copy : copy[c].gen <= Newest.gen
         /\ SomeValid =>
              /\ Newest.gen > 0
              /\ \/ copy[1 - NewestCopy].gen < Newest.gen
                 \/ copy[1 - NewestCopy] = Newest
<1>1. copy \in [Copy -> Record] /\ copy[0].gen \in Nat /\ copy[1].gen \in Nat
  BY RecordFields DEF Typed, TypeOK
<1>2. NewestCopy \in Copy /\ Newest = copy[NewestCopy]
  BY DEF Newest, NewestCopy, NewestOf
<1>3. \A c \in Copy : copy[c].gen <= Newest.gen
  BY <1>1 DEF Newest, NewestCopy, NewestOf, Valid
<1>4. SomeValid =>
        /\ Newest.gen > 0
        /\ \/ copy[1 - NewestCopy].gen < Newest.gen
           \/ copy[1 - NewestCopy] = Newest
  BY <1>1 DEF SomeValid, Valid, Newest, NewestCopy, NewestOf, CopiesOk
<1> QED BY <1>1, <1>2, <1>3, <1>4 DEF CopiesOk

\* The record in RAM is the newest one, as it was read or committed.
LEMMA Settled ==
  ASSUME Typed, CopiesOk, md.gen > 0, copy[src] = md,
         copy[1 - src].gen < md.gen \/ copy[1 - src] = md
  PROVE  /\ SomeValid /\ Newest = md /\ FromNewest /\ CameUp(md)
         /\ \A c \in Copy : copy[c].gen <= md.gen
<1>1. /\ copy \in [Copy -> Record] /\ src \in Copy /\ copy[src].gen \in Nat
      /\ copy[1 - src].gen \in Nat /\ 1 - src \in Copy
  BY RecordFields DEF Typed, TypeOK
<1>2. Newest = md
  BY <1>1, NewestIs, NewestByDef
<1>3. SomeValid /\ FromNewest /\ CameUp(md)
  BY <1>1 DEF SomeValid, Valid, FromNewest, CopiesOk
<1>4. \A c \in Copy : c = src \/ c = 1 - src
  BY <1>1
<1> QED BY <1>1, <1>2, <1>3, <1>4

LEMMA Unwritten ==
  ASSUME UNCHANGED copy
  PROVE  /\ Newest' = Newest /\ NewestCopy' = NewestCopy
         /\ SomeValid' <=> SomeValid
         /\ CopiesOk' <=> CopiesOk
BY DEF Newest, NewestCopy, SomeValid, Valid, CopiesOk, CameUp

(***************************************************************************)
(* The shapes of things                                                    *)
(***************************************************************************)
LEMMA TypedInit == Init => Typed
<1> SUFFICES ASSUME Init PROVE Typed
  OBVIOUS
<1>1. NoHandoff \in Handoffs
  BY DEF NoHandoff, Handoffs
<1> QED BY <1>1, ErasedFields DEF Init, Typed, TypeOK

\* A write of the record: the copy that is written, and where it goes on.
LEMMA TypedWrite ==
  ASSUME Typed, UNCHANGED <<md, sel, trial, os, flash, staged>>,
         NEW r \in Record, copy' = [copy EXCEPT ![Target] = r],
         worn' \in [Copy -> BOOLEAN], faults' \in Nat, src' \in Copy,
         pc' \in {"off", "select", "erase", "program", "fallbackErase",
                  "fallbackProgram", "mirrorErase", "mirrorProgram", "load", "os",
                  "running", "install", "seed", "failed"}
  PROVE  Typed'
BY DEF Typed, TypeOK, Target

LEMMA FaultTyped ==
  ASSUME Typed, Fault
  PROVE  worn' \in [Copy -> BOOLEAN] /\ faults' \in Nat
         /\ ((\A c \in Copy : faults = 0 => ~worn[c]) => faults' > 0)
<1>1. worn \in [Copy -> BOOLEAN] /\ faults \in Nat /\ Target \in Copy
  BY DEF Typed, TypeOK, Target
<1>2. PICK w \in {worn[Target], TRUE} : worn' = [worn EXCEPT ![Target] = w]
  BY DEF Fault
<1>3. w \in BOOLEAN
  BY <1>1, <1>2
<1>4. worn' \in [Copy -> BOOLEAN]
  BY <1>1, <1>2, <1>3
<1>5. faults' = IF worn[Target] THEN faults ELSE faults + 1
  BY DEF Fault
<1> QED BY <1>1, <1>4, <1>5

(***************************************************************************)
(* The record is written                                                   *)
(***************************************************************************)
\* Whatever a step of a commit leaves in a copy, the record in RAM stays above
\* every copy that does not hold it yet.
LEMMA WriteKeeps ==
  ASSUME EmulatorInv, pc \in Writing, UNCHANGED md,
         NEW r \in {Erased, md, copy[Target]}, copy' = [copy EXCEPT ![Target] = r]
  PROVE  /\ CopiesOk' /\ r \in Record /\ Target \in Copy
         /\ copy'[Target] = r /\ copy'[1 - Target] = copy[1 - Target]
         /\ copy' \in [Copy -> Record]
         /\ md' = md /\ md.gen > 0 /\ CameUp(md)'
         /\ \A c \in Copy : copy'[c].gen < md.gen \/ copy'[c] = md
<1>1. /\ Typed /\ CopiesOk /\ md.gen > 0 /\ CameUp(md) /\ md.gen \in Nat
      /\ \A c \in Copy : copy[c].gen < md.gen \/ copy[c] = md
      /\ copy \in [Copy -> Record] /\ Target \in Copy /\ md \in Record
  BY RecordFields DEF EmulatorInv, CommitOk, Typed, TypeOK, Target
<1>2. r \in Record /\ CameUp(r) /\ (r.gen < md.gen \/ r = md)
  BY <1>1, ErasedFields DEF CopiesOk
<1>3. /\ copy'[Target] = r /\ copy'[1 - Target] = copy[1 - Target]
      /\ copy' \in [Copy -> Record]
  BY <1>1, <1>2
<1>4. \A c \in Copy : CameUp(copy'[c]) /\ (copy'[c].gen < md.gen \/ copy'[c] = md)
  BY <1>1, <1>2, <1>3 DEF CopiesOk
<1>5. copy'[0].gen > 0 /\ copy'[0].gen = copy'[1].gen => copy'[0] = copy'[1]
  <2> SUFFICES ASSUME copy'[0].gen > 0, copy'[0].gen = copy'[1].gen
               PROVE  copy'[0] = copy'[1]
    OBVIOUS
  <2>1. CASE r = Erased
    <3>1. copy'[Target].gen = 0 /\ (Target = 0 \/ Target = 1)
      BY <1>1, <1>3, <2>1, ErasedFields
    <3> QED BY <3>1
  <2>2. CASE r = md
    <3>1. copy'[Target] = md /\ copy'[1 - Target] = copy[1 - Target]
          /\ (Target = 0 \/ Target = 1)
      BY <1>1, <1>3, <2>2
    <3>2. copy'[1 - Target].gen = md.gen
      BY <3>1
    <3>3. copy'[1 - Target] = md
      BY <1>1, <3>1, <3>2
    <3> QED BY <3>1, <3>3
  <2>3. CASE r = copy[Target]
    BY <1>1, <1>3, <2>3 DEF CopiesOk
  <2> QED BY <2>1, <2>2, <2>3
<1>6. CopiesOk'
  BY <1>4, <1>5 DEF CopiesOk, CameUp
<1>7. CameUp(md)'
  BY <1>1 DEF CameUp
<1> QED BY <1>1, <1>2, <1>3, <1>4, <1>6, <1>7

\* Once a copy holds it, it is the newest record.
LEMMA Committed ==
  ASSUME NEW c \in Copy, copy' \in [Copy -> Record], copy'[c] = md, md' = md, md.gen > 0,
         copy'[1 - c].gen < md.gen \/ copy'[1 - c] = md
  PROVE  Newest' = md /\ SomeValid'
<1>1. copy'[NewestOf(copy')] = copy'[c]
  BY NewestIs
<1> QED BY <1>1, NewestByDef DEF SomeValid, Valid

LEMMA EraseFirstStep ==
  ASSUME EmulatorInv, EraseFirst, UNCHANGED staged PROVE EmulatorInv'
<1>1. /\ pc = "erase" /\ pc' = "program" /\ copy' = [copy EXCEPT ![Target] = Erased]
      /\ UNCHANGED <<worn, faults, src, cont, flash, md, sel, trial, os, staged>>
      /\ src \in Copy /\ Target = 1 - src /\ Typed
  BY DEF EraseFirst, Erase, commitUnchanged, EmulatorInv, Typed, TypeOK, Target
<1>2. /\ CopiesOk' /\ copy'[Target] = Erased /\ copy'[1 - Target] = copy[1 - Target]
      /\ copy' \in [Copy -> Record]
      /\ md.gen > 0 /\ CameUp(md)'
      /\ \A c \in Copy : copy'[c].gen < md.gen \/ copy'[c] = md
  BY <1>1, WriteKeeps DEF Writing
<1>3. 1 - Target = src /\ Erased.gen = 0 /\ copy[src].gen \in Nat
  BY <1>1, ErasedFields, RecordFields DEF Typed, TypeOK
<1>4. SomeValid' => SomeValid /\ copy'[src] = copy[src] /\ copy[src].gen > 0
  <2> SUFFICES ASSUME SomeValid'
               PROVE  SomeValid /\ copy'[src] = copy[src] /\ copy[src].gen > 0
    OBVIOUS
  <2>1. PICK c \in Copy : copy'[c].gen > 0
    BY DEF SomeValid, Valid
  <2>2. c = src
    BY <1>1, <1>2, <1>3, <2>1
  <2> QED BY <1>1, <1>2, <1>3, <2>1, <2>2 DEF SomeValid, Valid
<1>5. Typed'
  BY <1>1, TypedWrite, ErasedFields DEF Typed, TypeOK
<1>6. CommitOk'
  BY <1>1, <1>2, <1>3, <1>4 DEF EmulatorInv, CommitOk, Writing, FromNewest
<1>7. RunOk'
  BY <1>1 DEF RunOk
<1>8. FaultFree'
  <2> SUFFICES ASSUME faults = 0
               PROVE  (SomeValid => Holds(Newest))' /\ Holds(md)'
    BY <1>1 DEF EmulatorInv, FaultFree, Writing
  <2>1. Holds(md)'
    BY <1>1 DEF EmulatorInv, FaultFree, Writing, Holds
  <2>2. ASSUME SomeValid' PROVE Holds(Newest)'
    <3>1. Newest' = copy[src]
      <4>1. copy'[NewestOf(copy')] = copy'[src]
        <5>1. copy'[src].gen > 0 /\ copy'[1 - src].gen < copy'[src].gen
          BY <1>1, <1>2, <1>3, <1>4, <2>2
        <5> QED BY <1>1, <1>2, <5>1, NewestIs
      <4> QED BY <1>4, <2>2, <4>1, NewestByDef
    <3>2. Newest = copy[src]
      <4>1. FromNewest /\ CopiesOk
        BY <1>1, <1>4, <2>2 DEF EmulatorInv, CommitOk
      <4>2. copy[1 - src].gen < copy[src].gen \/ copy[1 - src] = copy[src]
        BY <1>1, <4>1, RecordFields DEF FromNewest, CopiesOk, Typed, TypeOK
      <4>3. copy[NewestOf(copy)] = copy[src]
        BY <1>1, <1>4, <2>2, <4>2, NewestIs DEF Typed, TypeOK
      <4> QED BY <4>3, NewestByDef
    <3> QED BY <1>1, <1>4, <2>2, <3>1, <3>2 DEF EmulatorInv, FaultFree, Holds
  <2> QED BY <2>1, <2>2
<1> QED BY <1>2, <1>5, <1>6, <1>7, <1>8 DEF EmulatorInv

\* The commit point: a copy has been verified to hold the record.
LEMMA ProgramStep ==
  ASSUME EmulatorInv, pc \in Writing, copy' = [copy EXCEPT ![Target] = md],
         UNCHANGED <<worn, faults, cont, flash, md, sel, trial, os, staged>>,
         pc' \in {"mirrorErase", cont}, src' \in {src, Target},
         pc' = "mirrorErase" => src' = Target,
         \/ src' = Target
         \/ copy[src] = md
  PROVE  EmulatorInv'
<1>1. src \in Copy /\ Target = 1 - src /\ Typed /\ md \in Record
      /\ cont \in {"load", "running", "os"} /\ (cont = "os" => os.version \notin Healthy)
  BY DEF EmulatorInv, Typed, TypeOK, Target, CommitOk
<1>2. /\ CopiesOk' /\ copy'[Target] = md /\ copy'[1 - Target] = copy[1 - Target]
      /\ copy' \in [Copy -> Record]
      /\ md.gen > 0 /\ CameUp(md)'
      /\ \A c \in Copy : copy'[c].gen < md.gen \/ copy'[c] = md
  BY WriteKeeps
<1>3. Target \in Copy /\ 1 - Target = src /\ src' \in Copy /\ 1 - src' \in Copy
  <2>1. Target \in Copy /\ 1 - Target = src /\ 1 - src = Target
    BY <1>1
  <2>2. src' = src \/ src' = Target
    OBVIOUS
  <2> QED BY <1>1, <2>1, <2>2
<1>4. copy'[src'] = md /\ (copy'[1 - src'].gen < md.gen \/ copy'[1 - src'] = md)
  <2>1. CASE src' = Target
    BY <1>2, <1>3, <2>1
  <2>2. CASE src' = src /\ copy[src] = md
    BY <1>1, <1>2, <1>3, <2>2
  <2> QED BY <2>1, <2>2
<1>5. Newest' = md /\ SomeValid'
  BY <1>2, <1>3, <1>4, Committed
<1>6. Typed'
  BY <1>1, <1>3, TypedWrite DEF Typed, TypeOK
<1>7. CommitOk'
  BY <1>1, <1>2, <1>4, <1>5 DEF CommitOk, Writing
<1>8. RunOk'
  BY <1>1 DEF RunOk
<1>9. FaultFree'
  BY <1>1, <1>5 DEF EmulatorInv, FaultFree, Holds
<1> QED BY <1>2, <1>6, <1>7, <1>8, <1>9 DEF EmulatorInv

\* A write failed: flash is no longer what it was.
LEMMA FaultStep ==
  ASSUME EmulatorInv, pc \in Writing, Fault,
         NEW r \in {Erased, md, copy[Target]}, copy' = [copy EXCEPT ![Target] = r],
         UNCHANGED <<cont, flash, md, sel, trial, os, staged>>,
         \/ pc' = "fallbackErase" /\ src' = Target
         \/ pc' = "failed" /\ src' = src
         \/ /\ pc' = cont /\ src' = src
            /\ cont \in {"running", "os"} \/ pc \in {"mirrorErase", "mirrorProgram"}
  PROVE  EmulatorInv'
<1>1. /\ src \in Copy /\ Target = 1 - src /\ Target \in Copy /\ Typed
      /\ cont \in {"load", "running", "os"} /\ (cont = "os" => os.version \notin Healthy)
      /\ \A c \in Copy : faults = 0 => ~worn[c]
  BY DEF EmulatorInv, Typed, TypeOK, Target, CommitOk, FaultFree
<1>2. /\ CopiesOk' /\ copy'[Target] = r /\ copy'[1 - Target] = copy[1 - Target]
      /\ copy' \in [Copy -> Record] /\ r \in Record
      /\ md.gen > 0 /\ CameUp(md)'
      /\ \A c \in Copy : copy'[c].gen < md.gen \/ copy'[c] = md
  BY WriteKeeps
<1>3. worn' \in [Copy -> BOOLEAN] /\ faults' \in Nat /\ faults' > 0
  BY <1>1, FaultTyped
<1>4. Typed'
  BY <1>1, <1>2, <1>3, TypedWrite DEF Typed, TypeOK
<1>5. CommitOk'
  <2>1. CASE pc' \in {"fallbackErase", "failed"}
    BY <1>1, <1>2, <2>1 DEF CommitOk, Writing
  <2>2. CASE pc' = cont /\ cont \in {"running", "os"}
    BY <1>1, <1>2, <2>2 DEF CommitOk, Writing
  <2>3. CASE pc' = cont /\ cont = "load" /\ pc \in {"mirrorErase", "mirrorProgram"} /\ src' = src
    <3>1. copy[src] = md
      BY <2>3 DEF EmulatorInv, CommitOk
    <3> QED BY <1>1, <1>2, <2>3, <3>1 DEF CommitOk, Writing
  <2> QED BY <1>1, <2>1, <2>2, <2>3
<1>6. RunOk'
  BY <1>1 DEF RunOk
<1>7. FaultFree'
  BY <1>3 DEF FaultFree
<1> QED BY <1>2, <1>4, <1>5, <1>6, <1>7 DEF EmulatorInv

\* The copy that is not the record's, or - in the fallback - the last one.
LEMMA EraseAgain ==
  ASSUME EmulatorInv, EraseMirror \/ EraseFallback, UNCHANGED staged
  PROVE  EmulatorInv'
<1>1. /\ \/ pc = "mirrorErase" /\ pc' = "mirrorProgram"
         \/ pc = "fallbackErase" /\ pc' = "fallbackProgram"
      /\ copy' = [copy EXCEPT ![Target] = Erased]
      /\ UNCHANGED <<worn, faults, src, cont, flash, md, sel, trial, os, staged>>
      /\ src \in Copy /\ Target = 1 - src /\ Target \in Copy /\ 1 - Target = src /\ Typed
  BY DEF EraseMirror, EraseFallback, Erase, commitUnchanged, EmulatorInv, Typed, TypeOK, Target
<1>2. /\ CopiesOk' /\ copy'[Target] = Erased /\ copy'[1 - Target] = copy[1 - Target]
      /\ copy' \in [Copy -> Record]
      /\ md.gen > 0 /\ CameUp(md)'
      /\ \A c \in Copy : copy'[c].gen < md.gen \/ copy'[c] = md
  BY <1>1, WriteKeeps DEF Writing
<1>3. Typed'
  BY <1>1, TypedWrite, ErasedFields DEF Typed, TypeOK
<1>4. CommitOk'
  BY <1>1, <1>2 DEF EmulatorInv, CommitOk, Writing
<1>5. RunOk'
  BY <1>1 DEF RunOk
<1>6. FaultFree'
  <2>1. CASE pc = "mirrorErase"
    <3>1. copy'[src] = md /\ (copy'[1 - src].gen < md.gen \/ copy'[1 - src] = md)
      BY <1>1, <1>2, <2>1 DEF EmulatorInv, CommitOk
    <3>2. Newest' = md /\ SomeValid'
      BY <1>1, <1>2, <3>1, Committed
    <3> QED BY <1>1, <2>1, <3>2 DEF EmulatorInv, FaultFree, Writing, Holds
  <2>2. CASE pc = "fallbackErase"
    BY <1>1, <2>2 DEF EmulatorInv, FaultFree
  <2> QED BY <1>1, <2>1, <2>2
<1> QED BY <1>2, <1>3, <1>4, <1>5, <1>6 DEF EmulatorInv

\* The emulator builds with the fallback on (FALLBACK_WRITE).
LEMMA FallbackTrue == Fallback
BY Constants

LEMMA WritesHold ==
  ASSUME EmulatorInv, UBootWrites \/ EraseFallback \/ ProgramFallback \/ FallbackFails,
         UNCHANGED staged
  PROVE  EmulatorInv'
<1>0. src \in Copy /\ Target \in Copy /\ CommitOk
  BY DEF EmulatorInv, Typed, TypeOK, Target
<1>1. CASE EraseFirst
  BY <1>1, EraseFirstStep
<1>2. CASE ProgramFirst
  <2>1. /\ pc \in Writing /\ copy' = [copy EXCEPT ![Target] = md] /\ pc' = "mirrorErase"
        /\ src' = Target
        /\ UNCHANGED <<worn, faults, cont, flash, md, sel, trial, os, staged>>
    BY <1>2 DEF ProgramFirst, Program, commitUnchanged, Writing
  <2> QED BY <2>1, ProgramStep
<1>3. CASE FirstFails
  <2>1. /\ pc \in Writing /\ Fault /\ pc' = "fallbackErase" /\ src' = Target
        /\ UNCHANGED <<cont, flash, md, sel, trial, os, staged>>
    BY <1>3, FallbackTrue DEF FirstFails, FaultLeaves, commitUnchanged, Writing
  <2>2. PICK r \in {Erased, md, copy[Target]} : copy' = [copy EXCEPT ![Target] = r]
    BY <1>3 DEF FirstFails, FaultLeaves
  <2> QED BY <2>1, <2>2, FaultStep
<1>4. CASE EraseMirror \/ EraseFallback
  BY <1>4, EraseAgain
<1>5. CASE ProgramMirror
  <2>1. /\ pc = "mirrorProgram" /\ copy' = [copy EXCEPT ![Target] = md] /\ pc' = cont
        /\ src' = src
        /\ UNCHANGED <<worn, faults, cont, flash, md, sel, trial, os, staged>>
    BY <1>5 DEF ProgramMirror, Program, commitUnchanged
  <2>2. copy[src] = md /\ cont # "mirrorErase" /\ pc \in Writing
    BY <1>0, <2>1 DEF CommitOk, Writing
  <2> QED BY <2>1, <2>2, ProgramStep
<1>6. CASE MirrorFails
  <2>1. /\ pc \in Writing /\ Fault /\ pc' = cont /\ src' = src
        /\ pc \in {"mirrorErase", "mirrorProgram"}
        /\ UNCHANGED <<cont, flash, md, sel, trial, os, staged>>
    BY <1>6 DEF MirrorFails, FaultLeaves, commitUnchanged, Writing
  <2>2. PICK r \in {Erased, md, copy[Target]} : copy' = [copy EXCEPT ![Target] = r]
    BY <1>6 DEF MirrorFails, FaultLeaves
  <2> QED BY <2>1, <2>2, FaultStep
<1>7. CASE ProgramFallback
  <2>1. /\ pc \in Writing /\ copy' = [copy EXCEPT ![Target] = md]
        /\ pc' \in {"mirrorErase", cont} /\ src' = Target
        /\ UNCHANGED <<worn, faults, cont, flash, md, sel, trial, os, staged>>
    BY <1>7 DEF ProgramFallback, Program, commitUnchanged, Writing
  <2> QED BY <2>1, ProgramStep
<1>8. CASE FallbackFails
  <2>1. /\ pc \in Writing /\ Fault /\ src' = src
        /\ \/ pc' = "failed"
           \/ pc' = cont /\ cont \in {"running", "os"}
        /\ UNCHANGED <<cont, flash, md, sel, trial, os, staged>>
    BY <1>8 DEF FallbackFails, FaultLeaves, commitUnchanged, Writing, ByFirmware
  <2>2. PICK r \in {Erased, md, copy[Target]} : copy' = [copy EXCEPT ![Target] = r]
    BY <1>8 DEF FallbackFails, FaultLeaves
  <2> QED BY <2>1, <2>2, FaultStep
<1> QED BY <1>1, <1>2, <1>3, <1>4, <1>5, <1>6, <1>7, <1>8 DEF UBootWrites

(***************************************************************************)
(* The record is decided on                                                *)
(***************************************************************************)
\* Every commit starts from here, with what it has to know.
LEMMA CommitStarts ==
  ASSUME EmulatorInv, UNCHANGED <<copy, worn, faults>>, Typed', pc' = "erase",
         md'.gen > 0, CameUp(md'),
         \A c \in Copy : copy[c].gen < md'.gen \/ copy[c] = md',
         cont' \in {"load", "running", "os"}, cont' = "os" => os'.version \notin Healthy,
         SomeValid => FromNewest',
         faults = 0 => Holds(md)' /\ (SomeValid => Holds(Newest)')
  PROVE  EmulatorInv'
<1>1. CopiesOk' /\ (SomeValid' <=> SomeValid) /\ Newest' = Newest
  BY Unwritten DEF EmulatorInv
<1>2. CameUp(md)'
  BY DEF CameUp
<1>3. CommitOk'
  BY <1>1, <1>2 DEF CommitOk, Writing
<1>4. RunOk'
  BY DEF RunOk
<1>5. FaultFree'
  BY <1>1 DEF EmulatorInv, FaultFree, Writing
<1> QED BY <1>1, <1>3, <1>4, <1>5 DEF EmulatorInv

\* The copy currentMetadata reads is the newest.
LEMMA NewestSource ==
  ASSUME Typed, CopiesOk, SomeValid, UNCHANGED copy, src' = NewestCopy
  PROVE  FromNewest'
<1>1. /\ NewestCopy \in Copy /\ Newest = copy[NewestCopy] /\ Newest.gen > 0
      /\ \A c \in Copy : copy[c].gen <= Newest.gen
  BY NewestTop
<1>2. copy[NewestCopy].gen \in Nat /\ copy[1 - NewestCopy].gen \in Nat
      /\ 1 - NewestCopy \in Copy
  BY <1>1, RecordFields DEF Typed, TypeOK
<1>3. copy[1 - NewestCopy].gen <= copy[NewestCopy].gen
  BY <1>1, <1>2
<1> QED BY <1>1, <1>2, <1>3 DEF FromNewest

\* A record that replaces the newest one is newer than both copies.
LEMMA Newer ==
  ASSUME Typed, CopiesOk, NEW a \in Slot, NEW p \in Slot \cup {NoSlot}, NEW n \in Nat,
         NEW t \in [Slot -> Image \cup {Blank}]
  PROVE  \A c \in Copy : copy[c].gen < Advance(Newest, a, p, n, t).gen
<1>1. Newest \in Record /\ \A c \in Copy : copy[c].gen <= Newest.gen
  BY NewestTop
<1>2. Advance(Newest, a, p, n, t).gen = Newest.gen + 1
  BY DEF Advance
<1>4. Newest.gen \in Nat
  BY <1>1, RecordFields
<1> SUFFICES ASSUME NEW c \in Copy PROVE copy[c].gen < Advance(Newest, a, p, n, t).gen
  OBVIOUS
<1>3. copy[c].gen \in Nat /\ copy[c].gen <= Newest.gen
  BY <1>1, RecordFields DEF Typed, TypeOK
<1> QED BY <1>2, <1>3, <1>4

\* A boot changes the record only on behalf of the one it read.
LEMMA BootCommits ==
  ASSUME EmulatorInv, pc \in {"select", "load"}, NEW p \in Slot \cup {NoSlot}, NEW n \in Nat,
         md' = Advance(md, md.active, p, n, md.slots), pc' = "erase", cont' = "load",
         UNCHANGED <<copy, worn, faults, flash, src, os, staged>>,
         sel' \in Slot, trial' \in BOOLEAN
  PROVE  EmulatorInv'
<1>1. /\ Typed /\ CopiesOk /\ md \in Record /\ src \in Copy
      /\ md.gen > 0 /\ copy[src] = md
      /\ copy[1 - src].gen < md.gen \/ copy[1 - src] = md
  BY DEF EmulatorInv, CommitOk, Typed, TypeOK
<1>2. SomeValid /\ Newest = md /\ FromNewest /\ CameUp(md)
  BY <1>1, Settled
<1>3. md.active \in Slot /\ md.slots \in [Slot -> Image \cup {Blank}]
  BY <1>1, RecordFields
<1>4. /\ md' \in Record /\ md'.gen > 0 /\ md'.active = md.active /\ md'.slots = md.slots
  <2>1. Advance(md, md.active, p, n, md.slots) \in Record
    BY <1>1, <1>3 DEF Advance, Record
  <2>2. md.gen \in Nat
    BY <1>1, RecordFields
  <2> QED BY <2>1, <2>2 DEF Advance
<1>5. \A c \in Copy : copy[c].gen < md'.gen
  BY <1>1, <1>2, <1>3, Newer
<1>6. Typed'
  BY <1>1, <1>4 DEF Typed, TypeOK
<1>7. CameUp(md') /\ FromNewest'
  BY <1>2, <1>4 DEF CameUp, FromNewest
<1>8. faults = 0 => Holds(md)' /\ Holds(Newest)'
  <2>1. Newest' = Newest
    BY Unwritten
  <2> QED BY <1>2, <1>4, <2>1 DEF EmulatorInv, FaultFree, Holds
<1> QED BY <1>4, <1>5, <1>6, <1>7, <1>8, CommitStarts

\* A step that leaves the record alone, and what it has to keep.
LEMMA RecordAlone ==
  ASSUME EmulatorInv, UNCHANGED copy, Typed',
         CommitOk', RunOk', FaultFree'
  PROVE  EmulatorInv'
BY Unwritten DEF EmulatorInv

LEMMA ReadStep ==
  ASSUME EmulatorInv, ReadMetadata("select"), UNCHANGED staged PROVE EmulatorInv'
<1>1. /\ pc = "off" /\ Typed /\ CopiesOk
      /\ UNCHANGED <<copy, worn, faults, flash, cont, sel, trial, os, staged>>
  BY DEF ReadMetadata, EmulatorInv, store
<1>2. /\ NewestCopy \in Copy /\ Newest = copy[NewestCopy] /\ Newest \in Record
      /\ SomeValid =>
              /\ Newest.gen > 0
              /\ \/ copy[1 - NewestCopy].gen < Newest.gen
                 \/ copy[1 - NewestCopy] = Newest
  BY <1>1, NewestTop
<1>3. \/ SomeValid /\ src' = NewestCopy /\ md' = Newest /\ pc' = "select"
      \/ pc' = "failed" /\ UNCHANGED <<md, src>>
  BY DEF ReadMetadata
<1>4. Typed'
  BY <1>1, <1>2, <1>3 DEF Typed, TypeOK
<1>5. CommitOk'
  BY <1>1, <1>2, <1>3 DEF CommitOk, Writing
<1>6. RunOk'
  BY <1>3 DEF RunOk
<1>7. FaultFree'
  <2>1. Newest' = Newest /\ SomeValid' = SomeValid
    BY <1>1, Unwritten DEF SomeValid, Valid
  <2> QED BY <1>1, <1>3, <2>1 DEF EmulatorInv, FaultFree, Writing, Holds
<1> QED BY <1>1, <1>4, <1>5, <1>6, <1>7, RecordAlone

LEMMA DecideStep ==
  ASSUME EmulatorInv, UBootDecides, UNCHANGED staged PROVE EmulatorInv'
<1>0. /\ Typed /\ md \in Record /\ src \in Copy /\ os \in Handoffs /\ sel \in Slot
      /\ md.active \in Slot /\ md.pending \in Slot \cup {NoSlot} /\ md.attempts \in Nat
      /\ md.slots \in [Slot -> Image \cup {Blank}] /\ md.gen \in Nat
  BY RecordFields DEF EmulatorInv, Typed, TypeOK
<1>1. CASE SelectActive
  <2>1. /\ pc = "select" /\ pc' = "load" /\ sel' = md.active /\ trial' = FALSE
        /\ UNCHANGED <<copy, worn, faults, flash, cont, md, src, os, staged>>
    BY <1>1 DEF SelectActive, store
  <2>2. Typed'
    BY <1>0, <2>1 DEF Typed, TypeOK
  <2>3. CommitOk'
    BY <1>0, <2>1 DEF EmulatorInv, CommitOk, Writing
  <2>4. RunOk'
    BY <2>1 DEF RunOk
  <2>5. FaultFree'
    <3>1. Newest' = Newest /\ SomeValid' = SomeValid
      BY <2>1, Unwritten DEF SomeValid, Valid
    <3> QED BY <2>1, <3>1 DEF EmulatorInv, FaultFree, Writing, Holds
  <2> QED BY <2>1, <2>2, <2>3, <2>4, <2>5, RecordAlone
<1>2. CASE SelectPending
  <2>1. /\ pc \in {"select", "load"} /\ pc' = "erase" /\ cont' = "load"
        /\ sel' \in Slot /\ trial' \in BOOLEAN
        /\ md' = Advance(md, md.active, md.pending, md.attempts + 1, md.slots)
        /\ UNCHANGED <<copy, worn, faults, flash, src, os, staged>>
    BY <1>0, <1>2 DEF SelectPending, Commit, Attempted, store
  <2>2. md.attempts + 1 \in Nat
    BY <1>0
  <2> QED BY <1>0, <2>1, <2>2, BootCommits
<1>3. CASE AbandonPending
  <2>1. /\ pc \in {"select", "load"} /\ pc' = "erase" /\ cont' = "load"
        /\ sel' \in Slot /\ trial' \in BOOLEAN
        /\ md' = Advance(md, md.active, NoSlot, 0, md.slots)
        /\ UNCHANGED <<copy, worn, faults, flash, src, os, staged>>
    BY <1>0, <1>3 DEF AbandonPending, Commit, RolledBack, store
  <2> QED BY <1>0, <2>1, BootCommits
<1>4. CASE Boot
  <2>1. /\ pc = "load" /\ pc' = "os" /\ LoadSlot(sel)
        /\ os' = [booted |-> sel, active |-> md.active, pending |-> md.pending,
                  gen |-> md.gen, version |-> md.slots[sel]]
        /\ UNCHANGED <<copy, worn, faults, flash, cont, md, src, sel, trial, staged>>
    BY <1>4 DEF Boot, store, ram
  <2>2. md.slots[sel] \in Image \cup {Blank}
    BY <1>0
  <2>3. os' \in Handoffs
    BY <1>0, <2>1, <2>2 DEF Handoffs
  <2>4. Typed'
    BY <1>0, <2>1, <2>3 DEF Typed, TypeOK
  <2>5. Newest = md /\ SomeValid
    BY <2>1, Settled DEF EmulatorInv, CommitOk
  <2>6. Newest' = Newest /\ SomeValid' = SomeValid
    BY <2>1, Unwritten DEF SomeValid, Valid
  <2>7. CommitOk'
    BY <2>1 DEF CommitOk, Writing
  <2>8. RunOk'
    <3>1. /\ os'.booted = sel /\ os'.pending = md.pending /\ os'.version = md.slots[sel]
          /\ Newest' = md /\ flash' = flash /\ flash[sel] = md.slots[sel]
      BY <2>1, <2>5, <2>6 DEF LoadSlot
    <3> QED BY <2>1, <3>1 DEF RunOk
  <2>9. FaultFree'
    BY <2>1, <2>5, <2>6 DEF EmulatorInv, FaultFree, Writing, Holds
  <2> QED BY <2>1, <2>4, <2>7, <2>8, <2>9, RecordAlone
<1>5. CASE LoadFails
  <2>1. CASE trial
    <3>1. /\ pc \in {"select", "load"} /\ pc' = "erase" /\ cont' = "load"
          /\ sel' \in Slot /\ trial' \in BOOLEAN
          /\ md' = Advance(md, md.active, NoSlot, 0, md.slots)
          /\ UNCHANGED <<copy, worn, faults, flash, src, os, staged>>
      BY <1>0, <1>5, <2>1 DEF LoadFails, Commit, RolledBack, store
    <3> QED BY <1>0, <3>1, BootCommits
  <2>2. CASE ~trial
    <3>1. /\ pc' = "failed"
          /\ UNCHANGED <<copy, worn, faults, flash, cont, md, src, sel, trial, os, staged>>
      BY <1>5, <2>2 DEF LoadFails, store
    <3>2. Typed'
      BY <1>0, <3>1 DEF Typed, TypeOK
    <3>3. Newest' = Newest /\ SomeValid' = SomeValid
      BY <3>1, Unwritten DEF SomeValid, Valid
    <3>4. CommitOk' /\ RunOk'
      BY <3>1 DEF CommitOk, RunOk, Writing
    <3>5. FaultFree'
      BY <3>1, <3>3 DEF EmulatorInv, FaultFree, Writing, Holds
    <3> QED BY <3>1, <3>2, <3>4, <3>5, RecordAlone
  <2> QED BY <2>1, <2>2
<1> QED BY <1>1, <1>2, <1>3, <1>4, <1>5 DEF UBootDecides

(***************************************************************************)
(* The seed                                                                *)
(***************************************************************************)
LEMMA SeedSteps ==
  ASSUME EmulatorInv, FactorySeed \/ CommitSeed PROVE EmulatorInv'
<1>0. /\ Typed /\ CopiesOk /\ src \in Copy /\ copy \in [Copy -> Record]
      /\ flash \in [Slot -> Image \cup {Blank, Rotten}]
  BY DEF EmulatorInv, Typed, TypeOK
<1>1. CASE FactorySeed
  <2>1. /\ ~SomeValid /\ flash' = [flash EXCEPT ![0] = Blank] /\ pc' = "seed"
        /\ UNCHANGED <<copy, worn, faults, cont, md, src, sel, trial, os, staged>>
    BY <1>1 DEF FactorySeed, store, ram
  <2>2. flash' \in [Slot -> Image \cup {Blank, Rotten}]
    BY <1>0, <2>1
  <2>3. Typed'
    BY <1>0, <2>1, <2>2 DEF Typed, TypeOK
  <2>4. SomeValid' = SomeValid
    BY <2>1 DEF SomeValid, Valid
  <2>5. CommitOk' /\ RunOk'
    BY <2>1, <2>4 DEF CommitOk, RunOk, Writing
  <2>6. FaultFree'
    BY <2>1, <2>4 DEF EmulatorInv, FaultFree, Writing
  <2> QED BY <2>1, <2>3, <2>5, <2>6, RecordAlone
<1>2. CASE CommitSeed
  <2>1. PICK image \in Healthy :
          /\ flash' = [flash EXCEPT ![0] = image]
          /\ Commit([Erased EXCEPT !.gen = 1, !.slots[0] = image], "load")
    BY <1>2 DEF CommitSeed
  <2>2. /\ pc = "seed" /\ src' = 1 /\ sel' = 0 /\ trial' = FALSE /\ pc' = "erase"
        /\ cont' = "load" /\ UNCHANGED <<copy, worn, faults, os, staged>>
    BY <1>2, <2>1 DEF CommitSeed, Commit, store
  <2>3. md' = [Erased EXCEPT !.gen = 1, !.slots[0] = image]
    BY <2>1 DEF Commit
  <2>4. image \in Image /\ image \in Nat
    BY Constants
  <2>5. /\ md' \in Record /\ md'.gen = 1 /\ md'.active = 0 /\ md'.slots[0] = image
    BY <2>3, <2>4 DEF Erased, Record
  <2>6. flash' \in [Slot -> Image \cup {Blank, Rotten}] /\ flash'[0] = image
    BY <1>0, <2>1, <2>4
  <2>7. ~SomeValid
    BY <2>2 DEF EmulatorInv, CommitOk
  <2>8. \A c \in Copy : copy[c].gen < md'.gen
    <3> SUFFICES ASSUME NEW c \in Copy PROVE copy[c].gen < md'.gen
      OBVIOUS
    <3>1. copy[c].gen \in Nat /\ ~(copy[c].gen > 0)
      BY <1>0, <2>7, RecordFields DEF SomeValid, Valid
    <3> QED BY <2>5, <3>1
  <2>9. Typed'
    BY <1>0, <2>2, <2>5, <2>6 DEF Typed, TypeOK
  <2>10. CameUp(md') /\ Holds(md)'
    BY <2>4, <2>5, <2>6 DEF CameUp, Holds
  <2>11. md'.gen > 0
    BY <2>5
  <2> QED BY <2>2, <2>7, <2>8, <2>9, <2>10, <2>11, CommitStarts
<1> QED BY <1>1, <1>2

(***************************************************************************)
(* The operating system                                                    *)
(***************************************************************************)
LEMMA ConfirmStep ==
  ASSUME EmulatorInv, ConfirmBootIfReady PROVE EmulatorInv'
<1>0. /\ Typed /\ CopiesOk /\ pc = "os" /\ os.version \in Healthy
      /\ UNCHANGED <<copy, worn, faults, flash, sel, trial, os, staged>>
      /\ Newest' = Newest /\ SomeValid' = SomeValid
  BY Unwritten DEF ConfirmBootIfReady, ConfirmBoot, EmulatorInv, store, SomeValid, Valid
<1>1. /\ NewestCopy \in Copy /\ Newest \in Record /\ Newest.gen \in Nat
      /\ Newest.pending \in Slot \cup {NoSlot} /\ Newest.slots \in [Slot -> Image \cup {Blank}]
  BY <1>0, NewestTop, RecordFields
<1>2. CASE os.booted = os.pending /\ Newest.pending \in Slot
  <2>1. /\ src' = CurrentSource /\ pc' = "erase" /\ cont' = "running"
        /\ md' = Advance(Newest, Newest.pending, NoSlot, 0, Newest.slots)
    BY <1>2 DEF ConfirmBootIfReady, ConfirmBoot, Commit
  <2>2. /\ Newest.slots[Newest.pending] \in Healthy
        /\ flash[Newest.pending] = Newest.slots[Newest.pending]
    BY <1>0, <1>2 DEF EmulatorInv, RunOk
  <2>3. /\ md' \in Record /\ md'.gen = Newest.gen + 1 /\ md'.active = Newest.pending
        /\ md'.slots = Newest.slots
    BY <1>1, <1>2, <2>1 DEF Advance, Record
  <2>4. \A c \in Copy : copy[c].gen < md'.gen
    BY <1>0, <1>1, <1>2, <2>1, Newer
  <2>5. md'.gen > 0
    BY <1>1, <2>3
  <2>6. src' \in Copy /\ (SomeValid => FromNewest')
    <3>1. SomeValid => src' = NewestCopy
      BY <2>1 DEF CurrentSource
    <3>2. src' \in Copy
      BY <1>1, <2>1 DEF CurrentSource
    <3> QED BY <1>0, <3>1, <3>2, NewestSource
  <2>7. Typed'
    BY <1>0, <2>1, <2>3, <2>6 DEF Typed, TypeOK
  <2>8. CameUp(md')
    BY <2>2, <2>3 DEF CameUp
  <2>9. faults = 0 => Holds(md)' /\ (SomeValid => Holds(Newest)')
    <3>1. Holds(md)'
      BY <1>0, <2>2, <2>3, Constants DEF Holds
    <3>2. faults = 0 /\ SomeValid => Holds(Newest)'
      BY <1>0 DEF EmulatorInv, FaultFree, Holds
    <3> QED BY <3>1, <3>2
  <2> QED BY <1>0, <2>1, <2>4, <2>5, <2>6, <2>7, <2>8, <2>9, CommitStarts
<1>3. CASE ~(os.booted = os.pending /\ Newest.pending \in Slot)
  <2>1. pc' = "running" /\ UNCHANGED <<md, src, cont>>
    BY <1>3 DEF ConfirmBootIfReady, ConfirmBoot
  <2>2. Typed'
    BY <1>0, <2>1 DEF Typed, TypeOK
  <2>3. CommitOk' /\ RunOk'
    BY <2>1 DEF CommitOk, RunOk, Writing
  <2>4. FaultFree'
    BY <1>0, <2>1 DEF EmulatorInv, FaultFree, Writing, Holds
  <2> QED BY <1>0, <2>2, <2>3, <2>4, RecordAlone
<1> QED BY <1>2, <1>3

LEMMA AuthenticateStep ==
  ASSUME EmulatorInv, AuthenticateCapsule PROVE EmulatorInv'
<1>1. /\ pc \in {"running", "os"} /\ staged' \in Image /\ Typed /\ CopiesOk
      /\ UNCHANGED <<copy, worn, faults, flash, pc, cont, md, src, sel, trial, os>>
      /\ Newest' = Newest /\ SomeValid' = SomeValid
  BY Unwritten DEF AuthenticateCapsule, Serving, EmulatorInv, store, ram, SomeValid, Valid
<1>2. Typed'
  BY <1>1 DEF Typed, TypeOK
<1>3. CommitOk'
  BY <1>1 DEF EmulatorInv, CommitOk, Writing
<1>4. RunOk'
  BY <1>1 DEF EmulatorInv, RunOk
<1>5. FaultFree'
  BY <1>1 DEF EmulatorInv, FaultFree, Writing, Holds
<1> QED BY <1>1, <1>2, <1>3, <1>4, <1>5, RecordAlone

LEMMA InstallStep ==
  ASSUME EmulatorInv, Install PROVE EmulatorInv'
<1> DEFINE target == 1 - Newest.active
<1>0. /\ Typed /\ CopiesOk /\ pc \in {"running", "os"} /\ staged # Blank
      /\ src' = CurrentSource /\ flash' = [flash EXCEPT ![target] = Blank]
      /\ md' = Advance(Newest, Newest.active, target, 0,
                       [Newest.slots EXCEPT ![target] = staged])
      /\ pc' = "install"
      /\ UNCHANGED <<copy, worn, faults, cont, sel, trial, os, staged>>
      /\ Newest' = Newest /\ SomeValid' = SomeValid
  BY Unwritten
     DEF Install, InstallInto, Serving, EmulatorInv, store, SomeValid, Valid
<1>1. /\ NewestCopy \in Copy /\ Newest \in Record /\ CameUp(Newest) /\ Newest.gen \in Nat
      /\ Newest.active \in Slot /\ Newest.slots \in [Slot -> Image \cup {Blank}]
  BY <1>0, NewestTop, RecordFields
<1>2. target \in Slot /\ target # Newest.active
  BY <1>1
<1>3. staged \in Image /\ flash \in [Slot -> Image \cup {Blank, Rotten}]
  BY <1>0 DEF Typed, TypeOK
<1>4. [Newest.slots EXCEPT ![target] = staged] \in [Slot -> Image \cup {Blank}]
  BY <1>1, <1>2, <1>3
<1>5. /\ md' \in Record /\ md'.gen = Newest.gen + 1 /\ md'.active = Newest.active
      /\ md'.pending = target /\ md'.slots[Newest.active] = Newest.slots[Newest.active]
  <2>1. md'.slots = [Newest.slots EXCEPT ![target] = staged]
    BY <1>0 DEF Advance
  <2>2. md'.slots[Newest.active] = Newest.slots[Newest.active]
    BY <1>1, <1>2, <2>1
  <2>3. /\ md'.gen = Newest.gen + 1 /\ md'.active = Newest.active /\ md'.pending = target
    BY <1>0 DEF Advance
  <2>4. md' \in Record
    <3> DEFINE t == [Newest.slots EXCEPT ![target] = staged]
    <3> HIDE DEF t
    <3>1. t \in [Slot -> Image \cup {Blank}]
      BY <1>4 DEF t
    <3>2. Advance(Newest, Newest.active, target, 0, t) \in Record
      BY <1>1, <1>2, <3>1 DEF Advance, Record
    <3> QED BY <1>0, <3>2 DEF t
  <2> QED BY <2>2, <2>3, <2>4
<1>6. \A c \in Copy : copy[c].gen < md'.gen
  BY <1>0, <1>1, <1>2, <1>4, Newer
<1>7. md'.gen > 0 /\ CameUp(md')
  BY <1>1, <1>5 DEF CameUp
<1>8. src' \in Copy /\ (SomeValid => FromNewest')
  <2>1. SomeValid => src' = NewestCopy
    BY <1>0 DEF CurrentSource
  <2>2. src' \in Copy
    BY <1>0, <1>1 DEF CurrentSource
  <2> QED BY <1>0, <2>1, <2>2, NewestSource
<1>9. /\ flash' \in [Slot -> Image \cup {Blank, Rotten}]
      /\ flash'[Newest.active] = flash[Newest.active]
  BY <1>0, <1>1, <1>2, <1>3
<1>10. Typed'
  BY <1>0, <1>5, <1>8, <1>9 DEF Typed, TypeOK
<1>11. CommitOk'
  <2>1. CameUp(md)'
    BY <1>7 DEF CameUp
  <2> QED BY <1>0, <1>6, <1>7, <1>8, <2>1 DEF CommitOk, Writing
<1>12. RunOk'
  BY <1>0, <1>3, <1>5 DEF RunOk
<1>13. FaultFree'
  BY <1>0, <1>9 DEF EmulatorInv, FaultFree, Writing, Holds
<1> QED BY <1>0, <1>10, <1>11, <1>12, <1>13, RecordAlone

LEMMA CommitInstallStep ==
  ASSUME EmulatorInv, CommitInstall PROVE EmulatorInv'
<1>0. /\ Typed /\ CopiesOk /\ pc = "install" /\ pc' = "erase" /\ md' = md
      /\ flash' = [flash EXCEPT ![md.pending] = staged] /\ cont' = Resumed
      /\ staged' = Blank
      /\ UNCHANGED <<copy, worn, faults, src, sel, trial, os>>
      /\ Newest' = Newest /\ SomeValid' = SomeValid
  BY Unwritten DEF CommitInstall, Commit, EmulatorInv, store, SomeValid, Valid
<1>1. /\ md \in Record /\ md.active \in Slot /\ src \in Copy
      /\ flash \in [Slot -> Image \cup {Blank, Rotten}]
  BY <1>0, RecordFields DEF Typed, TypeOK
<1>2. /\ staged \in Image /\ md.active = Newest.active /\ md.pending = 1 - md.active
      /\ md.slots[md.active] = Newest.slots[Newest.active]
  BY <1>0 DEF EmulatorInv, RunOk
<1>3. md.pending \in Slot /\ md.pending # md.active
  BY <1>1, <1>2
<1>4. /\ flash' \in [Slot -> Image \cup {Blank, Rotten}]
      /\ flash'[md.active] = flash[md.active]
  BY <1>0, <1>1, <1>2, <1>3
<1>5. Typed'
  BY <1>0, <1>4 DEF Typed, TypeOK
<1>6. /\ md'.gen > 0 /\ CameUp(md')
      /\ \A c \in Copy : copy[c].gen < md'.gen \/ copy[c] = md'
      /\ SomeValid => FromNewest'
  BY <1>0 DEF EmulatorInv, CommitOk, FromNewest
<1>7. cont' \in {"load", "running", "os"} /\ (cont' = "os" => os'.version \notin Healthy)
  BY <1>0 DEF Resumed
<1>8. faults = 0 => Holds(md)' /\ (SomeValid => Holds(Newest)')
  <2>1. faults = 0 => Holds(Newest)
    BY <1>0 DEF EmulatorInv, FaultFree
  <2> QED BY <1>0, <1>2, <1>4, <2>1 DEF Holds
<1> QED BY <1>0, <1>5, <1>6, <1>7, <1>8, CommitStarts

LEMMA InstallFailsStep ==
  ASSUME EmulatorInv, InstallFails PROVE EmulatorInv'
<1>1. /\ Typed /\ pc' = Resumed /\ faults' = faults + 1 /\ staged' = Blank
      /\ UNCHANGED <<copy, worn, flash, cont, md, src, sel, trial, os>>
  BY DEF InstallFails, EmulatorInv, ram
<1>2. pc' \in {"running", "os"} /\ (pc' = "os" => os.version \notin Healthy)
  BY <1>1 DEF Resumed
<1>3. faults' \in Nat /\ faults' > 0
  BY <1>1 DEF Typed
<1>4. Typed'
  BY <1>1, <1>2, <1>3 DEF Typed, TypeOK
<1>5. CommitOk' /\ RunOk' /\ FaultFree'
  BY <1>1, <1>2, <1>3 DEF CommitOk, RunOk, FaultFree, Writing
<1> QED BY <1>1, <1>4, <1>5, RecordAlone

LEMMA RestartStep ==
  ASSUME EmulatorInv, Restart PROVE EmulatorInv'
<1>1. /\ Typed /\ pc' = "off" /\ md' = Erased /\ src' = 0 /\ sel' = 0 /\ trial' = FALSE
      /\ os' = NoHandoff /\ staged' = Blank /\ UNCHANGED <<copy, worn, faults, flash>>
      /\ Newest' = Newest /\ SomeValid' = SomeValid
  BY Unwritten DEF Restart, Reset, EmulatorInv, store, SomeValid, Valid
<1>2. NoHandoff \in Handoffs
  BY DEF NoHandoff, Handoffs
<1>3. Typed'
  BY <1>1, <1>2, ErasedFields DEF Typed, TypeOK
<1>4. CommitOk' /\ RunOk'
  BY <1>1 DEF CommitOk, RunOk, Writing
<1>5. FaultFree'
  BY <1>1 DEF EmulatorInv, FaultFree, Writing, Holds
<1> QED BY <1>1, <1>3, <1>4, <1>5, RecordAlone

(***************************************************************************)
(* Theorems                                                                *)
(***************************************************************************)
LEMMA EmulatorInit == Init => EmulatorInv
<1> SUFFICES ASSUME Init PROVE EmulatorInv
  OBVIOUS
<1>1. Typed
  BY TypedInit
<1>2. /\ \A c \in Copy : copy[c] = Erased
      /\ pc = "off" /\ \A c \in Copy : ~worn[c]
  BY DEF Init
<1>3. CopiesOk /\ ~SomeValid
  BY <1>2, ErasedFields DEF CopiesOk, SomeValid, Valid
<1>4. CommitOk /\ RunOk /\ FaultFree
  BY <1>2, <1>3 DEF CommitOk, RunOk, FaultFree, Writing
<1> QED BY <1>1, <1>3, <1>4 DEF EmulatorInv

LEMMA EmulatorNext == EmulatorInv /\ [Next]_vars => EmulatorInv'
<1> SUFFICES ASSUME EmulatorInv, [Next]_vars PROVE EmulatorInv'
  OBVIOUS
<1>1. CASE UNCHANGED vars
  <2>1. UNCHANGED <<copy, worn, faults, flash, pc, cont, md, src, sel, trial, os, staged>>
    BY <1>1 DEF vars, store, ram
  <2>2. Newest' = Newest /\ SomeValid' = SomeValid
    BY <2>1, Unwritten DEF SomeValid, Valid
  <2>3. Typed' /\ CommitOk'
    BY <2>1, <2>2 DEF EmulatorInv, Typed, TypeOK, CommitOk, FromNewest, CameUp
  <2>4. RunOk' /\ FaultFree'
    BY <2>1, <2>2 DEF EmulatorInv, RunOk, FaultFree, Holds
  <2> QED BY <2>1, <2>3, <2>4, RecordAlone
<1>2. CASE UNCHANGED staged /\ (ReadMetadata("select") \/ UBootDecides)
  BY <1>2, ReadStep, DecideStep
<1>3. CASE UNCHANGED staged
           /\ (UBootWrites \/ EraseFallback \/ ProgramFallback \/ FallbackFails)
  BY <1>3, WritesHold
<1>4. CASE FactorySeed \/ CommitSeed
  BY <1>4, SeedSteps
<1>5. CASE ConfirmBootIfReady \/ AuthenticateCapsule \/ Restart
  BY <1>5, ConfirmStep, AuthenticateStep, RestartStep
<1>6. CASE Install \/ CommitInstall \/ InstallFails
  BY <1>6, InstallStep, CommitInstallStep, InstallFailsStep
<1> QED BY <1>1, <1>2, <1>3, <1>4, <1>5, <1>6 DEF Next

(* What a reset, a rollback, a fallback or a failed write may find at any   *)
(* moment: the inductive invariant of the emulator's update.                *)
THEOREM EmulatorHolds == Spec => []EmulatorInv
BY EmulatorInit, EmulatorNext, PTL DEF Spec

(* Every variable keeps its type (lefony_ab.c, nand_update.cpp).            *)
THEOREM EmulatorTyped == Spec => []TypeOK
<1>1. EmulatorInv => TypeOK
  BY DEF EmulatorInv, Typed
<1> QED BY <1>1, EmulatorHolds, PTL

(* ActiveIntact: without flash failures the active image is never the one   *)
(* installPayload erases, whatever boot, rollback or reset comes between.   *)
THEOREM ActiveStaysIntact == Spec => []ActiveIntact
<1>1. EmulatorInv => ActiveIntact
  BY DEF EmulatorInv, FaultFree, Holds, ActiveIntact
<1> QED BY <1>1, EmulatorHolds, PTL

(* ActiveCameUp: only an image whose first screen came up becomes active,   *)
(* although confirmPending reads the record again.                          *)
THEOREM OnlyConfirmedActive == Spec => []ActiveCameUp
<1>1. EmulatorInv => ActiveCameUp
  BY NewestTop DEF EmulatorInv, CameUp, ActiveCameUp
<1> QED BY <1>1, EmulatorHolds, PTL

LEMMA SurvivesStep ==
  ASSUME EmulatorInv, [Next]_vars, SomeValid PROVE SomeValid' \/ faults' > 0
<1>0. /\ Typed /\ src \in Copy /\ Target = 1 - src /\ Target \in Copy /\ 1 - Target = src
      /\ copy \in [Copy -> Record] /\ faults \in Nat
  BY DEF EmulatorInv, Typed, TypeOK, Target
<1>1. ASSUME copy' = copy PROVE SomeValid'
  BY <1>1, Unwritten
<1>2. ASSUME copy[src].gen > 0, NEW r, copy' = [copy EXCEPT ![Target] = r] PROVE SomeValid'
  <2>1. src # Target
    BY <1>0
  <2>2. copy'[src] = copy[src]
    BY <1>0, <1>2, <2>1
  <2> QED BY <1>0, <1>2, <2>2 DEF SomeValid, Valid
<1>3. ASSUME pc \in Writing, copy' = [copy EXCEPT ![Target] = md] PROVE SomeValid'
  <2>1. md.gen > 0 /\ copy'[Target] = md
    BY <1>0, <1>3 DEF EmulatorInv, CommitOk
  <2> QED BY <1>0, <2>1 DEF SomeValid, Valid
<1>4. ASSUME Fault PROVE faults' > 0
  <2>1. CASE faults = 0
    BY <1>0, <1>4, <2>1, FaultTyped DEF EmulatorInv, FaultFree
  <2>2. CASE faults > 0
    BY <1>0, <1>4, <2>2 DEF Fault
  <2> QED BY <1>0, <2>1, <2>2
<1>5. CASE EraseFirst \/ EraseMirror
  <2>1. copy[src].gen > 0
    BY <1>5 DEF EraseFirst, EraseMirror, EmulatorInv, CommitOk, FromNewest
  <2>2. copy' = [copy EXCEPT ![Target] = Erased]
    BY <1>5 DEF EraseFirst, EraseMirror, Erase
  <2> QED BY <1>2, <2>1, <2>2
<1>6. CASE EraseFallback
  <2>1. faults' = faults /\ pc = "fallbackErase"
    BY <1>6 DEF EraseFallback, Erase
  <2> QED BY <1>0, <2>1 DEF EmulatorInv, FaultFree
<1>7. CASE ProgramFirst \/ ProgramMirror \/ ProgramFallback
  BY <1>3, <1>7 DEF ProgramFirst, ProgramMirror, ProgramFallback, Program, Writing
<1>8. CASE FirstFails \/ MirrorFails \/ FallbackFails
  BY <1>4, <1>8 DEF FirstFails, MirrorFails, FallbackFails, FaultLeaves
<1>9. CASE \/ ReadMetadata("select") \/ UBootDecides \/ UNCHANGED vars
  BY <1>1, <1>9 DEF ReadMetadata, UBootDecides, SelectActive, SelectPending,
     AbandonPending, Boot, LoadFails, vars, store
<1>10. CASE \/ FactorySeed \/ CommitSeed \/ ConfirmBootIfReady \/ AuthenticateCapsule
            \/ Restart \/ Install \/ CommitInstall \/ InstallFails
  BY <1>1, <1>10 DEF FactorySeed, CommitSeed, ConfirmBootIfReady, ConfirmBoot,
     AuthenticateCapsule, Restart, Reset, Install, InstallInto, CommitInstall, InstallFails,
     store
<1> QED BY <1>5, <1>6, <1>7, <1>8, <1>9, <1>10 DEF Next, UBootWrites

(* RecordSurvivesResets: until flash fails, no step of a boot, a rollback,  *)
(* a confirmation or an installation leaves the two blocks without a valid  *)
(* record (lefony_ab.c commit_metadata, nand_update.cpp writeMetadata).     *)
THEOREM ResetsKeepRecord == Spec => RecordSurvivesResets
<1>1. EmulatorInv /\ [Next]_vars => [SomeValid => SomeValid' \/ faults' > 0]_vars
  BY SurvivesStep
<1> QED BY <1>1, EmulatorHolds, PTL DEF Spec, RecordSurvivesResets
=============================================================================
