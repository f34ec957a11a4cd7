---------------------------- MODULE ABBoot_proofs ----------------------------
(***************************************************************************)
(* Theorems about ABBoot, for every set of images, every boot limit and    *)
(* any number of flash failures: type correctness, the inductive           *)
(* invariant, the safety properties it implies, the refinement of ABPolicy *)
(* and, counting losses, HealthyKept.                                      *)
(***************************************************************************)
EXTENDS ABBoot, TLAPS

USE DEF Slot, NoSlot, Copy, Blank, Rotten

LEMMA Bounds == MaxFaults \in Nat /\ BootLimit \in Nat /\ BootLimit >= 1
BY ABAssumption DEF ABAssumption

LEMMA Images == Image \subseteq Nat /\ Blank \notin Image /\ Rotten \notin Image
BY ABAssumption DEF ABAssumption

LEMMA RecordFields ==
  ASSUME NEW r \in Record
  PROVE  /\ r.gen \in Nat
         /\ r.active \in Slot
         /\ r.pending \in Slot \cup {NoSlot}
         /\ r.attempts \in Nat
         /\ r.slots \in [Slot -> Image \cup {Blank}]
BY DEF Record

(* Every record the policy builds from a record is a record again. *)
LEMMA AcceptedRecord ==
  ASSUME NEW r \in Record, NEW s \in Slot PROVE Accepted(r, s) \in Record
BY DEF Record, Advance, Accepted

LEMMA RolledBackRecord == \A r \in Record : RolledBack(r) \in Record
BY DEF Record, Advance, RolledBack

LEMMA AttemptedRecord == \A r \in Record : Attempted(r) \in Record
BY DEF Record, Advance, Attempted

LEMMA UpdatedRecord ==
  ASSUME NEW r \in Record, NEW v \in Image \cup {Blank}
  PROVE  Updated(r, v) \in Record
BY DEF Record, Advance, Updated

LEMMA ErasedRecord == Erased \in Record /\ ~Valid(Erased)
BY DEF Record, Erased, Valid

LEMMA HandoffRecord ==
  /\ NoHandoff \in Handoff
  /\ \A s \in Slot, r \in Record :
       [booted |-> s, active |-> r.active, pending |-> r.pending, gen |-> r.gen,
        version |-> r.slots[s]] \in Handoff
BY DEF Handoff, NoHandoff, Record

LEMMA HandoffFields ==
  ASSUME NEW h \in Handoff
  PROVE  /\ h.active \in Slot
         /\ h.gen \in Nat
         /\ h.booted \in Slot \cup {NoSlot}
BY DEF Handoff

LEMMA SeedRecord ==
  ASSUME NEW image \in Image
  PROVE  /\ Seed(image) \in Record
         /\ Seed(image).slots \in [Slot -> Image \cup {Blank, Rotten}]
BY DEF Record, Seed

(* Starting the history of a new candidate. *)
LEMMA FreshHistory ==
  ASSUME vouched' = FALSE, tries' = 0, losses' = 0
  PROVE  vouched' \in BOOLEAN /\ tries' \in Nat /\ losses' \in 0..BootLimit
<1>1. vouched' \in BOOLEAN
  BY Zenon
<1>2. tries' \in Nat /\ losses' \in 0..BootLimit
  BY Bounds
<1> QED BY <1>1, <1>2

LEMMA TypeInit == Init => TypeOK
<1> SUFFICES ASSUME Init PROVE TypeOK
  OBVIOUS
<1>1. PICK image \in Image : /\ copy = [c \in Copy |-> Seed(image)]
                            /\ flash = Seed(image).slots
  BY ABBootAssumption DEF ABBootAssumption, Init
<1>2. /\ copy \in [Copy -> Record]
      /\ flash \in [Slot -> Image \cup {Blank, Rotten}]
  BY <1>1, SeedRecord
<1>3. md \in Record /\ os \in Handoff
  BY ErasedRecord, HandoffRecord DEF Init
<1>4. session \in [active : Slot, gen : Nat, version : Image \cup {Blank}]
  BY DEF Init, NoSession
<1>5. /\ worn \in [Copy -> BOOLEAN]
      /\ faults \in 0..MaxFaults
      /\ losses \in 0..BootLimit
  BY Bounds DEF Init
<1> QED BY <1>2, <1>3, <1>4, <1>5 DEF Init, TypeOK

LEMMA TypeNext == TypeOK /\ [Next]_vars => TypeOK'
<1> SUFFICES ASSUME TypeOK, [Next]_vars
             PROVE  TypeOK'
  OBVIOUS
<1> USE DEF TypeOK
<1>1. ASSUME PowerOn PROVE TypeOK'
  BY <1>1 DEF PowerOn, ReadMetadata, Newest, NewestCopy, NewestOf, store, history
<1>2. ASSUME AcceptBootSuccess PROVE TypeOK'
  BY <1>2, AcceptedRecord
     DEF AcceptBootSuccess, ConsumeToken, TokenAccepted, Commit, store, history
<1>3. ASSUME Decide PROVE TypeOK'
  BY <1>3, RolledBackRecord, AttemptedRecord, RecordFields
     DEF Decide, SelectActive, SelectPending, AbandonPending, LoadFails, Commit,
         store, history
<1>4. ASSUME BootImage PROVE TypeOK'
  BY <1>4, HandoffRecord DEF BootImage, Boot, store, ram
<1>5. ASSUME CommitStep PROVE TypeOK'
  <2>1. CASE Write(EraseFirst)
    BY <2>1, ErasedRecord DEF Write, EraseFirst, Erase, Target, commitUnchanged, history
  <2>2. CASE Write(ProgramFirst)
    <3>1. /\ copy' \in [Copy -> Record]
          /\ pc' = "mirrorErase" /\ src' \in Copy
          /\ UNCHANGED <<worn, faults, cont, flash, md, sel, trial, os>>
      BY <2>2 DEF Write, ProgramFirst, Program, Target, commitUnchanged
    <3>2. /\ vouched' \in BOOLEAN /\ tries' \in Nat /\ losses' \in 0..BootLimit
          /\ UNCHANGED <<token, session>>
      <4>1. CASE UNCHANGED history
        BY <4>1, <2>2 DEF Write, history
      <4>2. CASE vouched' = FALSE /\ tries' = 0 /\ losses' = 0
        BY <4>2, <2>2, FreshHistory DEF Write
      <4> QED BY <2>2, <4>1, <4>2 DEF Write
    <3> QED BY <3>1, <3>2
  <2>3. CASE Write(EraseMirror)
    BY <2>3, ErasedRecord, Bounds
       DEF Write, EraseMirror, Erase, Target, commitUnchanged, history
  <2>4. CASE Write(ProgramMirror)
    BY <2>4, Bounds DEF Write, ProgramMirror, Program, Target, commitUnchanged, history
  <2> QED BY <1>5, <2>1, <2>2, <2>3, <2>4 DEF CommitStep, Write
<1>6. ASSUME CommitFault PROVE TypeOK'
  <2>1. copy' \in [Copy -> Record]
    BY <1>6, ErasedRecord DEF CommitFault, Write, FirstFails, MirrorFails, FaultLeaves, Target
  <2>2. worn' \in [Copy -> BOOLEAN] /\ faults' \in 0..MaxFaults
    <3>1. Fault
      BY <1>6 DEF CommitFault, Write, FirstFails, MirrorFails, FaultLeaves
    <3>2. faults' \in 0..MaxFaults
      BY <3>1, Bounds DEF Fault, FaultPossible
    <3>3. worn[Target] \in BOOLEAN
      BY DEF Target
    <3>4. PICK w \in {worn[Target], TRUE} : worn' = [worn EXCEPT ![Target] = w]
      BY <3>1, Zenon DEF Fault
    <3>5. worn' \in [Copy -> BOOLEAN]
      BY <3>3, <3>4
    <3> QED BY <3>2, <3>5
  <2>3. /\ src' \in Copy /\ cont' = cont
        /\ pc' \in {"fallbackErase", "failed"} \cup {cont}
        /\ ~Fallback => pc' # "fallbackErase"
    BY <1>6 DEF CommitFault, Write, FirstFails, MirrorFails, FaultLeaves, Target
  <2>4. /\ tries' \in Nat /\ losses' \in 0..BootLimit /\ vouched' \in BOOLEAN
        /\ UNCHANGED <<token, session>>
    <3>1. CASE UNCHANGED history
      BY <3>1, <1>6 DEF CommitFault, Write, history
    <3>2. CASE vouched' = FALSE /\ tries' = 0 /\ losses' = 0
      BY <3>2, <1>6, FreshHistory DEF CommitFault, Write
    <3> QED BY <1>6, <3>1, <3>2 DEF CommitFault, Write
  <2>5. UNCHANGED <<flash, md, sel, trial, os>>
    BY <1>6 DEF CommitFault, Write, FirstFails, MirrorFails, commitUnchanged
  <2> QED
    BY <2>1, <2>2, <2>3, <2>4, <2>5, ABBootAssumption DEF ABBootAssumption
<1>7. ASSUME ConfirmBootIfReady PROVE TypeOK'
  BY <1>7, HandoffFields DEF ConfirmBootIfReady, BootedCandidate, store, ram
<1>8. ASSUME AuthenticateCapsule PROVE TypeOK'
  BY <1>8, HandoffFields DEF AuthenticateCapsule, store, ram, history
<1>9. ASSUME RequestRecovery \/ EnterRecovery PROVE TypeOK'
  BY <1>9 DEF RequestRecovery, EnterRecovery, store, ram, history
<1>10. ASSUME Installer PROVE TypeOK'
  <2>1. CASE BeginUpdate
    BY <2>1, UpdatedRecord
       DEF BeginUpdate, UpdateAllowed, SomeValid, Newest, NewestCopy, NewestOf,
           NoSession, store, history
  <2>2. CASE EraseSlot
    BY <2>2 DEF EraseSlot, store, ram, history
  <2>3. CASE WriteSlot
    <3>1. md.pending \in Slot => md.slots[md.pending] \in Image \cup {Blank}
      BY RecordFields
    <3>2. flash' \in [Slot -> Image \cup {Blank, Rotten}]
      BY <2>3, <3>1 DEF WriteSlot
    <3> QED BY <2>3, <3>2 DEF WriteSlot, Commit, store, history
  <2> QED BY <1>10, <2>1, <2>2, <2>3 DEF Installer
<1>11. ASSUME WriteSlotFails PROVE TypeOK'
  BY <1>11, Bounds DEF WriteSlotFails, ram, history
<1>12. ASSUME PowerLoss PROVE TypeOK'
  <2>1. losses' \in 0..BootLimit
    BY <1>12, Bounds DEF PowerLoss
  <2> QED BY <1>12, <2>1, ErasedRecord, HandoffRecord DEF PowerLoss, Reset, store
<1>13. ASSUME SlotDecays PROVE TypeOK'
  BY <1>13, Bounds DEF SlotDecays, Decay, ram, history
<1>14. CASE UNCHANGED vars
  BY <1>14 DEF vars, store, ram, history
<1> QED
  BY <1>1, <1>2, <1>3, <1>4, <1>5, <1>6, <1>7, <1>8, <1>9, <1>10, <1>11,
     <1>12, <1>13, <1>14 DEF Next, UBoot

(* Every variable keeps its type: the commit machinery only ever writes     *)
(* well-formed records, into whichever copy it has turned to.               *)
THEOREM TypeCorrect == Spec => []TypeOK
BY TypeInit, TypeNext, PTL DEF Spec

----------------------------------------------------------------------------
(* The newest record does not depend on which of two equal copies is read. *)
LEMMA NewestIs ==
  ASSUME NEW f \in [Copy -> Record], NEW s \in Copy,
         f[s].gen > 0, f[s].gen >= f[1 - s].gen,
         f[0].gen > 0 /\ f[0].gen = f[1].gen => f[0] = f[1]
  PROVE  f[NewestOf(f)] = f[s]
<1>1. f[0].gen \in Nat /\ f[1].gen \in Nat
  BY RecordFields
<1>2. CASE s = 0
  BY <1>1, <1>2 DEF NewestOf, Valid
<1>3. CASE s = 1
  BY <1>1, <1>3 DEF NewestOf, Valid
<1> QED BY <1>2, <1>3

LEMMA SourceIsNewest ==
  ASSUME TypeOK, MirrorsAgree, SourceNewest
  PROVE  Newest = copy[src]
BY NewestIs DEF TypeOK, MirrorsAgree, SourceNewest, Target, Valid, Newest, NewestCopy

(* Reading the flash finds the newest record, and the other copy is older.  *)
LEMMA NewestIsSource ==
  ASSUME TypeOK, MirrorsAgree, SomeCopyValid
  PROVE  /\ NewestCopy \in Copy
         /\ Valid(Newest)
         /\ copy[NewestCopy].gen >= copy[1 - NewestCopy].gen
<1>1. copy[0].gen \in Nat /\ copy[1].gen \in Nat
  BY RecordFields DEF TypeOK
<1> QED
  BY <1>1 DEF TypeOK, SomeCopyValid, SomeValid, Valid, Newest, NewestCopy, NewestOf

(* Nothing about the stored records changes when the copies do not.         *)
LEMMA CopyKept ==
  ASSUME UNCHANGED copy
  PROVE  /\ Newest' = Newest
         /\ NewestCopy' = NewestCopy
         /\ SomeCopyValid' <=> SomeCopyValid
         /\ MirrorsAgree' <=> MirrorsAgree
BY DEF Newest, NewestCopy, SomeCopyValid, SomeValid, MirrorsAgree, Valid

(* A write to the stale copy: the newest record stays, unless the copy now  *)
(* holds a record of a later generation.                                    *)
LEMMA TargetWritten ==
  ASSUME TypeOK, SourceNewest, NEW r \in Record,
         r.gen = copy[src].gen => r = copy[src],
         copy' = [copy EXCEPT ![Target] = r]
  PROVE  /\ SomeCopyValid' /\ MirrorsAgree'
         /\ copy'[src] = copy[src] /\ copy'[Target] = r
         /\ r.gen > copy[src].gen => Newest' = r
         /\ ~(r.gen > copy[src].gen) => Newest' = copy[src]
<1>1. /\ src \in Copy /\ Target \in Copy /\ src # Target
      /\ copy \in [Copy -> Record]
  BY DEF TypeOK, Target
<1>2. /\ copy' \in [Copy -> Record]
      /\ copy'[src] = copy[src] /\ copy'[Target] = r
  BY <1>1
<1>3. copy[src].gen \in Nat /\ r.gen \in Nat /\ copy[src].gen > 0
  BY <1>1, RecordFields DEF SourceNewest, Valid
<1>4. SomeCopyValid'
  BY <1>1, <1>2, <1>3 DEF SomeCopyValid, SomeValid, Valid
<1>5. copy'[0].gen > 0 /\ copy'[0].gen = copy'[1].gen => copy'[0] = copy'[1]
  <2>1. CASE src = 0
    BY <2>1, <1>2, <1>3 DEF Target
  <2>2. CASE src = 1
    BY <2>2, <1>2, <1>3 DEF Target
  <2> QED BY <1>1, <2>1, <2>2
<1>6. MirrorsAgree'
  BY <1>5 DEF MirrorsAgree, Valid
<1>7. Newest' = copy'[NewestOf(copy')]
  BY DEF Newest, NewestCopy, NewestOf, Valid
<1>8. ASSUME r.gen > copy[src].gen PROVE Newest' = r
  <2>1. copy'[1 - Target] = copy[src] /\ copy'[Target].gen > 0
    BY <1>1, <1>2, <1>3, <1>8 DEF Target
  <2>2. copy'[Target].gen >= copy'[1 - Target].gen
    BY <2>1, <1>2, <1>3, <1>8
  <2>3. copy'[NewestOf(copy')] = copy'[Target]
    BY <1>1, <1>2, <1>5, <2>1, <2>2, NewestIs
  <2> QED BY <2>3, <1>2, <1>7
<1>9. ASSUME ~(r.gen > copy[src].gen) PROVE Newest' = copy[src]
  <2>1. copy'[1 - src] = r /\ copy'[src].gen >= copy'[1 - src].gen
    BY <1>2, <1>3, <1>9 DEF Target
  <2>2. copy'[NewestOf(copy')] = copy'[src]
    BY <1>1, <1>2, <1>3, <1>5, <2>1, NewestIs
  <2> QED BY <2>2, <1>2, <1>7
<1> QED BY <1>2, <1>4, <1>6, <1>8, <1>9

----------------------------------------------------------------------------
(* The inductive invariant, action by action.                               *)

LEMMA GoodFields ==
  ASSUME NEW r, NEW f, Good(r, f)
  PROVE  /\ r.gen > 0
         /\ r.attempts <= BootLimit
         /\ r.slots[r.active] \in Image
         /\ r.pending \in Slot => /\ r.pending = 1 - r.active
                                  /\ r.slots[r.pending] \in Image
                                  /\ r.slots[r.pending] > r.slots[r.active]
BY DEF Good, InPlace, Valid

LEMMA IInvInit == Init => IInv
<1> SUFFICES ASSUME Init PROVE IInv
  OBVIOUS
<1>1. TypeOK
  BY TypeInit
<1>2. PICK image \in Image : /\ copy = [c \in Copy |-> Seed(image)]
                            /\ flash = Seed(image).slots
  BY ABBootAssumption DEF ABBootAssumption, Init
<1>3. copy[0] = Seed(image) /\ copy[1] = Seed(image) /\ Newest = Seed(image)
  BY <1>2 DEF Newest, NewestCopy, NewestOf
<1>4. SomeCopyValid /\ MirrorsAgree
  BY <1>3 DEF SomeCopyValid, SomeValid, MirrorsAgree, Valid, Seed
<1>5. Good(Newest, flash)
  BY <1>2, <1>3, Bounds DEF Good, InPlace, Valid, Seed
<1>6. TrialInv /\ TokenInv
  BY <1>3, Bounds DEF TrialInv, TokenInv, Init, Seed
<1>7. StepInv
  BY DEF Init, StepInv
<1> QED BY <1>1, <1>4, <1>5, <1>6, <1>7 DEF IInv

(* Steps that leave the flash alone keep everything but what they say of    *)
(* the processor.                                                           *)
LEMMA FlashKept ==
  ASSUME IInv, TypeOK', UNCHANGED <<copy, flash, tries>>, TokenInv', StepInv'
  PROVE  IInv'
<1>1. Newest' = Newest /\ SomeCopyValid' /\ MirrorsAgree'
  BY CopyKept DEF IInv
<1>2. Good(Newest, flash)'
  BY <1>1 DEF IInv, Good, InPlace
<1>3. TrialInv'
  BY <1>1 DEF IInv, TrialInv
<1> QED BY <1>1, <1>2, <1>3 DEF IInv

LEMMA PowerOnStep ==
  ASSUME IInv, TypeOK', PowerOn PROVE IInv'
<1> USE DEF PowerOn, ReadMetadata
<1>1. SomeValid
  BY DEF IInv, SomeCopyValid
<1>2. /\ pc = "off" /\ pc' = "token" /\ src' = NewestCopy /\ md' = Newest
      /\ UNCHANGED <<copy, flash, cont, os, token, vouched, tries>>
  BY <1>1 DEF store, history
<1>3. Newest' = Newest
  BY <1>2, CopyKept
<1>4. TokenInv'
  BY <1>2, <1>3 DEF IInv, TokenInv
<1>5. SourceNewest' /\ md' = copy'[src']
  BY <1>2, NewestIsSource DEF IInv, SourceNewest, Target, Newest, Valid
<1>6. StepInv'
  BY <1>2, <1>5 DEF StepInv
<1> QED BY <1>2, <1>4, <1>6, FlashKept

LEMMA AcceptBootSuccessStep ==
  ASSUME IInv, TypeOK', AcceptBootSuccess PROVE IInv'
<1>1. /\ pc = "token" /\ token' = NoSlot
      /\ UNCHANGED <<copy, flash, src, sel, trial, os, vouched, tries>>
  BY DEF AcceptBootSuccess, ConsumeToken, store, history
<1>2. SourceNewest /\ md = copy[src] /\ Newest = md
  BY <1>1, SourceIsNewest DEF IInv, StepInv
<1>3. SourceNewest' /\ copy'[src'] = md
  BY <1>1, <1>2 DEF SourceNewest, Target
<1>4. TokenInv'
  BY <1>1 DEF TokenInv
<1>5. CASE TokenAccepted
  <2>1. /\ pc' = "erase" /\ cont' = "select"
        /\ md' = Accepted(md, token)
        /\ token \in Slot /\ md.pending = token /\ vouched
    BY <1>1, <1>2, <1>5
       DEF AcceptBootSuccess, ConsumeToken, Commit, TokenAccepted, IInv, TokenInv
  <2>2. Committing(copy[src])'
    BY <1>1, <1>3, <2>1 DEF Committing
  <2>3. StepInv'
    BY <1>1, <1>3, <2>1, <2>2 DEF StepInv
  <2> QED BY <1>1, <1>4, <2>3, FlashKept
<1>6. CASE ~TokenAccepted
  <2>1. pc' = "select" /\ UNCHANGED <<md, cont>>
    BY <1>6 DEF AcceptBootSuccess, ConsumeToken
  <2>2. StepInv'
    BY <1>1, <1>3, <2>1 DEF StepInv
  <2> QED BY <1>1, <1>4, <2>2, FlashKept
<1> QED BY <1>5, <1>6

LEMMA DecideStep ==
  ASSUME IInv, TypeOK', Decide PROVE IInv'
<1>1. /\ pc \in {"select", "load"}
      /\ UNCHANGED <<copy, flash, src, os, token, vouched, tries>>
  BY DEF Decide, SelectActive, SelectPending, AbandonPending, LoadFails, store, history
<1>2. SourceNewest /\ md = copy[src] /\ Newest = md
  BY <1>1, SourceIsNewest DEF IInv, StepInv
<1>3. SourceNewest' /\ copy'[src'] = md
  BY <1>1, <1>2 DEF SourceNewest, Target
<1>4. token' = NoSlot /\ TokenInv'
  BY <1>1 DEF IInv, TokenInv
<1>5. CASE SelectActive
  <2>1. pc' = "load" /\ sel' = md.active /\ trial' = FALSE /\ md' = md
    BY <1>5 DEF SelectActive
  <2>2. StepInv'
    BY <1>1, <1>3, <2>1 DEF StepInv, Selected
  <2> QED BY <1>1, <1>4, <2>2, FlashKept
<1>6. CASE SelectPending
  <2>1. /\ pc' = "erase" /\ cont' = "load" /\ sel' = md.pending /\ trial' = TRUE
        /\ md' = Attempted(md) /\ md.pending \in Slot /\ md.attempts < BootLimit
    <3>1. md.attempts \in Nat
      BY RecordFields DEF IInv, TypeOK
    <3> QED BY <1>6, <3>1, Bounds DEF SelectPending, Commit, BootLimitReached
  <2>2. Committing(copy[src])'
    BY <1>1, <1>3, <2>1 DEF Committing
  <2>3. StepInv'
    BY <1>1, <1>3, <2>1, <2>2 DEF StepInv
  <2> QED BY <1>1, <1>4, <2>3, FlashKept
<1>7. ASSUME /\ pc' = "erase" /\ cont' = "load" /\ sel' = md.active /\ trial' = FALSE
             /\ md' = RolledBack(md) /\ md.pending \in Slot
      PROVE  IInv'
  <2>1. Committing(copy[src])'
    BY <1>1, <1>3, <1>7 DEF Committing
  <2>2. StepInv'
    BY <1>1, <1>3, <1>7, <2>1 DEF StepInv
  <2> QED BY <1>1, <1>4, <2>2, FlashKept
<1>8. CASE AbandonPending
  BY <1>7, <1>8 DEF AbandonPending, Commit
<1>9. CASE LoadFails /\ trial
  <2>1. md.pending \in Slot
    BY <1>9 DEF LoadFails, IInv, StepInv, Selected
  <2> QED BY <1>7, <1>9, <2>1 DEF LoadFails, Commit
<1>10. CASE LoadFails /\ ~trial
  <2>1. pc' = "failed"
    BY <1>10 DEF LoadFails
  <2>2. StepInv'
    BY <2>1 DEF StepInv
  <2> QED BY <1>1, <1>4, <2>2, FlashKept
<1> QED BY <1>5, <1>6, <1>8, <1>9, <1>10 DEF Decide

LEMMA BootImageStep ==
  ASSUME IInv, TypeOK', BootImage PROVE IInv'
<1>1. /\ pc = "load" /\ pc' = "os"
      /\ UNCHANGED <<copy, flash, cont, md, sel, trial, token, vouched>>
      /\ os'.booted = sel /\ os'.pending = md.pending
      /\ tries' = IF trial THEN tries + 1 ELSE tries
  BY DEF BootImage, Boot, store, ram
<1>2. md = copy[src] /\ Newest = md /\ Selected
  BY <1>1, SourceIsNewest DEF IInv, StepInv
<1>3. Newest' = md /\ SomeCopyValid' /\ MirrorsAgree'
  BY <1>1, <1>2, CopyKept DEF IInv
<1>4. Good(Newest, flash)'
  BY <1>1, <1>2, <1>3 DEF IInv, Good, InPlace
<1>5. /\ md.attempts \in Nat /\ tries \in Nat /\ sel \in Slot /\ md.active \in Slot
      /\ md.attempts <= BootLimit /\ tries <= BootLimit
      /\ md.pending \in Slot => md.pending = 1 - md.active /\ tries <= md.attempts
  BY <1>2, RecordFields, GoodFields DEF IInv, TypeOK, TrialInv
<1>6. TrialInv'
  BY <1>1, <1>2, <1>3, <1>5, Bounds DEF TrialInv, Selected
<1>7. TokenInv'
  BY <1>1 DEF IInv, TokenInv
<1>8. ASSUME os'.pending = os'.booted
      PROVE  Newest'.pending = os'.pending /\ os'.pending \in Slot /\ tries' > 0
  <2>1. trial
    BY <1>1, <1>2, <1>5, <1>8 DEF Selected
  <2> QED BY <1>1, <1>3, <1>5, <1>8, <2>1
<1>9. StepInv'
  BY <1>1, <1>8 DEF StepInv
<1> QED BY <1>3, <1>4, <1>6, <1>7, <1>9 DEF IInv

LEMMA ConfirmBootIfReadyStep ==
  ASSUME IInv, TypeOK', ConfirmBootIfReady PROVE IInv'
<1>1. /\ pc = "os" /\ pc' = "running"
      /\ UNCHANGED <<copy, flash, tries>>
  BY DEF ConfirmBootIfReady, store
<1>2. Newest' = Newest
  BY <1>1, CopyKept
<1>3. TokenInv'
  <2>1. CASE BootedCandidate
    BY <1>1, <1>2, <2>1
       DEF ConfirmBootIfReady, BootedCandidate, IInv, StepInv, TokenInv
  <2>2. CASE ~BootedCandidate
    BY <1>1, <1>2, <2>2 DEF ConfirmBootIfReady, IInv, TokenInv
  <2> QED BY <2>1, <2>2
<1>4. StepInv'
  BY <1>1 DEF StepInv
<1> QED BY <1>1, <1>3, <1>4, FlashKept

LEMMA RecoveryStep ==
  ASSUME IInv, TypeOK', AuthenticateCapsule \/ RequestRecovery \/ EnterRecovery
  PROVE  IInv'
<1>1. /\ pc \in {"off", "running"} /\ pc' \in {"running", "recovery"}
      /\ UNCHANGED <<copy, flash, token, vouched, tries>>
  BY DEF AuthenticateCapsule, RequestRecovery, EnterRecovery, store, history
<1>2. TokenInv'
  BY <1>1, CopyKept DEF IInv, TokenInv
<1>3. StepInv'
  BY <1>1 DEF StepInv
<1> QED BY <1>1, <1>2, <1>3, FlashKept

LEMMA BeginUpdateStep ==
  ASSUME IInv, TypeOK', BeginUpdate PROVE IInv'
<1>1. pc = "recovery" /\ UNCHANGED <<copy, flash, token, vouched, tries>>
  BY DEF BeginUpdate, store, history
<1>2. Newest' = Newest
  BY <1>1, CopyKept
<1>3. CASE pc' = "parked"
  <2>1. TokenInv' /\ StepInv'
    BY <1>1, <1>2, <1>3 DEF IInv, TokenInv, StepInv
  <2> QED BY <1>1, <2>1, FlashKept
<1>4. CASE pc' # "parked"
  <2>1. /\ pc' = "eraseSlot" /\ UpdateAllowed(Newest)
        /\ md' = Updated(Newest, session.version) /\ src' = NewestCopy
    BY <1>4 DEF BeginUpdate
  <2>2. /\ Newest.pending = NoSlot /\ token = NoSlot
        /\ session.version > Newest.slots[Newest.active]
    BY <2>1 DEF UpdateAllowed, IInv, TokenInv, TypeOK
  <2>3. SourceNewest' /\ copy'[src'] = Newest
    BY <1>1, <2>1, NewestIsSource DEF IInv, SourceNewest, Target, Newest, Valid
  <2>4. Newest \in Record /\ Newest.active \in Slot
    BY NewestIsSource, RecordFields DEF IInv, TypeOK, Newest
  <2>5. session.version \in Image
    BY <2>2, GoodFields, Images DEF IInv, TypeOK
  <2>6. /\ md'.slots[1 - Newest.active] = session.version
        /\ md' = Updated(Newest, md'.slots[1 - Newest.active])
    <3>1. Newest.slots \in [Slot -> Image \cup {Blank}]
      BY <2>4, RecordFields
    <3> QED BY <2>1, <2>4, <3>1 DEF Updated, Advance
  <2>7. StepInv'
    BY <2>1, <2>2, <2>3, <2>5, <2>6 DEF StepInv
  <2>8. TokenInv'
    BY <1>1, <2>2 DEF TokenInv
  <2> QED BY <1>1, <2>7, <2>8, FlashKept
<1> QED BY <1>3, <1>4

LEMMA WriteSlotFailsStep ==
  ASSUME IInv, TypeOK', WriteSlotFails PROVE IInv'
<1>1. /\ pc = "writeSlot" /\ pc' = "parked"
      /\ UNCHANGED <<copy, flash, token, vouched, tries>>
  BY DEF WriteSlotFails, history
<1>2. TokenInv' /\ StepInv'
  BY <1>1 DEF IInv, TokenInv, StepInv
<1> QED BY <1>1, <1>2, FlashKept

LEMMA PowerLossStep ==
  ASSUME IInv, TypeOK', PowerLoss PROVE IInv'
<1>1. /\ pc' = "off" /\ token' \in {token, NoSlot}
      /\ UNCHANGED <<copy, flash, vouched, tries>>
  BY DEF PowerLoss, Reset, store
<1>2. TokenInv'
  BY <1>1, CopyKept DEF IInv, TokenInv
<1>3. StepInv'
  BY <1>1 DEF StepInv
<1> QED BY <1>1, <1>2, <1>3, FlashKept

LEMMA UnchangedStep ==
  ASSUME IInv, TypeOK', UNCHANGED vars PROVE IInv'
<1>1. UNCHANGED <<copy, flash, pc, cont, md, src, sel, trial, os, token, vouched, tries>>
  BY DEF vars, store, ram, history
<1>2. TokenInv'
  BY <1>1, CopyKept DEF IInv, TokenInv
<1>3. /\ SourceNewest' <=> SourceNewest
      /\ copy'[src'] = copy[src] /\ copy'[Target'] = copy[Target]
      /\ Selected' <=> Selected
  BY <1>1 DEF SourceNewest, Target, Selected
<1>4. Committing(copy[src])' <=> Committing(copy[src])
  BY <1>1 DEF Committing, InPlace
<1>5. StepInv'
  BY <1>1, <1>3, <1>4, CopyKept DEF IInv, StepInv
<1> QED BY <1>1, <1>2, <1>5, FlashKept

(* The slots: only the one that is neither active nor pending is erased or  *)
(* written, and it is written whole before the record can name it.          *)
LEMMA SlotWritten ==
  ASSUME IInv, TypeOK',
         pc \in {"eraseSlot", "writeSlot"},
         \A s \in Slot \ {md.pending} : flash'[s] = flash[s],
         UNCHANGED <<copy, src, token, vouched, tries>>
  PROVE  /\ SomeCopyValid' /\ MirrorsAgree' /\ Good(Newest, flash)'
         /\ TrialInv' /\ token' = NoSlot
         /\ SourceNewest' /\ copy'[src'] = copy[src] /\ copy[src].pending = NoSlot
         /\ md.pending = 1 - copy[src].active /\ md.pending \in Slot
<1>1. SourceNewest /\ copy[src].pending = NoSlot /\ Newest = copy[src]
  BY SourceIsNewest DEF IInv, StepInv
<1>2. md.pending = 1 - copy[src].active /\ copy[src].active \in Slot
  BY RecordFields DEF IInv, TypeOK, StepInv, Updated, Advance
<1>3. Newest' = Newest /\ SomeCopyValid' /\ MirrorsAgree'
  BY CopyKept DEF IInv
<1>4. flash'[copy[src].active] = flash[copy[src].active]
  BY <1>2 DEF IInv, TypeOK
<1>5. Good(Newest, flash)'
  BY <1>1, <1>3, <1>4 DEF IInv, Good, InPlace
<1>6. TrialInv' /\ token' = NoSlot
  BY <1>3 DEF IInv, TrialInv, TokenInv
<1>7. SourceNewest'
  BY <1>1 DEF SourceNewest, Target
<1> QED BY <1>1, <1>2, <1>3, <1>5, <1>6, <1>7

LEMMA EraseSlotStep ==
  ASSUME IInv, TypeOK', EraseSlot PROVE IInv'
<1>1. /\ pc = "eraseSlot" /\ pc' = "writeSlot"
      /\ flash' = [flash EXCEPT ![md.pending] = Blank]
      /\ UNCHANGED <<copy, src, md, token, vouched, tries>>
      /\ \A s \in Slot \ {md.pending} : flash'[s] = flash[s]
  BY DEF EraseSlot, store, ram, history, IInv, TypeOK
<1>2. StepInv'
  BY <1>1, SlotWritten DEF IInv, StepInv
<1>3. TokenInv'
  BY <1>1, SlotWritten DEF TokenInv
<1> QED BY <1>1, <1>2, <1>3, SlotWritten DEF IInv

LEMMA WriteSlotStep ==
  ASSUME IInv, TypeOK', WriteSlot PROVE IInv'
<1>1. /\ pc = "writeSlot" /\ pc' = "erase" /\ cont' = "parked" /\ md' = md
      /\ flash' = [flash EXCEPT ![md.pending] = md.slots[md.pending]]
      /\ UNCHANGED <<copy, src, token, vouched, tries>>
      /\ \A s \in Slot \ {md.pending} : flash'[s] = flash[s]
  BY DEF WriteSlot, Commit, store, history, IInv, TypeOK
<1>2. /\ SourceNewest' /\ copy'[src'] = copy[src] /\ copy[src].pending = NoSlot
      /\ md.pending = 1 - copy[src].active /\ md.pending \in Slot
  BY <1>1, SlotWritten
<1>3. /\ md.slots[1 - copy[src].active] \in Image
      /\ md.slots[1 - copy[src].active] > copy[src].slots[copy[src].active]
      /\ md = Updated(copy[src], md.slots[1 - copy[src].active])
  BY <1>1 DEF IInv, StepInv
<1>4. flash'[1 - copy[src].active] = md.slots[1 - copy[src].active]
  BY <1>1, <1>2 DEF IInv, TypeOK
<1>5. Committing(copy[src])'
  BY <1>1, <1>2, <1>3, <1>4 DEF Committing, InPlace
<1>6. StepInv'
  BY <1>1, <1>2, <1>5 DEF StepInv
<1>7. TokenInv'
  BY <1>1, SlotWritten DEF TokenInv
<1> QED BY <1>1, <1>6, <1>7, SlotWritten DEF IInv

LEMMA SlotDecaysStep ==
  ASSUME IInv, TypeOK', SlotDecays PROVE IInv'
<1>1. PICK s \in Slot : flash' = [flash EXCEPT ![s] = Rotten]
  BY DEF SlotDecays, Decay
<1>2. UNCHANGED <<copy, pc, cont, md, src, sel, trial, os, token, vouched, tries>>
  BY DEF SlotDecays, Decay, ram, history
<1>3. Newest' = Newest /\ SomeCopyValid' /\ MirrorsAgree'
  BY <1>2, CopyKept DEF IInv
<1>4. \A t \in Slot : flash'[t] \in {flash[t], Rotten}
  BY <1>1 DEF IInv, TypeOK
<1>5. \A r, t : t \in Slot /\ InPlace(r, flash, t) => InPlace(r, flash', t)
  BY <1>4 DEF InPlace
<1>6. Good(Newest, flash)'
  <2>1. Newest.active \in Slot
    BY NewestIsSource, RecordFields DEF IInv, TypeOK, Newest
  <2> QED BY <1>3, <1>5, <2>1 DEF IInv, Good
<1>7. TrialInv' /\ TokenInv'
  BY <1>2, <1>3 DEF IInv, TrialInv, TokenInv
<1>8. /\ SourceNewest' <=> SourceNewest
      /\ copy'[src'] = copy[src] /\ copy'[Target'] = copy[Target]
      /\ Selected' <=> Selected
  BY <1>2 DEF SourceNewest, Target, Selected
<1>9. Committing(copy[src]) => Committing(copy[src])'
  <2>1. copy[src].active \in Slot
    BY RecordFields DEF IInv, TypeOK
  <2> QED BY <1>2, <1>5, <2>1 DEF Committing
<1>10. StepInv'
  BY <1>2, <1>3, <1>8, <1>9 DEF IInv, StepInv
<1> QED BY <1>3, <1>6, <1>7, <1>10 DEF IInv

(* What a commit writes may be the newest record, and is newer.             *)
LEMMA CommitGood ==
  ASSUME IInv, pc \in {"erase", "program"}
  PROVE  /\ Newest = copy[src] /\ SourceNewest
         /\ md.gen > copy[src].gen
         /\ Good(md, flash)
         /\ cont \in {"select", "load", "parked"}
         /\ md.pending \in Slot /\ cont # "parked" => tries < md.attempts
         /\ cont = "load" => Selected
<1>1. SourceNewest /\ Committing(copy[src]) /\ Newest = copy[src]
  BY SourceIsNewest DEF IInv, StepInv
<1> DEFINE r == copy[src]
<1>2. /\ r.gen \in Nat /\ r.active \in Slot /\ r.attempts \in Nat /\ tries \in Nat
      /\ r.slots \in [Slot -> Image \cup {Blank}]
      /\ r.pending \in Slot \cup {NoSlot}
  BY RecordFields DEF IInv, TypeOK
<1>3. Good(r, flash) /\ r.gen > 0
  BY <1>1, GoodFields DEF IInv
<1>4. r.pending \in Slot => tries <= r.attempts
  BY <1>1 DEF IInv, TrialInv
<1> HIDE DEF r
<1>5. CASE cont = "select" /\ r.pending \in Slot /\ md = Accepted(r, r.pending)
  BY <1>1, <1>2, <1>3, <1>5, Bounds DEF r, Accepted, Advance, Good, InPlace, Valid
<1>6. CASE /\ cont = "load" /\ r.pending \in Slot /\ trial
           /\ r.attempts < BootLimit /\ sel = r.pending /\ md = Attempted(r)
  BY <1>1, <1>2, <1>3, <1>4, <1>6, Bounds
     DEF r, Attempted, Advance, Good, InPlace, Valid, Selected
<1>7. CASE cont = "load" /\ ~trial /\ sel = r.active /\ md = RolledBack(r)
  BY <1>1, <1>2, <1>3, <1>7, Bounds
     DEF r, RolledBack, Advance, Good, InPlace, Valid, Selected
<1>8. CASE /\ cont = "parked" /\ md.slots[1 - r.active] > r.slots[r.active]
           /\ md = Updated(r, md.slots[1 - r.active])
           /\ InPlace(md, flash, 1 - r.active)
  <2> DEFINE v == md.slots[1 - r.active]
  <2>1. /\ md.gen = r.gen + 1 /\ md.active = r.active /\ md.pending = 1 - r.active
        /\ md.attempts = 0
        /\ md.slots = [r.slots EXCEPT ![1 - r.active] = v]
    BY <1>8 DEF Updated, Advance
  <2>2. md.slots[r.active] = r.slots[r.active]
    BY <2>1, <1>2
  <2>3. Good(md, flash)
    BY <1>2, <1>3, <1>8, <2>1, <2>2, Bounds DEF Good, InPlace, Valid
  <2> QED BY <1>1, <1>2, <1>8, <2>1, <2>3 DEF r
<1> QED BY <1>1, <1>5, <1>6, <1>7, <1>8 DEF Committing, r

(* A write to the stale copy that does not make its record the newest.      *)
LEMMA OlderWritten ==
  ASSUME IInv, TypeOK', SourceNewest, NEW r \in Record,
         r = copy[Target] \/ r = copy[src] \/ r = Erased,
         copy' = [copy EXCEPT ![Target] = r],
         UNCHANGED <<src, flash, tries>>
  PROVE  /\ SomeCopyValid' /\ MirrorsAgree' /\ Newest' = Newest
         /\ Good(Newest, flash)' /\ TrialInv'
         /\ SourceNewest' /\ copy'[src'] = copy[src] /\ copy'[Target'] = r
<1>1. /\ copy[src].gen \in Nat /\ copy[src].gen > 0 /\ r.gen \in Nat
      /\ copy[src].gen >= copy[Target].gen /\ copy[Target].gen \in Nat
  BY RecordFields DEF IInv, TypeOK, SourceNewest, Valid, Target
<1>2. ~(r.gen > copy[src].gen)
  BY <1>1 DEF Erased
<1>3. r.gen = copy[src].gen => r = copy[src]
  <2>1. CASE r = copy[Target]
    <3>1. CASE src = 0
      BY <1>1, <2>1, <3>1 DEF IInv, MirrorsAgree, Valid, Target
    <3>2. CASE src = 1
      BY <1>1, <2>1, <3>2 DEF IInv, MirrorsAgree, Valid, Target
    <3> QED BY <3>1, <3>2 DEF IInv, TypeOK
  <2>2. CASE r = Erased
    BY <1>1, <2>2 DEF Erased
  <2> QED BY <2>1, <2>2
<1>4. /\ SomeCopyValid' /\ MirrorsAgree' /\ Newest' = copy[src]
      /\ copy'[src] = copy[src] /\ copy'[Target] = r
  BY <1>2, <1>3, TargetWritten DEF IInv
<1>5. Newest' = Newest
  BY <1>4, SourceIsNewest DEF IInv
<1>6. Good(Newest, flash)' /\ TrialInv'
  BY <1>5 DEF IInv, Good, InPlace, TrialInv
<1>7. SourceNewest'
  BY <1>1, <1>2, <1>4 DEF SourceNewest, Valid, Target
<1> QED BY <1>4, <1>5, <1>6, <1>7 DEF Target

(* The commit point: the stale copy now holds the record being committed.   *)
LEMMA NewerWritten ==
  ASSUME IInv, TypeOK', pc = "program",
         copy' = [copy EXCEPT ![Target] = md],
         IF cont = "parked" THEN tries' = 0 ELSE tries' = tries,
         UNCHANGED <<flash, token>>
  PROVE  /\ SomeCopyValid' /\ MirrorsAgree' /\ Newest' = md
         /\ Good(Newest, flash)' /\ TrialInv' /\ TokenInv'
         /\ copy'[src] = copy[src] /\ copy'[Target] = md
<1>1. /\ Newest = copy[src] /\ SourceNewest /\ md.gen > copy[src].gen
      /\ Good(md, flash)
      /\ md.pending \in Slot /\ cont # "parked" => tries < md.attempts
  BY CommitGood
<1>2. /\ md \in Record /\ md.gen \in Nat /\ copy[src].gen \in Nat
      /\ md.attempts \in Nat /\ tries \in Nat
  BY RecordFields DEF IInv, TypeOK
<1>3. /\ SomeCopyValid' /\ MirrorsAgree' /\ Newest' = md
      /\ copy'[src] = copy[src] /\ copy'[Target] = md
  <2>1. md.gen # copy[src].gen
    BY <1>1, <1>2
  <2> QED BY <1>1, <1>2, <2>1, TargetWritten DEF IInv
<1>4. Good(Newest, flash)'
  BY <1>1, <1>3 DEF Good, InPlace
<1>5. TrialInv'
  BY <1>1, <1>2, <1>3, Bounds DEF IInv, TrialInv
<1>6. TokenInv'
  BY DEF IInv, TokenInv
<1> QED BY <1>3, <1>4, <1>5, <1>6

LEMMA CommitStepStep ==
  ASSUME IInv, TypeOK', CommitStep PROVE IInv'
<1>1. pc \in {"erase", "program", "mirrorErase", "mirrorProgram"}
  BY DEF CommitStep, Write, EraseFirst, ProgramFirst, EraseMirror, ProgramMirror
<1>2. UNCHANGED <<token, flash, md, sel, trial, os, cont>> /\ token = NoSlot
  BY <1>1 DEF CommitStep, Write, EraseFirst, ProgramFirst, EraseMirror, ProgramMirror,
              Erase, Program, commitUnchanged, IInv, TokenInv
<1>3. TokenInv'
  BY <1>2 DEF TokenInv
<1>4. pc # "program" => UNCHANGED <<vouched, tries>>
  BY DEF CommitStep, Write, history
<1>5. CASE pc = "erase"
  <2>1. /\ copy' = [copy EXCEPT ![Target] = Erased]
        /\ pc' = "program" /\ src' = src
    BY <1>5 DEF CommitStep, Write, EraseFirst, ProgramFirst, EraseMirror,
                ProgramMirror, Erase
  <2>2. SourceNewest /\ Committing(copy[src])
    BY <1>5 DEF IInv, StepInv
  <2>3. /\ SomeCopyValid' /\ MirrorsAgree' /\ Good(Newest, flash)' /\ TrialInv'
        /\ SourceNewest' /\ copy'[src'] = copy[src] /\ copy'[Target'] = Erased
    BY <1>2, <1>4, <1>5, <2>1, <2>2, OlderWritten, ErasedRecord
  <2>4. Committing(copy[src])'
    BY <1>2, <1>4, <1>5, <2>2, <2>3 DEF Committing, InPlace
  <2>5. StepInv'
    BY <2>1, <2>3, <2>4 DEF StepInv
  <2> QED BY <1>3, <2>3, <2>5 DEF IInv
<1>6. CASE pc = "program"
  <2>1. /\ copy' = [copy EXCEPT ![Target] = md]
        /\ pc' = "mirrorErase" /\ src' = Target
    BY <1>6 DEF CommitStep, Write, EraseFirst, ProgramFirst, EraseMirror,
                ProgramMirror, Program
  <2>2. /\ md.gen > copy[src].gen /\ copy[src].gen > 0
        /\ copy[src].gen \in Nat /\ md.gen \in Nat
        /\ cont \in {"select", "load", "parked"}
        /\ cont = "load" => Selected
    BY <1>6, CommitGood, RecordFields DEF IInv, TypeOK, SourceNewest, Valid
  <2>3. copy'[Target] = md /\ copy'[src] = copy[src] /\ 1 - Target = src
    BY <2>1 DEF IInv, TypeOK, Target
  <2>4. copy[Target] = Erased /\ md # Erased
    BY <1>6, <2>2 DEF IInv, StepInv, Erased
  <2>5. Published
    BY <2>3, <2>4 DEF Published
  <2>6. IF cont = "parked" THEN tries' = 0 ELSE tries' = tries
    BY <1>6, <2>5 DEF CommitStep, Write, history
  <2>7. /\ SomeCopyValid' /\ MirrorsAgree' /\ Good(Newest, flash)' /\ TrialInv'
    BY <1>2, <1>6, <2>1, <2>6, NewerWritten
  <2>8. SourceNewest' /\ md' = copy'[src']
    BY <1>2, <2>1, <2>2, <2>3 DEF SourceNewest, Valid, Target
  <2>9. cont' = "load" => Selected'
    BY <1>2, <2>2, <2>6 DEF Selected
  <2>10. StepInv'
    BY <1>2, <2>1, <2>2, <2>8, <2>9 DEF StepInv
  <2> QED BY <1>3, <2>7, <2>10 DEF IInv
<1>7. CASE pc \in {"mirrorErase", "mirrorProgram"}
  <2>1. /\ SourceNewest /\ md = copy[src] /\ cont \in {"select", "load", "parked"}
        /\ cont = "load" => Selected
        /\ UNCHANGED <<src, vouched, tries>>
    BY <1>7, <1>4 DEF IInv, StepInv, CommitStep, Write, EraseFirst, ProgramFirst,
                EraseMirror, ProgramMirror, Erase, Program
  <2>2. Selected' <=> Selected
    BY <1>2, <2>1 DEF Selected
  <2>3. CASE pc = "mirrorErase"
    <3>1. copy' = [copy EXCEPT ![Target] = Erased] /\ pc' = "mirrorProgram"
      BY <2>3 DEF CommitStep, Write, EraseFirst, ProgramFirst, EraseMirror,
                  ProgramMirror, Erase
    <3>2. /\ SomeCopyValid' /\ MirrorsAgree' /\ Good(Newest, flash)' /\ TrialInv'
          /\ SourceNewest' /\ copy'[src'] = copy[src] /\ copy'[Target'] = Erased
      BY <1>2, <2>1, <3>1, OlderWritten, ErasedRecord
    <3>3. StepInv'
      BY <1>2, <2>1, <2>2, <3>1, <3>2 DEF StepInv
    <3> QED BY <1>3, <3>2, <3>3 DEF IInv
  <2>4. CASE pc = "mirrorProgram"
    <3>1. copy' = [copy EXCEPT ![Target] = md] /\ pc' = cont
      BY <2>4 DEF CommitStep, Write, EraseFirst, ProgramFirst, EraseMirror,
                  ProgramMirror, Program
    <3>2. /\ SomeCopyValid' /\ MirrorsAgree' /\ Good(Newest, flash)' /\ TrialInv'
          /\ SourceNewest' /\ copy'[src'] = copy[src]
      BY <1>2, <2>1, <3>1, OlderWritten DEF IInv, TypeOK
    <3>3. StepInv'
      BY <1>2, <2>1, <2>2, <3>1, <3>2 DEF StepInv
    <3> QED BY <1>3, <3>2, <3>3 DEF IInv
  <2> QED BY <1>7, <2>3, <2>4
<1> QED BY <1>1, <1>5, <1>6, <1>7

LEMMA CommitFaultStep ==
  ASSUME IInv, TypeOK', CommitFault PROVE IInv'
<1>1. UNCHANGED <<token, flash, md, sel, trial, os, cont, src>>
  BY ABBootAssumption
     DEF ABBootAssumption, CommitFault, Write, FirstFails, MirrorFails, FaultLeaves,
         commitUnchanged
<1>2. token = NoSlot /\ TokenInv'
  BY <1>1 DEF CommitFault, Write, FirstFails, MirrorFails, IInv, TokenInv
<1>3. pc # "program" => UNCHANGED <<vouched, tries>>
  BY DEF CommitFault, Write, history
<1>4. CASE FirstFails
  <2>1. pc \in {"erase", "program"} /\ pc' = "failed"
    BY <1>4, ABBootAssumption DEF ABBootAssumption, FirstFails, FaultLeaves
  <2>2. StepInv'
    BY <2>1 DEF StepInv
  <2>3. SourceNewest
    BY <2>1 DEF IInv, StepInv
  <2>4. CASE /\ copy' = [copy EXCEPT ![Target] = md] /\ pc = "program"
    <3>1. copy'[Target] = md /\ copy[Target] = Erased /\ md # Erased
      <4>1. md.gen > copy[src].gen /\ copy[src].gen \in Nat /\ md.gen \in Nat
        BY <2>1, CommitGood, RecordFields DEF IInv, TypeOK
      <4> QED BY <2>4, <4>1 DEF IInv, TypeOK, StepInv, Target, Erased
    <3>2. IF cont = "parked" THEN tries' = 0 ELSE tries' = tries
      BY <2>4, <3>1 DEF CommitFault, Write, Published, history
    <3>3. SomeCopyValid' /\ MirrorsAgree' /\ Good(Newest, flash)' /\ TrialInv'
      BY <1>1, <2>4, <3>2, NewerWritten
    <3> QED BY <1>2, <2>2, <3>3 DEF IInv
  <2>5. CASE \E r \in {copy[Target], Erased} : copy' = [copy EXCEPT ![Target] = r]
    <3>1. PICK r \in {copy[Target], Erased} : copy' = [copy EXCEPT ![Target] = r]
      BY <2>5
    <3>2. r \in Record
      BY <3>1, ErasedRecord DEF IInv, TypeOK, Target
    <3>3. UNCHANGED <<vouched, tries>>
      <4>1. CASE pc = "program"
        <5>1. copy[Target] = Erased /\ r = Erased
          BY <3>1, <4>1 DEF IInv, StepInv
        <5>2. copy'[Target] = copy[Target]
          BY <3>1, <5>1 DEF IInv, TypeOK, Target
        <5> QED BY <5>2 DEF CommitFault, Write, Published, history
      <4> QED BY <1>3, <4>1
    <3>4. SomeCopyValid' /\ MirrorsAgree' /\ Good(Newest, flash)' /\ TrialInv'
      BY <1>1, <2>3, <3>1, <3>2, <3>3, OlderWritten
    <3> QED BY <1>2, <2>2, <3>4 DEF IInv
  <2> QED BY <1>4, <2>1, <2>4, <2>5 DEF FirstFails, FaultLeaves
<1>5. CASE MirrorFails
  <2>1. pc \in {"mirrorErase", "mirrorProgram"} /\ pc' = cont
    BY <1>5 DEF MirrorFails, FaultLeaves
  <2>2. /\ SourceNewest /\ md = copy[src] /\ cont \in {"select", "load", "parked"}
        /\ cont = "load" => Selected
        /\ UNCHANGED <<vouched, tries>>
    BY <1>3, <2>1 DEF IInv, StepInv
  <2>3. PICK r \in {copy[Target], Erased, copy[src]} :
               copy' = [copy EXCEPT ![Target] = r]
    BY <1>5, <2>1, <2>2 DEF MirrorFails, FaultLeaves
  <2>4. r \in Record
    BY <2>3, ErasedRecord DEF IInv, TypeOK, Target
  <2>5. /\ SomeCopyValid' /\ MirrorsAgree' /\ Good(Newest, flash)' /\ TrialInv'
        /\ SourceNewest' /\ copy'[src'] = copy[src]
    BY <1>1, <2>2, <2>3, <2>4, OlderWritten
  <2>6. Selected' <=> Selected
    BY <1>1, <2>2 DEF Selected
  <2>7. StepInv'
    BY <1>1, <2>1, <2>2, <2>5, <2>6 DEF StepInv
  <2> QED BY <1>2, <2>5, <2>7 DEF IInv
<1> QED BY <1>4, <1>5 DEF CommitFault, Write

LEMMA IInvNext == IInv /\ [Next]_vars => IInv'
<1> SUFFICES ASSUME IInv, [Next]_vars PROVE IInv'
  OBVIOUS
<1>1. TypeOK'
  BY TypeNext DEF IInv
<1> QED
  BY <1>1, PowerOnStep, AcceptBootSuccessStep, DecideStep, BootImageStep,
     CommitStepStep, CommitFaultStep, ConfirmBootIfReadyStep, RecoveryStep,
     BeginUpdateStep, EraseSlotStep, WriteSlotStep, WriteSlotFailsStep,
     PowerLossStep, SlotDecaysStep, UnchangedStep
     DEF Next, UBoot, Installer

THEOREM Invariance == Spec => []IInv
BY IInvInit, IInvNext, PTL DEF Spec

(* One of the two copies is valid in every reachable state.                 *)
THEOREM RecordNeverLost == Spec => []SomeCopyValid
BY Invariance, PTL DEF IInv

(* Equal generations mean equal records in every reachable state.           *)
THEOREM CopiesAgree == Spec => []MirrorsAgree
BY Invariance, PTL DEF IInv

(* The image to fall back to is never overwritten.                          *)
THEOREM ActiveSlotIntact == Spec => []ActiveIntact
<1>1. IInv => ActiveIntact
  BY DEF IInv, Good, InPlace, ActiveIntact
<1> QED BY <1>1, Invariance, PTL

(* A token can only confirm the candidate that left it.                     *)
THEOREM TokenIsFresh == Spec => []TokenNamesCandidate
<1>1. IInv => TokenNamesCandidate
  BY DEF IInv, TokenInv, TokenNamesCandidate
<1> QED BY <1>1, Invariance, PTL

(* At most BootLimit boots of a candidate that never comes up.              *)
THEOREM TriesAreBounded == Spec => []TriesBounded
<1>1. IInv => TriesBounded
  BY DEF IInv, TrialInv, TriesBounded
<1> QED BY <1>1, Invariance, PTL

----------------------------------------------------------------------------
(* Refinement of ABPolicy.                                                  *)

(* A step of a commit leaves the newest record alone, or is its commit      *)
(* point.                                                                   *)
LEMMA CommitPoint ==
  ASSUME IInv, TypeOK', CommitStep \/ CommitFault
  PROVE  \/ Newest' = Newest /\ UNCHANGED <<vouched, losses>>
         \/ /\ pc = "program" /\ Newest' = md
            /\ IF cont = "parked" THEN vouched' = FALSE /\ losses' = 0
                                  ELSE UNCHANGED <<vouched, losses>>
<1> USE DEF CommitStep, CommitFault, Write
<1>1. /\ UNCHANGED <<token, flash>>
      /\ pc \in {"erase", "program", "mirrorErase", "mirrorProgram"}
      /\ copy \in [Copy -> Record] /\ Target \in Copy
  BY DEF EraseFirst, ProgramFirst, EraseMirror, ProgramMirror, FirstFails,
         MirrorFails, commitUnchanged, IInv, TypeOK, Target
<1>2. PICK r : /\ copy' = [copy EXCEPT ![Target] = r]
               /\ \/ r \in {copy[Target], Erased} /\ src' = src
                  \/ r = md /\ pc = "program"
                  \/ r = md /\ pc = "mirrorProgram" /\ src' = src
  BY ABBootAssumption
     DEF ABBootAssumption, EraseFirst, ProgramFirst, EraseMirror, ProgramMirror,
         FirstFails, MirrorFails, FaultLeaves, Erase, Program
<1>3. copy'[Target] = r
  BY <1>1, <1>2
<1>4. r \in Record /\ SourceNewest /\ Newest = copy[src]
  BY <1>1, <1>2, ErasedRecord, SourceIsNewest DEF IInv, TypeOK, StepInv
<1>5. CASE pc = "program" /\ r = md
  <2>1. md.gen > copy[src].gen /\ copy[src].gen \in Nat /\ md.gen \in Nat
    BY <1>5, CommitGood, RecordFields DEF IInv, TypeOK
  <2>2. md.gen # copy[src].gen
    BY <2>1
  <2>3. Newest' = md
    BY <1>2, <1>4, <1>5, <2>1, <2>2, TargetWritten DEF IInv
  <2>4. Published
    BY <1>3, <1>5, <2>1 DEF Published, IInv, StepInv, Erased
  <2> QED BY <1>5, <2>3, <2>4 DEF history
<1>6. CASE ~(pc = "program" /\ r = md)
  <2>1. UNCHANGED <<vouched, tries, losses>>
    <3>1. CASE pc = "program"
      <4>1. copy'[Target] = copy[Target]
        BY <1>2, <1>3, <1>6, <3>1 DEF IInv, StepInv
      <4> QED BY <4>1 DEF Published, history
    <3>2. CASE pc # "program"
      BY <3>2 DEF history
    <3> QED BY <3>1, <3>2
  <2>2. src' = src /\ (r = copy[Target] \/ r = copy[src] \/ r = Erased)
    BY <1>2, <1>6 DEF IInv, StepInv
  <2> QED BY <1>1, <1>2, <1>4, <2>1, <2>2, OlderWritten
<1> QED BY <1>5, <1>6

LEMMA PolicyInit == Init => Policy!Init
<1> SUFFICES ASSUME Init PROVE Policy!Init
  OBVIOUS
<1>1. PICK image \in Image : copy = [c \in Copy |-> Seed(image)]
  BY ABBootAssumption DEF ABBootAssumption, Init
<1>2. Newest = Seed(image)
  BY <1>1 DEF Newest, NewestCopy, NewestOf
<1> QED BY <1>2 DEF Init, Seed, Candidate, Policy!Init

LEMMA PolicyStutters ==
  ASSUME Newest' = Newest, vouched' = vouched PROVE UNCHANGED Policy!vars
BY DEF Policy!vars, Candidate

(* The commit point stages a candidate, counts an attempt, accepts or gives *)
(* up, according to where the commit came from.                             *)
LEMMA PolicyCommits ==
  ASSUME IInv, pc = "program", Newest' = md,
         IF cont = "parked" THEN vouched' = FALSE ELSE vouched' = vouched
  PROVE  Policy!Next
<1> DEFINE r == copy[src]
<1>1. Committing(r) /\ Newest = r
  BY CommitGood DEF IInv, StepInv
<1>2. /\ r.active \in Slot /\ r.attempts \in Nat
      /\ r.slots \in [Slot -> Image \cup {Blank}]
  BY RecordFields DEF IInv, TypeOK
<1>3. r.pending \in Slot => r.slots[r.pending] # Blank
  BY <1>1, GoodFields, Images DEF IInv
<1> HIDE DEF r
<1>4. CASE cont = "select" /\ r.pending \in Slot /\ vouched /\ md = Accepted(r, r.pending)
  BY <1>1, <1>2, <1>3, <1>4 DEF Accepted, Advance, Candidate, Policy!Next, Policy!Accept
<1>5. CASE /\ cont = "load" /\ r.pending \in Slot
           /\ r.attempts < BootLimit /\ md = Attempted(r)
  BY <1>1, <1>2, <1>3, <1>5 DEF Attempted, Advance, Candidate, Policy!Next, Policy!Attempt
<1>6. CASE cont = "load" /\ r.pending \in Slot /\ md = RolledBack(r)
  BY <1>1, <1>2, <1>3, <1>6 DEF RolledBack, Advance, Candidate, Policy!Next, Policy!GiveUp
<1>7. CASE /\ cont = "parked" /\ r.pending = NoSlot
           /\ md.slots[1 - r.active] > r.slots[r.active]
           /\ md = Updated(r, md.slots[1 - r.active])
           /\ InPlace(md, flash, 1 - r.active)
  <2> DEFINE v == md.slots[1 - r.active]
  <2>1. /\ md.active = r.active /\ md.pending = 1 - r.active /\ md.attempts = 0
        /\ md.slots = [r.slots EXCEPT ![1 - r.active] = v]
    BY <1>7 DEF Updated, Advance
  <2>2. md.slots[r.active] = r.slots[r.active] /\ v \in Image
    BY <1>2, <1>7, <2>1 DEF InPlace
  <2>3. Policy!Stage(v)
    BY <1>1, <1>2, <1>7, <2>1, <2>2 DEF Candidate, Policy!Stage
  <2> QED BY <2>2, <2>3 DEF Policy!Next
<1> QED BY <1>1, <1>4, <1>5, <1>6, <1>7 DEF Committing

LEMMA PolicyVouches ==
  ASSUME IInv, TypeOK', ConfirmBootIfReady
  PROVE  [Policy!Next]_(Policy!vars)
<1>1. pc = "os" /\ Newest' = Newest
  BY CopyKept DEF ConfirmBootIfReady, store
<1>2. CASE BootedCandidate
  <2>1. Newest.pending \in Slot /\ tries > 0 /\ vouched' = TRUE
    BY <1>1, <1>2 DEF ConfirmBootIfReady, BootedCandidate, IInv, StepInv
  <2>2. Newest.attempts > 0
    <3>1. Newest.attempts \in Nat /\ tries \in Nat
      BY NewestIsSource, RecordFields DEF IInv, TypeOK, Newest
    <3> QED BY <2>1, <3>1 DEF IInv, TrialInv
  <2>3. Newest.slots[Newest.pending] # Blank
    BY <2>1, GoodFields, Images DEF IInv
  <2>4. Policy!Vouch
    BY <1>1, <2>1, <2>2, <2>3 DEF Candidate, Policy!Vouch
  <2> QED BY <2>4 DEF Policy!Next
<1>3. CASE ~BootedCandidate
  BY <1>1, <1>3, PolicyStutters DEF ConfirmBootIfReady
<1> QED BY <1>2, <1>3

LEMMA PolicyStep ==
  IInv /\ TypeOK' /\ [Next]_vars => [Policy!Next]_(Policy!vars)
<1> SUFFICES ASSUME IInv, TypeOK', [Next]_vars PROVE [Policy!Next]_(Policy!vars)
  OBVIOUS
<1>1. CASE CommitStep \/ CommitFault
  BY <1>1, CommitPoint, PolicyStutters, PolicyCommits
<1>2. CASE ConfirmBootIfReady
  BY <1>2, PolicyVouches
<1>3. ASSUME UNCHANGED <<copy, vouched>> PROVE [Policy!Next]_(Policy!vars)
  BY <1>3, CopyKept, PolicyStutters
<1>4. CASE UBoot
  BY <1>3, <1>4
     DEF UBoot, PowerOn, ReadMetadata, AcceptBootSuccess, ConsumeToken, Decide,
         SelectActive, SelectPending, AbandonPending, LoadFails, BootImage, Boot,
         store, history
<1>5. CASE AuthenticateCapsule \/ RequestRecovery \/ EnterRecovery
  BY <1>3, <1>5 DEF AuthenticateCapsule, RequestRecovery, EnterRecovery, store, history
<1>6. CASE Installer \/ WriteSlotFails
  BY <1>3, <1>6
     DEF Installer, BeginUpdate, EraseSlot, WriteSlot, WriteSlotFails, store, history
<1>7. CASE PowerLoss \/ SlotDecays \/ UNCHANGED vars
  BY <1>3, <1>7 DEF PowerLoss, Reset, SlotDecays, Decay, vars, store, history
<1> QED BY <1>1, <1>2, <1>4, <1>5, <1>6, <1>7 DEF Next

(* The boot-control record implements the update policy.                    *)
THEOREM Refinement == Spec => ImplementsPolicy
<1>1. IInv /\ [Next]_vars => TypeOK'
  BY TypeNext DEF IInv
<1> QED
  BY <1>1, PolicyInit, PolicyStep, Invariance, PTL DEF Spec, ImplementsPolicy, Policy!Spec

-----------------------------------------------------------------------------
(***************************************************************************)
(* HealthyKept, for every set of images, every boot limit and any number   *)
(* of flash failures: a healthy candidate whose image is whole is given up *)
(* only after BootLimit power losses or failed boots.                      *)
(*                                                                         *)
(* The attempts of the newest record are paid for by losses, all but the   *)
(* one in flight.  That one is in flight from the commit that counts it    *)
(* until power is lost, and while a token stands for it - in the battery-  *)
(* backed words, or consumed and not yet committed - so the steps of the   *)
(* token and of the commit cost a healthy candidate no attempt of their    *)
(* own, except by a loss.                                                  *)
(***************************************************************************)

Mirroring == pc \in {"mirrorErase", "mirrorProgram"}

\* The candidate's image is what the record says.
Whole == /\ Newest.pending \in Slot
         /\ flash[Newest.pending] = Newest.slots[Newest.pending]

\* One attempt may be counted that no loss has answered for.
Owing == \/ token # NoSlot
         \/ Mirroring \/ pc \in {"load", "os", "running", "failed"}
         \/ pc \in {"erase", "program"} /\ cont = "select"

PaidFor == Whole => Newest.attempts <= losses + (IF Owing THEN 1 ELSE 0)

\* Why a boot goes on without a trial, and what the trial leaves.
OnTrial ==
  /\ Mirroring /\ cont = "select" => md.pending = NoSlot
  /\ Mirroring /\ cont = "parked" => md.attempts = 0
  /\ (pc = "load" \/ (Mirroring /\ cont = "load")) /\ ~trial => md.pending = NoSlot
  /\ pc = "os" /\ Newest.pending \in Slot => os.booted = os.pending
  /\ pc = "running" /\ Newest.pending \in Slot => token # NoSlot
  /\ pc \in {"erase", "program"} /\ cont = "load" /\ ~trial /\ Whole =>
       Newest.attempts >= BootLimit

KeptInv == IInv /\ PaidFor /\ OnTrial

LEMMA Numbers ==
  ASSUME IInv
  PROVE  /\ Newest \in Record /\ Newest.attempts \in Nat /\ Newest.attempts <= BootLimit
         /\ Newest.active \in Slot /\ Newest.pending \in Slot \cup {NoSlot}
         /\ Newest.pending \in Slot => Newest.slots[Newest.pending] \in Image
         /\ losses \in Nat /\ losses <= BootLimit /\ BootLimit \in Nat
<1>1. Newest \in Record
  BY NewestIsSource DEF IInv, TypeOK, Newest
<1>2. Newest.attempts <= BootLimit
      /\ (Newest.pending \in Slot => Newest.slots[Newest.pending] \in Image)
  BY GoodFields DEF IInv
<1>3. losses \in 0..BootLimit
  BY DEF IInv, TypeOK
<1> QED BY <1>1, <1>2, <1>3, RecordFields, Bounds

(* The flash is not touched: what is owed depends on where the step leads.  *)
LEMMA SameFlash ==
  ASSUME UNCHANGED <<copy, flash>> PROVE Newest' = Newest /\ (Whole' <=> Whole)
BY CopyKept DEF Whole

LEMMA StillPaid ==
  ASSUME KeptInv, UNCHANGED <<copy, flash, losses>>, Whole /\ Owing => Owing'
  PROVE  PaidFor'
<1>1. Newest' = Newest /\ (Whole' <=> Whole)
  BY SameFlash
<1>2. Newest.attempts \in Nat /\ losses \in Nat
  BY Numbers DEF KeptInv
<1> QED BY <1>1, <1>2 DEF KeptInv, PaidFor

LEMMA KeptInit == Init => KeptInv
<1> SUFFICES ASSUME Init PROVE KeptInv
  OBVIOUS
<1>1. IInv
  BY IInvInit
<1>2. PICK image \in Image : copy = [c \in Copy |-> Seed(image)]
  BY ABBootAssumption DEF ABBootAssumption, Init
<1>3. Newest = Seed(image)
  BY <1>2 DEF Newest, NewestCopy, NewestOf
<1>4. ~Whole
  BY <1>3 DEF Whole, Seed
<1>5. PaidFor /\ OnTrial
  BY <1>4 DEF PaidFor, OnTrial, Init, Mirroring
<1> QED BY <1>1, <1>5 DEF KeptInv

(***************************************************************************)
(* U-Boot                                                                  *)
(***************************************************************************)
LEMMA KeptPowerOn ==
  ASSUME KeptInv, PowerOn PROVE PaidFor' /\ OnTrial'
<1>1. SomeValid
  BY DEF KeptInv, IInv, SomeCopyValid
<1>2. /\ pc = "off" /\ pc' = "token"
      /\ UNCHANGED <<copy, flash, cont, token, losses>>
  BY <1>1 DEF PowerOn, ReadMetadata, store, history
<1> QED BY <1>2, StillPaid DEF OnTrial, Owing, Mirroring

LEMMA KeptAccept ==
  ASSUME KeptInv, AcceptBootSuccess PROVE PaidFor' /\ OnTrial'
<1>1. pc = "token" /\ UNCHANGED <<copy, flash, losses>>
  BY DEF AcceptBootSuccess, ConsumeToken, store, history
<1>2. md = Newest
  BY <1>1, SourceIsNewest DEF KeptInv, IInv, StepInv
<1>3. CASE TokenAccepted
  <2>1. pc' = "erase" /\ cont' = "select"
    BY <1>3 DEF AcceptBootSuccess, ConsumeToken, Commit
  <2> QED BY <1>1, <2>1, StillPaid DEF OnTrial, Owing, Mirroring
<1>4. CASE ~TokenAccepted
  <2>1. token = NoSlot
    BY <1>2, <1>4 DEF TokenAccepted, KeptInv, IInv, TokenInv, TypeOK
  <2>2. pc' = "select" /\ ~Owing
    BY <1>1, <1>4, <2>1 DEF AcceptBootSuccess, ConsumeToken, Owing, Mirroring
  <2> QED BY <1>1, <2>2, StillPaid DEF OnTrial, Mirroring
<1> QED BY <1>3, <1>4

LEMMA KeptDecide ==
  ASSUME KeptInv, Decide PROVE PaidFor' /\ OnTrial'
<1>1. pc \in {"select", "load"} /\ UNCHANGED <<copy, flash, losses>>
  BY DEF Decide, SelectActive, SelectPending, AbandonPending, LoadFails, store, history
<1>2. md = Newest /\ token = NoSlot
  BY <1>1, SourceIsNewest DEF KeptInv, IInv, StepInv, TokenInv
<1>3. Newest' = Newest /\ (Whole' <=> Whole)
  BY <1>1, SameFlash
<1>4. CASE SelectActive
  <2>1. pc' = "load" /\ md' = md /\ md.pending = NoSlot
    BY <1>4 DEF SelectActive
  <2> QED BY <1>1, <2>1, StillPaid DEF OnTrial, Owing, Mirroring
<1>5. CASE SelectPending
  <2>1. pc = "select" /\ pc' = "erase" /\ cont' = "load" /\ trial' = TRUE
    BY <1>5 DEF SelectPending, Commit
  <2>2. ~Owing
    BY <1>2, <2>1 DEF Owing, Mirroring
  <2> QED BY <1>1, <2>1, <2>2, StillPaid DEF OnTrial, Mirroring
<1>6. CASE AbandonPending
  <2>1. /\ pc = "select" /\ pc' = "erase" /\ cont' = "load" /\ md.attempts >= BootLimit
    BY <1>6 DEF AbandonPending, Commit, BootLimitReached
  <2>2. ~Owing
    BY <1>2, <2>1 DEF Owing, Mirroring
  <2> QED BY <1>1, <1>2, <1>3, <2>1, <2>2, StillPaid DEF OnTrial, Mirroring
<1>7. CASE LoadFails /\ trial
  <2>1. /\ pc = "load" /\ pc' = "erase" /\ ~LoadSlot(sel)
    BY <1>7 DEF LoadFails, Commit
  <2>2. sel = Newest.pending /\ Newest.pending \in Slot
    BY <1>2, <1>7, <2>1 DEF KeptInv, IInv, StepInv, Selected
  <2>3. Newest.slots[sel] # Blank
    BY <2>2, Numbers, Images DEF KeptInv
  <2>4. ~Whole
    BY <1>2, <2>1, <2>2, <2>3 DEF LoadSlot, Whole
  <2> QED BY <1>1, <1>3, <2>1, <2>4, StillPaid DEF OnTrial, Mirroring
<1>8. CASE LoadFails /\ ~trial
  <2>1. pc' = "failed"
    BY <1>8 DEF LoadFails
  <2> QED BY <1>1, <2>1, StillPaid DEF OnTrial, Owing, Mirroring
<1> QED BY <1>4, <1>5, <1>6, <1>7, <1>8 DEF Decide

LEMMA KeptBoot ==
  ASSUME KeptInv, BootImage PROVE PaidFor' /\ OnTrial'
<1>1. /\ pc = "load" /\ pc' = "os" /\ os'.booted = sel /\ os'.pending = md.pending
      /\ UNCHANGED <<copy, flash, losses>>
  BY DEF BootImage, Boot, store, ram
<1>2. md = Newest /\ Selected
  BY <1>1, SourceIsNewest DEF KeptInv, IInv, StepInv
<1>3. Newest' = Newest
  BY <1>1, SameFlash
<1>4. Newest.pending \in Slot => sel = Newest.pending
  BY <1>1, <1>2 DEF KeptInv, OnTrial, Selected
<1> QED BY <1>1, <1>2, <1>3, <1>4, StillPaid DEF OnTrial, Owing, Mirroring

(***************************************************************************)
(* The running OS and the installer                                        *)
(***************************************************************************)
LEMMA KeptConfirm ==
  ASSUME KeptInv, ConfirmBootIfReady PROVE PaidFor' /\ OnTrial'
<1>1. pc = "os" /\ pc' = "running" /\ UNCHANGED <<copy, flash, losses>>
  BY DEF ConfirmBootIfReady, store
<1>2. Newest' = Newest
  BY <1>1, SameFlash
<1>3. Newest.pending \in Slot => token' \in Slot
  BY <1>1 DEF ConfirmBootIfReady, BootedCandidate, KeptInv, OnTrial, IInv, StepInv
<1> QED BY <1>1, <1>2, <1>3, StillPaid DEF OnTrial, Owing, Mirroring

LEMMA KeptRecovery ==
  ASSUME KeptInv, AuthenticateCapsule \/ RequestRecovery \/ EnterRecovery \/ BeginUpdate
  PROVE  PaidFor' /\ OnTrial'
<1>1. UNCHANGED <<copy, flash, token, losses>>
  BY DEF AuthenticateCapsule, RequestRecovery, EnterRecovery, BeginUpdate, store, history
<1>2. Newest' = Newest
  BY <1>1, SameFlash
<1>3. CASE AuthenticateCapsule
  <2>1. pc = "running" /\ pc' = "running"
    BY <1>3 DEF AuthenticateCapsule
  <2> QED BY <1>1, <1>2, <2>1, StillPaid DEF KeptInv, OnTrial, Owing, Mirroring
<1>4. CASE RequestRecovery
  <2>1. pc = "running" /\ pc' = "recovery" /\ token = NoSlot
    BY <1>4 DEF RequestRecovery
  <2>2. ~Whole
    BY <2>1 DEF KeptInv, OnTrial, Whole
  <2> QED BY <1>1, <2>1, <2>2, StillPaid DEF OnTrial, Mirroring
<1>5. CASE EnterRecovery \/ BeginUpdate
  <2>1. pc \in {"off", "recovery"} /\ pc' \in {"recovery", "parked", "eraseSlot"}
    BY <1>5 DEF EnterRecovery, BeginUpdate
  <2> QED BY <1>1, <2>1, StillPaid DEF OnTrial, Owing, Mirroring
<1> QED BY <1>3, <1>4, <1>5

LEMMA KeptSlots ==
  ASSUME KeptInv, EraseSlot \/ WriteSlot \/ WriteSlotFails PROVE PaidFor' /\ OnTrial'
<1>1. /\ pc \in {"eraseSlot", "writeSlot"} /\ copy' = copy
      /\ \/ pc' \in {"writeSlot", "parked"}
         \/ pc' = "erase" /\ cont' = "parked"
  BY DEF EraseSlot, WriteSlot, WriteSlotFails, Commit, store
<1>2. Newest.pending = NoSlot
  BY <1>1, SourceIsNewest DEF KeptInv, IInv, StepInv
<1>3. ~Whole'
  BY <1>1, <1>2, CopyKept DEF Whole
<1> QED BY <1>1, <1>3 DEF PaidFor, OnTrial, Mirroring

LEMMA KeptPowerLoss ==
  ASSUME KeptInv, PowerLoss PROVE PaidFor' /\ OnTrial'
<1>1. /\ pc' = "off" /\ token' \in {token, NoSlot} /\ UNCHANGED <<copy, flash>>
      /\ losses' = IF Harmless \/ losses = BootLimit THEN losses ELSE losses + 1
  BY DEF PowerLoss, Reset, store
<1>2. Newest' = Newest /\ (Whole' <=> Whole)
  BY <1>1, SameFlash
<1>3. Newest.attempts \in Nat /\ losses \in Nat /\ Newest.attempts <= BootLimit
  BY Numbers DEF KeptInv
<1>4. PaidFor'
  <2> SUFFICES ASSUME Whole
               PROVE  Newest.attempts <= losses' + (IF Owing' THEN 1 ELSE 0)
    BY <1>2 DEF PaidFor
  <2>1. Newest.attempts <= losses + (IF Owing THEN 1 ELSE 0)
    BY DEF KeptInv, PaidFor
  <2>2. CASE Harmless
    <3>1. Owing => Owing'
      <4>1. token' = token /\ pc \in {"running", "recovery", "parked"}
        BY <2>2 DEF Harmless
      <4>2. pc = "running" => token # NoSlot
        BY DEF KeptInv, OnTrial, Whole
      <4> QED BY <4>1, <4>2 DEF Owing, Mirroring
    <3> QED BY <1>1, <1>3, <2>1, <2>2, <3>1
  <2>3. CASE ~Harmless /\ losses = BootLimit
    BY <1>1, <1>3, <2>3
  <2>4. CASE ~Harmless /\ losses # BootLimit
    BY <1>1, <1>3, <2>1, <2>4
  <2> QED BY <2>2, <2>3, <2>4
<1>5. OnTrial'
  BY <1>1 DEF OnTrial, Mirroring
<1> QED BY <1>4, <1>5

LEMMA KeptDecay ==
  ASSUME KeptInv, SlotDecays PROVE PaidFor' /\ OnTrial'
<1>1. PICK s \in Slot : flash' = [flash EXCEPT ![s] = Rotten]
  BY DEF SlotDecays, Decay
<1>2. UNCHANGED <<copy, pc, cont, md, trial, os, token, losses>>
  BY DEF SlotDecays, Decay, ram, history
<1>3. Newest' = Newest
  BY <1>2, CopyKept
<1>4. Whole' => Whole
  <2> SUFFICES ASSUME Whole' PROVE Whole
    OBVIOUS
  <2>1. Newest.pending \in Slot /\ flash'[Newest.pending] = Newest.slots[Newest.pending]
    BY <1>3 DEF Whole
  <2>2. Newest.slots[Newest.pending] # Rotten
    BY <2>1, Numbers, Images DEF KeptInv
  <2>3. flash \in [Slot -> Image \cup {Blank, Rotten}]
    BY DEF KeptInv, IInv, TypeOK
  <2> QED BY <1>1, <2>1, <2>2, <2>3 DEF Whole
<1>5. Owing' <=> Owing
  BY <1>2 DEF Owing, Mirroring
<1>6. PaidFor'
  BY <1>2, <1>3, <1>4, <1>5 DEF KeptInv, PaidFor
<1>7. OnTrial'
  BY <1>2, <1>3, <1>4 DEF KeptInv, OnTrial, Mirroring
<1> QED BY <1>6, <1>7

(***************************************************************************)
(* Commits                                                                 *)
(***************************************************************************)
(* What the commit that is under way is for.                                *)
LEMMA Purpose ==
  ASSUME KeptInv, pc \in {"erase", "program"}
  PROVE  /\ token = NoSlot /\ cont \in {"select", "load", "parked"}
         /\ cont = "select" => md.pending = NoSlot /\ md.active # Newest.active
         /\ cont = "parked" => Newest.pending = NoSlot /\ md.attempts = 0
         /\ cont = "load" /\ trial =>
              /\ md.pending = Newest.pending /\ md.slots = Newest.slots
              /\ md.attempts = Newest.attempts + 1 /\ Newest.pending \in Slot
         /\ cont = "load" /\ ~trial => md.pending = NoSlot
<1>1. Newest = copy[src] /\ Committing(copy[src])
  BY CommitGood DEF KeptInv, IInv, StepInv
<1>2. Newest.active \in Slot
  BY Numbers DEF KeptInv
<1>3. Newest.pending \in Slot => Newest.pending = 1 - Newest.active
  BY GoodFields DEF KeptInv, IInv
<1>4. token = NoSlot
  BY DEF KeptInv, IInv, TokenInv
<1>5. CASE cont = "select" /\ Newest.pending \in Slot /\ md = Accepted(Newest, Newest.pending)
  BY <1>2, <1>3, <1>4, <1>5 DEF Accepted, Advance
<1>6. CASE cont = "load" /\ Newest.pending \in Slot /\ trial /\ md = Attempted(Newest)
  BY <1>4, <1>6 DEF Attempted, Advance
<1>7. CASE cont = "load" /\ ~trial /\ md = RolledBack(Newest)
  BY <1>4, <1>7 DEF RolledBack, Advance
<1>8. CASE /\ cont = "parked" /\ Newest.pending = NoSlot
           /\ md = Updated(Newest, md.slots[1 - Newest.active])
  BY <1>4, <1>8 DEF Updated, Advance
<1> QED BY <1>1, <1>5, <1>6, <1>7, <1>8 DEF Committing

(* Where a step of a commit leads.                                          *)
LEMMA CommitLeads ==
  ASSUME CommitStep \/ CommitFault
  PROVE  /\ UNCHANGED <<token, flash, md, sel, trial, os, cont>>
         /\ \/ pc = "erase" /\ pc' = "program"
            \/ pc = "program" /\ pc' = "mirrorErase"
            \/ pc \in {"erase", "program"} /\ pc' = "failed"
            \/ pc = "mirrorErase" /\ pc' = "mirrorProgram"
            \/ Mirroring /\ pc' = cont
BY ABBootAssumption
   DEF ABBootAssumption, CommitStep, CommitFault, Write, EraseFirst, ProgramFirst,
       EraseMirror, ProgramMirror, FirstFails, MirrorFails, FaultLeaves, Erase, Program,
       commitUnchanged, Mirroring

LEMMA KeptCommit ==
  ASSUME KeptInv, TypeOK', CommitStep \/ CommitFault PROVE PaidFor' /\ OnTrial'
<1>1. /\ UNCHANGED <<token, flash, md, sel, trial, os, cont>>
      /\ \/ pc = "erase" /\ pc' = "program"
         \/ pc = "program" /\ pc' = "mirrorErase"
         \/ pc \in {"erase", "program"} /\ pc' = "failed"
         \/ pc = "mirrorErase" /\ pc' = "mirrorProgram"
         \/ Mirroring /\ pc' = cont
  BY CommitLeads
<1>2. \/ Newest' = Newest /\ UNCHANGED <<vouched, losses>>
      \/ /\ pc = "program" /\ Newest' = md
         /\ IF cont = "parked" THEN vouched' = FALSE /\ losses' = 0
                               ELSE UNCHANGED <<vouched, losses>>
  BY CommitPoint DEF KeptInv
<1>3. Mirroring => md = Newest /\ cont \in {"select", "load", "parked"}
  BY SourceIsNewest DEF KeptInv, IInv, StepInv, Mirroring
<1>4. /\ Newest.attempts \in Nat /\ losses \in Nat /\ Newest.attempts <= BootLimit
      /\ BootLimit \in Nat
  BY Numbers DEF KeptInv
<1>5. pc \in {"erase", "program"} =>
         /\ token = NoSlot /\ cont \in {"select", "load", "parked"}
         /\ cont = "select" => md.pending = NoSlot
         /\ cont = "parked" => Newest.pending = NoSlot /\ md.attempts = 0
         /\ cont = "load" /\ trial =>
              /\ md.pending = Newest.pending /\ md.slots = Newest.slots
              /\ md.attempts = Newest.attempts + 1
         /\ cont = "load" /\ ~trial => md.pending = NoSlot
  BY Purpose
<1>6. CASE Newest' = Newest /\ UNCHANGED <<vouched, losses>>
  <2>1. Whole' <=> Whole
    BY <1>1, <1>6 DEF Whole
  <2>2. PaidFor'
    <3>1. CASE Mirroring /\ pc' = cont
      <4>1. cont = "select" => ~Whole
        BY <1>3, <3>1 DEF KeptInv, OnTrial, Whole
      <4>2. cont = "parked" => Newest.attempts = 0
        BY <1>3, <3>1 DEF KeptInv, OnTrial
      <4>3. cont = "load" => Owing'
        BY <3>1 DEF Owing
      <4>4. Owing
        BY <3>1 DEF Owing
      <4> QED BY <1>3, <1>4, <1>6, <2>1, <3>1, <4>1, <4>2, <4>3, <4>4 DEF KeptInv, PaidFor
    <3>2. CASE ~(Mirroring /\ pc' = cont)
      <4>1. Owing => Owing'
        BY <1>1, <3>2 DEF Owing, Mirroring
      <4> QED BY <1>4, <1>6, <2>1, <4>1 DEF KeptInv, PaidFor
    <3> QED BY <3>1, <3>2
  <2>3. OnTrial'
    BY <1>1, <1>3, <1>5, <1>6, <2>1 DEF KeptInv, OnTrial, Mirroring
  <2> QED BY <2>2, <2>3
<1>7. CASE /\ pc = "program" /\ Newest' = md
           /\ IF cont = "parked" THEN vouched' = FALSE /\ losses' = 0
                                 ELSE UNCHANGED <<vouched, losses>>
  <2>1. pc' \in {"mirrorErase", "failed"}
    BY <1>1, <1>7 DEF Mirroring
  <2>2. Owing'
    BY <2>1 DEF Owing, Mirroring
  <2>3. PaidFor'
    <3>1. CASE cont = "select" \/ (cont = "load" /\ ~trial)
      <4>1. ~Whole'
        BY <1>5, <1>7, <3>1 DEF Whole
      <4> QED BY <4>1 DEF PaidFor
    <3>2. CASE cont = "parked"
      BY <1>5, <1>7, <2>2, <3>2 DEF PaidFor
    <3>3. CASE cont = "load" /\ trial
      <4>1. Whole' => Whole
        BY <1>1, <1>5, <1>7, <3>3 DEF Whole
      <4>2. ~Owing
        BY <1>5, <1>7, <3>3 DEF Owing, Mirroring
      <4>3. Whole => Newest.attempts <= losses
        BY <1>4, <4>2 DEF KeptInv, PaidFor
      <4>4. Newest'.attempts = Newest.attempts + 1 /\ losses' = losses
        BY <1>5, <1>7, <3>3
      <4> QED BY <1>4, <2>2, <4>1, <4>3, <4>4 DEF PaidFor
    <3> QED BY <1>5, <1>7, <3>1, <3>2, <3>3
  <2>4. OnTrial'
    BY <1>1, <1>5, <1>7, <2>1 DEF OnTrial, Mirroring
  <2> QED BY <2>3, <2>4
<1> QED BY <1>2, <1>6, <1>7

(***************************************************************************)
(* The theorem                                                             *)
(***************************************************************************)
LEMMA KeptNext == KeptInv /\ [Next]_vars => KeptInv'
<1> SUFFICES ASSUME KeptInv, [Next]_vars PROVE KeptInv'
  OBVIOUS
<1>1. IInv' /\ TypeOK'
  BY IInvNext DEF KeptInv, IInv
<1>2. CASE UNCHANGED vars
  <2>1. UNCHANGED <<copy, flash, pc, cont, md, trial, os, token, losses>>
    BY <1>2 DEF vars, store, ram, history
  <2>2. Newest' = Newest /\ (Whole' <=> Whole) /\ (Owing => Owing')
    BY <2>1, SameFlash DEF Owing, Mirroring
  <2>3. PaidFor'
    BY <2>1, <2>2, StillPaid
  <2>4. OnTrial'
    BY <2>1, <2>2 DEF KeptInv, OnTrial, Mirroring
  <2> QED BY <1>1, <2>3, <2>4 DEF KeptInv
<1>3. CASE UBoot
  BY <1>1, <1>3, KeptPowerOn, KeptAccept, KeptDecide, KeptBoot DEF UBoot, KeptInv
<1>4. CASE CommitStep \/ CommitFault
  BY <1>1, <1>4, KeptCommit DEF KeptInv
<1>5. CASE ConfirmBootIfReady \/ AuthenticateCapsule \/ RequestRecovery \/ EnterRecovery
           \/ BeginUpdate
  BY <1>1, <1>5, KeptConfirm, KeptRecovery DEF KeptInv
<1>6. CASE EraseSlot \/ WriteSlot \/ WriteSlotFails
  BY <1>1, <1>6, KeptSlots DEF KeptInv
<1>7. CASE PowerLoss \/ SlotDecays
  BY <1>1, <1>7, KeptPowerLoss, KeptDecay DEF KeptInv
<1> QED BY <1>2, <1>3, <1>4, <1>5, <1>6, <1>7 DEF Next, Installer

LEMMA GivenUp ==
  ASSUME KeptInv, TypeOK', [Next]_vars, Abandoned, Candidate \in Healthy,
         flash[Newest.pending] = Candidate
  PROVE  losses = BootLimit
<1>1. Whole
  BY Numbers DEF KeptInv, Abandoned, Candidate, Whole
<1>2. Newest' # Newest
  BY DEF Abandoned
<1>3. copy' # copy
  BY <1>2, CopyKept
<1>4. CommitStep \/ CommitFault
  BY <1>3
     DEF Next, UBoot, PowerOn, ReadMetadata, AcceptBootSuccess, ConsumeToken, Decide,
         SelectActive, SelectPending, AbandonPending, LoadFails, BootImage, Boot,
         ConfirmBootIfReady, AuthenticateCapsule, RequestRecovery, EnterRecovery,
         Installer, BeginUpdate, EraseSlot, WriteSlot, WriteSlotFails, PowerLoss, Reset,
         SlotDecays, Decay, vars, store
<1>5. pc = "program" /\ Newest' = md
  BY <1>2, <1>4, CommitPoint DEF KeptInv
<1>6. cont = "load" /\ ~trial
  BY <1>1, <1>5, Purpose DEF Abandoned, Whole
<1>7. Newest.attempts >= BootLimit /\ ~Owing
  BY <1>1, <1>5, <1>6, Purpose DEF KeptInv, OnTrial, Owing, Mirroring
<1>8. Newest.attempts <= losses
  BY <1>1, <1>7, Numbers DEF KeptInv, PaidFor
<1> QED BY <1>7, <1>8, Numbers DEF KeptInv

(* The attempts of a candidate whose image is whole are paid for by losses. *)
THEOREM Kept == Spec => []KeptInv
BY KeptInit, KeptNext, PTL DEF Spec

(* HealthyKept: a candidate that comes up and whose image is whole is given *)
(* up only after BootLimit losses: accept_boot_success clears the token     *)
(* before it commits, and the attempt is counted before the boot.           *)
THEOREM HealthyIsKept == Spec => HealthyKept
<1>1. KeptInv /\ [Next]_vars => TypeOK'
  BY TypeNext DEF KeptInv, IInv
<1>2. KeptInv /\ [Next]_vars =>
        [Abandoned /\ Candidate \in Healthy /\ flash[Newest.pending] = Candidate
           => losses = BootLimit]_vars
  BY <1>1, GivenUp
<1> QED BY <1>2, Kept, PTL DEF Spec, HealthyKept
=============================================================================
