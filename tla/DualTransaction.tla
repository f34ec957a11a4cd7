----------------------------- MODULE DualTransaction -----------------------------
(***************************************************************************)
(* The restartable NAND transaction: one process executes one reviewed     *)
(* plan against the flash and two redundant journal copies, and may stop   *)
(* between any two flash operations or in the middle of one.  A plan is    *)
(* identified by its contents, so the owner written into a journal is the  *)
(* first job with that plan.                                               *)
(***************************************************************************)
EXTENDS DualContract

VARIABLES
  kind,           \* "physical": the inspected USB media; "offline": a file
  nand,           \* Block -> content
  journal,        \* {0, 1} -> journal copy
  plans,          \* the reviewed plans, one per job
  job,            \* the job being executed, 0 when none is
  pc,             \* where the executor stands
  pos,            \* changes completed, as the executor knows it
  pending,        \* the journal it resumed from says change pos + 1 has begun
  record,         \* the journal record being written
  slot            \* the copy it is being written to

flash  == <<nand, journal>>
engine == <<job, pc, pos, pending, record, slot>>

-----------------------------------------------------------------------------
\* Journal copies.

NoRecord(is) == [is |-> is, owner |-> 0, gen |-> 0, index |-> 0, pending |-> FALSE]
Record(owner, gen, index, pend) ==
  [is |-> "ok", owner |-> owner, gen |-> gen, index |-> index, pending |-> pend]

\* The identity of job j's plan: its mode, backup and changes.
Identity(p) == <<p.mode, p.backup, p.changes>>
Owner(j) ==
  CHOOSE i \in 1..j : /\ Identity(plans[i]) = Identity(plans[j])
                      /\ \A k \in 1..j : Identity(plans[k]) = Identity(plans[j]) => i <= k

ValidSlots == {s \in {0, 1} : journal[s].is = "ok"}
NewestSlot == CHOOSE s \in ValidSlots :
                \A t \in ValidSlots : \/ journal[t].gen < journal[s].gen
                                      \/ journal[t].gen = journal[s].gen /\ t <= s
Newest == journal[NewestSlot]

\* read_transaction_state: a valid copy of another owner is never skipped.
Readable(j) ==
  /\ \A s \in ValidSlots : journal[s].owner = Owner(j)
  /\ ValidSlots # {}
  /\ ValidSlots = {0, 1} /\ journal[0].gen = journal[1].gen => journal[0] = journal[1]

-----------------------------------------------------------------------------
\* Inspection of the whole board before a first write.  What job j's journal
\* says is completed must read as written, everything else as captured.

Changes(j) == plans[j].changes
Targets(j) == {Changes(j)[k].block : k \in 1..Len(Changes(j))}

Expected(j, index) == Promised(plans[j].initial, SubSeq(Changes(j), 1, index))

Matches(j, index, mutable) ==
  \A b \in Block \ mutable : nand[b] = Expected(j, index)[b]

InspectFresh(j) ==
  /\ Matches(j, 0, {})
  /\ journal = plans[j].initialJournal

\* Mutant: the block being replaced is inspected like the others.
InspectNothingPending(j) == Readable(j) /\ Matches(j, Newest.index, {})

\* Mutant: the journal is believed, the board is not read again.
InspectJournalOnly(j) == Readable(j)

InspectResume(j) ==
  /\ Readable(j)
  /\ Matches(j, Newest.index,
             IF Newest.pending THEN {Changes(j)[Newest.index + 1].block} ELSE {})

\* The owners whose journals an initialization or a completed restore may retire.
Accepted(j) ==
  {Owner(j)} \cup
  (IF plans[j].mode \in {"restore", "refresh-dual"}
   THEN {plans[j].initialJournal[s].owner :
           s \in {t \in {0, 1} : plans[j].initialJournal[t].is = "ok"}}
   ELSE {})

OwnJournals(j) == \A s \in ValidSlots : journal[s].owner \in Accepted(j)

InspectInitialize(j) == OwnJournals(j) /\ Matches(j, 0, {})
InspectComplete(j)   == OwnJournals(j) /\ Matches(j, Len(Changes(j)), {})

\* The file executor checks only what the plan does not own, and restarts
\* initialization when every target is untouched.
Preserved(j) == \A b \in Block \ Targets(j) : nand[b] = plans[j].initial[b]
Untouched(j) == \A b \in Targets(j) : nand[b] = plans[j].initial[b]

CanResume(j) ==
  IF kind = "physical" THEN InspectResume(j) ELSE Preserved(j) /\ Readable(j)
CanInitialize(j) ==
  IF kind = "physical" THEN InspectInitialize(j)
  ELSE Preserved(j) /\ ~Readable(j) /\ Untouched(j)
CanStart(j) == IF kind = "physical" THEN InspectFresh(j) ELSE Preserved(j)
\* Mutant: a restore that lost its journals is never recognized as complete.
NeverComplete(j) == FALSE

CanComplete(j) ==
  /\ plans[j].mode = "restore"
  /\ IF kind = "physical" THEN InspectComplete(j)
     ELSE ~Readable(j) /\ Matches(j, Len(Changes(j)), {})

-----------------------------------------------------------------------------
\* Barriers before a change of a phase that gives up the previous way to boot.

RoutePhases == {"stage-recovery", "redirect-rom"}
DataPhases  == {"restore-hp-system", "migrate-data", "stage-images", "commit-layout"}

Done(j, phases) ==
  \A k \in 1..Len(Changes(j)) :
    Changes(j)[k].phase \in phases => nand[Changes(j)[k].block] = Changes(j)[k].after

RoutesAsCaptured(j, blocks) == \A b \in blocks : nand[b] = plans[j].initial[b]

RecoveryBarrier(j) ==
  /\ Done(j, RoutePhases)
  /\ RoutesVerify(nand)
  /\ kind = "physical" =>
       RoutesAsCaptured(j, (Control \cup DOMAIN Stream) \ Targets(j))

RestoreBarrier(j, phase) ==
  /\ IF kind = "physical" THEN \A b \in Layout : nand[b] = Blank ELSE ~Committed(nand)
  /\ phase = "restore-data" => RoutesAsCaptured(j, Control \cup DOMAIN Stream)
  /\ phase = "restore-rom"  => RoutesAsCaptured(j, DOMAIN Stream)
  /\ phase \in {"restore-rom", "restore-cleanup"} => Done(j, {"restore-data"})
  /\ phase = "restore-cleanup" => Done(j, {"restore-rom"})

Barrier(j, phase) ==
  /\ phase \in DataPhases => RecoveryBarrier(j)
  /\ phase \in {"restore-data", "restore-rom", "restore-cleanup"} => RestoreBarrier(j, phase)

-----------------------------------------------------------------------------
\* The executor.

Goto(label) == pc' = label
Refuse == Goto("refused") /\ UNCHANGED <<job, pos, pending, record, slot>>

\* Engine.prepare follows: restore and refresh start over a board whose
\* journals belong to the installation they replace.
Start(j, resume) ==
  /\ pc = "idle"
  /\ job' = j
  /\ Goto(IF resume
          THEN IF CanComplete(j) THEN "final"
               ELSE IF CanResume(j) THEN "begin"
               ELSE IF CanInitialize(j) THEN "clear0" ELSE "refused"
          ELSE IF ~CanStart(j) THEN "refused"
               ELSE IF plans[j].mode \in {"restore", "refresh-dual"} THEN "clear0"
               ELSE "prepare")
  /\ UNCHANGED <<kind, nand, journal, plans, pos, pending, record, slot>>

\* Erasing both copies before a plan starts, and after a restore completed.
EraseJournal(from, s, to) ==
  /\ pc = from
  /\ journal' = [journal EXCEPT ![s] = NoRecord("blank")]
  /\ Goto(to)
  /\ UNCHANGED <<nand, plans, job, pos, pending, record, slot>>

ClearJournals ==
  \/ EraseJournal("clear0", 0, "clear1")
  \/ EraseJournal("clear1", 1, "prepare")

\* Mutant: only the first copy is retired.
RetireFirst == EraseJournal("retire0", 0, "verified")

RetireJournals ==
  \/ EraseJournal("retire0", 0, "retire1")
  \/ EraseJournal("retire1", 1, "verified")

Prepare ==
  /\ pc = "prepare"
  /\ IF /\ \A s \in {0, 1} : journal[s].is = "blank"
        /\ \A k \in 1..Len(Changes(job)) : nand[Changes(job)[k].block] = Changes(job)[k].before
     THEN /\ Goto("saving")
          /\ record' = Record(Owner(job), 1, 0, FALSE)
          /\ slot' = 0
          /\ UNCHANGED <<job, pos, pending>>
     ELSE Refuse
  /\ UNCHANGED <<nand, journal, plans>>

\* _save: the older copy is erased, then programmed; its peer stays as it is.
\* Mutant: the newest copy is the one overwritten.
SaveOverNewest(index, pend) ==
  /\ record' = Record(Owner(job), Newest.gen + 1, index, pend)
  /\ slot' = NewestSlot
  /\ journal' = [journal EXCEPT ![NewestSlot] = NoRecord("blank")]
  /\ Goto("saving")

Save(index, pend) ==
  /\ record' = Record(Owner(job), Newest.gen + 1, index, pend)
  /\ slot' = 1 - NewestSlot
  /\ journal' = [journal EXCEPT ![1 - NewestSlot] = NoRecord("blank")]
  /\ Goto("saving")

\* The second half of every journal write.  The initial record goes to both
\* copies, which are blank by then.
ProgramCopy ==
  /\ pc = "saving"
  /\ journal' = [journal EXCEPT ![slot] = record]
  /\ IF record.gen = 1 /\ slot = 0
     THEN slot' = 1 /\ UNCHANGED <<pc, pos>>
     ELSE /\ Goto(IF record.gen = 1 THEN "begin" ELSE IF record.pending THEN "write" ELSE "check")
          /\ pos' = record.index
          /\ UNCHANGED slot
  /\ UNCHANGED <<nand, plans, job, pending, record>>

\* Engine.run reads the journal and every completed block before it goes on.
Begin ==
  /\ pc = "begin"
  /\ IF Readable(job) /\ Matches(job, Newest.index, Block \ {Changes(job)[k].block : k \in 1..Newest.index})
     THEN /\ pos' = Newest.index
          /\ pending' = Newest.pending
          /\ Goto("check")
          /\ UNCHANGED <<job, record, slot>>
     ELSE Refuse
  /\ UNCHANGED <<nand, journal, plans>>

Current == Changes(job)[pos + 1]

\* The next change: its barrier, its before-image unless the journal already
\* says it has begun, and the pending record.
Check ==
  /\ pc = "check"
  /\ IF pos = Len(Changes(job))
     THEN Goto("final") /\ UNCHANGED <<journal, job, pos, pending, record, slot>>
     ELSE IF ~Barrier(job, Current.phase) THEN Refuse /\ UNCHANGED journal
     ELSE IF pending
          THEN Goto("write") /\ pending' = FALSE /\ UNCHANGED <<journal, job, pos, record, slot>>
     ELSE IF nand[Current.block] # Current.before THEN Refuse /\ UNCHANGED journal
     ELSE Save(pos, TRUE) /\ UNCHANGED <<job, pos, pending>>
  /\ UNCHANGED <<nand, plans>>

\* A block that already reads as wanted is not erased again.
WriteBlock ==
  /\ pc = "write"
  /\ IF nand[Current.block] = Current.after
     THEN Goto("advance") /\ UNCHANGED nand
     ELSE nand' = [nand EXCEPT ![Current.block] = Blank] /\ Goto("program")
  /\ UNCHANGED <<journal, plans, job, pos, pending, record, slot>>

ProgramBlock ==
  /\ pc = "program"
  /\ nand' = [nand EXCEPT ![Current.block] = Current.after]
  /\ Goto("advance")
  /\ UNCHANGED <<journal, plans, job, pos, pending, record, slot>>

Advance ==
  /\ pc = "advance"
  /\ Save(pos + 1, FALSE)
  /\ UNCHANGED <<nand, plans, job, pos, pending>>

\* The last reading covers every block.  A restore then retires the journals;
\* an installation keeps them as the proof of what it completed.
Final ==
  /\ pc = "final"
  /\ IF Matches(job, Len(Changes(job)), {})
     THEN /\ Goto(IF plans[job].mode = "restore" THEN "retire0" ELSE "verified")
          /\ UNCHANGED <<job, pos, pending, record, slot>>
     ELSE Refuse
  /\ UNCHANGED <<nand, journal, plans>>

Execute ==
  /\ UNCHANGED kind
  /\ \/ ClearJournals \/ RetireJournals \/ Prepare \/ ProgramCopy
     \/ Begin \/ Check \/ WriteBlock \/ ProgramBlock \/ Advance \/ Final

\* The cable, the calculator or the tool stops: what was being erased or
\* programmed is left as it was, undecodable, or with a prefix of its pages.
TornCopy ==
  CASE pc \in {"clear0", "retire0"} -> {0}
    [] pc \in {"clear1", "retire1"} -> {1}
    [] pc = "saving"                -> {slot}
    [] OTHER                        -> {}

TornBlock ==
  CASE pc = "write" /\ nand[Current.block] # Current.after -> {Torn}
    [] pc = "program" -> {Torn} \cup (IF Current.block \in DOMAIN Stream /\ Current.after # Blank
                                     THEN {Short(Current.after)} ELSE {})
    [] OTHER -> {}

Idle == /\ job' = 0 /\ pc' = "idle" /\ pos' = 0 /\ pending' = FALSE
        /\ record' = NoRecord("blank") /\ slot' = 0

Stop ==
  /\ pc \notin {"idle", "refused"}
  /\ \/ UNCHANGED flash
     \/ \E s \in TornCopy : /\ journal' = [journal EXCEPT ![s] = NoRecord("torn")]
                            /\ UNCHANGED nand
     \/ \E c \in TornBlock : /\ nand' = [nand EXCEPT ![Current.block] = c]
                             /\ UNCHANGED journal
  /\ Idle
  /\ UNCHANGED <<kind, plans>>
=============================================================================
