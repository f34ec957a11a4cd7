------------------------------- MODULE DualSession -------------------------------
(***************************************************************************)
(* The companion service around the transaction: reviews captured from the *)
(* board, single-use approvals, one lock, jobs that stop and are resumed,  *)
(* and the calculator that may be used whenever no job holds it in its RAM *)
(* recovery loader.                                                        *)
(***************************************************************************)
EXTENDS DualTransaction, FiniteSets

CONSTANTS
  Scenario,       \* the boards a behaviour may start from
  Kinds,          \* the media it may run on
  MaxJobs, MaxFaults             \* bounds: reviews; interruptions and uses

ASSUME BoundAssumption == /\ Scenario \subseteq {"stock-hp", "lefony-menu1", "dual"}
                          /\ Kinds \subseteq {"physical", "offline"}
                          /\ {MaxJobs, MaxFaults} \subseteq Nat

VARIABLES
  source,         \* the source profile of the configured bundle
  sessions,       \* state.json and operation directory of each job
  lock,           \* the job whose process holds the service lock, 0 when none
  faults          \* interruptions and uses so far

host == <<source, sessions, lock, faults>>
vars == <<kind, nand, journal, plans, job, pc, pos, pending, record, slot, host>>

Jobs == 1..Len(plans)
Action == [j \in Jobs |-> sessions[j].action]

-----------------------------------------------------------------------------
Board(scenario) == CASE scenario = "stock-hp"     -> StockBoard
                     [] scenario = "lefony-menu1" -> LegacyBoard
                     [] scenario = "dual"         -> DualBoard(1)

\* A dual board keeps the journals of the transaction that installed it.
Init ==
  /\ source \in Scenario /\ kind \in Kinds
  /\ nand = Board(source)
  /\ journal = [s \in {0, 1} |-> IF source = "dual" THEN Record(0, s + 1, 0, FALSE)
                                                     ELSE NoRecord("blank")]
  /\ plans = <<>> /\ sessions = <<>>
  /\ job = 0 /\ pc = "idle" /\ pos = 0 /\ pending = FALSE
  /\ record = NoRecord("blank") /\ slot = 0
  /\ lock = 0 /\ faults = 0

-----------------------------------------------------------------------------
\* Reviews.  The board is captured whole; an installation accepts only the
\* source its bundle was prepared from, a restore and a refresh only a board
\* whose ROM routes all verify.

JournalsBlank == \A s \in {0, 1} : journal[s].is = "blank"

LegacySource ==
  /\ JournalsBlank
  /\ \A b \in Control \cup {"sys"} : nand[b].is = "legacy"
  /\ \A b \in DOMAIN Stream \cup Layout : nand[b] = Blank

CompletedOwner ==
  /\ ValidSlots = {0, 1}
  /\ ~Newest.pending
  /\ journal[0].owner = journal[1].owner
  /\ Newest.owner # 0 => /\ plans[Newest.owner].mode = "refresh-dual"
                         /\ Newest.index = Len(plans[Newest.owner].changes)
                         /\ \A k \in 1..Newest.index :
                              LET c == plans[Newest.owner].changes[k] IN nand[c.block] = c.after

Reviewable(action) ==
  CASE action = "install" /\ source = "stock-hp"     -> nand = StockBoard /\ JournalsBlank
    [] action = "install" /\ source = "lefony-menu1" -> LegacySource
    [] action = "restore-original"                   -> source # "dual" /\ RoutesVerify(nand)
    [] action = "restore-hp"                         -> source = "lefony-menu1" /\ RoutesVerify(nand)
    [] action = "refresh" -> /\ source = "dual" /\ RoutesVerify(nand)
                             /\ LoaderBoots(nand) /\ CompletedOwner
    [] OTHER -> FALSE

Backup(action) ==
  IF action = "restore-hp" THEN StockBoard ELSE IF action = "restore-original" THEN Board(source) ELSE nand

Reviewed(action) ==
  LET changes == CASE action = "install" /\ source = "stock-hp" -> MigratePlan(nand)
                   [] action = "install" /\ source # "stock-hp" -> AddHpPlan(nand)
                   [] action = "refresh"                        -> RefreshPlan(nand)
                   [] OTHER                                     -> RestorePlan(nand, Backup(action))
      mode == CASE action = "install" -> IF source = "stock-hp" THEN "migrate" ELSE "add-hp"
                [] action = "refresh" -> "refresh-dual"
                [] OTHER              -> "restore"
  IN  [mode |-> mode, backup |-> Backup(action), changes |-> changes,
       initial |-> nand, initialJournal |-> journal]

NewSession(action, state) ==
  [action |-> action, state |-> state, used |-> FALSE,
   dir |-> "absent", snap |-> "none", confirmed |-> {}, alone |-> TRUE]

Review(action) ==
  /\ lock = 0 /\ Len(plans) < MaxJobs
  /\ Reviewable(action)
  /\ kind = "offline" => \A j \in Jobs : sessions[j].state = "verified"
  /\ Reviewed(action).changes # <<>>
  /\ plans' = Append(plans, Reviewed(action))
  /\ sessions' = Append(sessions, NewSession(action, "review"))
  /\ UNCHANGED <<kind, nand, journal, engine, source, lock, faults>>

-----------------------------------------------------------------------------
\* Running and resuming.  Once a job touches the board no other job's capture
\* describes it any more ("alone" records that nobody did since the review).

\* Mutant: jobs are numbered from zero in one place.
TakesNext(j, changed) ==
  /\ lock' = j + 1
  /\ sessions' = [t \in DOMAIN sessions |->
                    IF t = j THEN changed ELSE [sessions[t] EXCEPT !.alone = FALSE]]

Takes(j, changed) ==
  /\ lock' = j
  /\ sessions' = [t \in DOMAIN sessions |->
                    IF t = j THEN changed ELSE [sessions[t] EXCEPT !.alone = FALSE]]

\* An approval lasts five minutes; one that expires is never given, which the
\* model allows of any review.
Approve(j) ==
  /\ lock = 0
  /\ sessions[j].state = "review" /\ ~sessions[j].used
  /\ Takes(j, [sessions[j] EXCEPT !.state = "working", !.used = TRUE])
  /\ UNCHANGED <<kind, nand, journal, plans, engine, source, faults>>

\* The operation directory, then the retained review inside it, then the board.
MakeDirectory ==
  /\ lock # 0 /\ pc = "idle" /\ sessions[lock].dir = "absent"
  /\ sessions' = [sessions EXCEPT ![lock].dir = "empty"]
  /\ UNCHANGED <<kind, nand, journal, plans, engine, source, lock, faults>>

Launch ==
  /\ lock # 0 /\ sessions[lock].dir = "empty"
  /\ Start(lock, FALSE)
  /\ sessions' = [sessions EXCEPT ![lock].dir = "reviewed"]
  /\ UNCHANGED <<source, lock, faults>>

\* A directory without its review cannot be resumed: reading it fails.  A file
\* session works on its own copy of a finished one, so only the newest has this.
Resumable == {"reconnect"} \cup (IF kind = "offline" THEN {"verified"} ELSE {})

Resume(j) ==
  /\ lock = 0 /\ sessions[j].used /\ sessions[j].state \in Resumable
  /\ kind = "offline" => j = Len(plans)
  /\ \/ /\ sessions[j].dir = "absent"
        /\ Takes(j, [sessions[j] EXCEPT !.state = "working"])
        /\ UNCHANGED <<kind, nand, journal, plans, engine>>
     \/ /\ sessions[j].dir = "reviewed"
        /\ Takes(j, [sessions[j] EXCEPT !.state = "working"])
        /\ Start(j, TRUE)
     \/ /\ sessions[j].dir = "empty"
        /\ sessions' = [sessions EXCEPT ![j].state = "reconnect"]
        /\ UNCHANGED <<kind, nand, journal, plans, engine, lock>>
  /\ UNCHANGED <<source, faults>>

Step == Execute /\ UNCHANGED host

\* The retained readback: written once, compared through a second file by a
\* resumed installation, through its digest by a restore.
Snapshot ==
  /\ pc = "verified"
  /\ LET snap == sessions[job].snap
     IN  \/ /\ snap = "none" \/ plans[job].mode = "restore" \/ kind = "offline"
            /\ Goto("qualify") /\ sessions' = [sessions EXCEPT ![job].snap = "final"]
         \/ /\ kind = "physical" /\ snap = "final" /\ plans[job].mode \in {"migrate", "add-hp"}
            /\ Goto("qualify") /\ sessions' = [sessions EXCEPT ![job].snap = "both"]
         \/ /\ kind = "physical"
            /\ \/ snap = "both" /\ plans[job].mode \in {"migrate", "add-hp"}
               \/ snap = "final" /\ plans[job].mode = "refresh-dual"
            /\ Goto("refused") /\ UNCHANGED sessions
  /\ UNCHANGED <<kind, nand, journal, plans, job, pos, pending, record, slot, source, lock, faults>>

Qualify ==
  /\ pc = "qualify"
  /\ sessions' = [sessions EXCEPT ![job].snap = "final", ![job].state = "verified"]
  /\ lock' = 0
  /\ Idle
  /\ UNCHANGED <<kind, nand, journal, plans, source, faults>>

Refused ==
  /\ pc = "refused"
  /\ sessions' = [sessions EXCEPT ![job].state =
                    IF kind = "offline" THEN "recovery-required" ELSE "reconnect"]
  /\ lock' = 0
  /\ Idle
  /\ UNCHANGED <<kind, nand, journal, plans, source, faults>>

\* The calculator, the cable or the companion fails.  A job left "working" by a
\* companion that died is "reconnect" to the next one that looks (current_state),
\* and both are resumed alike, so the model does not tell them apart.
Interrupt ==
  /\ lock # 0 /\ faults < MaxFaults
  /\ \/ Stop
     \/ pc = "idle" /\ UNCHANGED <<kind, nand, journal, plans, engine>>
  /\ sessions' = [sessions EXCEPT ![lock].state = "reconnect"]
  /\ lock' = 0
  /\ faults' = faults + 1
  /\ UNCHANGED <<source>>

-----------------------------------------------------------------------------
\* The calculator outside its recovery loader.

ExpectedBoots(j) ==
  CASE sessions[j].action = "install" -> {"lefony", "hp"}
    [] sessions[j].action = "restore-original" /\ source = "lefony-menu1" -> {"lefony"}
    [] OTHER -> {"hp"}

Confirm(j, os) ==
  /\ lock = 0
  /\ sessions[j].state = "verified" /\ sessions[j].action # "refresh"
  /\ os \in ExpectedBoots(j) \ sessions[j].confirmed
  /\ os = "lefony" => Boot(nand) = (IF sessions[j].action = "install" THEN "dual" ELSE "legacy")
  /\ LET confirmed == sessions[j].confirmed \cup {os}
     IN  sessions' = [sessions EXCEPT
           ![j].confirmed = confirmed,
           ![j].state = IF confirmed = ExpectedBoots(j) THEN "complete" ELSE "verified"]
  /\ UNCHANGED <<kind, nand, journal, plans, engine, source, lock, faults>>

\* Whatever boots writes to its own data.
Use(b) ==
  /\ lock = 0 /\ kind = "physical" /\ faults < MaxFaults
  /\ \/ Boot(nand) = "dual" /\ nand' = [nand EXCEPT ![b] = Of("dual", nand[b].n + 1)]
     \/ /\ Boot(nand) \in {"stock", "legacy"}
        /\ nand' = [nand EXCEPT ![b] = Of(nand[b].is, nand[b].n + 1)]
  /\ sessions' = [t \in DOMAIN sessions |-> [sessions[t] EXCEPT !.alone = FALSE]]
  /\ faults' = faults + 1
  /\ UNCHANGED <<kind, journal, plans, engine, source, lock>>

Next ==
  \/ \E action \in {"install", "restore-original", "restore-hp", "refresh"} : Review(action)
  \/ \E j \in Jobs : Approve(j) \/ Resume(j)
  \/ MakeDirectory \/ Launch \/ Step \/ Snapshot \/ Qualify \/ Refused
  \/ Interrupt
  \/ \E j \in Jobs, os \in {"lefony", "hp"} : Confirm(j, os)
  \/ \E b \in UserData : Use(b)

Spec == Init /\ [][Next]_vars

\* The operator keeps reconnecting a job that stopped; a process that holds the
\* lock goes on.  Interruptions are bounded by MaxFaults.
FairSpec ==
  /\ Spec
  /\ WF_vars(MakeDirectory \/ Launch \/ Step \/ Snapshot \/ Qualify \/ Refused)
  /\ \A j \in 1..MaxJobs : WF_vars(j \in Jobs /\ Resume(j))

-----------------------------------------------------------------------------
(***************************************************************************)
(* Properties.                                                             *)
(***************************************************************************)

Contents == [is : System \cup {"blank", "torn", "short"}, n : 0..(MaxJobs + MaxFaults + 1)]
Copies   == [is : {"ok", "blank", "torn"}, owner : 0..MaxJobs, gen : Nat,
             index : 0..Cardinality(Block), pending : BOOLEAN]

\* Every variable has its type.
TypeOK ==
  /\ nand \in [Block -> Contents]
  /\ journal \in [{0, 1} -> Copies] /\ record \in Copies
  /\ DOMAIN plans = DOMAIN sessions /\ job \in 0..Len(plans) /\ lock \in 0..Len(plans)
  /\ pos \in 0..Cardinality(Block) /\ pending \in BOOLEAN /\ slot \in {0, 1}

\* Whatever was interrupted, by whom and how often, a reset finds something
\* whole to boot: never no route, never a system started over another one's
\* data, and never a loader made of two releases.  (A refresh of an installed
\* loader is excepted from the last: RefreshRouteKept.)
BootsWhole ==
  /\ Boot(nand) \notin {"none", "broken"}
  /\ source # "dual" => Boot(nand) # "mixed"

\* The comment in prime_dual_refresh.plan: "Every prefix retains a ROM route."
RefreshRouteKept == Boot(nand) \notin {"none", "broken", "mixed"}

\* A journal never runs ahead of the flash, and no block changes without it:
\* while only its own job has touched the board, what it calls done reads as
\* written, what comes later as captured, and the next change too unless it is
\* recorded as begun.  (A restore that reads complete only has its journals left
\* to retire, whatever they say.)
JournalTruthful ==
  \A j \in Jobs :
    sessions[j].alone /\ sessions[j].used /\ Readable(j) /\ ~CanComplete(j) =>
      \A k \in 1..Len(Changes(j)) :
        LET c == Changes(j)[k]
        IN  /\ k <= Newest.index => nand[c.block] = c.after
            /\ k > Newest.index + 1 => nand[c.block] = c.before
            /\ k = Newest.index + 1 /\ ~Newest.pending => nand[c.block] = c.before

\* A job nobody else interfered with can always be continued from whatever an
\* interruption left: the inspection of its retained plan accepts the board.
ResumeAccepted ==
  \A j \in Jobs :
    /\ lock = 0 /\ sessions[j].alone /\ sessions[j].state = "reconnect"
    /\ sessions[j].dir # "empty"
    => IF sessions[j].dir = "absent" THEN CanStart(j)
       ELSE CanComplete(j) \/ CanResume(j) \/ CanInitialize(j)

\* A job called verified has left exactly the board its review promised, and
\* that board boots what was asked for; a restored board keeps no journal.
VerifiedBoots ==
  [][\A j \in Jobs :
       sessions[j].state # "verified" /\ sessions'[j].state = "verified" =>
         /\ nand = Promised(plans[j].initial, Changes(j))
         /\ Boot(nand) = (IF plans[j].mode # "restore" THEN "dual"
                          ELSE Backup(sessions[j].action)["sys"].is)
         /\ plans[j].mode = "restore" => nand = plans[j].backup /\ JournalsBlank]_vars

\* A reviewed plan is applied in order, one open block at a time, and never
\* continued over a board that has left it.
RecordedPlan == IF ValidSlots = {} THEN <<>>
                ELSE IF Newest.owner = 0 THEN <<>> ELSE Changes(Newest.owner)
Promises == INSTANCE DualPromise WITH
  flash <- nand, plan <- RecordedPlan, at <- IF RecordedPlan = <<>> THEN 0 ELSE Newest.index,
  Content <- Contents
ImplementsPromise == Promises!Promise

\* An approved job that nobody else interferes with is eventually verified,
\* unless the companion died between making its directory and recording the
\* review in it, or while comparing a second readback.
Stranded(j) ==
  \/ ~sessions[j].alone
  \/ sessions[j].dir = "empty" /\ lock # j
  \/ sessions[j].snap = "both" /\ lock # j
  \/ sessions[j].snap = "final" /\ lock # j /\ plans[j].mode = "refresh-dual"

JobFinishes ==
  \A j \in 1..MaxJobs :
    (j \in Jobs /\ sessions[j].state = "working") ~>
      (j \in Jobs /\ (sessions[j].state \in {"verified", "complete"} \/ Stranded(j)))
=============================================================================
