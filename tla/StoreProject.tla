---------------------------- MODULE StoreProject ----------------------------
(***************************************************************************)
(* A project folder that publishes to the store, and the author, the web   *)
(* site and the network around it.                                         *)
(*                                                                         *)
(* Durable, in the folder: `files' (the listing fields), `base' (the last  *)
(* listing this project is known to contain: .lefony/store-base.json),     *)
(* `jobs' (publication attempts with their remote.json and receipt.json,   *)
(* and saved listing operations), the reviewed `plan' of a pull and the    *)
(* `journal' of its application.  `run' is the command that holds the      *)
(* publication lock, with what it keeps in memory; it may die at any step. *)
(* `wire' holds requests whose answer the client never got: each may still *)
(* reach the service, later and repeatedly.                                *)
(*                                                                         *)
(* Retries send the same request, so they are the step Lose followed by    *)
(* the same exchange again.  Links and identities, media downloads, the    *)
(* withdrawal of releases (which never touches a project's baseline) and   *)
(* the choice of one side that deliberately drops the other are left out.  *)
(***************************************************************************)
EXTENDS StoreService, FiniteSets, FiniteSetsExt

CONSTANTS
  AuthorEdits, \* edits the author makes in the project's files
  LateResume,  \* whether the author resumes an attempt made before a pull or push
  EditsInRollback, \* whether the author edits files while a rollback replaces them
  MaxWire,     \* bound: requests delayed at a time
  None

VARIABLES files, base, jobs, plan, journal, run, wire

project == <<files, base, jobs, plan, journal>>
vars == <<service, project, run, wire>>

Edits == AuthorEdits \cup WebEdits
Content == [Fields -> SUBSET Edits]
BaseName == 0                       \* .lefony/store-base.json, as a file name
Names == Fields \cup {BaseName}

\* What the folder stores: a baseline, a job, a reviewed pull, the journal of a
\* pull that is being applied.
Verdicts == {"none", "gone", "cancelled", "conflict"}
BaseRecord == [rev : Nat, content : Content]
JobRecord == [content : Content, on : Nat, base : Nat \cup {None}, upload : 0..MaxGen,
              receipt : Nat, verdict : Verdicts]
PlanRecord == [rev : Nat, remote : Content, base : BaseRecord \cup {None}, local : Content]
FileValue == BaseRecord \cup {None} \cup SUBSET Edits
JournalRecord == [before : [Names -> FileValue], after : [Names -> FileValue]]

ASSUME StoreAssumption ==
  /\ Fields \subseteq Nat \ {0} /\ IsFiniteSet(Fields) /\ Fields # {}
  /\ Attempts \subseteq Nat /\ Attempts \cap Ops = {}
  /\ WebSite \notin Attempts \cup Ops
  /\ AuthorEdits \cap WebEdits = {}
  /\ MaxGen \in Nat /\ MaxWire \in Nat
  /\ LateResume \in BOOLEAN /\ EditsInRollback \in BOOLEAN

\* None stands for a file that is not there: it is not one of the values.
ASSUME NoneAssumption ==
  /\ None \notin Nat /\ None \notin BaseRecord /\ None \notin JobRecord
  /\ None \notin PlanRecord /\ None \notin JournalRecord

\* a includes everything b says, field by field.
Includes(a, b) == \A f \in Fields : b[f] \subseteq a[f]

Idle == [at |-> "idle", job |-> None, op |-> "resume", num |-> 0,
         then |-> "idle", have |-> {}, todo |-> {}]
Steps == {"idle", "prepare", "record", "query", "lookup", "start", "save", "parts",
          "finish", "cancel", "edit", "receipt", "base", "replace", "check", "rollback"}

StoreInit ==
  /\ \/ history = <<>> /\ base = None
     \/ /\ history = << [by |-> WebSite, content |-> Nothing] >>
        /\ base = [rev |-> 1, content |-> Nothing]
  /\ staged = [a \in Attempts |-> NoUpload]
  /\ files = Nothing
  /\ jobs = [j \in Jobs |-> None]
  /\ plan = None /\ journal = None
  /\ run = Idle /\ wire = {}

(***************************************************************************)
(* Helpers of the commands                                                 *)
(***************************************************************************)
\* pending(): an interrupted pull blocks every other command.
Ready == run = Idle /\ journal = None

\* baseline(): the revision a publication starts from, or None when the
\* listing changed on the web site, or is not recorded here at all.
BaselineUnchecked == IF Revision = 0 \/ base # None THEN Revision ELSE None
Baseline == IF Revision = 0 THEN 0
            ELSE IF base # None /\ base.rev = Revision THEN base.rev
            ELSE None

BaseRev == IF base = None THEN 0 ELSE base.rev

\* A new job: `on' is not in the code, it remembers the baseline the content
\* was written on.
Saved(b) == [content |-> files, on |-> BaseRev, base |-> b, upload |-> 0,
             receipt |-> 0, verdict |-> "none"]

Goto(step) == run' = [run EXCEPT !.at = step]
Finished == run' = Idle
AcceptedNow(r) == run' = [Idle EXCEPT !.at = "receipt", !.job = run.job, !.num = Revision]
Accepted(r) == run' = [Idle EXCEPT !.at = "receipt", !.job = run.job, !.num = r]

\* The command fails with an answer that sends the author to a new attempt.
Fail(verdict) == /\ jobs' = [jobs EXCEPT ![run.job].verdict = verdict]
                 /\ Finished

\* The mutating request the running command is about to send.
Request ==
  LET j == run.job IN
  CASE run.at = "start"  -> {[kind |-> "start", job |-> j, base |-> jobs[j].base,
                              content |-> jobs[j].content]}
    [] run.at = "parts"  -> {[kind |-> "part", job |-> j, gen |-> jobs[j].upload, part |-> p] :
                              p \in Parts \ run.have}
    [] run.at = "finish" -> {[kind |-> "finish", job |-> j, gen |-> jobs[j].upload]}
    [] run.at = "cancel" -> {[kind |-> "cancel", job |-> j, gen |-> jobs[j].upload]}
    [] run.at = "edit"   -> {[kind |-> "edit", job |-> j, base |-> jobs[j].base,
                              content |-> jobs[j].content]}
    [] OTHER -> {}

(***************************************************************************)
(* publish                                                                 *)
(***************************************************************************)
\* The revision is read before the source is selected, and kept in memory.
Publish(a) ==
  /\ Ready /\ jobs[a] = None /\ Baseline # None
  /\ run' = [Idle EXCEPT !.at = "prepare", !.job = a, !.num = Baseline]
  /\ UNCHANGED <<service, project, wire>>

Prepare ==
  /\ run.at = "prepare"
  /\ jobs' = [jobs EXCEPT ![run.job] = Saved(None)]
  /\ Goto("record")
  /\ UNCHANGED <<service, files, base, plan, journal, wire>>

\* publish --dry-run takes no lock and asks the store nothing.
DryRun(a) ==
  /\ jobs[a] = None /\ run.job # a
  /\ jobs' = [jobs EXCEPT ![a] = Saved(None)]
  /\ UNCHANGED <<service, files, base, plan, journal, run, wire>>

\* publish --resume, --status or --cancel of a saved attempt; an attempt
\* without remote.json takes its baseline now, whatever its content was
\* written on: the documentation tells the author to prepare it again.
Reopen(a, op) ==
  /\ Ready /\ jobs[a] # None
  /\ \/ /\ jobs[a].base = None /\ op = "resume" /\ Baseline # None
        /\ LateResume \/ jobs[a].on = Baseline
        /\ run' = [Idle EXCEPT !.at = "record", !.job = a, !.num = Baseline]
     \/ /\ jobs[a].base # None
        /\ run' = [Idle EXCEPT !.job = a, !.op = op,
                               !.at = IF jobs[a].upload = 0 THEN "lookup" ELSE "query"]
  /\ UNCHANGED <<service, project, wire>>

Record ==
  /\ run.at = "record"
  /\ jobs' = [jobs EXCEPT ![run.job].base = run.num]
  /\ run' = [run EXCEPT !.at = "lookup", !.num = 0]
  /\ UNCHANGED <<service, files, base, plan, journal, wire>>

\* The missing chunks are sent one after the other, then the upload is finalized.
Sending(have) == [Idle EXCEPT !.job = run.job,
                              !.at = IF have = Parts THEN "finish" ELSE "parts",
                              !.have = IF have = Parts THEN {} ELSE have]

\* What an upload in state s means for a resumed attempt.
Proceed(s, parts) ==
  CASE s = "uploading"  -> run' = Sending(parts) /\ UNCHANGED jobs
    [] s = "finalizing" -> run' = Sending(Parts) /\ UNCHANGED jobs
    [] OTHER            -> Fail(s)

\* The upload is unknown: a cleaned accepted attempt still has its receipt.
ForgottenGone == Fail("gone")
Forgotten == Goto("lookup") /\ UNCHANGED jobs

Query ==
  /\ run.at = "query"
  /\ LET a == run.job
         s == UploadState(a, jobs[a].upload) IN
     \/ s = "none" /\ Forgotten
     \/ s = "accepted" /\ Accepted(Receipt(a)) /\ UNCHANGED jobs
     \/ /\ s \notin {"none", "accepted"}
        /\ CASE run.op = "status" -> Finished /\ UNCHANGED jobs
             [] run.op = "cancel" -> Goto("cancel") /\ UNCHANGED jobs
             [] OTHER -> Proceed(s, staged[a].parts)
  /\ UNCHANGED <<service, files, base, plan, journal, wire>>

\* The receipts, of attempts and of listing operations.
Lookup ==
  /\ run.at = "lookup"
  /\ LET j == run.job IN
     \/ Receipt(j) # 0 /\ Accepted(Receipt(j)) /\ UNCHANGED jobs
     \/ /\ Receipt(j) = 0
        /\ \/ run.op # "resume" /\ Finished /\ UNCHANGED jobs
           \/ run.op = "resume" /\ jobs[j].upload # 0 /\ Fail("gone")
           \/ /\ run.op = "resume" /\ jobs[j].upload = 0
              /\ Goto(IF j \in Ops THEN "edit" ELSE "start") /\ UNCHANGED jobs
  /\ UNCHANGED <<service, files, base, plan, journal, wire>>

\* The exchanges: the service serves the request and the answer arrives.
Start ==
  /\ run.at = "start"
  /\ \E r \in Request : Serve(r)
  /\ LET a == run.job IN
     run' = IF ReceiptIn(history', a) # 0
            THEN [Idle EXCEPT !.at = "receipt", !.job = a, !.num = ReceiptIn(history', a)]
            ELSE IF staged'[a].state = "none" THEN Idle
            ELSE [run EXCEPT !.at = "save", !.num = staged'[a].gen,
                             !.then = staged'[a].state, !.have = staged'[a].parts]
  /\ UNCHANGED <<project, wire>>

\* The upload ID is saved before anything else is sent.
SaveUpload ==
  /\ run.at = "save"
  /\ LET saved == [jobs EXCEPT ![run.job].upload = run.num] IN
     CASE run.then = "uploading"  -> jobs' = saved /\ run' = Sending(run.have)
       [] run.then = "finalizing" -> jobs' = saved /\ run' = Sending(Parts)
       [] OTHER -> /\ jobs' = [saved EXCEPT ![run.job].verdict = run.then]
                   /\ Finished
  /\ UNCHANGED <<service, files, base, plan, journal, wire>>

Put ==
  /\ run.at = "parts"
  /\ \E r \in Request :
        /\ Serve(r)
        /\ run' = IF StateIn(staged', r.job, r.gen) = "uploading"
                  THEN Sending(run.have \cup {r.part}) ELSE Idle
  /\ UNCHANGED <<project, wire>>

Finish ==
  /\ run.at = "finish"
  /\ \E r \in Request : Serve(r)
  /\ LET s == StateIn(staged', run.job, jobs[run.job].upload) IN
     CASE s = "accepted" -> Accepted(ReceiptIn(history', run.job)) /\ UNCHANGED jobs
       [] s \in {"cancelled", "conflict"} -> Fail(s)
       [] OTHER -> Finished /\ UNCHANGED jobs
  /\ UNCHANGED <<files, base, plan, journal, wire>>

Cancel ==
  /\ run.at = "cancel"
  /\ \E r \in Request : Serve(r)
  /\ LET s == StateIn(staged', run.job, jobs[run.job].upload) IN
     CASE s = "accepted"  -> Accepted(ReceiptIn(history', run.job)) /\ UNCHANGED jobs
       [] s = "cancelled" -> Fail(s)
       [] OTHER -> Finished /\ UNCHANGED jobs
  /\ UNCHANGED <<files, base, plan, journal, wire>>

\* accepted() and accept(): the receipt first, then the baseline.
WriteReceipt ==
  /\ run.at = "receipt"
  /\ jobs' = [jobs EXCEPT ![run.job].receipt = run.num]
  /\ Goto("base")
  /\ UNCHANGED <<service, files, base, plan, journal, wire>>

\* A receipt older than the baseline leaves it alone.
BaseAlways(j, r) == [rev |-> r, content |-> jobs[j].content]
BaseAfter(j, r) ==
  IF BaseRev <= r THEN [rev |-> r, content |-> jobs[j].content] ELSE base

WriteBase ==
  /\ run.at = "base"
  /\ base' = BaseAfter(run.job, run.num)
  /\ Finished
  /\ UNCHANGED <<service, files, jobs, plan, journal, wire>>

(***************************************************************************)
(* listing push                                                            *)
(***************************************************************************)
\* The operation is saved, with its request ID, before its first request.
Push(o) ==
  /\ Ready /\ jobs[o] = None
  /\ base # None /\ Baseline # None /\ Revision > 0
  /\ files # history[Revision].content
  /\ jobs' = [jobs EXCEPT ![o] = Saved(Baseline)]
  /\ run' = [Idle EXCEPT !.at = "lookup", !.job = o]
  /\ UNCHANGED <<service, files, base, plan, journal, wire>>

ReopenPush(o, op) ==
  /\ Ready /\ jobs[o] # None /\ op # "cancel"
  /\ run' = [Idle EXCEPT !.at = "lookup", !.job = o, !.op = op]
  /\ UNCHANGED <<service, project, wire>>

Edit ==
  /\ run.at = "edit"
  /\ \E r \in Request : Serve(r)
  /\ IF ReceiptIn(history', run.job) # 0
     THEN Accepted(ReceiptIn(history', run.job)) /\ UNCHANGED jobs
     ELSE Fail("conflict")
  /\ UNCHANGED <<files, base, plan, journal, wire>>

(***************************************************************************)
(* listing pull                                                            *)
(***************************************************************************)
Pull ==
  /\ Ready /\ Revision > 0
  /\ BaseRev <= Revision
  /\ plan' = [rev |-> Revision, remote |-> history[Revision].content,
              base |-> base, local |-> files]
  /\ UNCHANGED <<service, files, base, jobs, journal, run, wire>>

\* The three-way merge of one field.  Of a field both sides changed the
\* author keeps the local text once it includes the store's.
KeepsLocal(p, f) ==
  LET a == p.local[f]
      b == p.remote[f] IN
  a = b \/ (p.base # None /\ b = p.base.content[f])
TakesRemote(p, f) ==
  IF p.base # None THEN p.local[f] = p.base.content[f] ELSE p.local[f] = {}
Conflict(p, f) ==
  ~KeepsLocal(p, f) /\ ~TakesRemote(p, f) /\ ~(p.remote[f] \subseteq p.local[f])

Merged(p) == [f \in Fields |-> IF ~KeepsLocal(p, f) /\ TakesRemote(p, f)
                               THEN p.remote[f] ELSE p.local[f]]

\* The baseline a pull records is the store's listing, not the merged one.
BasePulledNext(p) == [rev |-> p.rev + 1, content |-> p.remote]
BasePulled(p) == [rev |-> p.rev, content |-> p.remote]

\* A file of the project, and the files the journal replaces.
File(n) == IF n = BaseName THEN base ELSE files[n]
Changed(before, after) == {n \in Names : before[n] # after[n]}

ApplyPlan ==
  /\ Ready /\ plan # None
  /\ plan.local = files /\ plan.base = base
  /\ Revision = plan.rev
  /\ \A f \in Fields : ~Conflict(plan, f)
  /\ LET before == [n \in Names |-> File(n)]
         after == [n \in Names |-> IF n = BaseName THEN BasePulled(plan) ELSE Merged(plan)[n]] IN
     /\ journal' = [before |-> before, after |-> after]
     /\ run' = [Idle EXCEPT !.at = "replace", !.todo = Changed(before, after)]
  /\ UNCHANGED <<service, files, base, jobs, plan, wire>>

\* The baseline is replaced last and restored first.
LastSorted(todo) == Min(todo)
Last(todo) == IF todo = {BaseName} THEN BaseName ELSE Min(todo \ {BaseName})
First(todo) == IF BaseName \in todo THEN BaseName ELSE Min(todo)

Write(n, value) ==
  IF n = BaseName THEN base' = value /\ UNCHANGED files
                  ELSE files' = [files EXCEPT ![n] = value] /\ UNCHANGED base

\* replace_file(): compared immediately before it is replaced.
NotCompared(n) == TRUE
Untouched(n) == File(n) = journal.before[n]

Replace ==
  /\ run.at = "replace" /\ run.todo # {}
  /\ LET n == Last(run.todo) IN
     \/ /\ Untouched(n)
        /\ Write(n, journal.after[n])
        /\ run' = [run EXCEPT !.todo = @ \ {n}]
     \/ Goto("check") /\ UNCHANGED <<files, base>>    \* changed, or an OSError
  /\ UNCHANGED <<service, jobs, plan, journal, wire>>

Applied ==
  /\ run.at = "replace" /\ run.todo = {}
  /\ \/ journal' = None /\ plan' = None /\ Finished
     \/ Goto("check") /\ UNCHANGED <<journal, plan>>    \* an OSError
  /\ UNCHANGED <<service, files, base, jobs, wire>>

\* listing recover
Recover ==
  /\ run = Idle /\ journal # None
  /\ Goto("check")
  /\ UNCHANGED <<service, project, wire>>

\* Nothing is rolled back when a file is neither what the pull found nor
\* what it wrote.
Restorable(n) == File(n) \in {journal.before[n], journal.after[n]}

RollbackCheck ==
  /\ run.at = "check"
  /\ LET names == Changed(journal.before, journal.after) IN
     IF \A n \in names : Restorable(n)
     THEN run' = [run EXCEPT !.at = "rollback", !.todo = names] ELSE Finished
  /\ UNCHANGED <<service, project, wire>>

Rollback ==
  /\ run.at = "rollback" /\ run.todo # {}
  /\ LET n == First(run.todo) IN
     /\ Write(n, journal.before[n])
     /\ run' = [run EXCEPT !.todo = @ \ {n}]
  /\ UNCHANGED <<service, jobs, plan, journal, wire>>

RolledBack ==
  /\ run.at = "rollback" /\ run.todo = {}
  /\ journal' = None /\ Finished
  /\ UNCHANGED <<service, files, base, jobs, plan, wire>>

(***************************************************************************)
(* The author, the network and the host                                    *)
(***************************************************************************)
AuthorEdit(f, e) ==
  /\ run.at = "rollback" => EditsInRollback
  /\ \A g \in Fields : e \notin files[g]
  /\ \A j \in Jobs : jobs[j] # None => \A g \in Fields : e \notin jobs[j].content[g]
  /\ files' = [files EXCEPT ![f] = @ \cup {e}]
  /\ UNCHANGED <<service, base, jobs, plan, journal, run, wire>>

\* The author writes the store's text of a conflicting field into the local one.
Reconcile(f) ==
  /\ plan # None /\ Conflict(plan, f)
  /\ ~(plan.remote[f] \subseteq files[f])
  /\ files' = [files EXCEPT ![f] = @ \cup plan.remote[f]]
  /\ UNCHANGED <<service, base, jobs, plan, journal, run, wire>>

\* A request gets no answer; it may have been lost, or be served at any time.
Lose ==
  /\ Cardinality(wire) < MaxWire
  /\ \E r \in Request \ wire : wire' = wire \cup {r}
  /\ UNCHANGED <<service, project, run>>

ServeLate ==
  /\ \E r \in wire : Serve(r)
  /\ UNCHANGED <<project, run, wire>>

\* The command gives up, is interrupted or dies.
Stop ==
  /\ run # Idle /\ Finished
  /\ UNCHANGED <<service, project, wire>>

StoreNext ==
  \/ \E a \in Attempts : Publish(a) \/ DryRun(a)
  \/ \E a \in Attempts, op \in {"resume", "status", "cancel"} : Reopen(a, op)
  \/ Prepare \/ Record \/ Query \/ Lookup \/ Start \/ SaveUpload \/ Put
  \/ Finish \/ Cancel \/ WriteReceipt \/ WriteBase
  \/ \E o \in Ops : Push(o)
  \/ \E o \in Ops, op \in {"resume", "status"} : ReopenPush(o, op)
  \/ Edit
  \/ Pull \/ ApplyPlan \/ Replace \/ Applied \/ Recover \/ RollbackCheck \/ Rollback \/ RolledBack
  \/ \E f \in Fields, e \in AuthorEdits : AuthorEdit(f, e)
  \/ \E f \in Fields : Reconcile(f)
  \/ Lose \/ ServeLate \/ Stop
  \/ ServiceNext /\ UNCHANGED <<project, run, wire>>

Spec == StoreInit /\ [][StoreNext]_vars

(***************************************************************************)
(* Properties                                                              *)
(***************************************************************************)
\* Type correctness of the folder, the service and the running command; a
\* recorded baseline names a revision the store really has
\* (store_publish.py baseline, store_listing_sync.py apply_pull).
TypeOK ==
  /\ ServiceTypeOK(Edits)
  /\ files \in Content
  /\ base # None => base.rev \in 1..Revision /\ base.content \in Content
  /\ \A j \in Jobs : jobs[j] # None => jobs[j] \in JobRecord
  /\ run.at \in Steps

\* No revision drops an edit of the revision it replaces, whoever made it:
\* neither an attempt nor a listing operation that was written without a web
\* site edit is ever accepted over it, however its requests are retried,
\* delayed or resumed (the revision captured before the source is selected,
\* store_publish.py publish and baseline, store_mutations.py push).
NoEditLost ==
  \A i \in 2..Revision : Includes(history[i].content, history[i - 1].content)

\* The baseline is the store's listing of its revision, word for word: not
\* the merge of a pull, and not a later revision than the one a receipt is for
\* (store_publish.py accepted, store_listing_sync.py apply_pull).
BaseExact == base # None => base.content = history[base.rev].content

\* The project's files include everything the baseline says the author has
\* seen, also while a pull is applied or rolled back and after either was
\* interrupted: the baseline is replaced last and restored first
\* (store_listing_sync.py apply_pull and rollback).
BaseHonest == base # None => Includes(files, base.content)

\* A receipt.json in an attempt or operation names the revision that very job
\* made, with its content (store_publish.py accepted, store_mutations.py accept).
ReceiptsTrue ==
  \A j \in Jobs : jobs[j] # None /\ jobs[j].receipt # 0 =>
     /\ jobs[j].receipt <= Revision
     /\ history[jobs[j].receipt] = [by |-> j, content |-> jobs[j].content]

\* A job whose author was sent away to prepare a fresh one (staging gone,
\* cancelled, conflict) was not accepted and never will be, whatever requests
\* of it are still on their way (store_publish.py transfer: the receipts are
\* asked before the staging is given up).
VerdictFinal ==
  \A j \in Jobs : jobs[j] # None /\ jobs[j].verdict # "none" => Receipt(j) = 0

\* Reading an old receipt never moves the baseline back; only a rollback does
\* (store_publish.py accepted, store_mutations.py accept).
BaselineForward ==
  [][base # None /\ run.at # "rollback" => base'.rev >= base.rev]_vars

\* No command takes an edit of the author's out of a project file: a pull
\* compares each file immediately before it replaces it, and a rollback stops at
\* a file it does not know (store_listing_sync.py replace_file and rollback).
\* It needs EditsInRollback = FALSE: rollback() checks every file first and then
\* compares each with itself.
UserEditsKept ==
  [][\A f \in Fields : files[f] \cap AuthorEdits \subseteq files'[f]]_vars
=============================================================================
