------------------------ MODULE StoreProject_proofs ------------------------
(***************************************************************************)
(* Theorems about StoreProject, for every set of fields, edits, attempts,  *)
(* operations and chunks, any number of stagings and delayed requests, and *)
(* whatever the author does: type correctness, the inductive invariant of  *)
(* the folder and the service, and what it says of baselines, receipts and *)
(* verdicts.                                                               *)
(*                                                                         *)
(* The invariant rests on three facts about time.  What a job would send   *)
(* (its content, the revision it replaces, its upload) never changes once  *)
(* it is recorded, so a request that arrives late still says what its job  *)
(* says.  The service only grows: revisions are appended, an upload that   *)
(* stopped being live stays so.  And the files the journal may touch are a *)
(* function of the reviewed plan, which nothing changes while it is        *)
(* applied.  Grows states the first two as a relation between two states;  *)
(* every action is shown to be such a step, and a part of the invariant    *)
(* whose own variables an action leaves alone follows from that.           *)
(***************************************************************************)
EXTENDS StoreProject, SequenceTheorems, WellFoundedInduction, TLAPS

(***************************************************************************)
(* The inductive invariant                                                 *)
(***************************************************************************)
States == {"none", "uploading", "finalizing", "accepted", "cancelled", "conflict"}
Live == {"uploading", "finalizing"}
Listing == [by : Jobs \cup {WebSite}, content : Content]
Staging == [gen : 0..MaxGen, state : States, base : Nat, content : Content,
            parts : SUBSET Parts]
Command == [at : Steps, job : Jobs \cup {None}, op : {"resume", "status", "cancel"},
            num : Nat, then : States \cup {"idle"}, have : SUBSET Parts,
            todo : SUBSET Names]

Types ==
  /\ history \in Seq(Listing)
  /\ staged \in [Attempts -> Staging]
  /\ files \in Content
  /\ base \in BaseRecord \cup {None}
  /\ jobs \in [Jobs -> JobRecord \cup {None}]
  /\ plan \in PlanRecord \cup {None}
  /\ run \in Command

\* A revision a job made says what the job says.
HistoryOk ==
  \A i \in 1..Len(history) : history[i].by \in Jobs =>
     /\ jobs[history[i].by] # None
     /\ jobs[history[i].by].base # None
     /\ history[i].content = jobs[history[i].by].content

\* An upload says what its attempt says; beyond its first chunk it is the one
\* the attempt has saved, and it is accepted exactly when there is a receipt.
UploadOk(a) ==
  /\ staged[a].base <= Len(history)
  /\ jobs[a] # None => jobs[a].upload <= staged[a].gen
  /\ staged[a].state # "none" =>
       /\ staged[a].gen > 0
       /\ jobs[a] # None
       /\ staged[a].base = jobs[a].base
       /\ staged[a].content = jobs[a].content
       /\ staged[a].state # "uploading" => staged[a].gen = jobs[a].upload
       /\ (staged[a].state = "accepted") <=> (Receipt(a) # 0)

\* The upload an attempt has saved, if any, is over.
Dead(a) == staged[a].gen = jobs[a].upload => staged[a].state \notin Live

\* A request says what its job says, now and when it arrives.
RequestOk(r) ==
  \E j \in Jobs :
    /\ jobs[j] # None /\ jobs[j].base # None
    /\ \/ /\ j \in Attempts
          /\ r = [kind |-> "start", job |-> j, base |-> jobs[j].base,
                  content |-> jobs[j].content]
       \/ /\ j \in Attempts /\ jobs[j].upload # 0
          /\ \/ \E p \in Parts :
                  r = [kind |-> "part", job |-> j, gen |-> jobs[j].upload, part |-> p]
             \/ r = [kind |-> "finish", job |-> j, gen |-> jobs[j].upload]
             \/ r = [kind |-> "cancel", job |-> j, gen |-> jobs[j].upload]
       \/ /\ j \in Ops
          /\ r = [kind |-> "edit", job |-> j, base |-> jobs[j].base,
                  content |-> jobs[j].content]

\* Job j was not accepted, and nothing it sent can be accepted any more.
Closed(j) ==
  /\ Receipt(j) = 0
  /\ j \in Attempts => jobs[j].upload # 0 /\ Dead(j)
  /\ j \in Ops => jobs[j].base < Len(history)

\* Before its baseline is recorded a job has sent nothing.
JobOk(j) ==
  /\ jobs[j].on <= Len(history)
  /\ jobs[j].base # None => jobs[j].base <= Len(history)
  /\ jobs[j].base = None => /\ j \in Attempts
                            /\ jobs[j].upload = 0 /\ jobs[j].verdict = "none"
                            /\ jobs[j].receipt = 0
  /\ j \in Ops => jobs[j].upload = 0 /\ jobs[j].base >= 1
  /\ jobs[j].receipt # 0 => /\ jobs[j].receipt \in 1..Len(history)
                            /\ history[jobs[j].receipt].by = j
  /\ jobs[j].verdict # "none" => Closed(j)

\* A baseline b is the listing of its revision.
IsListing(b) == b.rev \in 1..Len(history) /\ b.content = history[b.rev].content

PlanOk ==
  /\ plan.rev \in 1..Len(history)
  /\ plan.remote = history[plan.rev].content
  /\ plan.base # None => IsListing(plan.base) /\ plan.base.rev <= plan.rev

\* What the journal of the reviewed plan holds.
Before(p) == [n \in Names |-> IF n = BaseName THEN p.base ELSE p.local[n]]
After(p) == [n \in Names |-> IF n = BaseName THEN BasePulled(p) ELSE Merged(p)[n]]

\* A plan is applied whole or not at all; its baseline goes back first.
JournalOk ==
  /\ run.at \in {"idle", "replace", "check", "rollback"}
  /\ plan # None
  /\ \A f \in Fields : ~Conflict(plan, f)
  /\ journal = [before |-> Before(plan), after |-> After(plan)]
  /\ base \in {plan.base, BasePulled(plan)}
  /\ run.at = "rollback" => BaseName \in run.todo \/ base = plan.base

AttemptSteps == {"query", "start", "save", "parts", "finish", "cancel"}
JobSteps == AttemptSteps \cup {"lookup", "edit", "receipt", "base"}

\* What the running command knows of its job.
RunOk ==
  /\ run.at \in {"replace", "check", "rollback"} => journal # None
  /\ run.at = "prepare" => /\ run.job \in Attempts /\ jobs[run.job] = None
                           /\ run.num = BaseRev
  /\ run.at = "record" => /\ run.job \in Attempts /\ jobs[run.job] # None
                          /\ jobs[run.job].base = None
                          /\ run.num <= Len(history)
  /\ run.at \in JobSteps => /\ run.job \in Jobs /\ jobs[run.job] # None
                           /\ jobs[run.job].base # None
  /\ run.at \in AttemptSteps => run.job \in Attempts
  /\ run.at \in {"query", "parts", "finish", "cancel"} => jobs[run.job].upload # 0
  /\ run.at \in {"start", "save"} => jobs[run.job].upload = 0
  /\ run.at = "lookup" => (jobs[run.job].upload # 0 => Dead(run.job))
  /\ run.at = "save" => run.num \in 1..staged[run.job].gen /\ run.then = "uploading"
  /\ run.at = "edit" => run.job \in Ops
  /\ run.at \in {"receipt", "base"} => /\ run.num \in 1..Len(history)
                                       /\ history[run.num].by = run.job

FolderInv ==
  /\ Types
  /\ HistoryOk
  /\ \A a \in Attempts : UploadOk(a)
  /\ \A r \in wire : RequestOk(r)
  /\ \A j \in Jobs : jobs[j] # None => JobOk(j)
  /\ base # None => IsListing(base)
  /\ plan # None => PlanOk
  /\ journal # None => JournalOk
  /\ RunOk

(***************************************************************************)
(* Lemmas about the operators                                              *)
(***************************************************************************)
LEMMA FieldsFacts ==
  /\ Fields \subseteq Nat /\ 0 \notin Fields /\ Attempts \cap Ops = {}
  /\ WebSite \notin Jobs /\ MaxGen \in Nat
BY StoreAssumption DEF StoreAssumption, Jobs

LEMMA NoneFacts ==
  /\ None \notin Nat /\ None \notin BaseRecord /\ None \notin JobRecord
  /\ None \notin PlanRecord /\ None \notin JournalRecord
BY NoneAssumption DEF NoneAssumption

(* The least element of a set of file names is one of them. *)
LEMMA MinIn ==
  ASSUME NEW S, S \subseteq Nat, S # {}
  PROVE  Min(S) \in S
<1>1. PICK m \in S : \A y \in Nat : <<y, m>> \in OpToRel(<, Nat) => y \notin S
  BY NatLessThanWellFounded, WFMin
<1>2. \A y \in S : m <= y
  <2>1. \A y \in S : ~(y < m)
    BY <1>1, Zenon DEF OpToRel
  <2> QED BY <2>1
<1>3. \E x \in S : \A y \in S : x =< y
  BY <1>2
<1> QED BY <1>3, Zenon DEF Min

(* The receipt of a job is a revision it made, and 0 if it made none. *)
LEMMA ReceiptIs ==
  ASSUME NEW h, h \in Seq(Listing), NEW j
  PROVE  /\ ReceiptIn(h, j) \in 0..Len(h)
         /\ ReceiptIn(h, j) = 0 => \A i \in 1..Len(h) : h[i].by # j
         /\ ReceiptIn(h, j) # 0 => h[ReceiptIn(h, j)].by = j
<1>1. DOMAIN h = 1..Len(h) /\ Len(h) \in Nat
  OBVIOUS
<1>2. CASE \E i \in 1..Len(h) : h[i].by = j
  <2>1. ReceiptIn(h, j) = CHOOSE i \in 1..Len(h) : h[i].by = j
    BY <1>1, <1>2 DEF ReceiptIn
  <2>2. ReceiptIn(h, j) \in 1..Len(h) /\ h[ReceiptIn(h, j)].by = j
    BY <1>2, <2>1
  <2> QED BY <1>1, <2>2
<1>3. CASE ~ \E i \in 1..Len(h) : h[i].by = j
  BY <1>1, <1>3 DEF ReceiptIn
<1> QED BY <1>2, <1>3

(* Revisions of others, added after its own, leave a job's receipt alone. *)
LEMMA ReceiptKept ==
  ASSUME NEW h, h \in Seq(Listing), NEW g, g \in Seq(Listing), NEW j,
         Len(h) <= Len(g), \A i \in 1..Len(h) : g[i] = h[i],
         \A i \in 1..Len(g) : i > Len(h) => g[i].by # j
  PROVE  (ReceiptIn(g, j) # 0) <=> (ReceiptIn(h, j) # 0)
<1>1. Len(h) \in Nat /\ Len(g) \in Nat
  OBVIOUS
<1>2. ReceiptIn(h, j) = 0 => ReceiptIn(g, j) = 0
  <2>1. ASSUME ReceiptIn(h, j) = 0, ReceiptIn(g, j) # 0 PROVE FALSE
    <3>1. ReceiptIn(g, j) \in 1..Len(g) /\ g[ReceiptIn(g, j)].by = j
      BY <1>1, <2>1, ReceiptIs
    <3>2. \A i \in 1..Len(h) : h[i].by # j
      BY <2>1, ReceiptIs
    <3> QED BY <1>1, <3>1, <3>2
  <2> QED BY <2>1
<1>3. ReceiptIn(h, j) # 0 => ReceiptIn(g, j) # 0
  <2>1. ASSUME ReceiptIn(h, j) # 0, ReceiptIn(g, j) = 0 PROVE FALSE
    <3>1. ReceiptIn(h, j) \in 1..Len(h) /\ h[ReceiptIn(h, j)].by = j
      BY <1>1, <2>1, ReceiptIs
    <3>2. \A i \in 1..Len(g) : g[i].by # j
      BY <2>1, ReceiptIs
    <3> QED BY <1>1, <3>1, <3>2
  <2> QED BY <2>1
<1> QED BY <1>2, <1>3

(* Appending a revision keeps the ones before it. *)
LEMMA Appended ==
  ASSUME NEW h, h \in Seq(Listing), NEW e \in Listing
  PROVE  /\ Append(h, e) \in Seq(Listing)
         /\ Len(Append(h, e)) = Len(h) + 1
         /\ \A i \in 1..Len(h) : Append(h, e)[i] = h[i]
         /\ Append(h, e)[Len(h) + 1] = e
OBVIOUS

(***************************************************************************)
(* Steps of the service and of the jobs                                    *)
(***************************************************************************)
\* What the service may make a revision of.
Accepting(j) == IF j \in Attempts THEN staged[j].state = "finalizing"
                ELSE jobs[j].base = Len(history)

\* Revisions are appended, and an upload that is over stays over.
ServiceGrows ==
  /\ Len(history) <= Len(history')
  /\ \A i \in 1..Len(history) : history'[i] = history[i]
  /\ \A i \in 1..Len(history') :
       i > Len(history) /\ history'[i].by \in Jobs => Accepting(history'[i].by)
  /\ \A a \in Attempts :
       /\ staged[a].gen <= staged'[a].gen
       /\ staged[a].gen = staged'[a].gen /\ staged[a].state \notin Live =>
            staged'[a].state \notin Live

\* What a job would send never changes once it is recorded.
JobsGrow ==
  \A j \in Jobs : jobs[j] # None =>
    /\ jobs'[j] # None
    /\ jobs'[j].content = jobs[j].content /\ jobs'[j].on = jobs[j].on
    /\ jobs[j].base # None => jobs'[j].base = jobs[j].base
    /\ jobs[j].upload # 0 => jobs'[j].upload = jobs[j].upload

Grows == ServiceGrows /\ JobsGrow

\* Only receipts and verdicts of the jobs change.
SameRequests ==
  \A j \in Jobs :
    /\ jobs'[j] # None <=> jobs[j] # None
    /\ jobs[j] # None =>
         /\ jobs'[j].content = jobs[j].content /\ jobs'[j].on = jobs[j].on
         /\ jobs'[j].base = jobs[j].base /\ jobs'[j].upload = jobs[j].upload

\* The service's part of the invariant.
ServiceInv ==
  /\ history \in Seq(Listing)
  /\ staged \in [Attempts -> Staging]
  /\ HistoryOk
  /\ \A a \in Attempts : UploadOk(a)

JobsType == jobs \in [Jobs -> JobRecord \cup {None}]

LEMMA JobFields ==
  ASSUME JobsType, NEW j \in Jobs, jobs[j] # None
  PROVE  /\ jobs[j] \in JobRecord
         /\ jobs[j].upload \in Nat /\ jobs[j].on \in Nat /\ jobs[j].receipt \in Nat
         /\ jobs[j].base # None => jobs[j].base \in Nat
         /\ jobs[j].content \in Content
<1>1. jobs[j] \in JobRecord
  BY DEF JobsType
<1> QED BY <1>1, FieldsFacts DEF JobRecord

LEMMA SameGrow == SameRequests => JobsGrow
BY DEF SameRequests, JobsGrow

(* Replacing what is staged for one attempt. *)
LEMMA StagedStep ==
  ASSUME ServiceInv, JobsType, SameRequests, UNCHANGED history,
         NEW a \in Attempts, NEW u \in Staging, staged' = [staged EXCEPT ![a] = u],
         staged[a].gen <= u.gen, u.base <= Len(history),
         staged[a].gen = u.gen /\ staged[a].state \notin Live => u.state \notin Live,
         u.state # "none" =>
           /\ u.gen > 0
           /\ jobs[a] # None
           /\ u.base = jobs[a].base
           /\ u.content = jobs[a].content
           /\ u.state # "uploading" => u.gen = jobs[a].upload
           /\ (u.state = "accepted") <=> (Receipt(a) # 0)
  PROVE  ServiceInv' /\ ServiceGrows
<1> USE DEF ServiceInv
<1>1. /\ a \in Jobs /\ Attempts \subseteq Jobs /\ MaxGen \in Nat
      /\ Len(history) \in Nat /\ Len(history)' = Len(history)
  BY FieldsFacts DEF Jobs
<1>2. \A b \in Attempts : Receipt(b)' = Receipt(b)
  BY DEF Receipt
<1>3. staged' \in [Attempts -> Staging] /\ staged'[a] = u
  OBVIOUS
<1>4. \A b \in Attempts \ {a} : staged'[b] = staged[b]
  OBVIOUS
<1>5. HistoryOk'
  BY <1>1 DEF HistoryOk, SameRequests
<1>6. UploadOk(a)'
  <2>1. jobs[a] # None => jobs[a].upload \in Nat /\ jobs'[a].upload = jobs[a].upload
    BY <1>1, JobFields DEF SameRequests
  <2>2. UploadOk(a) /\ staged[a].gen \in Nat /\ u.gen \in Nat
    BY <1>1 DEF Staging
  <2>3. jobs'[a] # None => jobs'[a].upload <= u.gen
    BY <1>1, <2>1, <2>2 DEF UploadOk, SameRequests
  <2>4. u.state # "none" => jobs'[a] # None /\ u.base = jobs'[a].base
                            /\ u.content = jobs'[a].content
                            /\ (u.state # "uploading" => u.gen = jobs'[a].upload)
    BY <1>1 DEF SameRequests
  <2> QED BY <1>1, <1>2, <1>3, <2>3, <2>4 DEF UploadOk
<1>7. \A b \in Attempts \ {a} : UploadOk(b)'
  BY <1>1, <1>2, <1>4 DEF UploadOk, SameRequests
<1>8. \A b \in Attempts : staged[b].gen \in Nat
  BY <1>1 DEF Staging
<1>9. ServiceGrows
  BY <1>1, <1>3, <1>4, <1>8 DEF ServiceGrows
<1> QED BY <1>3, <1>5, <1>6, <1>7, <1>9

(* Appending a revision that is nobody's upload. *)
LEMMA AppendStep ==
  ASSUME ServiceInv, JobsType, SameRequests, UNCHANGED staged,
         NEW e \in Listing, history' = Append(history, e),
         e.by \notin Attempts,
         e.by \in Jobs => /\ jobs[e.by] # None /\ jobs[e.by].base # None
                          /\ e.content = jobs[e.by].content
                          /\ jobs[e.by].base = Len(history)
  PROVE  ServiceInv' /\ ServiceGrows
<1> USE DEF ServiceInv
<1>1. Attempts \subseteq Jobs /\ MaxGen \in Nat /\ Len(history) \in Nat
  BY FieldsFacts DEF Jobs
<1>2. /\ history' \in Seq(Listing) /\ Len(history') = Len(history) + 1
      /\ \A i \in 1..Len(history) : history'[i] = history[i]
      /\ history'[Len(history) + 1] = e
  BY Appended
<1>3. \A i \in 1..Len(history') : i \in 1..Len(history) \/ i = Len(history) + 1
  BY <1>1, <1>2
<1>4. HistoryOk'
  BY <1>1, <1>2, <1>3 DEF HistoryOk, SameRequests
<1>5. \A a \in Attempts : (Receipt(a)' # 0) <=> (Receipt(a) # 0)
  <2> SUFFICES ASSUME NEW a \in Attempts PROVE (Receipt(a)' # 0) <=> (Receipt(a) # 0)
    OBVIOUS
  <2>1. \A i \in 1..Len(history') : i > Len(history) => history'[i].by # a
    BY <1>1, <1>2, <1>3
  <2>2. /\ history \in Seq(Listing) /\ history' \in Seq(Listing)
        /\ Len(history) <= Len(history')
    BY <1>1, <1>2
  <2>3. (ReceiptIn(history', a) # 0) <=> (ReceiptIn(history, a) # 0)
    BY ONLY <1>2, <2>1, <2>2, ReceiptKept
  <2> QED BY <2>3 DEF Receipt
<1>6. \A a \in Attempts : UploadOk(a)'
  <2> SUFFICES ASSUME NEW a \in Attempts PROVE UploadOk(a)'
    OBVIOUS
  <2>1. a \in Jobs /\ staged[a].base \in Nat
    BY <1>1 DEF Staging
  <2> QED BY <1>1, <1>2, <1>5, <2>1 DEF UploadOk, SameRequests
<1>7. \A a \in Attempts : staged[a].gen \in Nat
  BY <1>1 DEF Staging
<1>8. ServiceGrows
  BY <1>1, <1>2, <1>3, <1>7 DEF ServiceGrows, Accepting
<1> QED BY <1>2, <1>4, <1>6, <1>8

(* A request that says what its job says is served without breaking the     *)
(* service, however late it arrives.                                        *)
LEMMA ServeStep ==
  ASSUME FolderInv, SameRequests, NEW r, RequestOk(r), Serve(r)
  PROVE  ServiceInv' /\ ServiceGrows
<1>1. ServiceInv /\ JobsType
  BY DEF FolderInv, Types, ServiceInv, JobsType
<1>2. PICK j \in Jobs :
        /\ jobs[j] # None /\ jobs[j].base # None
        /\ \/ /\ j \in Attempts
              /\ r = [kind |-> "start", job |-> j, base |-> jobs[j].base,
                      content |-> jobs[j].content]
           \/ /\ j \in Attempts /\ jobs[j].upload # 0
              /\ \/ \E p \in Parts :
                      r = [kind |-> "part", job |-> j, gen |-> jobs[j].upload, part |-> p]
                 \/ r = [kind |-> "finish", job |-> j, gen |-> jobs[j].upload]
                 \/ r = [kind |-> "cancel", job |-> j, gen |-> jobs[j].upload]
           \/ /\ j \in Ops
              /\ r = [kind |-> "edit", job |-> j, base |-> jobs[j].base,
                      content |-> jobs[j].content]
  BY DEF RequestOk
<1>3. /\ jobs[j].content \in Content /\ jobs[j].base \in Nat /\ jobs[j].base <= Len(history)
      /\ r.job = j
  BY <1>1, <1>2, JobFields DEF FolderInv, JobOk
<1>4. CASE UNCHANGED service
  <2>1. CASE Attempts = {}
    BY <1>1, <1>4, <2>1 DEF service, ServiceInv, ServiceGrows, HistoryOk, SameRequests
  <2>2. CASE Attempts # {}
    <3> PICK a \in Attempts : TRUE
      BY <2>2
    <3>1. staged[a] \in Staging /\ staged' = [staged EXCEPT ![a] = staged[a]]
      BY <1>1, <1>4 DEF ServiceInv, service
    <3>2. staged[a].gen <= staged[a].gen /\ UploadOk(a)
      BY <1>1, <3>1, FieldsFacts DEF ServiceInv, Staging
    <3> QED BY <1>1, <1>4, <3>1, <3>2, StagedStep DEF UploadOk, service
  <2> QED BY <2>1, <2>2
<1>5. CASE staged' # staged
  <2>1. /\ UNCHANGED history /\ j \in Attempts
        /\ staged[j] \in Staging /\ UploadOk(j)
    BY <1>1, <1>2, <1>5, FieldsFacts
       DEF Serve, StartUpload, PutPart, FinishUpload, CancelUpload, EditListing, ServiceInv
  <2>2. ASSUME StartUpload(r), r.kind = "start" PROVE ServiceInv' /\ ServiceGrows
    <3> DEFINE u == [gen |-> staged[j].gen + 1, state |-> "uploading", base |-> jobs[j].base,
                     content |-> jobs[j].content, parts |-> {}]
    <3>1. staged' = [staged EXCEPT ![j] = u] /\ staged[j].gen < MaxGen
      BY <1>2, <1>3, <1>5, <2>2 DEF StartUpload
    <3>2. Receipt(j) = 0
      BY <1>3, <1>5, <2>2 DEF StartUpload
    <3>3. u \in Staging /\ staged[j].gen <= u.gen /\ staged[j].gen # u.gen /\ u.gen > 0
      BY <1>3, <2>1, <3>1, FieldsFacts DEF Staging, States
    <3> QED BY <1>1, <1>2, <1>3, <2>1, <3>1, <3>2, <3>3, StagedStep
  <2>3. ASSUME PutPart(r) PROVE ServiceInv' /\ ServiceGrows
    <3> DEFINE u == [staged[j] EXCEPT !.parts = @ \cup {r.part}]
    <3>1. r.part \in Parts
      BY <1>2, <2>3 DEF PutPart
    <3>2. staged' = [staged EXCEPT ![j] = u] /\ staged[j].state = "uploading"
      BY <1>3, <1>5, <2>3 DEF PutPart, UploadState, StateIn
    <3>3. u \in Staging /\ u.gen = staged[j].gen /\ u.base = staged[j].base
          /\ u.content = staged[j].content /\ u.state = "uploading" /\ u.gen <= u.gen
      BY <2>1, <3>1, <3>2, FieldsFacts DEF Staging
    <3> QED BY <1>1, <2>1, <3>2, <3>3, StagedStep DEF UploadOk, Live
  <2>4. ASSUME FinishUpload(r) PROVE ServiceInv' /\ ServiceGrows
    <3> DEFINE u == [staged[j] EXCEPT !.state = "finalizing"]
    <3>1. r.gen = jobs[j].upload
      BY <1>2, <2>4 DEF FinishUpload
    <3>2. staged' = [staged EXCEPT ![j] = u] /\ staged[j].state = "uploading"
          /\ staged[j].gen = jobs[j].upload
      BY <1>3, <1>5, <2>4, <3>1 DEF FinishUpload, UploadState, StateIn
    <3>3. u \in Staging /\ u.gen = staged[j].gen /\ u.base = staged[j].base
          /\ u.content = staged[j].content /\ u.state = "finalizing" /\ u.gen <= u.gen
      BY <2>1, <3>2, FieldsFacts DEF Staging, States
    <3> QED BY <1>1, <2>1, <3>2, <3>3, StagedStep DEF UploadOk, Live
  <2>5. ASSUME CancelUpload(r) PROVE ServiceInv' /\ ServiceGrows
    <3> DEFINE u == [staged[j] EXCEPT !.state = "cancelled"]
    <3>1. r.gen = jobs[j].upload
      BY <1>2, <2>5 DEF CancelUpload
    <3>2. staged' = [staged EXCEPT ![j] = u] /\ staged[j].state \in Live
          /\ staged[j].gen = jobs[j].upload
      BY <1>3, <1>5, <2>5, <3>1 DEF CancelUpload, UploadState, StateIn, Live
    <3>3. u \in Staging /\ u.gen = staged[j].gen /\ u.base = staged[j].base
          /\ u.content = staged[j].content /\ u.state = "cancelled" /\ u.gen <= u.gen
      BY <2>1, <3>2, FieldsFacts DEF Staging, States
    <3> QED BY <1>1, <2>1, <3>2, <3>3, StagedStep DEF UploadOk, Live
  <2> QED BY <1>5, <2>2, <2>3, <2>4, <2>5 DEF Serve, StartUpload, EditListing
<1>6. CASE history' # history
  <2> DEFINE e == [by |-> j, content |-> jobs[j].content]
  <2>1. EditListing(r)
    BY <1>6 DEF Serve, StartUpload, PutPart, FinishUpload, CancelUpload
  <2>2. /\ history' = Append(history, e) /\ UNCHANGED staged
        /\ jobs[j].base = Len(history) /\ j \in Ops
    BY <1>2, <1>6, <2>1 DEF EditListing, Append1, Revision
  <2>3. e \in Listing /\ j \notin Attempts
    BY <1>3, <2>2, FieldsFacts DEF Listing
  <2> HIDE DEF e
  <2>4. e.by = j /\ e.content = jobs[j].content
    BY DEF e
  <2> QED BY <1>1, <1>2, <2>2, <2>3, <2>4, AppendStep
<1> QED BY <1>4, <1>5, <1>6 DEF service

LEMMA ExpireStep ==
  ASSUME FolderInv, UNCHANGED jobs, NEW a \in Attempts, Expire(a)
  PROVE  ServiceInv' /\ ServiceGrows
<1>1. ServiceInv /\ JobsType /\ SameRequests
  BY DEF FolderInv, Types, ServiceInv, JobsType, SameRequests
<1> DEFINE u == [NoUpload EXCEPT !.gen = staged[a].gen]
<1>2. staged[a] \in Staging
  BY <1>1 DEF ServiceInv
<1>3. u \in Staging /\ u.gen = staged[a].gen /\ u.base = 0 /\ u.state = "none"
      /\ u.gen <= u.gen /\ 0 <= Len(history)
  <2>1. Nothing \in Content
    BY DEF Nothing, Content
  <2>2. u = [gen |-> staged[a].gen, state |-> "none", base |-> 0, content |-> Nothing,
             parts |-> {}]
    BY DEF NoUpload
  <2>3. staged[a].gen \in 0..MaxGen /\ staged[a].gen \in Nat /\ Len(history) \in Nat
    BY <1>1, <1>2, FieldsFacts DEF Staging, ServiceInv
  <2> QED BY <2>1, <2>2, <2>3 DEF Staging, States
<1>4. staged' = [staged EXCEPT ![a] = u] /\ UNCHANGED history
  BY DEF Expire
<1> HIDE DEF u
<1> QED BY <1>1, <1>3, <1>4, StagedStep DEF Live

(* The web site's edit is built on the newest revision. *)
LEMMA WebEditStep ==
  ASSUME FolderInv, UNCHANGED jobs, NEW f \in Fields, NEW e \in WebEdits, WebEdit(f, e)
  PROVE  ServiceInv' /\ ServiceGrows
<1>1. ServiceInv /\ JobsType /\ SameRequests
  BY DEF FolderInv, Types, ServiceInv, JobsType, SameRequests
<1> DEFINE c == [history[Revision].content EXCEPT ![f] = @ \cup {e}]
<1>2. history[Revision].content \in Content
  <2>1. history \in Seq(Listing) /\ Len(history) \in Nat /\ Len(history) > 0
    BY <1>1 DEF ServiceInv, WebEdit, Revision
  <2>2. history[Len(history)] \in Listing
    BY <2>1
  <2> QED BY <2>2 DEF Listing, Revision
<1>3. c \in Content
  BY <1>2 DEF Content, Edits
<1>4. [by |-> WebSite, content |-> c] \in Listing
  BY <1>3 DEF Listing
<1>5. history' = Append(history, [by |-> WebSite, content |-> c]) /\ UNCHANGED staged
  BY DEF WebEdit, Append1
<1> HIDE DEF c
<1>6. WebSite \notin Jobs /\ WebSite \notin Attempts
  BY FieldsFacts DEF Jobs
<1>7. [by |-> WebSite, content |-> c].by = WebSite
  OBVIOUS
<1> QED BY <1>1, <1>4, <1>5, <1>6, <1>7, AppendStep

(* The commit of a finalized upload: its content becomes a revision when     *)
(* nothing was published since the revision it names.                       *)
LEMMA CommitStep ==
  ASSUME FolderInv, UNCHANGED jobs, NEW a \in Attempts, Commit(a)
  PROVE  ServiceInv' /\ ServiceGrows
<1>1. ServiceInv /\ JobsType /\ SameRequests
  BY DEF FolderInv, Types, ServiceInv, JobsType, SameRequests
<1>2. /\ staged[a] \in Staging /\ UploadOk(a) /\ staged[a].state = "finalizing"
      /\ a \in Jobs /\ Attempts \subseteq Jobs
  BY <1>1 DEF ServiceInv, Commit, Jobs
<1>3. CASE UNCHANGED history
  <2> DEFINE u == [staged[a] EXCEPT !.state = "conflict"]
  <2>1. staged' = [staged EXCEPT ![a] = u]
    <3>1. history \in Seq(Listing) /\ Len(history) \in Nat
      BY <1>1 DEF ServiceInv
    <3>2. [by |-> a, content |-> staged[a].content] \in Listing
      BY <1>2 DEF Listing, Staging
    <3>3. history' # Append(history, [by |-> a, content |-> staged[a].content])
      BY <1>3, <3>1, <3>2, Appended
    <3> QED BY <3>3 DEF Commit, Append1
  <2>2. u \in Staging /\ u.gen = staged[a].gen /\ u.base = staged[a].base
        /\ u.content = staged[a].content /\ u.state = "conflict" /\ u.gen <= u.gen
    BY <1>2, FieldsFacts DEF Staging, States
  <2> HIDE DEF u
  <2> QED BY <1>1, <1>2, <1>3, <2>1, <2>2, StagedStep DEF UploadOk, Live
<1>4. CASE history' # history
  <2> DEFINE e == [by |-> a, content |-> staged[a].content]
             u == [staged[a] EXCEPT !.state = "accepted"]
  <2>1. /\ history' = Append(history, e) /\ staged' = [staged EXCEPT ![a] = u]
        /\ staged[a].base = Len(history)
    BY <1>4 DEF Commit, Append1, Revision
  <2>2. e \in Listing /\ e.by = a /\ e.content = staged[a].content
    BY <1>2 DEF Listing, Staging
  <2>3. u \in Staging /\ u.gen = staged[a].gen /\ u.base = staged[a].base
        /\ u.content = staged[a].content /\ u.state = "accepted"
    BY <1>2 DEF Staging, States
  <2> HIDE DEF e, u
  <2>4. /\ history' \in Seq(Listing) /\ Len(history') = Len(history) + 1
        /\ \A i \in 1..Len(history) : history'[i] = history[i]
        /\ history'[Len(history) + 1] = e
        /\ history \in Seq(Listing) /\ Len(history) \in Nat
    BY <1>1, <2>1, <2>2, Appended DEF ServiceInv
  <2>5. \A i \in 1..Len(history') : i \in 1..Len(history) \/ i = Len(history) + 1
    BY <2>4
  <2>6. staged' \in [Attempts -> Staging] /\ staged'[a] = u
        /\ \A b \in Attempts \ {a} : staged'[b] = staged[b]
    BY <1>1, <2>1, <2>3 DEF ServiceInv
  <2>7. jobs[a] # None /\ jobs[a].base # None /\ staged[a].content = jobs[a].content
        /\ jobs[a].base = staged[a].base /\ staged[a].gen = jobs[a].upload
    BY <1>2, NoneFacts DEF UploadOk, Staging
  <2>8. HistoryOk'
    <3> SUFFICES ASSUME NEW i \in 1..Len(history'), history'[i].by \in Jobs
                 PROVE  /\ jobs[history'[i].by] # None
                        /\ jobs[history'[i].by].base # None
                        /\ history'[i].content = jobs[history'[i].by].content
      BY DEF HistoryOk
    <3>1. CASE i \in 1..Len(history)
      BY <1>1, <2>4, <3>1 DEF ServiceInv, HistoryOk
    <3>2. CASE i = Len(history) + 1
      BY <2>2, <2>4, <2>7, <3>2
    <3> QED BY <2>5, <3>1, <3>2
  <2>9. Receipt(a)' # 0
    <3>1. history' \in Seq(Listing) /\ Len(history) + 1 \in 1..Len(history')
          /\ history'[Len(history) + 1].by = a
      BY <2>2, <2>4
    <3>2. ReceiptIn(history', a) # 0
      BY ONLY <3>1, ReceiptIs
    <3> QED BY <3>2 DEF Receipt
  <2>10. \A b \in Attempts \ {a} : (Receipt(b)' # 0) <=> (Receipt(b) # 0)
    <3> SUFFICES ASSUME NEW b \in Attempts \ {a}
                 PROVE  (Receipt(b)' # 0) <=> (Receipt(b) # 0)
      OBVIOUS
    <3>1. \A i \in 1..Len(history') : i > Len(history) => history'[i].by # b
      BY <2>2, <2>4, <2>5
    <3>2. Len(history) <= Len(history')
      BY <2>4
    <3>3. (ReceiptIn(history', b) # 0) <=> (ReceiptIn(history, b) # 0)
      BY ONLY <2>4, <3>1, <3>2, ReceiptKept
    <3> QED BY <3>3 DEF Receipt
  <2>11. UploadOk(a)'
    BY <1>2, <2>3, <2>4, <2>6, <2>7, <2>9 DEF UploadOk, Staging
  <2>12. \A b \in Attempts \ {a} : UploadOk(b)'
    <3> SUFFICES ASSUME NEW b \in Attempts \ {a} PROVE UploadOk(b)'
      OBVIOUS
    <3>1. staged[b].base \in Nat /\ UploadOk(b)
      BY <1>1 DEF ServiceInv, Staging
    <3> QED BY <2>4, <2>6, <2>10, <3>1 DEF UploadOk
  <2>13. \A b \in Attempts : staged[b].gen \in Nat
    BY <1>1, FieldsFacts DEF ServiceInv, Staging
  <2>14. Accepting(a)
    BY <1>2 DEF Accepting
  <2>15. ServiceGrows
    <3>1. \A b \in Attempts : staged[b].gen <= staged'[b].gen /\
            (staged[b].state \notin Live => staged'[b].state \notin Live)
      BY <1>2, <2>3, <2>6, <2>13 DEF Live
    <3>2. \A i \in 1..Len(history') : i > Len(history) => history'[i].by = a
      BY <2>2, <2>4, <2>5
    <3> QED BY <2>4, <2>14, <3>1, <3>2 DEF ServiceGrows
  <2> QED BY <2>4, <2>6, <2>8, <2>11, <2>12, <2>15 DEF ServiceInv
<1> QED BY <1>3, <1>4

(***************************************************************************)
(* What such steps keep                                                    *)
(***************************************************************************)
LEMMA RequestKept ==
  ASSUME JobsGrow, NEW r, RequestOk(r) PROVE RequestOk(r)'
<1>1. PICK j \in Jobs :
        /\ jobs[j] # None /\ jobs[j].base # None
        /\ \/ /\ j \in Attempts
              /\ r = [kind |-> "start", job |-> j, base |-> jobs[j].base,
                      content |-> jobs[j].content]
           \/ /\ j \in Attempts /\ jobs[j].upload # 0
              /\ \/ \E p \in Parts :
                      r = [kind |-> "part", job |-> j, gen |-> jobs[j].upload, part |-> p]
                 \/ r = [kind |-> "finish", job |-> j, gen |-> jobs[j].upload]
                 \/ r = [kind |-> "cancel", job |-> j, gen |-> jobs[j].upload]
           \/ /\ j \in Ops
              /\ r = [kind |-> "edit", job |-> j, base |-> jobs[j].base,
                      content |-> jobs[j].content]
  BY DEF RequestOk
<1>2. /\ jobs'[j] # None /\ jobs'[j].content = jobs[j].content
      /\ jobs'[j].base = jobs[j].base /\ jobs'[j].base # None
      /\ jobs[j].upload # 0 => jobs'[j].upload = jobs[j].upload
  BY <1>1 DEF JobsGrow
<1>3. \E i \in Jobs :
        /\ jobs'[i] # None /\ jobs'[i].base # None
        /\ \/ /\ i \in Attempts
              /\ r = [kind |-> "start", job |-> i, base |-> jobs'[i].base,
                      content |-> jobs'[i].content]
           \/ /\ i \in Attempts /\ jobs'[i].upload # 0
              /\ \/ \E p \in Parts :
                      r = [kind |-> "part", job |-> i, gen |-> jobs'[i].upload, part |-> p]
                 \/ r = [kind |-> "finish", job |-> i, gen |-> jobs'[i].upload]
                 \/ r = [kind |-> "cancel", job |-> i, gen |-> jobs'[i].upload]
           \/ /\ i \in Ops
              /\ r = [kind |-> "edit", job |-> i, base |-> jobs'[i].base,
                      content |-> jobs'[i].content]
  BY <1>1, <1>2
<1> QED BY <1>3 DEF RequestOk

(* What the running command sends says what its job says. *)
LEMMA RequestsOk ==
  ASSUME FolderInv, NEW r \in Request PROVE RequestOk(r)
<1>1. RunOk
  BY DEF FolderInv
<1>2. run.at \in {"start", "parts", "finish", "cancel", "edit"}
  BY DEF Request
<1>3. /\ run.job \in Jobs /\ jobs[run.job] # None /\ jobs[run.job].base # None
      /\ run.at # "edit" => run.job \in Attempts
      /\ run.at \in {"parts", "finish", "cancel"} => jobs[run.job].upload # 0
      /\ run.at = "edit" => run.job \in Ops
  BY <1>1, <1>2 DEF RunOk, JobSteps, AttemptSteps
<1>4. CASE run.at = "start"
  BY <1>3, <1>4 DEF Request, RequestOk
<1>5. CASE run.at = "parts"
  BY <1>3, <1>5 DEF Request, RequestOk
<1>6. CASE run.at = "finish"
  BY <1>3, <1>6 DEF Request, RequestOk
<1>7. CASE run.at = "cancel"
  BY <1>3, <1>7 DEF Request, RequestOk
<1>8. CASE run.at = "edit"
  BY <1>3, <1>8 DEF Request, RequestOk
<1> QED BY <1>2, <1>4, <1>5, <1>6, <1>7, <1>8

LEMMA DeadKept ==
  ASSUME FolderInv, ServiceInv', Grows, NEW a \in Attempts, jobs[a] # None,
         jobs[a].upload # 0, Dead(a)
  PROVE  Dead(a)'
<1>1. /\ a \in Jobs /\ UploadOk(a) /\ JobsType
      /\ staged[a] \in Staging /\ staged'[a] \in Staging
  BY DEF FolderInv, Types, ServiceInv, JobsType, Jobs
<1>2. /\ jobs[a].upload \in Nat /\ staged[a].gen \in Nat /\ staged'[a].gen \in Nat
      /\ jobs[a].upload <= staged[a].gen /\ jobs'[a].upload = jobs[a].upload
      /\ staged[a].gen <= staged'[a].gen
  BY <1>1, JobFields, FieldsFacts DEF UploadOk, Staging, Grows, JobsGrow, ServiceGrows
<1>3. staged[a].gen = staged'[a].gen /\ staged[a].state \notin Live =>
        staged'[a].state \notin Live
  BY DEF Grows, ServiceGrows
<1> QED BY <1>2, <1>3 DEF Dead

(* A job that is out of the race stays out of it. *)
LEMMA ClosedKept ==
  ASSUME FolderInv, ServiceInv', Grows, NEW j \in Jobs, jobs[j] # None,
         jobs[j].base # None, Closed(j)
  PROVE  Closed(j)'
<1>1. /\ history \in Seq(Listing) /\ history' \in Seq(Listing) /\ JobsType
      /\ Len(history) \in Nat /\ Len(history') \in Nat /\ Len(history) <= Len(history')
      /\ \A i \in 1..Len(history) : history'[i] = history[i]
  BY DEF FolderInv, Types, ServiceInv, JobsType, Grows, ServiceGrows
<1>2. ~Accepting(j)
  <2>1. CASE j \in Attempts
    BY <2>1 DEF Closed, Dead, Accepting, FolderInv, UploadOk, Live
  <2>2. CASE j \in Ops
    <3>1. jobs[j].base \in Nat
      BY <1>1, JobFields
    <3> QED BY <1>1, <2>2, <3>1, FieldsFacts DEF Closed, Accepting
  <2> QED BY <2>1, <2>2 DEF Jobs
<1>3. \A i \in 1..Len(history') : i > Len(history) => history'[i].by # j
  BY <1>2 DEF Grows, ServiceGrows
<1>4. (ReceiptIn(history', j) # 0) <=> (ReceiptIn(history, j) # 0)
  BY ONLY <1>1, <1>3, ReceiptKept
<1>5. Receipt(j)' = 0
  BY <1>4 DEF Closed, Receipt
<1>6. jobs'[j].base = jobs[j].base /\ jobs[j].base \in Nat
  BY <1>1, JobFields DEF Grows, JobsGrow
<1>7. j \in Ops => jobs'[j].base < Len(history')
  BY <1>1, <1>6 DEF Closed
<1>8. j \in Attempts => jobs'[j].upload # 0 /\ Dead(j)'
  BY DeadKept DEF Closed, Grows, JobsGrow
<1> QED BY <1>5, <1>7, <1>8 DEF Closed

LEMMA JobKept ==
  ASSUME FolderInv, ServiceInv', Grows, NEW j \in Jobs, jobs[j] # None, jobs'[j] = jobs[j]
  PROVE  JobOk(j)'
<1>1. /\ Len(history) \in Nat /\ Len(history') \in Nat /\ Len(history) <= Len(history')
      /\ \A i \in 1..Len(history) : history'[i] = history[i]
      /\ JobsType /\ JobOk(j)
  BY DEF FolderInv, Types, ServiceInv, JobsType, Grows, ServiceGrows
<1>2. jobs[j].on \in Nat /\ jobs[j].receipt \in Nat /\ (jobs[j].base # None => jobs[j].base \in Nat)
  BY <1>1, JobFields
<1>3. jobs[j].verdict # "none" => jobs[j].base # None /\ Closed(j)'
  BY <1>1, ClosedKept DEF JobOk
<1> QED BY <1>1, <1>2, <1>3 DEF JobOk

LEMMA ListingKept ==
  ASSUME FolderInv, ServiceInv', ServiceGrows, NEW b, IsListing(b)
  PROVE  b.rev \in 1..Len(history') /\ b.content = history'[b.rev].content
<1>1. /\ Len(history) \in Nat /\ Len(history') \in Nat /\ Len(history) <= Len(history')
      /\ \A i \in 1..Len(history) : history'[i] = history[i]
  BY DEF FolderInv, Types, ServiceInv, ServiceGrows
<1> QED BY <1>1 DEF IsListing

LEMMA PlanKept ==
  ASSUME FolderInv, ServiceInv', ServiceGrows, UNCHANGED plan, plan # None
  PROVE  PlanOk'
<1>1. /\ Len(history) \in Nat /\ Len(history') \in Nat /\ Len(history) <= Len(history')
      /\ \A i \in 1..Len(history) : history'[i] = history[i]
      /\ PlanOk
  BY DEF FolderInv, Types, ServiceInv, ServiceGrows
<1>2. plan.base # None => IsListing(plan.base)'
  BY <1>1, ListingKept DEF PlanOk, IsListing
<1> QED BY <1>1, <1>2 DEF PlanOk

LEMMA RunKept ==
  ASSUME FolderInv, ServiceInv', Grows, run.job \in Jobs => jobs'[run.job] = jobs[run.job],
         UNCHANGED <<run, base, journal>>
  PROVE  RunOk'
<1>1. /\ history \in Seq(Listing) /\ history' \in Seq(Listing)
      /\ Len(history) \in Nat /\ Len(history') \in Nat /\ Len(history) <= Len(history')
      /\ \A i \in 1..Len(history) : history'[i] = history[i]
      /\ RunOk /\ run.num \in Nat /\ run \in Command
      /\ staged' \in [Attempts -> Staging] /\ staged \in [Attempts -> Staging]
  BY DEF FolderInv, Types, ServiceInv, Grows, ServiceGrows, Command
<1>2. BaseRev' = BaseRev
  BY DEF BaseRev
<1>3. run.at = "lookup" => (jobs[run.job].upload # 0 => Dead(run.job)')
  <2> SUFFICES ASSUME run.at = "lookup", jobs[run.job].upload # 0 PROVE Dead(run.job)'
    OBVIOUS
  <2>1. run.job \in Jobs /\ jobs[run.job] # None /\ JobOk(run.job) /\ Dead(run.job)
    BY <1>1 DEF RunOk, JobSteps, FolderInv
  <2>2. run.job \in Attempts
    BY <2>1 DEF JobOk, Jobs
  <2> QED BY <2>1, <2>2, DeadKept
<1>4. run.at = "save" => run.num \in 1..staged'[run.job].gen
  <2> SUFFICES ASSUME run.at = "save" PROVE run.num \in 1..staged'[run.job].gen
    OBVIOUS
  <2>1. run.job \in Attempts /\ run.num \in 1..staged[run.job].gen
    BY <1>1 DEF RunOk, AttemptSteps
  <2>2. staged[run.job].gen \in Nat /\ staged'[run.job].gen \in Nat
        /\ staged[run.job].gen <= staged'[run.job].gen
    BY <1>1, <2>1, FieldsFacts DEF Staging, Grows, ServiceGrows
  <2> QED BY <2>1, <2>2
<1>5. run.at \in {"prepare", "record"} \cup JobSteps => run.job \in Jobs
  BY <1>1 DEF RunOk, Jobs
<1>6. run.at \in AttemptSteps => run.at \in JobSteps
  BY DEF JobSteps
<1>7. run.at \in {"receipt", "base"} => run.num \in 1..Len(history')
                                       /\ history'[run.num].by = run.job
  BY <1>1 DEF RunOk
<1> QED BY <1>1, <1>2, <1>3, <1>4, <1>5, <1>6, <1>7 DEF RunOk, JobSteps, AttemptSteps

(* While any other command runs nothing is being applied. *)
LEMMA NoJournal ==
  ASSUME FolderInv, run.at \notin {"idle", "replace", "check", "rollback"}
  PROVE  journal = None
BY DEF FolderInv, JournalOk

(* A step of the service, of the network or of a command that moves neither  *)
(* the baseline nor a pull keeps the invariant when it keeps the job it      *)
(* changes and knows what it does.                                           *)
LEMMA CommandStep ==
  ASSUME FolderInv, ServiceInv', Grows, JobsType',
         \A j \in Jobs : jobs'[j] # None /\ jobs'[j] # jobs[j] => JobOk(j)',
         \A r \in wire' : r \in wire \/ r \in Request,
         UNCHANGED <<base, plan, journal>>, files' \in Content,
         run' \in Command, RunOk',
         journal # None => run' = run \/ run'.at \in {"idle", "check"}
  PROVE  FolderInv'
<1>1. Types'
  BY DEF FolderInv, Types, ServiceInv, JobsType
<1>2. \A r \in wire' : RequestOk(r)'
  <2>1. \A r \in wire' : RequestOk(r)
    BY RequestsOk DEF FolderInv
  <2>2. JobsGrow
    BY DEF Grows
  <2> QED BY <2>1, <2>2, RequestKept
<1>3. \A j \in Jobs : jobs'[j] # None => JobOk(j)'
  BY JobKept
<1>4. base' # None => IsListing(base)'
  BY ListingKept DEF FolderInv, IsListing, Grows
<1>5. plan' # None => PlanOk'
  BY PlanKept DEF Grows
<1>6. journal' # None => JournalOk'
  BY DEF FolderInv, JournalOk
<1> QED BY <1>1, <1>2, <1>3, <1>4, <1>5, <1>6 DEF FolderInv, ServiceInv

(* A step that leaves the service, the jobs and the network alone.           *)
LEMMA PullStep ==
  ASSUME FolderInv, UNCHANGED <<service, jobs, wire>>,
         files' \in Content, base' \in BaseRecord \cup {None},
         plan' \in PlanRecord \cup {None}, run' \in Command, RunOk',
         base' # None => IsListing(base'),
         plan' = plan \/ plan' = None \/ PlanOk',
         journal' # None => JournalOk'
  PROVE  FolderInv'
<1>1. UNCHANGED <<history, staged, jobs, wire>>
  BY DEF service
<1>2. Types'
  BY <1>1 DEF FolderInv, Types
<1>3. HistoryOk' /\ (\A a \in Attempts : UploadOk(a)')
  BY <1>1 DEF FolderInv, HistoryOk, UploadOk, Receipt
<1>4. \A r \in wire' : RequestOk(r)'
  BY <1>1, RequestKept DEF FolderInv, JobsGrow
<1>5. \A j \in Jobs : jobs'[j] # None => JobOk(j)'
  BY <1>1 DEF FolderInv, JobOk, Closed, Dead, Receipt
<1>6. base' # None => IsListing(base)'
  BY <1>1 DEF IsListing
<1>7. plan' # None => PlanOk'
  BY <1>1 DEF FolderInv, PlanOk, IsListing
<1> QED BY <1>2, <1>3, <1>4, <1>5, <1>6, <1>7 DEF FolderInv

LEMMA IdleCommand == Idle \in Command /\ Idle.at = "idle"
BY DEF Idle, Command, Steps, States

LEMMA IdleOk == run'.at = "idle" => RunOk'
BY DEF RunOk, JobSteps, AttemptSteps

(***************************************************************************)
(* The invariant holds                                                     *)
(***************************************************************************)
LEMMA NothingContent == Nothing \in Content
BY DEF Nothing, Content

LEMMA FolderInit == StoreInit => FolderInv
<1> SUFFICES ASSUME StoreInit PROVE FolderInv
  OBVIOUS
<1>1. /\ \A j \in Jobs : jobs[j] = None
      /\ \A a \in Attempts : staged[a] = NoUpload /\ a \in Jobs
      /\ plan = None /\ journal = None /\ wire = {} /\ run = Idle
  BY DEF StoreInit, Jobs
<1>2. NoUpload \in Staging
  BY NothingContent, FieldsFacts DEF NoUpload, Staging, States
<1>3. /\ history \in Seq(Listing)
      /\ \A i \in 1..Len(history) : history[i].by = WebSite
      /\ base # None => IsListing(base) /\ base \in BaseRecord
      /\ Len(history) \in Nat
  <2>1. CASE history = <<>> /\ base = None
    BY <2>1
  <2>2. CASE history = << [by |-> WebSite, content |-> Nothing] >>
             /\ base = [rev |-> 1, content |-> Nothing]
    <3>1. [by |-> WebSite, content |-> Nothing] \in Listing
      BY NothingContent DEF Listing
    <3>2. Len(history) = 1 /\ history[1] = [by |-> WebSite, content |-> Nothing]
      BY <2>2
    <3> QED BY <2>2, <3>1, <3>2, NothingContent DEF IsListing, BaseRecord
  <2> QED BY <2>1, <2>2 DEF StoreInit
<1>4. Types
  BY <1>1, <1>2, <1>3, NothingContent, IdleCommand DEF Types, StoreInit
<1>5. HistoryOk
  BY <1>3, FieldsFacts DEF HistoryOk
<1>6. \A a \in Attempts : UploadOk(a)
  BY <1>1, <1>3 DEF UploadOk, NoUpload
<1>7. RunOk
  BY <1>1 DEF RunOk, Idle, JobSteps, AttemptSteps
<1> QED BY <1>1, <1>3, <1>4, <1>5, <1>6, <1>7 DEF FolderInv

(***************************************************************************)
(* Kinds of steps                                                          *)
(***************************************************************************)
LEMMA StutterGrows ==
  ASSUME FolderInv, UNCHANGED <<service, jobs>>
  PROVE  ServiceInv' /\ Grows /\ JobsType'
<1>1. UNCHANGED <<history, staged, jobs>>
  BY DEF service
<1>2. ServiceInv /\ JobsType
  BY DEF FolderInv, Types, ServiceInv, JobsType
<1>3. ServiceInv' /\ JobsType'
  BY <1>1, <1>2 DEF ServiceInv, JobsType, HistoryOk, UploadOk, Receipt
<1>4. Len(history) \in Nat /\ \A a \in Attempts : staged[a].gen \in Nat
  BY <1>2, FieldsFacts DEF ServiceInv, Staging
<1> QED BY <1>1, <1>3, <1>4 DEF Grows, ServiceGrows, JobsGrow

(* What is recorded of one job moves on; the service does nothing.           *)
LEMMA RecordGrows ==
  ASSUME FolderInv, UNCHANGED service,
         NEW j \in Jobs, NEW v \in JobRecord, jobs' = [jobs EXCEPT ![j] = v],
         jobs[j] # None =>
           /\ v.content = jobs[j].content /\ v.on = jobs[j].on
           /\ jobs[j].base # None => v.base = jobs[j].base
           /\ jobs[j].upload # 0 => v.upload = jobs[j].upload,
         j \in Attempts => v.upload <= staged[j].gen
  PROVE  ServiceInv' /\ Grows /\ JobsType'
<1>1. /\ UNCHANGED <<history, staged>> /\ ServiceInv /\ JobsType
      /\ Attempts \subseteq Jobs
  BY DEF service, FolderInv, Types, ServiceInv, JobsType, Jobs
<1>2. /\ jobs' \in [Jobs -> JobRecord \cup {None}] /\ jobs'[j] = v
      /\ \A i \in Jobs \ {j} : jobs'[i] = jobs[i]
  BY <1>1 DEF JobsType
<1>3. v # None
  BY NoneFacts
<1>4. JobsGrow
  BY <1>2, <1>3 DEF JobsGrow
<1>5. HistoryOk'
  BY <1>1, <1>4 DEF ServiceInv, HistoryOk, JobsGrow
<1>6. ASSUME NEW a \in Attempts PROVE UploadOk(a)'
  <2>1. UploadOk(a) /\ staged[a] \in Staging /\ a \in Jobs
    BY <1>1 DEF ServiceInv
  <2>2. staged[a].gen \in Nat /\ staged[a].base \in Nat
    BY <2>1, FieldsFacts DEF Staging
  <2>3. jobs'[a] # None => jobs'[a].upload <= staged[a].gen
    BY <1>2, <2>1 DEF UploadOk
  <2>4. ASSUME staged[a].state # "none"
        PROVE  /\ jobs'[a] # None /\ staged[a].base = jobs'[a].base
               /\ staged[a].content = jobs'[a].content
               /\ staged[a].state # "uploading" => staged[a].gen = jobs'[a].upload
    BY <1>4, <2>1, <2>2, <2>4, NoneFacts DEF UploadOk, JobsGrow
  <2> QED BY <1>1, <2>1, <2>3, <2>4 DEF UploadOk, Receipt
<1>7. Len(history) \in Nat /\ \A a \in Attempts : staged[a].gen \in Nat
  BY <1>1, FieldsFacts DEF ServiceInv, Staging
<1>8. ServiceGrows
  BY <1>1, <1>7 DEF ServiceGrows
<1> QED BY <1>1, <1>2, <1>4, <1>5, <1>6, <1>8 DEF ServiceInv, Grows, JobsType

(* Receipts and verdicts of one job.                                         *)
LEMMA VerdictSame ==
  ASSUME FolderInv, NEW j \in Jobs, jobs[j] # None, NEW v \in Verdicts,
         jobs' = [jobs EXCEPT ![j].verdict = v]
  PROVE  SameRequests /\ JobsType'
<1>1. JobsType /\ jobs[j] \in JobRecord
  BY JobFields DEF FolderInv, Types, JobsType
<1> DEFINE u == [jobs[j] EXCEPT !.verdict = v]
<1>2. u \in JobRecord /\ u.content = jobs[j].content /\ u.on = jobs[j].on
      /\ u.base = jobs[j].base /\ u.upload = jobs[j].upload /\ u # None
  BY <1>1, NoneFacts DEF JobRecord
<1>3. jobs' = [jobs EXCEPT ![j] = u]
  OBVIOUS
<1> HIDE DEF u
<1> QED BY <1>1, <1>2, <1>3 DEF SameRequests, JobsType

(* A command that only moves on.                                             *)
LEMMA RunStep ==
  ASSUME FolderInv, UNCHANGED <<service, project, wire>>, run' \in Command, RunOk',
         journal # None => run' = run \/ run'.at \in {"idle", "check"}
  PROVE  FolderInv'
<1>1. UNCHANGED <<service, files, base, jobs, plan, journal, wire>>
  BY DEF project
<1>2. ServiceInv' /\ Grows /\ JobsType'
  BY <1>1, StutterGrows
<1>3. files' \in Content
  BY <1>1 DEF FolderInv, Types
<1> QED BY <1>1, <1>2, <1>3, CommandStep

(* A command that records something of its job.                              *)
LEMMA RecordStep ==
  ASSUME FolderInv, journal = None,
         UNCHANGED <<service, files, base, plan, journal, wire>>,
         NEW j \in Jobs, NEW v \in JobRecord, jobs' = [jobs EXCEPT ![j] = v],
         jobs[j] # None =>
           /\ v.content = jobs[j].content /\ v.on = jobs[j].on
           /\ jobs[j].base # None => v.base = jobs[j].base
           /\ jobs[j].upload # 0 => v.upload = jobs[j].upload,
         j \in Attempts => v.upload <= staged[j].gen,
         JobOk(j)', run' \in Command, RunOk'
  PROVE  FolderInv'
<1>1. ServiceInv' /\ Grows /\ JobsType'
  BY RecordGrows
<1>2. files' \in Content
  BY DEF FolderInv, Types
<1>3. \A i \in Jobs : jobs'[i] # None /\ jobs'[i] # jobs[i] => JobOk(i)'
  BY DEF FolderInv, Types
<1> QED BY <1>1, <1>2, <1>3, CommandStep

(* The service serves a request of the running command, which then moves on. *)
LEMMA ExchangeStep ==
  ASSUME FolderInv, NEW r \in Request, Serve(r), journal = None,
         UNCHANGED <<files, base, plan, journal, wire>>,
         SameRequests, JobsType',
         \A j \in Jobs : jobs'[j] # None /\ jobs'[j] # jobs[j] => JobOk(j)',
         run' \in Command, RunOk'
  PROVE  FolderInv'
<1>1. ServiceInv' /\ ServiceGrows
  BY ServeStep, RequestsOk
<1>2. Grows
  BY <1>1, SameGrow DEF Grows
<1>3. files' \in Content
  BY DEF FolderInv, Types
<1> QED BY <1>1, <1>2, <1>3, CommandStep

(* The service moves on its own.                                             *)
LEMMA ServiceStep ==
  ASSUME FolderInv, ServiceInv', ServiceGrows, UNCHANGED <<project, run, wire>>
  PROVE  FolderInv'
<1>1. UNCHANGED <<files, base, jobs, plan, journal, run, wire>>
  BY DEF project
<1>2. Grows /\ JobsType'
  BY <1>1 DEF Grows, JobsGrow, FolderInv, Types, JobsType
<1>3. RunOk' /\ run' \in Command /\ files' \in Content
  BY <1>1, <1>2, RunKept DEF FolderInv, Types
<1> QED BY <1>1, <1>2, <1>3, CommandStep

(***************************************************************************)
(* The actions                                                             *)
(***************************************************************************)
LEMMA Numbers ==
  ASSUME FolderInv
  PROVE  /\ history \in Seq(Listing) /\ Len(history) \in Nat
         /\ BaseRev \in 0..Len(history)
         /\ Baseline # None => Baseline = BaseRev
         /\ Baseline # None => Baseline \in 0..Len(history)
         /\ files \in Content /\ JobsType /\ run \in Command
         /\ Attempts \subseteq Jobs /\ Ops \subseteq Jobs /\ Attempts \cap Ops = {}
<1>1. /\ history \in Seq(Listing) /\ Len(history) \in Nat
      /\ files \in Content /\ JobsType /\ run \in Command
      /\ base # None => base.rev \in 1..Len(history)
  BY DEF FolderInv, Types, JobsType, IsListing
<1>2. BaseRev \in 0..Len(history)
  BY <1>1 DEF BaseRev
<1>3. Baseline # None => Baseline = BaseRev
  BY <1>1 DEF Baseline, BaseRev, Revision
<1> QED BY <1>1, <1>2, <1>3, FieldsFacts DEF Jobs

LEMMA PublishInv == ASSUME FolderInv, NEW a \in Attempts, Publish(a) PROVE FolderInv'
<1>1. /\ journal = None /\ UNCHANGED <<service, project, wire>>
      /\ run' = [Idle EXCEPT !.at = "prepare", !.job = a, !.num = Baseline]
      /\ jobs[a] = None /\ Baseline # None
  BY DEF Publish, Ready
<1>2. run' \in Command
  <2>1. Baseline \in Nat /\ a \in Jobs
    BY <1>1, Numbers
  <2> QED BY <1>1, <2>1 DEF Command, Steps, Idle
<1>3. /\ run'.at = "prepare" /\ run'.job = a /\ run'.num = BaseRev
  BY <1>1, Numbers DEF Idle
<1>4. RunOk'
  BY <1>1, <1>3 DEF RunOk, JobSteps, AttemptSteps, BaseRev, project
<1> QED BY <1>1, <1>2, <1>4, RunStep

(* A new job.                                                               *)
LEMMA SavedRecord ==
  ASSUME FolderInv, NEW b \in Nat \cup {None}
  PROVE  Saved(b) \in JobRecord
BY Numbers, FieldsFacts DEF Saved, JobRecord, Verdicts

LEMMA NewAttempt ==
  ASSUME FolderInv, UNCHANGED history, NEW a \in Attempts,
         jobs' = [jobs EXCEPT ![a] = Saved(None)]
  PROVE  /\ JobOk(a)' /\ jobs'[a] = Saved(None)
         /\ 0 <= staged[a].gen
<1>1. jobs'[a] = Saved(None) /\ a \in Jobs /\ a \notin Ops
  BY Numbers DEF JobsType
<1>2. staged[a].gen \in Nat
  BY FieldsFacts DEF FolderInv, Types, Staging
<1> QED BY <1>1, <1>2, Numbers DEF JobOk, Saved

LEMMA PrepareInv == ASSUME FolderInv, Prepare PROVE FolderInv'
<1>1. /\ run.at = "prepare"
      /\ jobs' = [jobs EXCEPT ![run.job] = Saved(None)]
      /\ run' = [run EXCEPT !.at = "record"]
      /\ UNCHANGED <<service, files, base, plan, journal, wire>>
  BY DEF Prepare, Goto
<1> PICK a \in Attempts : run.job = a /\ jobs[a] = None /\ run.num = BaseRev
  BY <1>1 DEF FolderInv, RunOk
<1>2. journal = None /\ a \in Jobs /\ jobs' = [jobs EXCEPT ![a] = Saved(None)]
  BY <1>1, NoJournal DEF Jobs
<1>3. UNCHANGED history
  BY <1>1 DEF service
<1>4. /\ JobOk(a)' /\ jobs'[a] = Saved(None) /\ Saved(None) \in JobRecord
      /\ 0 <= staged[a].gen
  BY <1>2, <1>3, NewAttempt, SavedRecord
<1>5. run' \in Command /\ run'.at = "record" /\ run'.job = a /\ run'.num = run.num
  BY <1>1, Numbers DEF Command, Steps
<1>6. Saved(None).upload = 0 /\ Saved(None).base = None
  BY DEF Saved
<1>7. RunOk'
  BY <1>3, <1>4, <1>5, <1>6, Numbers, NoneFacts DEF RunOk, JobSteps, AttemptSteps
<1> QED BY <1>1, <1>2, <1>4, <1>5, <1>6, <1>7, RecordStep

LEMMA DryRunInv == ASSUME FolderInv, NEW a \in Attempts, DryRun(a) PROVE FolderInv'
<1>1. /\ jobs[a] = None /\ run.job # a
      /\ jobs' = [jobs EXCEPT ![a] = Saved(None)]
      /\ UNCHANGED <<service, files, base, plan, journal, run, wire>>
  BY DEF DryRun
<1>2. UNCHANGED history /\ a \in Jobs
  BY <1>1 DEF service, Jobs
<1>3. /\ JobOk(a)' /\ Saved(None) \in JobRecord /\ 0 <= staged[a].gen
      /\ Saved(None).upload = 0
  BY <1>1, <1>2, NewAttempt, SavedRecord DEF Saved
<1>4. ServiceInv' /\ Grows /\ JobsType'
  BY <1>1, <1>2, <1>3, RecordGrows
<1>5. \A j \in Jobs : j # a => jobs'[j] = jobs[j]
  BY <1>1, Numbers DEF JobsType
<1>6. RunOk'
  BY <1>1, <1>4, <1>5, RunKept
<1>7. files' \in Content /\ run' \in Command
  BY <1>1, Numbers
<1> QED BY <1>1, <1>3, <1>4, <1>5, <1>6, <1>7, CommandStep

LEMMA ReopenInv ==
  ASSUME FolderInv, NEW a \in Attempts, NEW op \in {"resume", "status", "cancel"},
         Reopen(a, op)
  PROVE  FolderInv'
<1>1. /\ journal = None /\ UNCHANGED <<service, project, wire>> /\ jobs[a] # None
      /\ UNCHANGED <<jobs, history, staged>>
  BY DEF Reopen, Ready, project, service
<1>2. CASE /\ jobs[a].base = None /\ Baseline # None
           /\ run' = [Idle EXCEPT !.at = "record", !.job = a, !.num = Baseline]
  <2>1. /\ run' \in Command /\ run'.at = "record" /\ run'.job = a /\ run'.num = Baseline
        /\ Baseline <= Len(history)
    <3>1. Baseline \in Nat /\ Baseline <= Len(history) /\ a \in Jobs
      BY <1>2, Numbers
    <3> QED BY <1>2, <3>1 DEF Command, Steps, Idle
  <2>2. RunOk'
    BY <1>1, <1>2, <2>1 DEF RunOk, JobSteps, AttemptSteps
  <2> QED BY <1>1, <2>1, <2>2, RunStep
<1>3. CASE /\ jobs[a].base # None
           /\ run' = [Idle EXCEPT !.job = a, !.op = op,
                                  !.at = IF jobs[a].upload = 0 THEN "lookup" ELSE "query"]
  <2>1. /\ run' \in Command /\ run'.job = a
        /\ run'.at = IF jobs[a].upload = 0 THEN "lookup" ELSE "query"
    BY <1>3, Numbers DEF Command, Steps, Idle
  <2>2. RunOk'
    BY <1>1, <1>3, <2>1, Numbers DEF RunOk, JobSteps, AttemptSteps
  <2> QED BY <1>1, <2>1, <2>2, RunStep
<1> QED BY <1>2, <1>3 DEF Reopen

(* The baseline of the running command is recorded in its attempt.           *)
LEMMA RecordInv == ASSUME FolderInv, Record PROVE FolderInv'
<1> PICK a \in Attempts : run.at = "record" /\ run.job = a
  BY DEF Record, FolderInv, RunOk
<1> DEFINE v == [jobs[a] EXCEPT !.base = run.num]
<1>1. /\ jobs' = [jobs EXCEPT ![a] = v]
      /\ run' = [run EXCEPT !.at = "lookup", !.num = 0]
      /\ UNCHANGED <<service, files, base, plan, journal, wire>>
  BY DEF Record
<1>2. /\ journal = None /\ a \in Jobs /\ jobs[a] # None
      /\ jobs[a].base = None /\ run.num <= Len(history) /\ JobOk(a)
      /\ a \notin Ops /\ run.num \in Nat
  BY <1>1, NoJournal, Numbers DEF FolderInv, RunOk, Command
<1>3. jobs[a] \in JobRecord
  BY <1>2, Numbers, JobFields
<1>4. /\ v \in JobRecord /\ v.content = jobs[a].content /\ v.on = jobs[a].on
      /\ v.upload = jobs[a].upload /\ v.base = run.num /\ v.verdict = jobs[a].verdict
      /\ v.receipt = jobs[a].receipt
  BY <1>2, <1>3 DEF JobRecord
<1>5. jobs'[a] = v /\ UNCHANGED history
  BY <1>1, <1>2, Numbers DEF JobsType, service
<1>6. v.upload = 0 /\ v.verdict = "none" /\ v.receipt = 0 /\ v.on <= Len(history)
  BY <1>2, <1>4 DEF JobOk
<1>7. 0 <= staged[a].gen
  BY <1>2, FieldsFacts DEF FolderInv, Types, Staging
<1> HIDE DEF v
<1>8. JobOk(a)'
  BY <1>2, <1>4, <1>5, <1>6, NoneFacts DEF JobOk
<1>9. run' \in Command /\ run'.at = "lookup" /\ run'.job = a
  BY <1>1, Numbers DEF Command, Steps
<1>10. RunOk'
  BY <1>2, <1>4, <1>5, <1>6, <1>9, NoneFacts DEF RunOk, JobSteps, AttemptSteps
<1> QED BY <1>1, <1>2, <1>4, <1>6, <1>7, <1>8, <1>9, <1>10, RecordStep

(* The states a command of a job moves to.                                   *)
LEMMA AcceptedRun ==
  ASSUME FolderInv, NEW j \in Jobs, run.job = j, jobs'[j] # None, jobs'[j].base # None,
         NEW n \in Nat, n \in 1..Len(history'), history'[n].by = j, Accepted(n)
  PROVE  run' \in Command /\ RunOk'
<1>1. run' \in Command /\ run'.at = "receipt" /\ run'.job = j /\ run'.num = n
  BY DEF Accepted, Command, Steps, Idle
<1> QED BY <1>1 DEF RunOk, JobSteps, AttemptSteps

LEMMA SendingRun ==
  ASSUME FolderInv, NEW a \in Attempts, run.job = a, jobs'[a] # None,
         jobs'[a].base # None, jobs'[a].upload # 0,
         NEW have \in SUBSET Parts, run' = Sending(have)
  PROVE  run' \in Command /\ RunOk'
<1>1. a \in Jobs
  BY Numbers
<1>2. run' \in Command /\ run'.at \in {"parts", "finish"} /\ run'.job = a
  BY <1>1 DEF Sending, Command, Steps, Idle
<1> QED BY <1>1, <1>2 DEF RunOk, JobSteps, AttemptSteps

LEMMA IdleRun == ASSUME Finished PROVE run' \in Command /\ RunOk'
BY IdleCommand, IdleOk DEF Finished

(* A verdict of a job that is out of the race.                               *)
LEMMA VerdictJob ==
  ASSUME FolderInv, ServiceInv', ServiceGrows, NEW j \in Jobs, jobs[j] # None,
         jobs[j].base # None, NEW v \in Verdicts,
         jobs' = [jobs EXCEPT ![j].verdict = v], Closed(j)'
  PROVE  JobOk(j)' /\ \A i \in Jobs : jobs'[i] # jobs[i] => i = j
<1>1. /\ Len(history) \in Nat /\ Len(history') \in Nat /\ Len(history) <= Len(history')
      /\ \A i \in 1..Len(history) : history'[i] = history[i]
      /\ JobsType /\ JobOk(j)
  BY Numbers DEF FolderInv, ServiceInv, ServiceGrows
<1>2. /\ jobs[j] \in JobRecord
      /\ jobs[j].on \in Nat /\ jobs[j].receipt \in Nat /\ jobs[j].base \in Nat
  BY <1>1, JobFields
<1>3. /\ jobs'[j].on = jobs[j].on /\ jobs'[j].receipt = jobs[j].receipt
      /\ jobs'[j].base = jobs[j].base /\ jobs'[j].upload = jobs[j].upload
  BY <1>1, <1>2 DEF JobsType, JobRecord
<1>4. \A i \in Jobs : jobs'[i] # jobs[i] => i = j
  BY <1>1 DEF JobsType
<1> QED BY <1>1, <1>2, <1>3, <1>4, NoneFacts DEF JobOk

(* A failed command records its verdict and stops.                           *)
LEMMA FailStep ==
  ASSUME FolderInv, NEW j \in Jobs, run.job = j, jobs[j] # None, jobs[j].base # None,
         NEW v \in Verdicts, Fail(v), Closed(j)', journal = None,
         UNCHANGED <<files, base, plan, journal, wire>>,
         UNCHANGED service \/ \E r \in Request : Serve(r)
  PROVE  FolderInv'
<1>1. jobs' = [jobs EXCEPT ![j].verdict = v] /\ Finished
  BY DEF Fail
<1>2. SameRequests /\ JobsType'
  BY <1>1, VerdictSame
<1>3. ServiceInv' /\ ServiceGrows
  <2>1. CASE UNCHANGED service
    <3>1. ServiceInv /\ UNCHANGED <<history, staged>>
      BY <2>1 DEF FolderInv, Types, ServiceInv, service
    <3>2. Len(history) \in Nat /\ \A a \in Attempts : staged[a].gen \in Nat
      BY <3>1, FieldsFacts DEF ServiceInv, Staging
    <3>3. Attempts \subseteq Jobs
      BY DEF Jobs
    <3> QED BY <1>2, <3>1, <3>2, <3>3
            DEF ServiceInv, ServiceGrows, HistoryOk, UploadOk, Receipt, SameRequests
  <2>2. CASE \E r \in Request : Serve(r)
    BY <1>2, <2>2, ServeStep, RequestsOk
  <2> QED BY <2>1, <2>2
<1>4. \A i \in Jobs : jobs'[i] # None /\ jobs'[i] # jobs[i] => JobOk(i)'
  BY <1>1, <1>3, VerdictJob
<1>5. Grows
  BY <1>2, <1>3, SameGrow DEF Grows
<1>6. files' \in Content
  BY Numbers
<1> QED BY <1>1, <1>2, <1>3, <1>4, <1>5, <1>6, IdleRun, CommandStep

(* What an upload says of its attempt.                                       *)
LEMMA UploadFacts ==
  ASSUME FolderInv, NEW a \in Attempts, jobs[a] # None, jobs[a].base # None
  PROVE  /\ UploadState(a, jobs[a].upload) \in States
         /\ UploadState(a, jobs[a].upload) \notin Live => Dead(a)
         /\ UploadState(a, jobs[a].upload) = "accepted" =>
              /\ Receipt(a) \in 1..Len(history) /\ history[Receipt(a)].by = a
         /\ UploadState(a, jobs[a].upload) \in {"cancelled", "conflict"} => Receipt(a) = 0
<1>1. UploadOk(a) /\ staged[a] \in Staging /\ history \in Seq(Listing)
  BY DEF FolderInv, Types
<1>2. Receipt(a) \in 0..Len(history) /\ (Receipt(a) # 0 => history[Receipt(a)].by = a)
  BY <1>1, ReceiptIs DEF Receipt
<1>3. Len(history) \in Nat
  BY Numbers
<1> QED BY <1>1, <1>2, <1>3 DEF UploadState, StateIn, UploadOk, Staging, States, Live, Dead

LEMMA QueryInv == ASSUME FolderInv, Query PROVE FolderInv'
<1> PICK a \in Attempts : /\ run.at = "query" /\ run.job = a
                          /\ jobs[a] # None /\ jobs[a].base # None /\ jobs[a].upload # 0
  BY DEF Query, FolderInv, RunOk, AttemptSteps, JobSteps
<1> DEFINE s == UploadState(a, jobs[a].upload)
<1>1. /\ a \in Jobs /\ a \notin Ops /\ journal = None
      /\ UNCHANGED <<service, files, base, plan, journal, wire>>
      /\ UNCHANGED <<history, staged>>
  BY Numbers, NoJournal DEF Query, service
<1>2. /\ s \in States /\ (s \notin Live => Dead(a))
      /\ s = "accepted" => Receipt(a) \in 1..Len(history) /\ history[Receipt(a)].by = a
      /\ s \in {"cancelled", "conflict"} => Receipt(a) = 0
  BY UploadFacts
<1>3. ASSUME UNCHANGED jobs, run' \in Command, RunOk' PROVE FolderInv'
  BY <1>1, <1>3, RunStep DEF project
<1> HIDE DEF s
<1>4. CASE s = "none" /\ Forgotten
  <2>1. run' \in Command /\ run'.at = "lookup" /\ run'.job = a /\ UNCHANGED jobs
    BY <1>4, Numbers DEF Forgotten, Goto, Command, Steps
  <2>2. Dead(a)'
    BY <1>1, <1>2, <1>4, <2>1 DEF Dead, Live
  <2>3. RunOk'
    BY <1>1, <2>1, <2>2 DEF RunOk, JobSteps, AttemptSteps
  <2> QED BY <1>3, <2>1, <2>3
<1>5. CASE s = "accepted" /\ Accepted(Receipt(a)) /\ UNCHANGED jobs
  <2>1. Receipt(a) \in Nat
    BY <1>2, <1>5, Numbers
  <2> QED BY <1>1, <1>2, <1>3, <1>5, <2>1, AcceptedRun
<1>6. CASE Finished /\ UNCHANGED jobs
  BY <1>3, <1>6, IdleRun
<1>7. CASE Goto("cancel") /\ UNCHANGED jobs
  <2>1. run' \in Command /\ run'.at = "cancel" /\ run'.job = a
    BY <1>7, Numbers DEF Goto, Command, Steps
  <2>2. RunOk'
    BY <1>1, <1>7, <2>1 DEF RunOk, JobSteps, AttemptSteps
  <2> QED BY <1>3, <1>7, <2>1, <2>2
<1>8. CASE s \notin {"none", "accepted"} /\ Proceed(s, staged[a].parts)
  <2>1. staged[a].parts \in SUBSET Parts /\ Parts \in SUBSET Parts
    BY DEF FolderInv, Types, Staging
  <2>2. CASE s = "uploading"
    <3>1. run' = Sending(staged[a].parts) /\ UNCHANGED jobs
      BY <1>8, <2>2 DEF Proceed
    <3>2. PICK have \in SUBSET Parts : run' = Sending(have)
      BY <2>1, <3>1
    <3> QED BY <1>3, <3>1, <3>2, SendingRun
  <2>3. CASE s = "finalizing"
    <3>1. run' = Sending(Parts) /\ UNCHANGED jobs
      BY <1>8, <2>3 DEF Proceed
    <3> QED BY <1>3, <2>1, <3>1, SendingRun
  <2>4. CASE s \notin {"uploading", "finalizing"}
    <3>1. s \in {"cancelled", "conflict"} /\ Fail(s)
      BY <1>2, <1>8, <2>4 DEF Proceed, States
    <3>2. Receipt(a) = 0 /\ Dead(a)
      BY <1>2, <3>1 DEF Live
    <3>3. jobs' = [jobs EXCEPT ![a].verdict = s]
      BY <3>1 DEF Fail
    <3>4. jobs'[a].upload = jobs[a].upload
      BY <1>1, <3>1, <3>3, VerdictSame DEF SameRequests, Verdicts
    <3>5. Closed(a)'
      BY <1>1, <3>2, <3>4 DEF Closed, Dead, Receipt
    <3>6. PICK v \in Verdicts : Fail(v)
      BY <3>1 DEF Verdicts
    <3> QED BY <1>1, <3>5, <3>6, FailStep
  <2> QED BY <2>2, <2>3, <2>4
<1> QED
  <2>1. s = UploadState(run.job, jobs[run.job].upload)
    BY DEF s
  <2>2. CASE s = "none"
    BY <1>4, <2>1, <2>2 DEF Query
  <2>3. CASE s = "accepted"
    BY <1>5, <2>1, <2>3 DEF Query
  <2>4. CASE s \notin {"none", "accepted"}
    BY <1>6, <1>7, <1>8, <2>1, <2>4 DEF Query
  <2> QED BY <2>2, <2>3, <2>4

LEMMA LookupInv == ASSUME FolderInv, Lookup PROVE FolderInv'
<1> PICK j \in Jobs : /\ run.at = "lookup" /\ run.job = j
                      /\ jobs[j] # None /\ jobs[j].base # None
                      /\ jobs[j].upload # 0 => Dead(j)
  BY DEF Lookup, FolderInv, RunOk, JobSteps
<1>1. /\ journal = None /\ JobOk(j)
      /\ UNCHANGED <<service, files, base, plan, journal, wire>>
      /\ UNCHANGED <<history, staged>>
      /\ j \in Attempts \/ j \in Ops
  BY NoJournal DEF Lookup, service, FolderInv, Jobs
<1>2. /\ Receipt(j) \in 0..Len(history)
      /\ Receipt(j) # 0 => history[Receipt(j)].by = j
  BY Numbers, ReceiptIs DEF Receipt
<1>3. ASSUME UNCHANGED jobs, run' \in Command, RunOk' PROVE FolderInv'
  BY <1>1, <1>3, RunStep DEF project
<1>4. CASE Receipt(j) # 0 /\ Accepted(Receipt(j)) /\ UNCHANGED jobs
  <2>1. Receipt(j) \in Nat /\ Receipt(j) \in 1..Len(history)
    BY <1>2, <1>4, Numbers
  <2> QED BY <1>1, <1>2, <1>3, <1>4, <2>1, AcceptedRun
<1>5. CASE Finished /\ UNCHANGED jobs
  BY <1>3, <1>5, IdleRun
<1>6. CASE Receipt(j) = 0 /\ jobs[j].upload # 0 /\ Fail("gone")
  <2>1. "gone" \in Verdicts /\ jobs' = [jobs EXCEPT ![j].verdict = "gone"]
    BY <1>6 DEF Verdicts, Fail
  <2>2. jobs'[j].upload = jobs[j].upload
    BY <2>1, VerdictSame DEF SameRequests
  <2>3. j \notin Ops
    BY <1>1, <1>6 DEF JobOk
  <2>4. Closed(j)'
    BY <1>1, <1>6, <2>2, <2>3 DEF Closed, Dead, Receipt
  <2> QED BY <1>1, <1>6, <2>1, <2>4, FailStep
<1>7. CASE jobs[j].upload = 0 /\ UNCHANGED jobs
           /\ Goto(IF j \in Ops THEN "edit" ELSE "start")
  <2>1. run' \in Command /\ run'.at = (IF j \in Ops THEN "edit" ELSE "start") /\ run'.job = j
    BY <1>7, Numbers DEF Goto, Command, Steps
  <2>2. RunOk'
    BY <1>1, <1>7, <2>1 DEF RunOk, JobSteps, AttemptSteps
  <2> QED BY <1>3, <1>7, <2>1, <2>2
<1> QED BY <1>4, <1>5, <1>6, <1>7 DEF Lookup

(* The first exchange of an upload: afterwards the attempt was accepted, or   *)
(* there is an upload, which it has not saved yet, so it still takes chunks. *)
LEMMA StartInv == ASSUME FolderInv, Start PROVE FolderInv'
<1> PICK a \in Attempts : /\ run.at = "start" /\ run.job = a /\ jobs[a] # None
                          /\ jobs[a].base # None /\ jobs[a].upload = 0
  BY DEF Start, FolderInv, RunOk, AttemptSteps, JobSteps
<1> PICK r \in Request : Serve(r)
  BY DEF Start
<1>1. /\ journal = None /\ a \in Jobs /\ JobsType
      /\ UNCHANGED <<files, base, jobs, plan, journal, wire>>
  BY NoJournal, Numbers DEF Start, project
<1>2. SameRequests /\ JobsType'
  BY <1>1 DEF SameRequests, JobsType
<1>3. ServiceInv' /\ ServiceGrows
  BY <1>2, ServeStep, RequestsOk
<1> DEFINE n == ReceiptIn(history', a)
<1>4. /\ n \in 0..Len(history') /\ (n # 0 => history'[n].by = a)
      /\ Len(history') \in Nat
  BY <1>3, ReceiptIs DEF ServiceInv
<1>5. run' \in Command /\ RunOk'
  <2>1. CASE n # 0
    <3>1. n \in Nat /\ n \in 1..Len(history')
      BY <1>4, <2>1
    <3>2. Accepted(n)
      BY <2>1 DEF Start, Accepted
    <3> QED BY <1>1, <1>4, <2>1, <3>1, <3>2, AcceptedRun
  <2>2. CASE n = 0 /\ staged'[a].state = "none"
    BY <2>2, IdleRun DEF Start, Finished
  <2>3. CASE n = 0 /\ staged'[a].state # "none"
    <3>1. run' = [run EXCEPT !.at = "save", !.num = staged'[a].gen,
                             !.then = staged'[a].state, !.have = staged'[a].parts]
      BY <2>3 DEF Start
    <3>2. staged'[a] \in Staging /\ UploadOk(a)'
      BY <1>3 DEF ServiceInv
    <3>3. staged'[a].gen > 0 /\ staged'[a].gen \in Nat /\ staged'[a].state \in States
          /\ staged'[a].parts \in SUBSET Parts
      BY <2>3, <3>2, FieldsFacts DEF UploadOk, Staging
    <3>4. staged'[a].state = "uploading"
      BY <1>1, <2>3, <3>2, <3>3 DEF UploadOk
    <3>5. run' \in Command
      BY <3>1, <3>3, Numbers DEF Command, Steps
    <3>6. run'.at = "save" /\ run'.job = a /\ run'.num = staged'[a].gen
          /\ run'.then = "uploading"
      BY <3>1, <3>4, Numbers DEF Command
    <3> QED BY <1>1, <3>3, <3>5, <3>6 DEF RunOk, JobSteps, AttemptSteps
  <2> QED BY <2>1, <2>2, <2>3
<1> QED BY <1>1, <1>2, <1>5, ExchangeStep

LEMMA SaveUploadInv == ASSUME FolderInv, SaveUpload PROVE FolderInv'
<1> PICK a \in Attempts : /\ run.at = "save" /\ run.job = a /\ jobs[a] # None
                          /\ jobs[a].base # None /\ jobs[a].upload = 0
                          /\ run.num \in 1..staged[a].gen /\ run.then = "uploading"
  BY DEF SaveUpload, FolderInv, RunOk, AttemptSteps, JobSteps
<1> DEFINE v == [jobs[a] EXCEPT !.upload = run.num]
<1>1. /\ journal = None /\ a \in Jobs /\ a \notin Ops /\ JobOk(a)
      /\ UNCHANGED <<service, files, base, plan, journal, wire>>
      /\ UNCHANGED <<history, staged>>
      /\ jobs' = [jobs EXCEPT ![a] = v] /\ run' = Sending(run.have)
  BY NoJournal, Numbers DEF SaveUpload, service, FolderInv
<1>2. jobs[a] \in JobRecord /\ run.have \in SUBSET Parts
  BY <1>1, Numbers, JobFields DEF Command
<1>3. run.num \in 0..MaxGen /\ run.num # 0 /\ run.num <= staged[a].gen
  BY FieldsFacts DEF FolderInv, Types, Staging
<1>4. /\ v \in JobRecord /\ v.content = jobs[a].content /\ v.on = jobs[a].on
      /\ v.base = jobs[a].base /\ v.upload = run.num /\ v.receipt = jobs[a].receipt
      /\ v.verdict = jobs[a].verdict
  BY <1>2, <1>3 DEF JobRecord
<1>5. jobs'[a] = v
  BY <1>1, Numbers DEF JobsType
<1> HIDE DEF v
<1>6. v.verdict = "none"
  BY <1>1, <1>4 DEF JobOk, Closed
<1>7. JobOk(a)'
  BY <1>1, <1>4, <1>5, <1>6 DEF JobOk
<1>8. PICK have \in SUBSET Parts : run' = Sending(have)
  BY <1>1, <1>2
<1>9. run' \in Command /\ RunOk'
  BY <1>3, <1>4, <1>5, <1>8, SendingRun, NoneFacts
<1> QED BY <1>1, <1>3, <1>4, <1>7, <1>9, RecordStep

LEMMA PutInv == ASSUME FolderInv, Put PROVE FolderInv'
<1> PICK a \in Attempts : /\ run.at = "parts" /\ run.job = a /\ jobs[a] # None
                          /\ jobs[a].base # None /\ jobs[a].upload # 0
  BY DEF Put, FolderInv, RunOk, AttemptSteps, JobSteps
<1> PICK r \in Request :
      /\ Serve(r)
      /\ run' = IF StateIn(staged', r.job, r.gen) = "uploading"
                THEN Sending(run.have \cup {r.part}) ELSE Idle
  BY DEF Put
<1>1. /\ journal = None /\ a \in Jobs /\ JobsType
      /\ UNCHANGED <<files, base, jobs, plan, journal, wire>>
  BY NoJournal, Numbers DEF Put, project
<1>2. SameRequests /\ JobsType'
  BY <1>1 DEF SameRequests, JobsType
<1>3. r.part \in Parts
  BY DEF Request
<1>4. run.have \cup {r.part} \in SUBSET Parts
  BY <1>3, Numbers DEF Command
<1>5. run' = Idle \/ \E have \in SUBSET Parts : run' = Sending(have)
  BY <1>4
<1>6. run' \in Command /\ RunOk'
  BY <1>1, <1>5, SendingRun, IdleRun DEF Finished
<1> QED BY <1>1, <1>2, <1>6, ExchangeStep

(* The last exchange of an upload, whatever it answers.                      *)
LEMMA EndStep ==
  ASSUME FolderInv, NEW a \in Attempts, run.job = a, run.at \in {"finish", "cancel"},
         NEW r \in Request, Serve(r), UNCHANGED <<files, base, plan, journal, wire>>,
         NEW s, s = StateIn(staged', a, jobs[a].upload),
         \/ s = "accepted" /\ Accepted(ReceiptIn(history', a)) /\ UNCHANGED jobs
         \/ s \in {"cancelled", "conflict"} /\ Fail(s)
         \/ Finished /\ UNCHANGED jobs
  PROVE  FolderInv'
<1>1. /\ journal = None /\ a \in Jobs /\ a \notin Ops /\ JobsType
      /\ jobs[a] # None /\ jobs[a].base # None /\ jobs[a].upload # 0
  BY NoJournal, Numbers DEF FolderInv, RunOk, AttemptSteps, JobSteps
<1>2. SameRequests /\ JobsType'
  <2>1. CASE UNCHANGED jobs
    BY <1>1, <2>1 DEF SameRequests, JobsType
  <2>2. CASE s \in {"cancelled", "conflict"} /\ Fail(s)
    <3>1. jobs' = [jobs EXCEPT ![a].verdict = s] /\ s \in Verdicts
      BY <2>2 DEF Fail, Verdicts
    <3> QED BY <1>1, <3>1, VerdictSame
  <2> QED BY <2>1, <2>2
<1>3. ServiceInv' /\ ServiceGrows
  BY <1>2, ServeStep, RequestsOk
<1>4. /\ ReceiptIn(history', a) \in 0..Len(history')
      /\ ReceiptIn(history', a) # 0 => history'[ReceiptIn(history', a)].by = a
      /\ Len(history') \in Nat
  BY <1>3, ReceiptIs DEF ServiceInv
<1>5. UploadOk(a)' /\ jobs'[a].upload = jobs[a].upload /\ jobs'[a] # None
      /\ jobs'[a].base = jobs[a].base
  BY <1>1, <1>2, <1>3 DEF ServiceInv, SameRequests
<1>6. CASE s = "accepted" /\ Accepted(ReceiptIn(history', a)) /\ UNCHANGED jobs
  <2>1. staged'[a].state = "accepted"
    BY <1>6 DEF StateIn
  <2>2. ReceiptIn(history', a) \in Nat /\ ReceiptIn(history', a) \in 1..Len(history')
    BY <1>4, <1>5, <2>1 DEF UploadOk, Receipt
  <2>3. run' \in Command /\ RunOk'
    BY <1>1, <1>4, <1>6, <2>2, AcceptedRun
  <2> QED BY <1>1, <1>2, <1>6, <2>3, ExchangeStep
<1>7. CASE s \in {"cancelled", "conflict"} /\ Fail(s)
  <2>1. staged'[a].state = s /\ staged'[a].gen = jobs[a].upload
    BY <1>7 DEF StateIn
  <2>2. Receipt(a)' = 0
    BY <1>5, <1>7, <2>1 DEF UploadOk
  <2>3. Dead(a)'
    BY <1>5, <1>7, <2>1 DEF Dead, Live
  <2>4. Closed(a)'
    BY <1>1, <1>5, <2>2, <2>3 DEF Closed
  <2>5. s \in Verdicts
    BY <1>7 DEF Verdicts
  <2> QED BY <1>1, <1>7, <2>4, <2>5, FailStep
<1>8. CASE Finished /\ UNCHANGED jobs
  BY <1>1, <1>2, <1>8, IdleRun, ExchangeStep
<1> QED BY <1>6, <1>7, <1>8

LEMMA FinishInv == ASSUME FolderInv, Finish PROVE FolderInv'
<1> PICK a \in Attempts : run.at = "finish" /\ run.job = a
  BY DEF Finish, FolderInv, RunOk, AttemptSteps
<1> PICK r \in Request : Serve(r)
  BY DEF Finish
<1> DEFINE t == StateIn(staged', a, jobs[a].upload)
<1>1. /\ \/ t = "accepted" /\ Accepted(ReceiptIn(history', a)) /\ UNCHANGED jobs
         \/ t \in {"cancelled", "conflict"} /\ Fail(t)
         \/ Finished /\ UNCHANGED jobs
      /\ UNCHANGED <<files, base, plan, journal, wire>>
  BY DEF Finish
<1> HIDE DEF t
<1>2. \E s : /\ s = StateIn(staged', a, jobs[a].upload)
             /\ \/ s = "accepted" /\ Accepted(ReceiptIn(history', a)) /\ UNCHANGED jobs
                \/ s \in {"cancelled", "conflict"} /\ Fail(s)
                \/ Finished /\ UNCHANGED jobs
  BY <1>1, Zenon DEF t
<1> QED BY <1>1, <1>2, EndStep

LEMMA CancelInv == ASSUME FolderInv, Cancel PROVE FolderInv'
<1> PICK a \in Attempts : run.at = "cancel" /\ run.job = a
  BY DEF Cancel, FolderInv, RunOk, AttemptSteps
<1> PICK r \in Request : Serve(r)
  BY DEF Cancel
<1> DEFINE t == StateIn(staged', a, jobs[a].upload)
<1>1. /\ \/ t = "accepted" /\ Accepted(ReceiptIn(history', a)) /\ UNCHANGED jobs
         \/ t \in {"cancelled", "conflict"} /\ Fail(t)
         \/ Finished /\ UNCHANGED jobs
      /\ UNCHANGED <<files, base, plan, journal, wire>>
  BY DEF Cancel
<1> HIDE DEF t
<1>2. \E s : /\ s = StateIn(staged', a, jobs[a].upload)
             /\ \/ s = "accepted" /\ Accepted(ReceiptIn(history', a)) /\ UNCHANGED jobs
                \/ s \in {"cancelled", "conflict"} /\ Fail(s)
                \/ Finished /\ UNCHANGED jobs
  BY <1>1, Zenon DEF t
<1> QED BY <1>1, <1>2, EndStep

(* A listing operation that the service refuses was made on a revision that  *)
(* is no longer the newest, and never is again.                              *)
LEMMA EditInv == ASSUME FolderInv, Edit PROVE FolderInv'
<1> PICK o \in Ops : /\ run.at = "edit" /\ run.job = o /\ jobs[o] # None
                     /\ jobs[o].base # None
  BY DEF Edit, FolderInv, RunOk, JobSteps
<1> PICK r \in Request : Serve(r)
  BY DEF Edit
<1>1. /\ journal = None /\ o \in Jobs /\ o \notin Attempts /\ JobsType /\ JobOk(o)
      /\ UNCHANGED <<files, base, plan, journal, wire>>
      /\ history \in Seq(Listing) /\ Len(history) \in Nat
  BY NoJournal, Numbers DEF Edit, FolderInv
<1>2. CASE ReceiptIn(history', o) # 0
  <2>1. Accepted(ReceiptIn(history', o)) /\ UNCHANGED jobs
    BY <1>2 DEF Edit
  <2>2. SameRequests /\ JobsType'
    BY <1>1, <2>1 DEF SameRequests, JobsType
  <2>3. history' \in Seq(Listing)
    BY <2>2, ServeStep, RequestsOk DEF ServiceInv
  <2>4. /\ ReceiptIn(history', o) \in Nat /\ ReceiptIn(history', o) \in 1..Len(history')
        /\ history'[ReceiptIn(history', o)].by = o
    BY <1>2, <2>3, ReceiptIs
  <2>5. run' \in Command /\ RunOk'
    BY <1>1, <2>1, <2>4, AcceptedRun
  <2> QED BY <1>1, <2>1, <2>2, <2>5, ExchangeStep
<1>3. CASE ReceiptIn(history', o) = 0
  <2>1. Fail("conflict") /\ "conflict" \in Verdicts
    BY <1>3 DEF Edit, Verdicts
  <2>2. jobs' = [jobs EXCEPT ![o].verdict = "conflict"]
    BY <2>1 DEF Fail
  <2>3. SameRequests
    BY <1>1, <2>1, <2>2, VerdictSame
  <2>4. ServiceInv' /\ ServiceGrows
    BY <2>3, ServeStep, RequestsOk
  <2>5. r = [kind |-> "edit", job |-> o, base |-> jobs[o].base, content |-> jobs[o].content]
    BY DEF Request
  <2>6. EditListing(r)
    BY <2>5 DEF Serve, StartUpload, PutPart, FinishUpload, CancelUpload
  <2>7. jobs[o].base \in Nat /\ jobs[o].base >= 1 /\ jobs[o].base <= Len(history)
    BY <1>1, JobFields DEF JobOk
  <2>8. jobs[o].base < Len(history)
    <3>1. SUFFICES ASSUME jobs[o].base = Len(history) PROVE FALSE
      BY <1>1, <2>7
    <3>2. ReceiptIn(history, o) = 0
      <4>1. /\ \A i \in 1..Len(history') : history'[i].by # o
            /\ Len(history) <= Len(history')
            /\ \A i \in 1..Len(history) : history'[i] = history[i]
            /\ Len(history') \in Nat
        BY <1>3, <2>4, ReceiptIs DEF ServiceInv, ServiceGrows
      <4>2. \A i \in 1..Len(history) : history[i].by # o
        BY <1>1, <4>1
      <4> QED BY <1>1, <4>2, ReceiptIs
    <3> DEFINE e == [by |-> o, content |-> jobs[o].content]
    <3>3. history' = Append(history, e)
      BY <2>5, <2>6, <2>7, <3>1, <3>2 DEF EditListing, Append1, Receipt, Revision
    <3>4. e \in Listing
      BY <1>1, JobFields DEF Listing
    <3>5. history'[Len(history) + 1].by = o /\ Len(history) + 1 \in 1..Len(history')
      BY <1>1, <3>3, <3>4, Appended
    <3> QED BY <1>3, <2>4, <3>5, ReceiptIs DEF ServiceInv
  <2>9. Closed(o)'
    <3>1. jobs'[o].base = jobs[o].base /\ Len(history) <= Len(history')
      BY <1>1, <2>3, <2>4 DEF SameRequests, ServiceGrows
    <3>2. Len(history') \in Nat
      BY <2>4 DEF ServiceInv
    <3> QED BY <1>1, <1>3, <2>7, <2>8, <3>1, <3>2 DEF Closed, Receipt
  <2> QED BY <1>1, <2>1, <2>9, FailStep
<1> QED BY <1>2, <1>3

LEMMA WriteReceiptInv == ASSUME FolderInv, WriteReceipt PROVE FolderInv'
<1> PICK j \in Jobs : /\ run.at = "receipt" /\ run.job = j
                      /\ jobs[j] # None /\ jobs[j].base # None
                      /\ run.num \in 1..Len(history) /\ history[run.num].by = j
  BY DEF WriteReceipt, FolderInv, RunOk, JobSteps
<1> DEFINE v == [jobs[j] EXCEPT !.receipt = run.num]
<1>1. /\ journal = None /\ JobOk(j) /\ Len(history) \in Nat /\ history \in Seq(Listing)
      /\ UNCHANGED <<service, files, base, plan, journal, wire>>
      /\ UNCHANGED <<history, staged>>
      /\ jobs' = [jobs EXCEPT ![j] = v] /\ run' = [run EXCEPT !.at = "base"]
  BY NoJournal, Numbers DEF WriteReceipt, Goto, service, FolderInv
<1>2. jobs[j] \in JobRecord /\ run.num \in Nat
  BY <1>1, Numbers, JobFields
<1>3. /\ v \in JobRecord /\ v.content = jobs[j].content /\ v.on = jobs[j].on
      /\ v.base = jobs[j].base /\ v.upload = jobs[j].upload /\ v.receipt = run.num
      /\ v.verdict = jobs[j].verdict
  BY <1>2 DEF JobRecord
<1>4. jobs'[j] = v
  BY <1>1, Numbers DEF JobsType
<1> HIDE DEF v
<1>5. v.verdict # "none" => Closed(j)'
  BY <1>1, <1>3, <1>4 DEF JobOk, Closed, Dead, Receipt
<1>6. JobOk(j)'
  BY <1>1, <1>3, <1>4, <1>5 DEF JobOk
<1>7. j \in Attempts => v.upload <= staged[j].gen
  BY <1>3 DEF FolderInv, UploadOk
<1>8. run' \in Command /\ run'.at = "base" /\ run'.job = j /\ run'.num = run.num
  BY <1>1, Numbers DEF Command, Steps
<1>9. RunOk'
  BY <1>1, <1>3, <1>4, <1>8, NoneFacts DEF RunOk, JobSteps, AttemptSteps
<1> QED BY <1>1, <1>3, <1>6, <1>7, <1>8, <1>9, RecordStep

(* The baseline a receipt brings is the listing of the revision it names.    *)
LEMMA WriteBaseInv == ASSUME FolderInv, WriteBase PROVE FolderInv'
<1> PICK j \in Jobs : /\ run.at = "base" /\ run.job = j
                      /\ run.num \in 1..Len(history) /\ history[run.num].by = j
  BY DEF WriteBase, FolderInv, RunOk, JobSteps
<1>1. /\ journal = None /\ Finished /\ base' = BaseAfter(j, run.num)
      /\ UNCHANGED <<service, files, jobs, plan, journal, wire>>
  BY NoJournal DEF WriteBase
<1>2. /\ jobs[j] # None /\ jobs[j].content \in Content
      /\ history[run.num].content = jobs[j].content /\ run.num \in Nat
  BY Numbers, JobFields DEF FolderInv, HistoryOk
<1>3. base' = base \/ base' = [rev |-> run.num, content |-> jobs[j].content]
  BY <1>1 DEF BaseAfter
<1>4. base' \in BaseRecord \cup {None} /\ (base' # None => IsListing(base'))
  <2>1. CASE base' = base
    BY <2>1 DEF FolderInv, Types
  <2>2. CASE base' = [rev |-> run.num, content |-> jobs[j].content]
    BY <1>2, <2>2 DEF BaseRecord, IsListing
  <2> QED BY <1>3, <2>1, <2>2
<1>5. files' \in Content /\ plan' \in PlanRecord \cup {None}
  BY <1>1 DEF FolderInv, Types
<1> QED BY <1>1, <1>4, <1>5, IdleRun, PullStep

LEMMA PushInv == ASSUME FolderInv, NEW o \in Ops, Push(o) PROVE FolderInv'
<1>1. /\ journal = None /\ jobs[o] = None /\ Baseline # None /\ Len(history) > 0
      /\ jobs' = [jobs EXCEPT ![o] = Saved(Baseline)]
      /\ run' = [Idle EXCEPT !.at = "lookup", !.job = o]
      /\ UNCHANGED <<service, files, base, plan, journal, wire>>
      /\ UNCHANGED <<history, staged>>
      /\ o \in Jobs /\ o \notin Attempts /\ Len(history) \in Nat
  BY Numbers DEF Push, Ready, Revision, service
<1>2. Baseline \in Nat /\ Baseline = Len(history) /\ Baseline = BaseRev
  BY <1>1, Numbers DEF Baseline, Revision
<1>3. PICK b \in Nat : b = Baseline
  BY <1>2
<1> DEFINE v == Saved(b)
<1>4. /\ v \in JobRecord /\ v.base = b /\ v.on = BaseRev /\ v.upload = 0
      /\ v.receipt = 0 /\ v.verdict = "none" /\ jobs' = [jobs EXCEPT ![o] = v]
  BY <1>1, <1>3, SavedRecord DEF Saved
<1> HIDE DEF v
<1>5. jobs'[o] = v
  BY <1>1, <1>4, Numbers DEF JobsType
<1>6. JobOk(o)'
  BY <1>1, <1>2, <1>3, <1>4, <1>5, NoneFacts DEF JobOk
<1>7. run' \in Command /\ run'.at = "lookup" /\ run'.job = o
  BY <1>1 DEF Command, Steps, Idle
<1>8. RunOk'
  BY <1>1, <1>3, <1>4, <1>5, <1>7, NoneFacts DEF RunOk, JobSteps, AttemptSteps
<1> QED BY <1>1, <1>4, <1>6, <1>7, <1>8, RecordStep

LEMMA ReopenPushInv ==
  ASSUME FolderInv, NEW o \in Ops, NEW op \in {"resume", "status"}, ReopenPush(o, op)
  PROVE  FolderInv'
<1>1. /\ journal = None /\ jobs[o] # None /\ UNCHANGED <<service, project, wire>>
      /\ run' = [Idle EXCEPT !.at = "lookup", !.job = o, !.op = op]
      /\ UNCHANGED <<history, staged, jobs>> /\ o \in Jobs /\ o \notin Attempts
  BY Numbers DEF ReopenPush, Ready, service, project
<1>2. jobs[o].base # None /\ jobs[o].upload = 0
  BY <1>1 DEF FolderInv, JobOk
<1>3. run' \in Command /\ run'.at = "lookup" /\ run'.job = o
  BY <1>1 DEF Command, Steps, Idle
<1>4. RunOk'
  BY <1>1, <1>2, <1>3 DEF RunOk, JobSteps, AttemptSteps
<1> QED BY <1>1, <1>3, <1>4, RunStep

(* The network, the service on its own, a command that stops.                *)
LEMMA LoseInv == ASSUME FolderInv, Lose PROVE FolderInv'
<1>1. /\ UNCHANGED <<service, files, base, jobs, plan, journal, run>>
      /\ \A r \in wire' : r \in wire \/ r \in Request
  BY DEF Lose, project
<1>2. ServiceInv' /\ Grows /\ JobsType'
  BY <1>1, StutterGrows
<1>3. RunOk' /\ run' \in Command /\ files' \in Content
  BY <1>1, <1>2, RunKept, Numbers
<1> QED BY <1>1, <1>2, <1>3, CommandStep

LEMMA ServeLateInv == ASSUME FolderInv, ServeLate PROVE FolderInv'
<1>1. PICK r \in wire : Serve(r)
  BY DEF ServeLate
<1>2. UNCHANGED <<project, run, wire>>
  BY DEF ServeLate
<1>3. SameRequests
  BY <1>2 DEF SameRequests, project
<1>4. RequestOk(r)
  BY DEF FolderInv
<1> QED BY <1>1, <1>2, <1>3, <1>4, ServeStep, ServiceStep

LEMMA ServiceNextInv ==
  ASSUME FolderInv, ServiceNext, UNCHANGED <<project, run, wire>> PROVE FolderInv'
<1>1. UNCHANGED jobs
  BY DEF project
<1>2. ServiceInv' /\ ServiceGrows
  BY <1>1, CommitStep, ExpireStep, WebEditStep DEF ServiceNext
<1> QED BY <1>2, ServiceStep

LEMMA StopInv == ASSUME FolderInv, Stop PROVE FolderInv'
BY IdleRun, IdleCommand, RunStep DEF Stop, Finished

(***************************************************************************)
(* The pull: its files are those of the reviewed plan                      *)
(***************************************************************************)
LEMMA FileStep ==
  ASSUME FolderInv, files' \in Content,
         UNCHANGED <<service, base, jobs, plan, journal, run, wire>>
  PROVE  FolderInv'
<1>1. ServiceInv' /\ Grows /\ JobsType'
  BY StutterGrows
<1>2. RunOk' /\ run' \in Command
  BY <1>1, RunKept, Numbers
<1> QED BY <1>1, <1>2, CommandStep

LEMMA PlanFacts ==
  ASSUME FolderInv, plan # None
  PROVE  /\ plan \in PlanRecord /\ PlanOk
         /\ plan.local \in Content /\ plan.remote \in Content
         /\ Merged(plan) \in Content
         /\ plan.base # None => plan.base \in BaseRecord /\ IsListing(plan.base)
         /\ BasePulled(plan) \in BaseRecord /\ IsListing(BasePulled(plan))
<1>1. plan \in PlanRecord /\ PlanOk
  BY DEF FolderInv, Types
<1>2. /\ plan.local \in Content /\ plan.remote \in Content /\ plan.rev \in Nat
      /\ plan.base \in BaseRecord \cup {None}
  BY <1>1 DEF PlanRecord
<1>3. Merged(plan) \in Content
  BY <1>2 DEF Merged, Content
<1>4. BasePulled(plan) \in BaseRecord
  BY <1>2 DEF BasePulled, BaseRecord
<1>5. IsListing(BasePulled(plan))
  BY <1>1 DEF IsListing, PlanOk, BasePulled
<1> QED BY <1>1, <1>2, <1>3, <1>4, <1>5 DEF PlanOk

LEMMA JournalFacts ==
  ASSUME FolderInv, journal # None
  PROVE  /\ plan # None /\ JournalOk
         /\ journal.before[BaseName] = plan.base
         /\ journal.after[BaseName] = BasePulled(plan)
         /\ \A f \in Fields : f # BaseName /\ f \in Names
                              /\ journal.before[f] = plan.local[f]
                              /\ journal.after[f] = Merged(plan)[f]
<1>1. JournalOk
  BY DEF FolderInv
<1>2. BaseName \in Names /\ \A f \in Fields : f # BaseName /\ f \in Names
  BY FieldsFacts DEF Names, BaseName
<1> QED BY <1>1, <1>2 DEF JournalOk, Before, After

LEMMA AuthorEditInv ==
  ASSUME FolderInv, NEW f \in Fields, NEW e \in AuthorEdits, AuthorEdit(f, e)
  PROVE  FolderInv'
<1>1. files \in Content
  BY Numbers
<1>2. files' \in Content
  BY <1>1 DEF AuthorEdit, Content, Edits
<1> QED BY <1>2, FileStep DEF AuthorEdit

LEMMA ReconcileInv ==
  ASSUME FolderInv, NEW f \in Fields, Reconcile(f) PROVE FolderInv'
<1>1. files \in Content /\ plan.remote \in Content
  BY Numbers, PlanFacts DEF Reconcile
<1>2. files' \in Content
  BY <1>1 DEF Reconcile, Content
<1> QED BY <1>2, FileStep DEF Reconcile

LEMMA PullInv == ASSUME FolderInv, Pull PROVE FolderInv'
<1>1. /\ run = Idle /\ journal = None /\ Len(history) > 0 /\ BaseRev <= Len(history)
      /\ plan' = [rev |-> Len(history), remote |-> history[Len(history)].content,
                  base |-> base, local |-> files]
      /\ UNCHANGED <<service, files, base, jobs, journal, run, wire>>
      /\ UNCHANGED history
  BY DEF Pull, Ready, Revision, service
<1>2. history[Len(history)] \in Listing /\ Len(history) \in 1..Len(history)
      /\ Len(history) \in Nat
  BY <1>1, Numbers
<1>3. history[Len(history)].content \in Content
  BY <1>2 DEF Listing
<1>4. /\ base \in BaseRecord \cup {None} /\ files \in Content
      /\ base # None => IsListing(base) /\ base.rev <= Len(history)
  BY <1>1, Numbers DEF FolderInv, Types, BaseRev
<1>5. plan' \in PlanRecord
  BY <1>1, <1>2, <1>3, <1>4 DEF PlanRecord
<1>6. PlanOk'
  BY <1>1, <1>2, <1>4 DEF PlanOk, IsListing
<1>7. run' \in Command /\ RunOk'
  BY <1>1, IdleRun DEF Finished
<1> QED BY <1>1, <1>4, <1>5, <1>6, <1>7, PullStep

LEMMA ApplyPlanInv == ASSUME FolderInv, ApplyPlan PROVE FolderInv'
<1> DEFINE before == [n \in Names |-> File(n)]
           after == [n \in Names |-> IF n = BaseName THEN BasePulled(plan) ELSE Merged(plan)[n]]
<1>1. /\ plan # None /\ plan.local = files /\ plan.base = base
      /\ \A f \in Fields : ~Conflict(plan, f)
      /\ journal' = [before |-> before, after |-> after]
      /\ run' = [Idle EXCEPT !.at = "replace", !.todo = Changed(before, after)]
      /\ UNCHANGED <<service, files, base, jobs, plan, wire>>
  BY DEF ApplyPlan
<1>2. before = Before(plan) /\ after = After(plan)
  BY <1>1 DEF Before, After, File
<1>3. journal' # None
  <2>1. \A n \in Names : before[n] \in FileValue /\ after[n] \in FileValue
    <3>1. \A f \in Fields : files[f] \in SUBSET Edits /\ Merged(plan)[f] \in SUBSET Edits
      BY <1>1, Numbers, PlanFacts DEF Content
    <3>2. base \in BaseRecord \cup {None} /\ BasePulled(plan) \in BaseRecord
      BY <1>1, PlanFacts DEF FolderInv, Types
    <3> QED BY <3>1, <3>2 DEF FileValue, File, Names
  <2>2. journal' \in JournalRecord
    BY <1>1, <2>1 DEF JournalRecord
  <2> QED BY <2>2, NoneFacts
<1> HIDE DEF before, after
<1>4. Changed(before, after) \in SUBSET Names
  BY DEF Changed
<1>5. run' \in Command /\ run'.at = "replace"
  BY <1>1, <1>4 DEF Command, Steps, Idle
<1>6. RunOk'
  BY <1>3, <1>5 DEF RunOk, JobSteps, AttemptSteps
<1>7. JournalOk'
  BY <1>1, <1>2, <1>5 DEF JournalOk
<1>8. /\ base' \in BaseRecord \cup {None} /\ files' \in Content
      /\ plan' \in PlanRecord \cup {None} /\ (base' # None => IsListing(base'))
  BY <1>1 DEF FolderInv, Types
<1> QED BY <1>1, <1>5, <1>6, <1>7, <1>8, PullStep

(* One of the pull's names is written, or put back.                          *)
LEMMA NamesLeft ==
  ASSUME FolderInv, run.todo # {}
  PROVE  /\ Last(run.todo) \in run.todo /\ First(run.todo) \in run.todo
         /\ run.todo \subseteq Names
         /\ BaseName \in run.todo => First(run.todo) = BaseName
<1>1. run.todo \subseteq Names /\ Names \subseteq Nat
  BY Numbers, FieldsFacts DEF Command, Names, BaseName
<1>2. Last(run.todo) \in run.todo
  <2>1. CASE run.todo = {BaseName}
    BY <2>1 DEF Last
  <2>2. CASE run.todo # {BaseName}
    <3>1. run.todo \ {BaseName} # {} /\ run.todo \ {BaseName} \subseteq Nat
      BY <1>1, <2>2
    <3> QED BY <2>2, <3>1, MinIn DEF Last
  <2> QED BY <2>1, <2>2
<1>3. First(run.todo) \in run.todo
  BY <1>1, MinIn DEF First
<1> QED BY <1>1, <1>2, <1>3 DEF First

LEMMA WriteStep ==
  ASSUME FolderInv, journal # None, NEW n \in Names, NEW value, Write(n, value),
         IF n = BaseName THEN value \in {plan.base, BasePulled(plan)}
         ELSE value \in SUBSET Edits
  PROVE  /\ files' \in Content
         /\ base' \in BaseRecord \cup {None} /\ (base' # None => IsListing(base'))
         /\ base' \in {plan.base, BasePulled(plan)}
         /\ n = BaseName => base' = value
         /\ n # BaseName => base' = base
<1>1. /\ plan # None /\ base \in {plan.base, BasePulled(plan)} /\ files \in Content
      /\ plan.base \in BaseRecord \cup {None}
      /\ plan.base # None => IsListing(plan.base)
      /\ BasePulled(plan) \in BaseRecord /\ IsListing(BasePulled(plan))
  BY JournalFacts, PlanFacts, Numbers DEF JournalOk, PlanRecord
<1>2. CASE n = BaseName
  BY <1>1, <1>2 DEF Write
<1>3. CASE n # BaseName
  <2>1. files' = [files EXCEPT ![n] = value] /\ base' = base /\ n \in Fields
    BY <1>3 DEF Write, Names
  <2>2. files' \in Content
    BY <1>1, <1>3, <2>1 DEF Content
  <2> QED BY <1>1, <1>3, <2>1, <2>2
<1> QED BY <1>2, <1>3

(* A step of a pull that stays in it: the journal and the plan are unchanged. *)
LEMMA ReplacingStep ==
  ASSUME FolderInv, journal # None, UNCHANGED <<service, jobs, wire, plan, journal>>,
         files' \in Content, base' \in BaseRecord \cup {None},
         base' # None => IsListing(base'),
         base' \in {plan.base, BasePulled(plan)},
         run' \in Command, run'.at \in {"idle", "replace", "check", "rollback"},
         run'.at = "rollback" => BaseName \in run'.todo \/ base' = plan.base
  PROVE  FolderInv'
<1>1. JournalOk
  BY DEF FolderInv
<1>2. JournalOk'
  BY <1>1 DEF JournalOk
<1>3. RunOk'
  BY DEF RunOk, JobSteps, AttemptSteps
<1>4. plan' \in PlanRecord \cup {None}
  BY DEF FolderInv, Types
<1> QED BY <1>2, <1>3, <1>4, PullStep

LEMMA PullBase ==
  ASSUME FolderInv
  PROVE  /\ files \in Content /\ base \in BaseRecord \cup {None}
         /\ base # None => IsListing(base)
         /\ journal # None => base \in {plan.base, BasePulled(plan)}
BY DEF FolderInv, Types, JournalOk

LEMMA ReplaceInv == ASSUME FolderInv, Replace PROVE FolderInv'
<1>1. /\ run.at = "replace" /\ run.todo # {}
      /\ UNCHANGED <<service, jobs, plan, journal, wire>>
  BY DEF Replace
<1>2. journal # None
  BY <1>1 DEF FolderInv, RunOk
<1> PICK n \in Names : n = Last(run.todo)
  BY <1>1, NamesLeft
<1>3. CASE Write(n, journal.after[n]) /\ run' = [run EXCEPT !.todo = @ \ {n}]
  <2>1. IF n = BaseName THEN journal.after[n] \in {plan.base, BasePulled(plan)}
        ELSE journal.after[n] \in SUBSET Edits
    BY <1>2, JournalFacts, PlanFacts DEF Names, Content
  <2>2. run' \in Command /\ run'.at = "replace"
    BY <1>1, <1>3, Numbers DEF Command
  <2>3. PICK value : value = journal.after[n]
    OBVIOUS
  <2> QED BY <1>1, <1>2, <1>3, <2>1, <2>2, <2>3, WriteStep, ReplacingStep
<1>4. CASE Goto("check") /\ UNCHANGED <<files, base>>
  <2>1. run' \in Command /\ run'.at = "check"
    BY <1>4, Numbers DEF Goto, Command, Steps
  <2> QED BY <1>1, <1>2, <1>4, <2>1, PullBase, ReplacingStep
<1> QED BY <1>3, <1>4 DEF Replace

LEMMA AppliedInv == ASSUME FolderInv, Applied PROVE FolderInv'
<1>1. /\ run.at = "replace" /\ UNCHANGED <<service, files, base, jobs, wire>>
      /\ journal # None
  BY DEF Applied, FolderInv, RunOk
<1>2. CASE journal' = None /\ plan' = None /\ Finished
  BY <1>1, <1>2, PullBase, IdleRun, PullStep
<1>3. CASE Goto("check") /\ UNCHANGED <<journal, plan>>
  <2>1. run' \in Command /\ run'.at = "check"
    BY <1>3, Numbers DEF Goto, Command, Steps
  <2> QED BY <1>1, <1>3, <2>1, PullBase, ReplacingStep
<1> QED BY <1>2, <1>3 DEF Applied

LEMMA RecoverInv == ASSUME FolderInv, Recover PROVE FolderInv'
<1>1. /\ journal # None
      /\ UNCHANGED <<service, files, base, jobs, plan, journal, wire>>
  BY DEF Recover, project
<1>2. run' \in Command /\ run'.at = "check"
  BY Numbers DEF Recover, Goto, Command, Steps
<1> QED BY <1>1, <1>2, PullBase, ReplacingStep

(* When the baseline is not among the names to restore it was not moved.     *)
LEMMA RollbackCheckInv == ASSUME FolderInv, RollbackCheck PROVE FolderInv'
<1> DEFINE names == Changed(journal.before, journal.after)
<1>1. /\ run.at = "check" /\ journal # None
      /\ UNCHANGED <<service, files, base, jobs, plan, journal, wire>>
  BY DEF RollbackCheck, project, FolderInv, RunOk
<1>2. CASE run' = [run EXCEPT !.at = "rollback", !.todo = names]
  <2>1. names \in SUBSET Names
    BY DEF Changed
  <2>2. BaseName \in names \/ plan.base = BasePulled(plan)
    BY <1>1, JournalFacts DEF Changed, Names
  <2> HIDE DEF names
  <2>3. run' \in Command /\ run'.at = "rollback" /\ run'.todo = names
    BY <1>2, <2>1, Numbers DEF Command, Steps
  <2>4. run'.at = "rollback" => BaseName \in run'.todo \/ base' = plan.base
    BY <1>1, <2>2, <2>3, PullBase
  <2> QED BY <1>1, <2>3, <2>4, PullBase, ReplacingStep
<1>3. CASE Finished
  BY <1>1, <1>3, IdleRun, IdleCommand, PullBase, ReplacingStep DEF Finished
<1> QED BY <1>2, <1>3 DEF RollbackCheck

LEMMA RollbackInv == ASSUME FolderInv, Rollback PROVE FolderInv'
<1>1. /\ run.at = "rollback" /\ run.todo # {}
      /\ UNCHANGED <<service, jobs, plan, journal, wire>>
  BY DEF Rollback
<1>2. /\ journal # None /\ (BaseName \in run.todo \/ base = plan.base)
  BY <1>1 DEF FolderInv, RunOk, JournalOk
<1> PICK n \in Names : n = First(run.todo)
  BY <1>1, NamesLeft
<1>3. Write(n, journal.before[n]) /\ run' = [run EXCEPT !.todo = @ \ {n}]
  BY DEF Rollback
<1>4. IF n = BaseName THEN journal.before[n] \in {plan.base, BasePulled(plan)}
      ELSE journal.before[n] \in SUBSET Edits
  BY <1>2, JournalFacts, PlanFacts DEF Names, Content
<1>5. run' \in Command /\ run'.at = "rollback" /\ run'.todo = run.todo \ {n}
  BY <1>1, <1>3, Numbers DEF Command
<1>6. PICK value : value = journal.before[n]
  OBVIOUS
<1>7. /\ files' \in Content /\ base' \in BaseRecord \cup {None}
      /\ base' # None => IsListing(base')
      /\ base' \in {plan.base, BasePulled(plan)}
      /\ n = BaseName => base' = value
      /\ n # BaseName => base' = base
  BY <1>2, <1>3, <1>4, <1>6, WriteStep
<1>8. BaseName \in run'.todo \/ base' = plan.base
  BY <1>1, <1>2, <1>5, <1>6, <1>7, NamesLeft, JournalFacts
<1> QED BY <1>1, <1>2, <1>5, <1>7, <1>8, ReplacingStep

LEMMA RolledBackInv == ASSUME FolderInv, RolledBack PROVE FolderInv'
<1>1. /\ journal' = None /\ Finished
      /\ UNCHANGED <<service, files, base, jobs, plan, wire>>
  BY DEF RolledBack
<1>2. plan' \in PlanRecord \cup {None}
  BY <1>1 DEF FolderInv, Types
<1> QED BY <1>1, <1>2, PullBase, IdleRun, PullStep

(***************************************************************************)
(* Theorems                                                                *)
(***************************************************************************)
LEMMA FolderNext == FolderInv /\ [StoreNext]_vars => FolderInv'
<1> SUFFICES ASSUME FolderInv, [StoreNext]_vars PROVE FolderInv'
  OBVIOUS
<1>1. CASE UNCHANGED vars
  BY <1>1, FileStep, Numbers DEF vars, project
<1>2. CASE StoreNext
  BY <1>2, PublishInv, DryRunInv, ReopenInv, PrepareInv, RecordInv, QueryInv, LookupInv,
     StartInv, SaveUploadInv, PutInv, FinishInv, CancelInv, WriteReceiptInv, WriteBaseInv,
     PushInv, ReopenPushInv, EditInv, PullInv, ApplyPlanInv, ReplaceInv, AppliedInv,
     RecoverInv, RollbackCheckInv, RollbackInv, RolledBackInv, AuthorEditInv,
     ReconcileInv, LoseInv, ServeLateInv, StopInv, ServiceNextInv DEF StoreNext
<1> QED BY <1>1, <1>2

(* The inductive invariant of the folder and the service.                    *)
THEOREM FolderHolds == Spec => []FolderInv
BY FolderInit, FolderNext, PTL DEF Spec

LEMMA FolderTyped == FolderInv => TypeOK
<1> SUFFICES ASSUME FolderInv PROVE TypeOK
  OBVIOUS
<1>1. /\ history \in Seq(Listing) /\ Len(history) \in Nat /\ DOMAIN history = 1..Len(history)
      /\ staged \in [Attempts -> Staging] /\ \A a \in Attempts : UploadOk(a)
  BY DEF FolderInv, Types
<1>2. ServiceTypeOK(Edits)
  <2>1. \A i \in 1..Len(history) : history[i] \in Listing
    BY <1>1
  <2>2. \A a \in Attempts : staged[a] \in
          [gen : 0..MaxGen, state : States, base : 0..Len(history), content : Content,
           parts : SUBSET Parts]
    BY <1>1 DEF Staging, UploadOk
  <2> QED BY <1>1, <2>1, <2>2 DEF ServiceTypeOK, Listing, Content, States
<1>3. base # None => base.rev \in 1..Revision /\ base.content \in Content
  BY DEF FolderInv, Types, IsListing, BaseRecord, Revision
<1>4. \A j \in Jobs : jobs[j] # None => jobs[j] \in JobRecord
  BY DEF FolderInv, Types
<1> QED BY <1>2, <1>3, <1>4, Numbers DEF TypeOK, Command

(* Type correctness of the folder, the service and the command; a recorded    *)
(* baseline names a revision the store has.                                   *)
THEOREM StoreTyped == Spec => []TypeOK
BY FolderHolds, FolderTyped, PTL

(* The baseline is the store's listing of its revision, word for word, at      *)
(* every step of publishing, pushing, pulling, rolling back and resuming.      *)
THEOREM BaselineExact == Spec => []BaseExact
<1>1. FolderInv => BaseExact
  BY DEF FolderInv, IsListing, BaseExact
<1> QED BY <1>1, FolderHolds, PTL

(* A receipt names the revision its own job made.                             *)
THEOREM ReceiptsHold == Spec => []ReceiptsTrue
<1>1. FolderInv => ReceiptsTrue
  <2> SUFFICES ASSUME FolderInv, NEW j \in Jobs, jobs[j] # None, jobs[j].receipt # 0
               PROVE  /\ jobs[j].receipt <= Revision
                      /\ history[jobs[j].receipt] = [by |-> j, content |-> jobs[j].content]
    BY DEF ReceiptsTrue
  <2>1. jobs[j].receipt \in 1..Len(history) /\ history[jobs[j].receipt].by = j
    BY DEF FolderInv, JobOk
  <2>2. history[jobs[j].receipt].content = jobs[j].content
    BY <2>1 DEF FolderInv, HistoryOk
  <2>3. history[jobs[j].receipt] \in Listing
    BY <2>1, Numbers
  <2> QED BY <2>1, <2>2, <2>3, Numbers DEF Listing, Revision
<1> QED BY <1>1, FolderHolds, PTL

(* A job whose author was sent away was not accepted.  It never will be: the   *)
(* verdict stays (only a new verdict replaces it) and so does this.            *)
THEOREM VerdictsFinal == Spec => []VerdictFinal
<1>1. FolderInv => VerdictFinal
  BY DEF FolderInv, JobOk, Closed, VerdictFinal
<1> QED BY <1>1, FolderHolds, PTL

LEMMA BaseMoves ==
  ASSUME StoreNext PROVE UNCHANGED base \/ WriteBase \/ Replace \/ Rollback
BY DEF StoreNext, Publish, DryRun, Reopen, Prepare, Record, Query, Lookup, Start, SaveUpload,
       Put, Finish, Cancel, WriteReceipt, Push, ReopenPush, Edit, Pull, ApplyPlan, Applied,
       Recover, RollbackCheck, RolledBack, AuthorEdit, Reconcile, Lose, ServeLate, Stop,
       project

(* Only a rollback moves the baseline back.                                    *)
THEOREM BaselineNeverBack == Spec => BaselineForward
<1>1. FolderInv /\ [StoreNext]_vars =>
        [base # None /\ run.at # "rollback" => base'.rev >= base.rev]_vars
  <2> SUFFICES ASSUME FolderInv, StoreNext, base # None, run.at # "rollback"
               PROVE  base'.rev >= base.rev
    BY DEF vars
  <2>1. base.rev \in Nat
    BY DEF FolderInv, IsListing
  <2>2. CASE UNCHANGED base
    BY <2>1, <2>2
  <2>3. CASE WriteBase
    <3>1. base' = BaseAfter(run.job, run.num) /\ run.num \in Nat
      BY <2>3, Numbers DEF WriteBase, Command
    <3> QED BY <2>1, <3>1 DEF BaseAfter, BaseRev
  <2>4. CASE Replace
    <3>1. journal # None
      BY <2>4 DEF Replace, FolderInv, RunOk
    <3>2. /\ journal.after[BaseName] = BasePulled(plan)
          /\ plan.rev \in Nat /\ (plan.base # None => plan.base.rev <= plan.rev)
          /\ base \in {plan.base, BasePulled(plan)}
      BY <3>1, JournalFacts, PlanFacts, Numbers DEF PlanOk, PlanRecord, JournalOk
    <3>3. base' = base \/ base' = BasePulled(plan)
      BY <2>4, <3>2 DEF Replace, Write
    <3> QED BY <2>1, <3>2, <3>3 DEF BasePulled
  <2>5. CASE Rollback
    BY <2>5 DEF Rollback
  <2> QED BY <2>2, <2>3, <2>4, <2>5, BaseMoves
<1> QED BY <1>1, FolderHolds, PTL DEF Spec, BaselineForward

-----------------------------------------------------------------------------
(***************************************************************************)
(* Theorems about StoreProject when the author resumes no attempt made     *)
(* before a pull or a push (the documentation says to prepare it again)    *)
(* and edits no file while a rollback replaces it: no revision of the      *)
(* listing drops an edit, the project's files include the baseline, and no *)
(* command takes an edit of the author's out of a file.                    *)
(*                                                                         *)
(* Both assumptions are premises of the theorems, not of the model: the    *)
(* program asks for the first and does not check the second.               *)
(***************************************************************************)

Careful == ~LateResume /\ ~EditsInRollback

\* What a revision says of a field; revision 0 is the listing before any.
Text(rev, f) == IF rev = 0 THEN {} ELSE history[rev].content[f]

HistoryGrows ==
  \A i, k \in 1..Len(history) : i <= k => Includes(history[k].content, history[i].content)

\* What the author ever published is in the project's files, and in the ones
\* a rollback would bring back.
Authored ==
  \A i \in 1..Len(history), f \in Fields :
    /\ history[i].content[f] \cap AuthorEdits \subseteq files[f]
    /\ journal # None => history[i].content[f] \cap AuthorEdits \subseteq plan.local[f]

PlanHonest == plan # None /\ plan.base # None => Includes(plan.local, plan.base.content)

\* What the author added to a field since the pull began.
Extra(f) == files[f] \ (plan.local[f] \cup Merged(plan)[f])

\* A job was written on the revision it names, and what it sends is in the
\* files; an attempt that has sent nothing yet, made on the newest revision,
\* says no more than the files and that revision, even if it was made of files
\* a pull had half replaced.
JobHonest(j) ==
  /\ \A f \in Fields : Text(jobs[j].on, f) \subseteq jobs[j].content[f]
  /\ jobs[j].base # None =>
       /\ jobs[j].base = jobs[j].on
       /\ Includes(files, jobs[j].content)
       /\ journal # None => Includes(plan.local, jobs[j].content)
  /\ jobs[j].base = None /\ jobs[j].on = Len(history) => \A f \in Fields :
       /\ jobs[j].content[f] \subseteq files[f] \cup Text(jobs[j].on, f)
       /\ journal # None =>
            jobs[j].content[f] \subseteq plan.local[f] \cup Text(jobs[j].on, f) \cup Extra(f)

\* The files move from the plan's local text to its merge and back.
JournalHonest ==
  /\ Includes(files, plan.local)
  /\ run.at = "replace" => \A f \in Fields \ run.todo : Merged(plan)[f] \subseteq files[f]
  /\ run.at = "rollback" =>
       \A f \in run.todo \ {BaseName} : files[f] \in {plan.local[f], Merged(plan)[f]}

RecordHonest ==
  run.at = "record" => /\ run.num = jobs[run.job].on
                       /\ Includes(files, jobs[run.job].content)

HonestInv ==
  /\ HistoryGrows
  /\ Authored
  /\ BaseHonest
  /\ PlanHonest
  /\ \A j \in Jobs : jobs[j] # None => JobHonest(j)
  /\ journal # None => JournalHonest
  /\ RecordHonest

(***************************************************************************)
(* Lemmas                                                                  *)
(***************************************************************************)
\* c could be the next revision: it includes every revision, and of the
\* author's edits only what is in the files.
Says(c) ==
  /\ \A k \in 1..Len(history) : Includes(c, history[k].content)
  /\ \A f \in Fields :
       /\ c[f] \cap AuthorEdits \subseteq files[f]
       /\ journal # None => c[f] \cap AuthorEdits \subseteq plan.local[f]

\* The service appends at most one revision, and that one could be.
Extended ==
  /\ Len(history') \in {Len(history), Len(history) + 1}
  /\ \A i \in 1..Len(history) : history'[i] = history[i]
  /\ Len(history') = Len(history) + 1 => Says(history'[Len(history')].content)

\* What the jobs say is the same.
JobsSay ==
  \A j \in Jobs :
    /\ jobs'[j] # None <=> jobs[j] # None
    /\ jobs[j] # None => /\ jobs'[j].content = jobs[j].content
                         /\ jobs'[j].on = jobs[j].on /\ jobs'[j].base = jobs[j].base

\* No pull and no recording of a baseline begins.
NothingBegins == run' = run \/ run'.at \notin {"record", "replace", "rollback"}

LEMMA Unextended ==
  ASSUME FolderInv, UNCHANGED history PROVE Extended
<1>1. Len(history) \in Nat
  BY Numbers
<1> QED BY <1>1 DEF Extended

LEMMA JobOnRevision ==
  ASSUME FolderInv, NEW j \in Jobs, jobs[j] # None
  PROVE  /\ jobs[j].on \in 0..Len(history) /\ jobs[j].content \in Content
         /\ jobs[j].base # None => jobs[j].base \in 0..Len(history)
         /\ \A f \in Fields : jobs[j].on # 0 =>
              Text(jobs[j].on, f) = history[jobs[j].on].content[f]
         /\ \A f \in Fields : jobs[j].on = 0 => Text(jobs[j].on, f) = {}
<1>1. JobOk(j) /\ JobsType
  BY Numbers DEF FolderInv
<1>2. jobs[j].on \in Nat /\ jobs[j].content \in Content
      /\ (jobs[j].base # None => jobs[j].base \in Nat)
  BY <1>1, JobFields
<1> QED BY <1>1, <1>2 DEF JobOk, Text

(* What a job sends can be the next revision when its base is the newest.    *)
LEMMA JobSays ==
  ASSUME FolderInv, HonestInv, NEW j \in Jobs, jobs[j] # None, jobs[j].base = Len(history)
  PROVE  Says(jobs[j].content)
<1>1. /\ Len(history) \in Nat /\ jobs[j].base # None /\ JobHonest(j)
  BY Numbers, NoneFacts DEF HonestInv
<1>2. /\ jobs[j].on = Len(history)
      /\ Includes(files, jobs[j].content)
      /\ journal # None => Includes(plan.local, jobs[j].content)
      /\ \A f \in Fields : Text(jobs[j].on, f) \subseteq jobs[j].content[f]
  BY <1>1 DEF JobHonest
<1>3. ASSUME NEW k \in 1..Len(history) PROVE Includes(jobs[j].content, history[k].content)
  <2>1. Len(history) # 0 /\ Len(history) \in 1..Len(history) /\ k <= Len(history)
    BY <1>1
  <2>2. Includes(history[Len(history)].content, history[k].content)
    BY <2>1 DEF HonestInv, HistoryGrows
  <2>3. \A f \in Fields : history[Len(history)].content[f] \subseteq jobs[j].content[f]
    BY <1>2, <2>1 DEF Text
  <2> QED BY <2>2, <2>3 DEF Includes
<1> QED BY <1>2, <1>3 DEF Says, Includes

LEMMA ServeExtends ==
  ASSUME FolderInv, HonestInv, NEW r, RequestOk(r), Serve(r)
  PROVE  Extended
<1>1. CASE UNCHANGED history
  BY <1>1, Unextended
<1>2. CASE history' # history
  <2>1. EditListing(r)
    BY <1>2 DEF Serve, StartUpload, PutPart, FinishUpload, CancelUpload
  <2>2. PICK j \in Jobs :
          /\ jobs[j] # None
          /\ r = [kind |-> "edit", job |-> j, base |-> jobs[j].base,
                  content |-> jobs[j].content]
    BY <2>1 DEF EditListing, RequestOk
  <2>3. /\ history' = Append(history, [by |-> j, content |-> jobs[j].content])
        /\ jobs[j].base = Len(history)
    BY <1>2, <2>1, <2>2 DEF EditListing, Append1, Revision
  <2>4. [by |-> j, content |-> jobs[j].content] \in Listing
    BY <2>2, JobOnRevision DEF Listing
  <2>5. /\ Len(history') = Len(history) + 1
        /\ \A i \in 1..Len(history) : history'[i] = history[i]
        /\ history'[Len(history')].content = jobs[j].content
    BY <2>3, <2>4, Appended, Numbers
  <2> QED BY <2>2, <2>3, <2>5, JobSays DEF Extended
<1> QED BY <1>1, <1>2

LEMMA CommitExtends ==
  ASSUME FolderInv, HonestInv, NEW a \in Attempts, Commit(a)
  PROVE  Extended
<1>1. CASE UNCHANGED history
  BY <1>1, Unextended
<1>2. CASE history' # history
  <2>1. /\ history' = Append(history, [by |-> a, content |-> staged[a].content])
        /\ staged[a].base = Len(history) /\ staged[a].state = "finalizing"
    BY <1>2 DEF Commit, Append1, Revision
  <2>2. /\ a \in Jobs /\ jobs[a] # None /\ staged[a].content = jobs[a].content
        /\ jobs[a].base = Len(history)
    BY <2>1, Numbers DEF FolderInv, UploadOk
  <2>3. [by |-> a, content |-> staged[a].content] \in Listing
    BY <2>2, JobOnRevision DEF Listing
  <2>4. /\ Len(history') = Len(history) + 1
        /\ \A i \in 1..Len(history) : history'[i] = history[i]
        /\ history'[Len(history')].content = jobs[a].content
    BY <2>1, <2>2, <2>3, Appended, Numbers
  <2> QED BY <2>2, <2>4, JobSays DEF Extended
<1> QED BY <1>1, <1>2

LEMMA WebEditExtends ==
  ASSUME FolderInv, HonestInv, NEW f \in Fields, NEW e \in WebEdits, WebEdit(f, e)
  PROVE  Extended
<1> DEFINE n == history[Len(history)].content
           c == [n EXCEPT ![f] = @ \cup {e}]
<1>1. /\ Len(history) \in Nat /\ Len(history) > 0 /\ history \in Seq(Listing)
      /\ history' = Append(history, [by |-> WebSite, content |-> c])
  BY Numbers DEF WebEdit, Append1, Revision
<1>2. history[Len(history)] \in Listing /\ Len(history) \in 1..Len(history)
  BY <1>1
<1>3. n \in Content
  BY <1>2 DEF Listing
<1>4. c \in Content /\ (\A g \in Fields : n[g] \subseteq c[g])
      /\ e \notin AuthorEdits
      /\ (\A g \in Fields : c[g] \cap AuthorEdits \subseteq n[g])
  BY <1>3, StoreAssumption DEF Content, Edits, StoreAssumption
<1> HIDE DEF c
<1>5. [by |-> WebSite, content |-> c] \in Listing
  BY <1>4 DEF Listing
<1>6. /\ Len(history') = Len(history) + 1
      /\ \A i \in 1..Len(history) : history'[i] = history[i]
      /\ history'[Len(history')].content = c
  BY <1>1, <1>5, Appended
<1>7. \A k \in 1..Len(history) : Includes(n, history[k].content)
  BY <1>1, <1>2 DEF HonestInv, HistoryGrows
<1>8. \A g \in Fields : /\ n[g] \cap AuthorEdits \subseteq files[g]
                        /\ journal # None => n[g] \cap AuthorEdits \subseteq plan.local[g]
  BY <1>2 DEF HonestInv, Authored
<1> HIDE DEF n
<1>9. Says(c)
  BY <1>4, <1>7, <1>8 DEF Says, Includes
<1> QED BY <1>6, <1>9 DEF Extended

LEMMA GrowsFurther ==
  ASSUME FolderInv, HistoryGrows, Extended PROVE HistoryGrows'
<1> SUFFICES ASSUME NEW i \in 1..Len(history'), NEW k \in 1..Len(history'), i <= k
             PROVE  Includes(history'[k].content, history'[i].content)
  BY DEF HistoryGrows
<1>1. Len(history) \in Nat /\ Len(history') \in {Len(history), Len(history) + 1}
  BY Numbers DEF Extended
<1>2. CASE k \in 1..Len(history)
  <2>1. i \in 1..Len(history)
    BY <1>1, <1>2
  <2> QED BY <1>2, <2>1 DEF Extended, HistoryGrows
<1>3. CASE k = Len(history) + 1 /\ i = k
  BY <1>3 DEF Includes
<1>4. CASE k = Len(history) + 1 /\ i \in 1..Len(history)
  <2>1. Says(history'[k].content) /\ history'[i] = history[i]
    BY <1>1, <1>4 DEF Extended
  <2> QED BY <1>4, <2>1 DEF Says
<1> QED BY <1>1, <1>2, <1>3, <1>4

LEMMA AuthoredFurther ==
  ASSUME FolderInv, Authored, Extended, UNCHANGED <<files, plan, journal>>
  PROVE  Authored'
<1> SUFFICES ASSUME NEW i \in 1..Len(history'), NEW f \in Fields
             PROVE  /\ history'[i].content[f] \cap AuthorEdits \subseteq files[f]
                    /\ journal # None =>
                         history'[i].content[f] \cap AuthorEdits \subseteq plan.local[f]
  BY DEF Authored
<1>1. Len(history) \in Nat /\ Len(history') \in {Len(history), Len(history) + 1}
  BY Numbers DEF Extended
<1>2. CASE i \in 1..Len(history)
  BY <1>2 DEF Extended, Authored
<1>3. CASE i = Len(history) + 1 /\ Len(history') = i
  BY <1>1, <1>3 DEF Extended, Says
<1> QED BY <1>1, <1>2, <1>3

LEMMA TextKept ==
  ASSUME FolderInv, Extended, NEW rev \in 0..Len(history), NEW f
  PROVE  Text(rev, f)' = Text(rev, f)
<1>1. Len(history) \in Nat
  BY Numbers
<1> QED BY <1>1 DEF Text, Extended

(* Everything the invariant says of one job, when the files stay.            *)
LEMMA JobHonestKept ==
  ASSUME FolderInv, Extended, UNCHANGED <<files, plan, journal>>,
         NEW j \in Jobs, jobs[j] # None, JobHonest(j),
         jobs'[j].content = jobs[j].content, jobs'[j].on = jobs[j].on,
         jobs'[j].base = jobs[j].base
  PROVE  JobHonest(j)'
<1>1. /\ Len(history) \in Nat /\ Len(history) <= Len(history')
      /\ jobs[j].on \in 0..Len(history)
  BY Numbers, JobOnRevision DEF Extended
<1>2. \A f \in Fields : Text(jobs[j].on, f)' = Text(jobs[j].on, f)
  <2> PICK n \in 0..Len(history) : n = jobs[j].on
    BY <1>1
  <2>1. \A f \in Fields : Text(n, f)' = Text(n, f)
    BY TextKept
  <2> QED BY <2>1 DEF Text
<1>3. \A f \in Fields : Extra(f)' = Extra(f)
  BY DEF Extra
<1>4. jobs[j].on = Len(history') => jobs[j].on = Len(history)
  BY <1>1 DEF Extended
<1>5. \A f \in Fields : Text(jobs[j].on, f)' \subseteq jobs'[j].content[f]
  BY <1>2 DEF JobHonest
<1>6. jobs'[j].base # None =>
        /\ jobs'[j].base = jobs'[j].on
        /\ Includes(files, jobs'[j].content)
        /\ journal # None => Includes(plan.local, jobs'[j].content)
  BY DEF JobHonest
<1>7. jobs'[j].base = None /\ jobs'[j].on = Len(history') => \A f \in Fields :
        /\ jobs'[j].content[f] \subseteq files[f] \cup Text(jobs[j].on, f)'
        /\ journal # None =>
             jobs'[j].content[f] \subseteq plan.local[f] \cup Text(jobs[j].on, f)'
                                           \cup Extra(f)'
  BY <1>2, <1>3, <1>4 DEF JobHonest
<1> QED BY <1>5, <1>6, <1>7 DEF JobHonest

(* A step that moves neither the files nor the baseline nor a pull.          *)
LEMMA QuietStep ==
  ASSUME FolderInv, HonestInv, Extended, JobsSay, NothingBegins,
         UNCHANGED <<files, base, plan, journal>>
  PROVE  HonestInv'
<1>1. HistoryGrows' /\ Authored'
  BY GrowsFurther, AuthoredFurther DEF HonestInv
<1>2. BaseHonest' /\ PlanHonest'
  BY DEF HonestInv, BaseHonest, PlanHonest
<1>3. \A j \in Jobs : jobs'[j] # None => JobHonest(j)'
  BY JobHonestKept DEF HonestInv, JobsSay
<1>4. journal' # None => JournalHonest'
  BY DEF HonestInv, JournalHonest, NothingBegins
<1>5. RecordHonest'
  <2> SUFFICES ASSUME run'.at = "record", run' = run
               PROVE  /\ run.num = jobs'[run.job].on
                      /\ Includes(files, jobs'[run.job].content)
    BY DEF RecordHonest, NothingBegins
  <2>1. run.job \in Jobs /\ jobs[run.job] # None
    BY Numbers DEF FolderInv, RunOk
  <2> QED BY <2>1 DEF HonestInv, RecordHonest, JobsSay
<1> QED BY <1>1, <1>2, <1>3, <1>4, <1>5 DEF HonestInv

(* When a plan has no conflict its merge includes both sides: a field is left *)
(* out only when the other side includes it.                                  *)
LEMMA MergeIncludes ==
  ASSUME FolderInv, HistoryGrows, PlanHonest, plan # None,
         \A f \in Fields : ~Conflict(plan, f)
  PROVE  Includes(Merged(plan), plan.local) /\ Includes(Merged(plan), plan.remote)
<1>1. /\ PlanOk /\ Len(history) \in Nat
      /\ plan.base # None => Includes(plan.local, plan.base.content)
  BY PlanFacts, Numbers DEF PlanHonest
<1>2. plan.base # None => Includes(plan.remote, plan.base.content)
  <2> SUFFICES ASSUME plan.base # None PROVE Includes(plan.remote, plan.base.content)
    OBVIOUS
  <2>1. /\ plan.base.rev \in 1..Len(history) /\ plan.rev \in 1..Len(history)
        /\ plan.base.rev <= plan.rev
    BY <1>1 DEF PlanOk, IsListing
  <2> QED BY <1>1, <2>1 DEF PlanOk, IsListing, HistoryGrows
<1> SUFFICES ASSUME NEW f \in Fields
             PROVE  /\ plan.local[f] \subseteq Merged(plan)[f]
                    /\ plan.remote[f] \subseteq Merged(plan)[f]
  BY DEF Includes
<1>3. ~Conflict(plan, f)
  OBVIOUS
<1>4. Merged(plan)[f] = IF ~KeepsLocal(plan, f) /\ TakesRemote(plan, f)
                        THEN plan.remote[f] ELSE plan.local[f]
  BY DEF Merged
<1>5. CASE KeepsLocal(plan, f)
  BY <1>1, <1>4, <1>5 DEF KeepsLocal, Includes
<1>6. CASE ~KeepsLocal(plan, f) /\ TakesRemote(plan, f)
  BY <1>2, <1>4, <1>6 DEF TakesRemote, Includes
<1>7. CASE ~KeepsLocal(plan, f) /\ ~TakesRemote(plan, f)
  BY <1>3, <1>4, <1>7 DEF Conflict
<1> QED BY <1>5, <1>6, <1>7

(***************************************************************************)
(* The quiet actions                                                       *)
(***************************************************************************)
LEMMA QuietRun ==
  ASSUME FolderInv, HonestInv, NothingBegins,
         UNCHANGED <<service, files, base, jobs, plan, journal>>
  PROVE  HonestInv'
<1>1. UNCHANGED <<history, files, base, jobs, plan, journal>>
  BY DEF service
<1>2. Extended /\ JobsSay
  BY <1>1, Unextended DEF JobsSay
<1> QED BY <1>1, <1>2, QuietStep

LEMMA FailSays ==
  ASSUME FolderInv, NEW j \in Jobs, run.job = j, jobs[j] # None, NEW v \in Verdicts, Fail(v)
  PROVE  JobsSay /\ NothingBegins
<1>1. jobs' = [jobs EXCEPT ![j].verdict = v] /\ run' = Idle
  BY DEF Fail, Finished
<1>2. SameRequests
  BY <1>1, VerdictSame
<1> QED BY <1>1, <1>2, IdleCommand DEF SameRequests, JobsSay, NothingBegins

LEMMA SameSays ==
  ASSUME UNCHANGED jobs, run'.at \notin {"record", "replace", "rollback"}
  PROVE  JobsSay /\ NothingBegins
BY DEF JobsSay, NothingBegins

\* Where a command can be after one of these steps.
LEMMA GotoAt ==
  ASSUME FolderInv, NEW step \in Steps, Goto(step) PROVE run'.at = step
BY Numbers DEF Goto, Command

LEMMA AcceptedAt == ASSUME NEW n, Accepted(n) PROVE run'.at = "receipt"
BY DEF Accepted, Idle

LEMMA SendingAt == ASSUME NEW have, run' = Sending(have) PROVE run'.at \in {"parts", "finish"}
BY DEF Sending, Idle

LEMMA PublishHonest ==
  ASSUME FolderInv, HonestInv, NEW a \in Attempts, Publish(a) PROVE HonestInv'
<1>1. run'.at = "prepare" /\ UNCHANGED <<service, files, base, jobs, plan, journal>>
  BY DEF Publish, Idle, project
<1> QED BY <1>1, QuietRun DEF NothingBegins

LEMMA QueryHonest == ASSUME FolderInv, HonestInv, Query PROVE HonestInv'
<1> PICK a \in Attempts : run.job = a /\ jobs[a] # None /\ jobs[a].base # None
  BY DEF Query, FolderInv, RunOk, AttemptSteps, JobSteps
<1> PICK s \in States : s = UploadState(a, jobs[a].upload)
  BY UploadFacts
<1>1. /\ UNCHANGED <<service, files, base, plan, journal>> /\ UNCHANGED history
      /\ a \in Jobs
  BY Numbers DEF Query, service
<1>2. JobsSay /\ NothingBegins
  <2>1. CASE s = "none"
    <3>1. Goto("lookup") /\ UNCHANGED jobs
      BY <2>1 DEF Query, Forgotten
    <3>2. run'.at = "lookup"
      BY <3>1, GotoAt DEF Steps
    <3> QED BY <3>1, <3>2, SameSays
  <2>2. CASE s = "accepted"
    <3>1. Accepted(Receipt(a)) /\ UNCHANGED jobs
      BY <2>2 DEF Query
    <3> QED BY <3>1, AcceptedAt, SameSays
  <2>3. CASE s \notin {"none", "accepted"} /\ run.op = "status"
    <3>1. Finished /\ UNCHANGED jobs
      BY <2>3 DEF Query
    <3> QED BY <3>1, IdleCommand, SameSays DEF Finished
  <2>4. CASE s \notin {"none", "accepted"} /\ run.op = "cancel"
    <3>1. Goto("cancel") /\ UNCHANGED jobs
      BY <2>4 DEF Query
    <3>2. run'.at = "cancel"
      BY <3>1, GotoAt DEF Steps
    <3> QED BY <3>1, <3>2, SameSays
  <2>5. CASE s \notin {"none", "accepted"} /\ run.op \notin {"status", "cancel"}
    <3>1. Proceed(s, staged[a].parts)
      BY <2>5 DEF Query
    <3>2. CASE s \in {"uploading", "finalizing"}
      <4>1. UNCHANGED jobs /\ \E have : run' = Sending(have)
        BY <3>1, <3>2 DEF Proceed
      <4>2. run'.at \in {"parts", "finish"}
        BY <4>1, SendingAt
      <4> QED BY <4>1, <4>2, SameSays
    <3>3. CASE s \notin {"uploading", "finalizing"}
      <4>1. Fail(s) /\ s \in Verdicts
        BY <2>5, <3>1, <3>3 DEF Proceed, States, Verdicts
      <4> QED BY <1>1, <4>1, FailSays
    <3> QED BY <3>2, <3>3
  <2> QED BY <2>1, <2>2, <2>3, <2>4, <2>5
<1> QED BY <1>1, <1>2, Unextended, QuietStep

LEMMA LookupHonest == ASSUME FolderInv, HonestInv, Lookup PROVE HonestInv'
<1> PICK j \in Jobs : run.job = j /\ jobs[j] # None
  BY DEF Lookup, FolderInv, RunOk, JobSteps
<1>1. UNCHANGED <<service, files, base, plan, journal>> /\ UNCHANGED history
  BY DEF Lookup, service
<1>2. JobsSay /\ NothingBegins
  <2>1. CASE Accepted(Receipt(j)) /\ UNCHANGED jobs
    BY <2>1, AcceptedAt, SameSays
  <2>2. CASE Finished /\ UNCHANGED jobs
    BY <2>2, IdleCommand, SameSays DEF Finished
  <2>3. CASE Fail("gone")
    BY <2>3, FailSays DEF Verdicts
  <2>4. CASE Goto(IF j \in Ops THEN "edit" ELSE "start") /\ UNCHANGED jobs
    <3>1. PICK step \in {"edit", "start"} : Goto(step)
      BY <2>4
    <3>2. run'.at = step
      BY <3>1, GotoAt DEF Steps
    <3> QED BY <2>4, <3>2, SameSays
  <2> QED BY <2>1, <2>2, <2>3, <2>4 DEF Lookup
<1> QED BY <1>1, <1>2, Unextended, QuietStep

(* A step that serves a request of the running command.                      *)
LEMMA ExchangeHonest ==
  ASSUME FolderInv, HonestInv, NEW r \in Request, Serve(r), JobsSay, NothingBegins,
         UNCHANGED <<files, base, plan, journal>>
  PROVE  HonestInv'
BY RequestsOk, ServeExtends, QuietStep

LEMMA StartHonest == ASSUME FolderInv, HonestInv, Start PROVE HonestInv'
<1> PICK r \in Request : Serve(r)
  BY DEF Start
<1>1. run'.at \in {"receipt", "idle", "save"} /\ UNCHANGED <<files, base, jobs, plan, journal>>
  BY Numbers DEF Start, Idle, Command, project
<1> QED BY <1>1, SameSays, ExchangeHonest

LEMMA PutHonest == ASSUME FolderInv, HonestInv, Put PROVE HonestInv'
<1> PICK r \in Request :
      /\ Serve(r)
      /\ run' = IF StateIn(staged', r.job, r.gen) = "uploading"
                THEN Sending(run.have \cup {r.part}) ELSE Idle
  BY DEF Put
<1>1. run' = Idle \/ \E have : run' = Sending(have)
  OBVIOUS
<1>2. run'.at \in {"idle", "parts", "finish"}
  BY <1>1, SendingAt, IdleCommand
<1>3. UNCHANGED <<files, base, jobs, plan, journal>>
  BY DEF Put, project
<1> QED BY <1>2, <1>3, SameSays, ExchangeHonest

LEMMA EndHonest ==
  ASSUME FolderInv, HonestInv, Finish \/ Cancel \/ Edit PROVE HonestInv'
<1> PICK r \in Request : Serve(r)
  BY DEF Finish, Cancel, Edit
<1>0. run.at \in {"finish", "cancel", "edit"}
  BY DEF Finish, Cancel, Edit
<1> PICK j \in Jobs : run.job = j /\ jobs[j] # None
  BY <1>0 DEF FolderInv, RunOk, JobSteps, AttemptSteps
<1>1. UNCHANGED <<files, base, plan, journal>>
  BY DEF Finish, Cancel, Edit
<1>2. \/ Accepted(ReceiptIn(history', j)) /\ UNCHANGED jobs
      \/ \E v \in Verdicts : Fail(v)
      \/ Finished /\ UNCHANGED jobs
  <2>1. CASE Finish
    BY <2>1 DEF Finish, Verdicts
  <2>2. CASE Cancel
    BY <2>2 DEF Cancel, Verdicts
  <2>3. CASE Edit
    BY <2>3 DEF Edit, Verdicts
  <2> QED BY <2>1, <2>2, <2>3
<1>3. JobsSay /\ NothingBegins
  <2>1. CASE Accepted(ReceiptIn(history', j)) /\ UNCHANGED jobs
    <3>1. PICK n : n = ReceiptIn(history', j)
      OBVIOUS
    <3>2. run'.at = "receipt"
      BY <2>1, <3>1, AcceptedAt
    <3> QED BY <2>1, <3>2, SameSays
  <2>2. CASE \E v \in Verdicts : Fail(v)
    BY <2>2, FailSays
  <2>3. CASE Finished /\ UNCHANGED jobs
    BY <2>3, IdleCommand, SameSays DEF Finished
  <2> QED BY <1>2, <2>1, <2>2, <2>3
<1> QED BY <1>1, <1>3, ExchangeHonest

(* Saving an upload or a receipt changes nothing a job says.                 *)
LEMMA SaveUploadHonest == ASSUME FolderInv, HonestInv, SaveUpload PROVE HonestInv'
<1> PICK a \in Attempts : /\ run.job = a /\ jobs[a] # None /\ run.then = "uploading"
                          /\ run.num \in 1..staged[a].gen
  BY DEF SaveUpload, FolderInv, RunOk, AttemptSteps, JobSteps
<1>1. /\ jobs' = [jobs EXCEPT ![a].upload = run.num] /\ run' = Sending(run.have)
      /\ UNCHANGED <<service, files, base, plan, journal>> /\ UNCHANGED history
      /\ a \in Jobs /\ JobsType
  BY Numbers DEF SaveUpload, service
<1>2. jobs[a] \in JobRecord
  BY <1>1, JobFields
<1>3. JobsSay
  <2>1. \A j \in Jobs \ {a} : jobs'[j] = jobs[j]
    BY <1>1 DEF JobsType
  <2>2. jobs'[a] = [jobs[a] EXCEPT !.upload = run.num]
    BY <1>1 DEF JobsType
  <2>3. run.num \in 0..MaxGen
    BY FieldsFacts DEF FolderInv, Types, Staging
  <2>4. /\ jobs'[a] \in JobRecord /\ jobs'[a].content = jobs[a].content
        /\ jobs'[a].on = jobs[a].on /\ jobs'[a].base = jobs[a].base
    BY <1>2, <2>2, <2>3 DEF JobRecord
  <2> QED BY <2>1, <2>4, NoneFacts DEF JobsSay
<1>4. NothingBegins
  <2>1. PICK have : run' = Sending(have)
    BY <1>1
  <2> QED BY <2>1, SendingAt DEF NothingBegins
<1> QED BY <1>1, <1>3, <1>4, Unextended, QuietStep

LEMMA WriteReceiptHonest == ASSUME FolderInv, HonestInv, WriteReceipt PROVE HonestInv'
<1> PICK a \in Jobs : run.job = a /\ jobs[a] # None
  BY DEF WriteReceipt, FolderInv, RunOk, JobSteps
<1>1. /\ jobs' = [jobs EXCEPT ![a].receipt = run.num] /\ Goto("base")
      /\ UNCHANGED <<service, files, base, plan, journal>> /\ UNCHANGED history
      /\ JobsType /\ run.num \in Nat
  BY Numbers DEF WriteReceipt, service, Command
<1>2. jobs[a] \in JobRecord
  BY <1>1, JobFields
<1>3. JobsSay
  <2>1. \A j \in Jobs \ {a} : jobs'[j] = jobs[j]
    BY <1>1 DEF JobsType
  <2>2. jobs'[a] = [jobs[a] EXCEPT !.receipt = run.num]
    BY <1>1 DEF JobsType
  <2>3. /\ jobs'[a] \in JobRecord /\ jobs'[a].content = jobs[a].content
        /\ jobs'[a].on = jobs[a].on /\ jobs'[a].base = jobs[a].base
    BY <1>1, <1>2, <2>2 DEF JobRecord
  <2> QED BY <2>1, <2>3, NoneFacts DEF JobsSay
<1>4. NothingBegins
  BY <1>1, GotoAt DEF Steps, NothingBegins
<1> QED BY <1>1, <1>3, <1>4, Unextended, QuietStep

LEMMA OthersHonest ==
  ASSUME FolderInv, HonestInv,
         \/ \E o \in Ops, op \in {"resume", "status"} : ReopenPush(o, op)
         \/ Recover \/ Lose \/ ServeLate \/ Stop
         \/ ServiceNext /\ UNCHANGED <<project, run, wire>>
  PROVE  HonestInv'
<1>1. ASSUME NEW o \in Ops, NEW op \in {"resume", "status"}, ReopenPush(o, op)
      PROVE  HonestInv'
  <2>1. run'.at = "lookup" /\ UNCHANGED <<service, files, base, jobs, plan, journal>>
    BY <1>1 DEF ReopenPush, Idle, project
  <2> QED BY <2>1, QuietRun DEF NothingBegins
<1>2. CASE Recover
  <2>1. run'.at = "check" /\ UNCHANGED <<service, files, base, jobs, plan, journal>>
    BY <1>2, GotoAt DEF Recover, project, Steps
  <2> QED BY <2>1, QuietRun DEF NothingBegins
<1>3. CASE Lose
  BY <1>3, QuietRun DEF Lose, project, NothingBegins
<1>4. CASE ServeLate
  <2>1. PICK r \in wire : Serve(r)
    BY <1>4 DEF ServeLate
  <2>2. UNCHANGED <<files, base, jobs, plan, journal, run>>
    BY <1>4 DEF ServeLate, project
  <2>3. Extended
    BY <2>1, ServeExtends DEF FolderInv
  <2> QED BY <2>2, <2>3, QuietStep DEF JobsSay, NothingBegins
<1>5. CASE Stop
  BY <1>5, IdleCommand, QuietRun DEF Stop, Finished, project, NothingBegins
<1>6. CASE ServiceNext /\ UNCHANGED <<project, run, wire>>
  <2>1. UNCHANGED <<files, base, jobs, plan, journal, run>>
    BY <1>6 DEF project
  <2>2. Extended
    BY <1>6, CommitExtends, WebEditExtends, Unextended DEF ServiceNext, Expire
  <2> QED BY <2>1, <2>2, QuietStep DEF JobsSay, NothingBegins
<1> QED BY <1>1, <1>2, <1>3, <1>4, <1>5, <1>6

(***************************************************************************)
(* The actions that make a job, or record its baseline                     *)
(***************************************************************************)
\* What the newest revision the project knows says is in the files.
LEMMA BaseText ==
  ASSUME FolderInv, HonestInv, NEW f \in Fields
  PROVE  Text(BaseRev, f) \subseteq files[f]
<1>1. CASE base = None
  BY <1>1 DEF BaseRev, Text
<1>2. CASE base # None
  <2>1. IsListing(base) /\ Includes(files, base.content) /\ Len(history) \in Nat
    BY <1>2, Numbers DEF FolderInv, HonestInv, BaseHonest
  <2>2. Text(BaseRev, f) = base.content[f]
    BY <1>2, <2>1 DEF IsListing, BaseRev, Text
  <2> QED BY <2>1, <2>2 DEF Includes
<1> QED BY <1>1, <1>2

\* A step that makes or changes one job.
LEMMA OneJob ==
  ASSUME FolderInv, HonestInv, NEW a \in Jobs,
         \A j \in Jobs \ {a} : jobs'[j] = jobs[j],
         jobs'[a] # None => JobHonest(a)',
         RecordHonest', run' = run \/ run'.at \notin {"replace", "rollback"},
         UNCHANGED <<history, files, base, plan, journal>>
  PROVE  HonestInv'
<1>1. HistoryGrows' /\ Authored' /\ BaseHonest' /\ PlanHonest'
  BY DEF HonestInv, HistoryGrows, Authored, BaseHonest, PlanHonest
<1>2. ASSUME NEW j \in Jobs, jobs'[j] # None PROVE JobHonest(j)'
  <2>1. CASE j = a
    BY <1>2, <2>1
  <2>2. CASE j # a
    <3>1. jobs'[j] = jobs[j] /\ JobHonest(j)
      BY <1>2, <2>2 DEF HonestInv
    <3> QED BY <3>1 DEF JobHonest, Text, Extra
  <2> QED BY <2>1, <2>2
<1>3. journal' # None => JournalHonest'
  BY DEF HonestInv, JournalHonest
<1> QED BY <1>1, <1>2, <1>3 DEF HonestInv

LEMMA NewJobHonest ==
  ASSUME FolderInv, HonestInv, NEW a \in Jobs, NEW b \in Nat \cup {None},
         b # None => b = BaseRev /\ journal = None,
         jobs'[a] = Saved(b), UNCHANGED <<history, files, base, plan, journal>>
  PROVE  JobHonest(a)'
<1>1. /\ jobs'[a].content = files /\ jobs'[a].on = BaseRev /\ jobs'[a].base = b
  BY DEF Saved
<1>2. \A f \in Fields : Text(BaseRev, f)' = Text(BaseRev, f) /\ Extra(f)' = Extra(f)
  BY DEF Text, Extra, BaseRev
<1>3. BaseRev' = BaseRev
  BY DEF BaseRev
<1>4. \A f \in Fields : Text(jobs[a].on, f)' = Text(BaseRev, f)
  BY <1>1, <1>2, <1>3 DEF Text
<1>5. ASSUME journal # None, BaseRev = Len(history), NEW f \in Fields
      PROVE  files[f] \subseteq plan.local[f] \cup Text(BaseRev, f) \cup Extra(f)
  <2>1. /\ base \in {plan.base, BasePulled(plan)} /\ PlanOk /\ Len(history) \in Nat
    BY <1>5, JournalFacts, PlanFacts, Numbers DEF JournalOk
  <2>2. plan.rev = Len(history)
    <3>1. CASE base = None
      BY <1>5, <2>1, <3>1 DEF BaseRev, PlanOk
    <3>2. CASE base # None
      BY <1>5, <2>1, <3>2 DEF BaseRev, PlanOk, BasePulled, IsListing
    <3> QED BY <3>1, <3>2
  <2>3. Text(BaseRev, f) = plan.remote[f]
    BY <1>5, <2>1, <2>2 DEF Text, PlanOk
  <2>4. Merged(plan)[f] \in {plan.local[f], plan.remote[f]}
    BY DEF Merged
  <2> QED BY <2>3, <2>4 DEF Extra
<1>6. \A f \in Fields : Text(jobs[a].on, f)' \subseteq jobs'[a].content[f]
  BY <1>1, <1>4, BaseText
<1>7. jobs'[a].base # None =>
        /\ jobs'[a].base = jobs'[a].on
        /\ Includes(files', jobs'[a].content)
        /\ journal' # None => Includes(plan'.local, jobs'[a].content)
  BY <1>1 DEF Includes
<1>8. jobs'[a].base = None /\ jobs'[a].on = Len(history') => \A f \in Fields :
        /\ jobs'[a].content[f] \subseteq files'[f] \cup Text(jobs[a].on, f)'
        /\ journal' # None =>
             jobs'[a].content[f] \subseteq plan'.local[f] \cup Text(jobs[a].on, f)'
                                           \cup Extra(f)'
  BY <1>1, <1>2, <1>4, <1>5
<1> QED BY <1>6, <1>7, <1>8 DEF JobHonest

LEMMA PrepareHonest == ASSUME FolderInv, HonestInv, Prepare PROVE HonestInv'
<1>1. /\ run.at = "prepare" /\ UNCHANGED <<service, files, base, plan, journal>>
      /\ jobs' = [jobs EXCEPT ![run.job] = Saved(None)] /\ Goto("record")
  BY DEF Prepare
<1> PICK a \in Attempts : run.job = a /\ run.num = BaseRev
  BY <1>1 DEF FolderInv, RunOk
<1>2. /\ a \in Jobs /\ jobs'[a] = Saved(None) /\ UNCHANGED history
      /\ \A j \in Jobs \ {a} : jobs'[j] = jobs[j]
  BY <1>1, Numbers DEF service, JobsType
<1>3. JobHonest(a)'
  BY <1>1, <1>2, NewJobHonest
<1>4. run'.at = "record" /\ run'.job = a /\ run'.num = BaseRev
  BY <1>1, Numbers DEF Goto, Command
<1>5. RecordHonest'
  BY <1>1, <1>2, <1>4 DEF RecordHonest, Saved, Includes
<1> QED BY <1>1, <1>2, <1>3, <1>4, <1>5, OneJob

LEMMA DryRunHonest ==
  ASSUME FolderInv, HonestInv, NEW a \in Attempts, DryRun(a) PROVE HonestInv'
<1>1. /\ jobs[a] = None /\ run.job # a
      /\ jobs' = [jobs EXCEPT ![a] = Saved(None)]
      /\ UNCHANGED <<service, files, base, plan, journal, run>>
  BY DEF DryRun
<1>2. /\ a \in Jobs /\ jobs'[a] = Saved(None) /\ UNCHANGED history
      /\ \A j \in Jobs \ {a} : jobs'[j] = jobs[j]
  BY <1>1, Numbers DEF service, JobsType
<1>3. JobHonest(a)'
  BY <1>1, <1>2, NewJobHonest
<1>4. RecordHonest'
  <2> SUFFICES ASSUME run.at = "record"
               PROVE  run.num = jobs'[run.job].on /\ Includes(files, jobs'[run.job].content)
    BY <1>1 DEF RecordHonest
  <2>1. run.job \in Jobs \ {a}
    BY <1>1, Numbers DEF FolderInv, RunOk
  <2> QED BY <1>2, <2>1 DEF HonestInv, RecordHonest
<1> QED BY <1>1, <1>2, <1>3, <1>4, OneJob

LEMMA PushHonest ==
  ASSUME FolderInv, HonestInv, NEW o \in Ops, Push(o) PROVE HonestInv'
<1>1. /\ journal = None /\ Baseline # None
      /\ jobs' = [jobs EXCEPT ![o] = Saved(Baseline)]
      /\ run' = [Idle EXCEPT !.at = "lookup", !.job = o]
      /\ UNCHANGED <<service, files, base, plan, journal>> /\ UNCHANGED history
      /\ o \in Jobs
  BY Numbers DEF Push, Ready, service
<1>2. PICK b \in Nat : b = Baseline /\ b = BaseRev
  BY <1>1, Numbers
<1>3. jobs'[o] = Saved(b) /\ \A j \in Jobs \ {o} : jobs'[j] = jobs[j]
  BY <1>1, <1>2, Numbers DEF JobsType
<1>4. JobHonest(o)'
  BY <1>1, <1>2, <1>3, NewJobHonest
<1>5. run'.at = "lookup" /\ RecordHonest'
  BY <1>1 DEF RecordHonest, Idle
<1> QED BY <1>1, <1>3, <1>4, <1>5, OneJob

\* A resumed attempt that has no baseline was written on the newest revision.
LEMMA ReopenHonest ==
  ASSUME Careful, FolderInv, HonestInv,
         NEW a \in Attempts, NEW op \in {"resume", "status", "cancel"}, Reopen(a, op)
  PROVE  HonestInv'
<1>1. /\ journal = None /\ jobs[a] # None /\ a \in Jobs
      /\ UNCHANGED <<service, history, files, base, jobs, plan, journal>>
  BY Numbers DEF Reopen, Ready, project, service
<1>2. CASE /\ jobs[a].base = None /\ Baseline # None /\ jobs[a].on = Baseline
           /\ run' = [Idle EXCEPT !.at = "record", !.job = a, !.num = Baseline]
  <2>1. run'.at = "record" /\ run'.job = a /\ run'.num = jobs[a].on
    BY <1>2 DEF Idle
  <2>2. jobs[a].on = Len(history) /\ jobs[a].on = BaseRev
    BY <1>2, Numbers DEF Baseline, Revision
  <2>3. ASSUME NEW f \in Fields PROVE jobs[a].content[f] \subseteq files[f]
    <3>1. jobs[a].content[f] \subseteq files[f] \cup Text(jobs[a].on, f)
      BY <1>1, <1>2, <2>2 DEF HonestInv, JobHonest
    <3> QED BY <2>2, <3>1, BaseText
  <2>4. RecordHonest'
    BY <1>1, <2>1, <2>3 DEF RecordHonest, Includes
  <2>5. jobs'[a] # None => JobHonest(a)'
    BY <1>1 DEF HonestInv, JobHonest, Text, Extra
  <2> QED BY <1>1, <2>1, <2>4, <2>5, OneJob
<1>3. CASE run' = [Idle EXCEPT !.job = a, !.op = op,
                               !.at = IF jobs[a].upload = 0 THEN "lookup" ELSE "query"]
  <2>1. run'.at \in {"lookup", "query"}
    BY <1>3 DEF Idle
  <2> QED BY <1>1, <2>1, QuietRun DEF NothingBegins
<1> QED BY <1>2, <1>3 DEF Reopen, Careful

LEMMA RecordAction == ASSUME FolderInv, HonestInv, Record PROVE HonestInv'
<1> PICK a \in Attempts : run.at = "record" /\ run.job = a
  BY DEF Record, FolderInv, RunOk
<1>1. /\ jobs' = [jobs EXCEPT ![a].base = run.num]
      /\ run' = [run EXCEPT !.at = "lookup", !.num = 0]
      /\ UNCHANGED <<service, history, files, base, plan, journal>>
      /\ journal = None /\ a \in Jobs /\ jobs[a] # None /\ run.num \in Nat
      /\ JobsType
  BY NoJournal, Numbers DEF Record, service, FolderInv, RunOk, Command
<1>2. jobs[a] \in JobRecord
  BY <1>1, JobFields
<1>3. /\ jobs'[a].base = run.num /\ jobs'[a].content = jobs[a].content
      /\ jobs'[a].on = jobs[a].on
      /\ \A j \in Jobs \ {a} : jobs'[j] = jobs[j]
  BY <1>1, <1>2 DEF JobsType, JobRecord
<1>4. /\ run.num = jobs[a].on /\ Includes(files, jobs[a].content)
      /\ \A f \in Fields : Text(jobs[a].on, f) \subseteq jobs[a].content[f]
  BY <1>1 DEF HonestInv, RecordHonest, JobHonest
<1>5. \A f \in Fields : Text(jobs[a].on, f)' = Text(jobs[a].on, f)
  BY <1>1, <1>3 DEF Text
<1>6. JobHonest(a)'
  BY <1>1, <1>3, <1>4, <1>5, NoneFacts DEF JobHonest
<1>7. run'.at = "lookup"
  BY <1>1, Numbers DEF Command
<1>8. RecordHonest'
  BY <1>7 DEF RecordHonest
<1> QED BY <1>1, <1>3, <1>6, <1>7, <1>8, OneJob

LEMMA WriteBaseHonest == ASSUME FolderInv, HonestInv, WriteBase PROVE HonestInv'
<1> PICK j \in Jobs : run.at = "base" /\ run.job = j /\ jobs[j] # None /\ jobs[j].base # None
  BY DEF WriteBase, FolderInv, RunOk, JobSteps
<1>1. /\ base' = BaseAfter(j, run.num) /\ run' = Idle /\ journal = None
      /\ UNCHANGED <<service, history, files, jobs, plan, journal>>
  BY NoJournal DEF WriteBase, Finished, service
<1>2. Includes(files, jobs[j].content)
  BY DEF HonestInv, JobHonest
<1>3. BaseHonest'
  BY <1>1, <1>2 DEF HonestInv, BaseHonest, BaseAfter
<1>4. HistoryGrows' /\ Authored' /\ PlanHonest'
  BY <1>1 DEF HonestInv, HistoryGrows, Authored, PlanHonest
<1>5. \A i \in Jobs : jobs'[i] # None => JobHonest(i)'
  BY <1>1 DEF HonestInv, JobHonest, Text, Extra
<1>6. RecordHonest' /\ journal' = None
  BY <1>1, IdleCommand DEF RecordHonest
<1> QED BY <1>3, <1>4, <1>5, <1>6 DEF HonestInv

(***************************************************************************)
(* The pull and the author                                                 *)
(***************************************************************************)
\* A step that only adds to the files.
LEMMA GrowStep ==
  ASSUME FolderInv, HonestInv, Includes(files', files),
         journal # None => JournalHonest',
         run' = run \/ run'.at # "record",
         UNCHANGED <<history, base, jobs, plan, journal>>
  PROVE  HonestInv'
<1>1. HistoryGrows' /\ PlanHonest'
  BY DEF HonestInv, HistoryGrows, PlanHonest
<1>2. Authored'
  BY DEF HonestInv, Authored, Includes
<1>3. BaseHonest'
  BY DEF HonestInv, BaseHonest, Includes
<1>4. ASSUME NEW j \in Jobs, jobs[j] # None PROVE JobHonest(j)'
  <2>1. JobHonest(j) /\ \A f \in Fields : Text(jobs[j].on, f)' = Text(jobs[j].on, f)
    BY <1>4 DEF HonestInv, Text
  <2>2. \A f \in Fields : Extra(f) \subseteq Extra(f)' /\ files[f] \subseteq files'[f]
    BY DEF Extra, Includes
  <2> QED BY <2>1, <2>2 DEF JobHonest, Includes
<1>5. RecordHonest'
  <2> SUFFICES ASSUME run'.at = "record", run' = run
               PROVE  /\ run.num = jobs[run.job].on
                      /\ Includes(files', jobs[run.job].content)
    BY DEF RecordHonest
  <2> QED BY DEF HonestInv, RecordHonest, Includes
<1> QED BY <1>1, <1>2, <1>3, <1>4, <1>5 DEF HonestInv

LEMMA PullHonest == ASSUME FolderInv, HonestInv, Pull PROVE HonestInv'
<1>1. /\ journal = None /\ run = Idle /\ plan'.base = base /\ plan'.local = files
      /\ UNCHANGED <<history, files, base, jobs, journal, run>>
  BY DEF Pull, Ready, service
<1>2. HistoryGrows' /\ Authored' /\ BaseHonest' /\ PlanHonest'
  BY <1>1 DEF HonestInv, HistoryGrows, Authored, BaseHonest, PlanHonest
<1>3. ASSUME NEW j \in Jobs, jobs[j] # None PROVE JobHonest(j)'
  <2>1. JobHonest(j) /\ \A f \in Fields : Text(jobs[j].on, f)' = Text(jobs[j].on, f)
    BY <1>1, <1>3 DEF HonestInv, Text
  <2> QED BY <1>1, <2>1 DEF JobHonest
<1>4. RecordHonest' /\ journal' = None
  BY <1>1, IdleCommand DEF RecordHonest
<1> QED BY <1>1, <1>2, <1>3, <1>4 DEF HonestInv

LEMMA ApplyPlanHonest == ASSUME FolderInv, HonestInv, ApplyPlan PROVE HonestInv'
<1> DEFINE before == [n \in Names |-> File(n)]
           after == [n \in Names |-> IF n = BaseName THEN BasePulled(plan) ELSE Merged(plan)[n]]
<1>1. /\ journal = None /\ plan # None /\ plan.local = files
      /\ run' = [Idle EXCEPT !.at = "replace", !.todo = Changed(before, after)]
      /\ UNCHANGED <<history, files, base, jobs, plan>>
  BY DEF ApplyPlan, Ready, service
<1>2. run'.at = "replace" /\ run'.todo = Changed(before, after)
  BY <1>1 DEF Idle
<1>3. \A f \in Fields \ Changed(before, after) : Merged(plan)[f] = files[f]
  <2>1. \A f \in Fields : f # BaseName /\ f \in Names
    BY FieldsFacts DEF BaseName, Names
  <2> QED BY <2>1 DEF Changed, File
<1>4. JournalHonest'
  <2>1. Merged(plan)' = Merged(plan)
    BY <1>1 DEF Merged, KeepsLocal, TakesRemote
  <2> QED BY <1>1, <1>2, <1>3, <2>1 DEF JournalHonest, Includes
<1>5. HistoryGrows' /\ Authored' /\ BaseHonest' /\ PlanHonest'
  BY <1>1 DEF HonestInv, HistoryGrows, Authored, BaseHonest, PlanHonest
<1>6. ASSUME NEW j \in Jobs, jobs[j] # None PROVE JobHonest(j)'
  <2>1. JobHonest(j) /\ \A f \in Fields : Text(jobs[j].on, f)' = Text(jobs[j].on, f)
    BY <1>1, <1>6 DEF HonestInv, Text
  <2> QED BY <1>1, <2>1 DEF JobHonest
<1>7. RecordHonest'
  BY <1>2 DEF RecordHonest
<1> QED BY <1>1, <1>4, <1>5, <1>6, <1>7 DEF HonestInv

\* A file is replaced by a merge that includes it.
LEMMA ReplaceGrows ==
  ASSUME FolderInv, HonestInv, Replace PROVE Includes(files', files)
<1>1. run.at = "replace" /\ run.todo # {}
  BY DEF Replace
<1>2. journal # None /\ plan # None /\ \A f \in Fields : ~Conflict(plan, f)
  BY <1>1, JournalFacts DEF FolderInv, RunOk, JournalOk
<1>3. Includes(Merged(plan), plan.local)
  BY <1>2, MergeIncludes DEF HonestInv
<1> PICK n \in Names : n = Last(run.todo)
  BY <1>1, NamesLeft
<1>4. CASE n \in Fields /\ Untouched(n) /\ Write(n, journal.after[n])
  <2>1. /\ files[n] = plan.local[n] /\ files' = [files EXCEPT ![n] = Merged(plan)[n]]
        /\ files \in Content
    BY <1>2, <1>4, JournalFacts, Numbers DEF Untouched, File, Write
  <2> QED BY <1>3, <1>4, <2>1 DEF Content, Includes
<1>5. CASE (n = BaseName /\ Write(n, journal.after[n])) \/ UNCHANGED files
  BY <1>5 DEF Write, Includes
<1> QED BY <1>4, <1>5 DEF Replace, Names

LEMMA ReplaceHonest == ASSUME FolderInv, HonestInv, Replace PROVE HonestInv'
<1>1. /\ run.at = "replace" /\ run.todo # {}
      /\ UNCHANGED <<history, jobs, plan, journal>>
  BY DEF Replace, service
<1>2. /\ journal # None /\ plan # None /\ JournalHonest
      /\ \A f \in Fields : ~Conflict(plan, f)
  BY <1>1, JournalFacts DEF FolderInv, RunOk, JournalOk, HonestInv
<1>3. Includes(Merged(plan), plan.local) /\ Includes(Merged(plan), plan.remote)
  BY <1>2, MergeIncludes DEF HonestInv
<1>4. Merged(plan)' = Merged(plan)
  BY <1>1 DEF Merged, KeepsLocal, TakesRemote
<1> PICK n \in Names : n = Last(run.todo)
  BY <1>1, NamesLeft
<1>5. CASE Goto("check") /\ UNCHANGED <<files, base>>
  <2>1. run'.at = "check"
    BY <1>5, GotoAt DEF Steps
  <2>2. JournalHonest' /\ Includes(files', files)
    BY <1>1, <1>2, <1>5, <2>1 DEF JournalHonest, Includes
  <2> QED BY <1>1, <1>5, <2>1, <2>2, GrowStep
<1>6. CASE /\ n \in Fields /\ Untouched(n) /\ Write(n, journal.after[n])
           /\ run' = [run EXCEPT !.todo = @ \ {n}]
  <2>1. /\ files[n] = plan.local[n] /\ files' = [files EXCEPT ![n] = Merged(plan)[n]]
        /\ UNCHANGED base /\ files \in Content
    BY <1>2, <1>6, JournalFacts, Numbers DEF Untouched, File, Write
  <2>2. files'[n] = Merged(plan)[n] /\ \A f \in Fields \ {n} : files'[f] = files[f]
    BY <1>6, <2>1 DEF Content
  <2>3. Includes(files', files)
    BY ReplaceGrows
  <2>4. run'.at = "replace" /\ run'.todo = run.todo \ {n}
    BY <1>1, <1>6, Numbers DEF Command
  <2>5. JournalHonest'
    BY <1>1, <1>2, <1>3, <1>4, <2>2, <2>3, <2>4 DEF JournalHonest, Includes
  <2> QED BY <1>1, <2>1, <2>3, <2>4, <2>5, GrowStep
<1>7. CASE /\ n = BaseName /\ Write(n, journal.after[n])
           /\ run' = [run EXCEPT !.todo = @ \ {n}]
  <2>1. base' = BasePulled(plan) /\ UNCHANGED files
    BY <1>2, <1>7, JournalFacts DEF Write
  <2>2. run.todo \cap Fields = {}
    <3>0. Names \subseteq Nat
      BY FieldsFacts DEF Names, BaseName
    <3>1. run.todo \subseteq Nat /\ run.todo \subseteq Names
      BY <1>1, <3>0, NamesLeft
    <3>2. ASSUME run.todo # {BaseName} PROVE FALSE
      <4>1. run.todo \ {BaseName} # {} /\ run.todo \ {BaseName} \subseteq Nat
        BY <1>1, <3>1, <3>2
      <4>2. Min(run.todo \ {BaseName}) \in run.todo \ {BaseName}
        BY <4>1, MinIn
      <4> QED BY <1>7, <3>2, <4>2 DEF Last
    <3> QED BY <3>2, FieldsFacts DEF BaseName
  <2>3. \A f \in Fields : Merged(plan)[f] \subseteq files[f]
    BY <1>1, <1>2, <2>2 DEF JournalHonest
  <2>4. BaseHonest'
    BY <1>3, <2>1, <2>3 DEF BaseHonest, BasePulled, Includes
  <2>5. HistoryGrows' /\ Authored' /\ PlanHonest'
    BY <1>1, <2>1 DEF HonestInv, HistoryGrows, Authored, PlanHonest
  <2>6. \A j \in Jobs : jobs'[j] # None => JobHonest(j)'
    BY <1>1, <2>1 DEF HonestInv, JobHonest, Text, Extra
  <2>7. run'.at = "replace"
    BY <1>1, <1>7, Numbers DEF Command
  <2>8. JournalHonest' /\ RecordHonest'
    BY <1>1, <1>2, <1>4, <2>1, <2>3, <2>7 DEF JournalHonest, RecordHonest, Includes
  <2> QED BY <2>4, <2>5, <2>6, <2>8 DEF HonestInv
<1> QED BY <1>5, <1>6, <1>7 DEF Replace, Names

LEMMA AppliedHonest == ASSUME FolderInv, HonestInv, Applied PROVE HonestInv'
<1>1. UNCHANGED <<history, files, base, jobs>>
  BY DEF Applied, service
<1>2. CASE journal' = None /\ plan' = None /\ Finished
  <2>1. HistoryGrows' /\ Authored' /\ BaseHonest' /\ PlanHonest'
    BY <1>1, <1>2 DEF HonestInv, HistoryGrows, Authored, BaseHonest, PlanHonest
  <2>2. ASSUME NEW j \in Jobs, jobs[j] # None PROVE JobHonest(j)'
    <3>1. JobHonest(j) /\ \A f \in Fields : Text(jobs[j].on, f)' = Text(jobs[j].on, f)
      BY <1>1, <2>2 DEF HonestInv, Text
    <3> QED BY <1>1, <1>2, <3>1 DEF JobHonest
  <2>3. RecordHonest'
    BY <1>2, IdleCommand DEF RecordHonest, Finished
  <2> QED BY <1>1, <1>2, <2>1, <2>2, <2>3 DEF HonestInv
<1>3. CASE Goto("check") /\ UNCHANGED <<journal, plan>>
  <2>1. run'.at = "check"
    BY <1>3, GotoAt DEF Steps
  <2>2. Includes(files', files) /\ (journal # None => JournalHonest')
    BY <1>1, <1>3, <2>1 DEF HonestInv, JournalHonest, Includes
  <2> QED BY <1>1, <1>3, <2>1, <2>2, GrowStep
<1> QED BY <1>2, <1>3 DEF Applied

\* What a rollback may restore it knows.
LEMMA RollbackCheckHonest == ASSUME FolderInv, HonestInv, RollbackCheck PROVE HonestInv'
<1> DEFINE names == Changed(journal.before, journal.after)
<1>1. /\ UNCHANGED <<history, files, base, jobs, plan, journal>>
      /\ journal # None /\ JournalHonest /\ Includes(files', files)
  BY DEF RollbackCheck, service, project, FolderInv, RunOk, HonestInv, Includes
<1>2. CASE Finished
  <2>1. run'.at = "idle"
    BY <1>2, IdleCommand DEF Finished
  <2>2. JournalHonest'
    BY <1>1, <2>1 DEF JournalHonest
  <2> QED BY <1>1, <2>1, <2>2, GrowStep
<1>3. CASE /\ \A n \in names : Restorable(n)
           /\ run' = [run EXCEPT !.at = "rollback", !.todo = names]
  <2>1. \A f \in names \ {BaseName} : files[f] \in {plan.local[f], Merged(plan)[f]}
    <3>1. names \ {BaseName} \subseteq Fields
      BY DEF Changed, Names
    <3>2. \A f \in Fields : /\ journal.before[f] = plan.local[f]
                            /\ journal.after[f] = Merged(plan)[f]
      BY <1>1, JournalFacts
    <3>3. \A f \in names \ {BaseName} : files[f] \in {journal.before[f], journal.after[f]}
      BY <1>3 DEF Restorable, File
    <3> HIDE DEF names
    <3> QED BY <3>1, <3>2, <3>3
  <2> HIDE DEF names
  <2>2. run'.at = "rollback" /\ run'.todo = names
    BY <1>3, Numbers DEF Command
  <2>3. Merged(plan)' = Merged(plan)
    BY <1>1 DEF Merged, KeepsLocal, TakesRemote
  <2>4. JournalHonest'
    BY <1>1, <2>1, <2>2, <2>3 DEF JournalHonest
  <2> QED BY <1>1, <2>2, <2>4, GrowStep
<1> QED BY <1>2, <1>3 DEF RollbackCheck

\* A rollback moves the baseline first, and then each file from the plan's
\* merge, or where the replacement never came, to its local text.
LEMMA RollbackFiles ==
  ASSUME FolderInv, HonestInv, Rollback
  PROVE  /\ base' = plan.base /\ Includes(files', plan.local)
         /\ \A f \in Fields : files'[f] = files[f] \/
              (files'[f] = plan.local[f] /\ files[f] \in {plan.local[f], Merged(plan)[f]})
<1>1. run.at = "rollback" /\ run.todo # {}
  BY DEF Rollback
<1>2. /\ journal # None /\ JournalHonest
      /\ BaseName \in run.todo \/ base = plan.base
  BY <1>1 DEF FolderInv, RunOk, JournalOk, HonestInv
<1> PICK n \in Names : n = First(run.todo) /\ n \in run.todo
  BY <1>1, NamesLeft
<1>3. Write(n, journal.before[n])
  BY DEF Rollback
<1>4. CASE n = BaseName
  BY <1>2, <1>3, <1>4, JournalFacts DEF Write, JournalHonest
<1>5. CASE n # BaseName
  <2>1. n \in Fields /\ BaseName \notin run.todo /\ files \in Content
    BY <1>1, <1>5, NamesLeft, Numbers DEF Names
  <2>2. base' = base /\ files' = [files EXCEPT ![n] = plan.local[n]]
    BY <1>2, <1>3, <1>5, <2>1, JournalFacts DEF Write
  <2>3. files'[n] = plan.local[n] /\ \A f \in Fields \ {n} : files'[f] = files[f]
    BY <2>1, <2>2 DEF Content
  <2>4. files[n] \in {plan.local[n], Merged(plan)[n]}
    BY <1>1, <1>2, <1>5 DEF JournalHonest
  <2> QED BY <1>2, <2>1, <2>2, <2>3, <2>4 DEF JournalHonest, Includes
<1> QED BY <1>4, <1>5

\* What a rollback brings back still includes what was published and what the
\* baseline of before the pull says.
LEMMA RollbackHonest == ASSUME FolderInv, HonestInv, Rollback PROVE HonestInv'
<1>1. /\ run.at = "rollback" /\ run.todo # {}
      /\ UNCHANGED <<history, jobs, plan, journal>>
  BY DEF Rollback, service
<1>2. journal # None /\ plan # None /\ JournalHonest
  BY <1>1, JournalFacts DEF FolderInv, RunOk, HonestInv
<1>3. run'.at = "rollback" /\ run'.todo \subseteq run.todo
  BY <1>1, Numbers DEF Rollback, Command
<1>5. Merged(plan)' = Merged(plan)
  BY <1>1 DEF Merged, KeepsLocal, TakesRemote
<1>6. plan.base # None => Includes(plan.local, plan.base.content)
  BY <1>2 DEF HonestInv, PlanHonest
<1>7. /\ base' = plan.base /\ Includes(files', plan.local)
      /\ \A f \in Fields : files'[f] = files[f] \/
           (files'[f] = plan.local[f] /\ files[f] \in {plan.local[f], Merged(plan)[f]})
  BY RollbackFiles
<1>8. HistoryGrows' /\ PlanHonest'
  BY <1>1 DEF HonestInv, HistoryGrows, PlanHonest
<1>9. Authored'
  BY <1>1, <1>2, <1>7 DEF HonestInv, Authored, Includes
<1>10. BaseHonest'
  BY <1>6, <1>7 DEF BaseHonest, Includes
<1>11. ASSUME NEW j \in Jobs, jobs[j] # None PROVE JobHonest(j)'
  <2>1. JobHonest(j) /\ \A f \in Fields : Text(jobs[j].on, f)' = Text(jobs[j].on, f)
    BY <1>1, <1>11 DEF HonestInv, Text
  <2>2. jobs[j].base # None => Includes(files', jobs[j].content)
    BY <1>2, <1>7, <2>1 DEF JobHonest, Includes
  <2>3. ASSUME jobs[j].base = None, jobs[j].on = Len(history), NEW f \in Fields
        PROVE  /\ jobs[j].content[f] \subseteq files'[f] \cup Text(jobs[j].on, f)
               /\ jobs[j].content[f] \subseteq plan.local[f] \cup Text(jobs[j].on, f)
                                                      \cup Extra(f)'
    <3>1. /\ jobs[j].content[f] \subseteq files[f] \cup Text(jobs[j].on, f)
          /\ jobs[j].content[f] \subseteq plan.local[f] \cup Text(jobs[j].on, f) \cup Extra(f)
      BY <1>2, <2>1, <2>3 DEF JobHonest
    <3>2. CASE files'[f] = files[f]
      BY <1>1, <1>5, <3>1, <3>2 DEF Extra
    <3>3. CASE files'[f] = plan.local[f] /\ files[f] \in {plan.local[f], Merged(plan)[f]}
      BY <3>1, <3>3 DEF Extra
    <3> QED BY <1>7, <3>2, <3>3
  <2> QED BY <1>1, <2>1, <2>2, <2>3 DEF JobHonest
<1>12. JournalHonest'
  <2>1. Includes(files', plan'.local)
    BY <1>1, <1>7
  <2>2. \A f \in run'.todo \ {BaseName} : files'[f] \in {plan.local[f], Merged(plan)[f]}
    <3>1. run.todo \ {BaseName} \subseteq Fields
      BY <1>1, NamesLeft DEF Names
    <3> QED BY <1>1, <1>2, <1>3, <1>7, <3>1 DEF JournalHonest
  <2> QED BY <1>1, <1>3, <1>5, <2>1, <2>2 DEF JournalHonest
<1>13. RecordHonest'
  BY <1>3 DEF RecordHonest
<1> QED BY <1>1, <1>8, <1>9, <1>10, <1>11, <1>12, <1>13 DEF HonestInv

LEMMA RolledBackHonest == ASSUME FolderInv, HonestInv, RolledBack PROVE HonestInv'
<1>1. /\ UNCHANGED <<history, files, base, jobs, plan>>
      /\ journal' = None /\ run'.at = "idle"
  BY IdleCommand DEF RolledBack, service, Finished
<1>2. HistoryGrows' /\ Authored' /\ BaseHonest' /\ PlanHonest' /\ RecordHonest'
  BY <1>1 DEF HonestInv, HistoryGrows, Authored, BaseHonest, PlanHonest, RecordHonest
<1>3. ASSUME NEW j \in Jobs, jobs[j] # None PROVE JobHonest(j)'
  <2>1. JobHonest(j) /\ \A f \in Fields : Text(jobs[j].on, f)' = Text(jobs[j].on, f)
    BY <1>1, <1>3 DEF HonestInv, Text
  <2> QED BY <1>1, <2>1 DEF JobHonest
<1> QED BY <1>1, <1>2, <1>3 DEF HonestInv

LEMMA AuthorEditHonest ==
  ASSUME Careful, FolderInv, HonestInv,
         NEW f \in Fields, NEW e \in AuthorEdits, AuthorEdit(f, e)
  PROVE  HonestInv'
<1>1. /\ UNCHANGED <<history, base, jobs, plan, journal, run>>
      /\ files' = [files EXCEPT ![f] = @ \cup {e}] /\ run.at # "rollback"
      /\ files \in Content
  BY Numbers DEF AuthorEdit, service, Careful
<1>2. Includes(files', files)
  BY <1>1 DEF Includes, Content
<1>3. journal # None => JournalHonest'
  BY <1>1, <1>2 DEF HonestInv, JournalHonest, Includes, Merged, KeepsLocal, TakesRemote
<1> QED BY <1>1, <1>2, <1>3, GrowStep

LEMMA ReconcileHonest ==
  ASSUME FolderInv, HonestInv, NEW f \in Fields, Reconcile(f) PROVE HonestInv'
<1>1. /\ UNCHANGED <<history, base, jobs, plan, journal, run>>
      /\ files' = [files EXCEPT ![f] = @ \cup plan.remote[f]]
      /\ files \in Content /\ Conflict(plan, f)
  BY Numbers DEF Reconcile, service
<1>2. Includes(files', files)
  BY <1>1 DEF Includes, Content
<1>3. journal = None
  BY <1>1, JournalFacts DEF JournalOk
<1> QED BY <1>1, <1>2, <1>3, GrowStep

(***************************************************************************)
(* Theorems                                                                *)
(***************************************************************************)
LEMMA HonestStart == StoreInit => HonestInv
<1> SUFFICES ASSUME StoreInit PROVE HonestInv
  OBVIOUS
<1>1. /\ files = Nothing /\ plan = None /\ journal = None /\ run = Idle
      /\ \A j \in Jobs : jobs[j] = None
      /\ \A f \in Fields : Nothing[f] = {}
  BY DEF StoreInit, Nothing
<1>2. CASE history = <<>> /\ base = None
  BY <1>1, <1>2, IdleCommand
     DEF HonestInv, HistoryGrows, Authored, BaseHonest, PlanHonest, RecordHonest
<1>3. CASE /\ history = << [by |-> WebSite, content |-> Nothing] >>
           /\ base = [rev |-> 1, content |-> Nothing]
  <2>1. Len(history) = 1 /\ history[1].content = Nothing
    BY <1>3
  <2>2. HistoryGrows /\ Authored /\ BaseHonest
    BY <1>1, <1>3, <2>1 DEF HistoryGrows, Authored, BaseHonest, Includes
  <2> QED BY <1>1, <2>2, IdleCommand DEF HonestInv, PlanHonest, RecordHonest
<1> QED BY <1>2, <1>3 DEF StoreInit

LEMMA HonestNext ==
  ASSUME Careful, FolderInv, HonestInv, [StoreNext]_vars PROVE HonestInv'
<1>1. CASE UNCHANGED vars
  <2>1. UNCHANGED <<service, files, base, jobs, plan, journal, run>>
    BY <1>1 DEF vars, project
  <2> QED BY <2>1, QuietRun DEF NothingBegins
<1>2. CASE StoreNext
  BY <1>2, PublishHonest, DryRunHonest, ReopenHonest, PrepareHonest, RecordAction,
     QueryHonest, LookupHonest, StartHonest, SaveUploadHonest, PutHonest, EndHonest,
     WriteReceiptHonest, WriteBaseHonest, PushHonest, PullHonest, ApplyPlanHonest,
     ReplaceHonest, AppliedHonest, RollbackCheckHonest, RollbackHonest, RolledBackHonest,
     AuthorEditHonest, ReconcileHonest, OthersHonest DEF StoreNext
<1> QED BY <1>1, <1>2

(* What the files, the jobs, a pull and the history say of each other.        *)
THEOREM HonestHolds == ASSUME Careful PROVE Spec => []HonestInv
<1>1. StoreInit => HonestInv
  BY HonestStart
<1>2. FolderInv /\ HonestInv /\ [StoreNext]_vars => HonestInv'
  BY HonestNext
<1> QED BY <1>1, <1>2, FolderHolds, PTL DEF Spec

(* No revision drops an edit of the one before it, whoever made it and however *)
(* its requests are retried, delayed or resumed.                              *)
THEOREM NoEditIsLost == ASSUME Careful PROVE Spec => []NoEditLost
<1>1. FolderInv /\ HonestInv => NoEditLost
  <2> SUFFICES ASSUME FolderInv, HonestInv, NEW i \in 2..Revision
               PROVE  Includes(history[i].content, history[i - 1].content)
    BY DEF NoEditLost
  <2>1. i - 1 \in 1..Len(history) /\ i \in 1..Len(history) /\ i - 1 <= i
    BY Numbers DEF Revision
  <2> QED BY <2>1 DEF HonestInv, HistoryGrows
<1> QED BY <1>1, FolderHolds, HonestHolds, PTL

(* The files include what the baseline says the author has seen, at every step *)
(* of a pull, of its rollback and of their interruptions.                      *)
THEOREM BaselineHonest == ASSUME Careful PROVE Spec => []BaseHonest
<1>1. HonestInv => BaseHonest
  BY DEF HonestInv
<1> QED BY <1>1, HonestHolds, PTL

LEMMA FilesMove ==
  ASSUME StoreNext
  PROVE  \/ UNCHANGED files \/ Replace \/ Rollback
         \/ \E f \in Fields, e \in AuthorEdits : AuthorEdit(f, e)
         \/ \E f \in Fields : Reconcile(f)
BY DEF StoreNext, Publish, DryRun, Reopen, Prepare, Record, Query, Lookup, Start, SaveUpload,
       Put, Finish, Cancel, WriteReceipt, WriteBase, Push, ReopenPush, Edit, Pull, ApplyPlan,
       Applied, Recover, RollbackCheck, RolledBack, Lose, ServeLate, Stop, project

(* No command takes an edit of the author's out of a file: a pull replaces a   *)
(* file that is still what it found by a merge that includes it, and what a    *)
(* rollback replaces holds nothing of the author's that the local text lacks.  *)
THEOREM EditsStay == ASSUME Careful PROVE Spec => UserEditsKept
<1>1. FolderInv /\ HonestInv /\ [StoreNext]_vars =>
        [\A f \in Fields : files[f] \cap AuthorEdits \subseteq files'[f]]_vars
  <2> SUFFICES ASSUME FolderInv, HonestInv, StoreNext, NEW f \in Fields
               PROVE  files[f] \cap AuthorEdits \subseteq files'[f]
    BY DEF vars
  <2>1. CASE UNCHANGED files
    BY <2>1
  <2>2. CASE (\E g \in Fields, e \in AuthorEdits : AuthorEdit(g, e))
             \/ (\E g \in Fields : Reconcile(g))
    BY <2>2, Numbers DEF AuthorEdit, Reconcile, Content
  <2>3. CASE Replace
    BY <2>3, ReplaceGrows DEF Includes
  <2>4. CASE Rollback
    <3>1. journal # None /\ plan # None
      BY <2>4, JournalFacts DEF Rollback, FolderInv, RunOk
    <3>2. plan.remote[f] \cap AuthorEdits \subseteq plan.local[f]
      BY <3>1, PlanFacts DEF PlanOk, HonestInv, Authored
    <3>3. Merged(plan)[f] \in {plan.local[f], plan.remote[f]}
      BY DEF Merged
    <3> QED BY <2>4, <3>2, <3>3, RollbackFiles
  <2> QED BY <2>1, <2>2, <2>3, <2>4, FilesMove
<1> QED BY <1>1, FolderHolds, HonestHolds, PTL DEF Spec, UserEditsKept
=============================================================================
