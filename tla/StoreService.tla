---------------------------- MODULE StoreService ----------------------------
(***************************************************************************)
(* The app store as the SDK's publishing client uses it.  The service is   *)
(* not in this repository: its operations are those store_publish.py and   *)
(* store_mutations.py call, with the answers they accept.                  *)
(*                                                                         *)
(* `history' is the listing of one app, one entry for each revision: who   *)
(* made it (a publication attempt, a saved listing operation or the web    *)
(* site) and its content, for each field of the listing the set of edits   *)
(* the text contains.  A revision replaces the listing whole, so an edit   *)
(* its author never saw is lost when an entry does not contain it.  The    *)
(* receipt of a job is the revision it made, and is durable; what is       *)
(* staged for an attempt is not.                                           *)
(***************************************************************************)
EXTENDS Naturals, Sequences

CONSTANTS
  Fields,      \* listing fields, numbered in the order of their file names
  Attempts,    \* publication attempts; an attempt is its app version
  Ops,         \* saved listing operations
  WebSite,     \* who makes the edits on the web site
  WebEdits,    \* those edits
  Parts,       \* chunks of a submission
  MaxGen       \* bound: times an attempt's staging is created

VARIABLES history, staged

service == <<history, staged>>

Jobs == Attempts \cup Ops
Nothing == [f \in Fields |-> {}]
NoUpload == [gen |-> 0, state |-> "none", base |-> 0, content |-> Nothing,
             parts |-> {}]

ServiceTypeOK(Edits) ==
  /\ \A i \in DOMAIN history :
        /\ history[i].by \in Jobs \cup {WebSite}
        /\ history[i].content \in [Fields -> SUBSET Edits]
  /\ staged \in [Attempts -> [gen : 0..MaxGen,
                              state : {"none", "uploading", "finalizing", "accepted",
                                       "cancelled", "conflict"},
                              base : 0..Len(history),
                              content : [Fields -> SUBSET Edits],
                              parts : SUBSET Parts]]

Revision == Len(history)

\* The revision job j made in history h, 0 if it was never accepted.
ReceiptIn(h, j) == IF \E i \in DOMAIN h : h[i].by = j
                   THEN CHOOSE i \in DOMAIN h : h[i].by = j ELSE 0
Receipt(j) == ReceiptIn(history, j)

\* What GET /sdk/uploads/ID answers for the upload of generation g.
StateIn(s, a, g) == IF s[a].gen = g THEN s[a].state ELSE "none"
UploadState(a, g) == StateIn(staged, a, g)

Append1(j, content) == history' = Append(history, [by |-> j, content |-> content])

(***************************************************************************)
(* Requests.  Each may arrive late, and more than once.                    *)
(***************************************************************************)
\* POST /sdk/uploads: an accepted submission has its receipt and is not
\* staged again; a staged one keeps what it has.
StartUpload(r) ==
  /\ r.kind = "start"
  /\ LET a == r.job IN
     IF Receipt(a) = 0 /\ staged[a].state = "none" /\ staged[a].gen < MaxGen
     THEN staged' = [staged EXCEPT ![a] =
            [gen |-> staged[a].gen + 1, state |-> "uploading", base |-> r.base,
             content |-> r.content, parts |-> {}]]
     ELSE UNCHANGED staged
  /\ UNCHANGED history

PutPart(r) ==
  /\ r.kind = "part"
  /\ staged' = IF UploadState(r.job, r.gen) = "uploading"
               THEN [staged EXCEPT ![r.job].parts = @ \cup {r.part}] ELSE staged
  /\ UNCHANGED history

\* POST .../finalize: a complete upload is queued for its commit.
FinishUpload(r) ==
  /\ r.kind = "finish"
  /\ staged' = IF UploadState(r.job, r.gen) = "uploading" /\ staged[r.job].parts = Parts
               THEN [staged EXCEPT ![r.job].state = "finalizing"] ELSE staged
  /\ UNCHANGED history

CancelUpload(r) ==
  /\ r.kind = "cancel"
  /\ staged' = IF UploadState(r.job, r.gen) \in {"uploading", "finalizing"}
               THEN [staged EXCEPT ![r.job].state = "cancelled"] ELSE staged
  /\ UNCHANGED history

\* PUT .../listing: idempotent by its request ID, refused on another base.
EditListing(r) ==
  /\ r.kind = "edit"
  /\ IF Receipt(r.job) = 0 /\ r.base = Revision /\ Revision > 0
     THEN Append1(r.job, r.content) ELSE UNCHANGED history
  /\ UNCHANGED staged

Serve(r) == \/ StartUpload(r) \/ PutPart(r) \/ FinishUpload(r)
            \/ CancelUpload(r) \/ EditListing(r)

(***************************************************************************)
(* What the service does of its own.                                       *)
(***************************************************************************)
Newer(a) == \A i \in DOMAIN history : history[i].by \in Attempts => history[i].by < a

\* The base revision is checked again at the commit.
Commit(a) ==
  /\ staged[a].state = "finalizing"
  /\ IF staged[a].base = Revision /\ Newer(a)
     THEN /\ Append1(a, staged[a].content)
          /\ staged' = [staged EXCEPT ![a].state = "accepted"]
     ELSE /\ staged' = [staged EXCEPT ![a].state = "conflict"]
          /\ UNCHANGED history

\* Staging expires after a day and is cleaned up, accepted or not.
Expire(a) ==
  /\ staged[a].state # "none"
  /\ staged' = [staged EXCEPT ![a] = [NoUpload EXCEPT !.gen = staged[a].gen]]
  /\ UNCHANGED history

\* Someone edits a field of the listing on the web site.
WebEdit(f, e) ==
  /\ Revision > 0
  /\ \A i \in DOMAIN history, g \in Fields : e \notin history[i].content[g]
  /\ Append1(WebSite, [history[Revision].content EXCEPT ![f] = @ \cup {e}])
  /\ UNCHANGED staged

ServiceNext == \/ \E a \in Attempts : Commit(a) \/ Expire(a)
               \/ \E f \in Fields, e \in WebEdits : WebEdit(f, e)
=============================================================================
