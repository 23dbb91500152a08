--------------------------- MODULE JobSubmission ---------------------------
(***************************************************************************)
(* API side of the ingestion pipeline: concurrent calls of                 *)
(* IngestionService.submit against PostgreSQL, the object store, the Redis *)
(* stream and the Dramatiq queue. The worker appears as what it reads and  *)
(* writes of the status of the jobs it is sent (JobProcessing has the      *)
(* rest).                                                                  *)
(*                                                                         *)
(* A call is a POST /v1/ingestions whose body has passed validation. The   *)
(* job a call creates is named after the call: job ids are fresh UUIDs.    *)
(* Every await is one step, and the call may be abandoned between any two: *)
(* a store raised, or the API process died.                                *)
(***************************************************************************)
EXTENDS Naturals, Sequences

CONSTANTS
  Requests,    \* calls of submit, and the jobs they create
  Workers,     \* copies of a job's message that may be executed at once
  Keys,        \* Idempotency-Key headers
  EmptyKey,    \* the header without a value
  NoKey,       \* the header is missing
  Bodies,      \* request bodies: the documents, and the scope, which is all the rest
  Unanswered,  \* answers that are not a job
  Conflict,
  Error

ASSUME AnswersAssumption ==
  /\ EmptyKey \in Keys
  /\ NoKey \notin Keys
  /\ Requests \cap {Unanswered, Conflict, Error} = {}
  /\ Unanswered # Conflict /\ Unanswered # Error /\ Conflict # Error

\* Filenames and contents are what the digest sees of them: their bytes.
Byte == 0 .. 255

Nul == 0

Document == [name : Seq(Byte), content : Seq(Byte)]

ASSUME BodiesAssumption == \A b \in Bodies : b.documents \in Seq(Document)

VARIABLES
  request,   \* what each client sends
  pc,        \* the call each submit makes next
  kind,      \* kind of the event it publishes
  answer,    \* what the client is answered
  status,    \* ingestion_jobs.status, "absent" for no row
  stored,    \* how many of its source documents are in the bucket
  audited,   \* kind of the job_events row with sequence 1
  streamed,  \* kind of the first entry of the job's stream
  tasks,     \* jobs whose message was sent to the worker
  work       \* how far each copy of the message has got

rows == <<status, stored, audited, streamed, tasks>>

vars == <<request, pc, kind, answer, rows, work>>

-----------------------------------------------------------------------------

Terminal == {"completed", "completed_with_errors", "failed"}

Status == {"absent", "uploading", "queued", "processing"} \cup Terminal

PC == {"idle", "lookup", "create", "put", "fail_job", "mark_queued", "record", "append",
       "enqueue", "reload", "done"}

Kinds == {"none", "queued", "failed"}

\* "loaded" is a copy that has found the job unfinished, "claimed" one that has
\* marked it.
Work == {"idle", "loaded", "claimed"}

\* The documents of a call, in the order they are hashed and uploaded.
Documents(r) == request[r].body.documents

TypeOK ==
  /\ request \in [Requests -> [key : Keys \cup {NoKey}, body : Bodies]]
  /\ pc \in [Requests -> PC]
  /\ kind \in [Requests -> Kinds]
  /\ answer \in [Requests -> Requests \cup {Unanswered, Conflict, Error}]
  /\ status \in [Requests -> Status]
  /\ stored \in [Requests -> Nat]
  /\ \A r \in Requests : stored[r] <= Len(Documents(r))
  /\ audited \in [Requests -> Kinds]
  /\ streamed \in [Requests -> Kinds]
  /\ tasks \subseteq Requests
  /\ work \in [Requests -> [Workers -> Work]]

Init ==
  /\ request \in [Requests -> [key : Keys \cup {NoKey}, body : Bodies]]
  /\ pc = [r \in Requests |-> "idle"]
  /\ kind = [r \in Requests |-> "none"]
  /\ answer = [r \in Requests |-> Unanswered]
  /\ status = [r \in Requests |-> "absent"]
  /\ stored = [r \in Requests |-> 0]
  /\ audited = [r \in Requests |-> "none"]
  /\ streamed = [r \in Requests |-> "none"]
  /\ tasks = {}
  /\ work = [r \in Requests |-> [w \in Workers |-> "idle"]]

-----------------------------------------------------------------------------

Goto(r, p) == pc' = [pc EXCEPT ![r] = p]

Answer(r, a) == Goto(r, "done") /\ answer' = [answer EXCEPT ![r] = a]

\* Committed jobs that carry r's idempotency key.
WithKey(r) ==
  {j \in Requests : /\ status[j] # "absent"
                    /\ request[j].key # NoKey
                    /\ request[j].key = request[r].key}

\* Mutant of Field: nothing between the fields.
FieldUnterminated(f) == f

\* A name or a content, and the separator after it.
Field(f) == f \o <<Nul>>

\* What a document adds to the hash.
Fields(d) == Field(d.name) \o Field(d.content)

\* The bytes that are hashed. SHA-256 itself is taken to be injective.
digest_documents(ds) ==
  LET digest[k \in 0 .. Len(ds)] == IF k = 0 THEN <<>> ELSE digest[k - 1] \o Fields(ds[k])
  IN  digest[Len(ds)]

\* Nothing else of the request is compared.
SameHash(r, j) == digest_documents(Documents(j)) = digest_documents(Documents(r))

\* Mutant of Following: the message is sent before the job is marked queued.
EnqueueFirst ==
  [uploaded |-> "enqueue", enqueued |-> "mark_queued", marked |-> "record", announced |-> "reload"]

\* Mutant of Following: the message is never sent.
NeverEnqueue ==
  [uploaded |-> "mark_queued", marked |-> "record", announced |-> "reload", enqueued |-> "reload"]

\* Mutant of Following: the message is sent before the "queued" event.
AnnounceLast ==
  [uploaded |-> "mark_queued", marked |-> "enqueue", enqueued |-> "record", announced |-> "reload"]

\* The order of the calls once every source is stored.
Following ==
  [uploaded |-> "mark_queued", marked |-> "record", announced |-> "enqueue", enqueued |-> "reload"]

-----------------------------------------------------------------------------
(***************************************************************************)
(* submit().                                                               *)
(***************************************************************************)

\* `if idempotency_key`: an empty header is not looked up, though create_job
\* stores it like any other.
Call(r) ==
  /\ pc[r] = "idle"
  /\ Goto(r, IF request[r].key \in {NoKey, EmptyKey} THEN "create" ELSE "lookup")
  /\ UNCHANGED <<request, kind, answer, rows, work>>

\* get_by_idempotency_key and the comparison of the hashes.
Lookup(r) ==
  /\ pc[r] = "lookup"
  /\ \/ WithKey(r) = {} /\ Goto(r, "create") /\ UNCHANGED answer
     \/ \E j \in WithKey(r) : Answer(r, IF SameHash(r, j) THEN j ELSE Conflict)
  /\ UNCHANGED <<request, kind, rows, work>>

\* Mutant of CreateJob: the key column is not unique.
CreateRegardless(r) ==
  /\ pc[r] = "create"
  /\ status' = [status EXCEPT ![r] = "uploading"]
  /\ Goto(r, "put")
  /\ UNCHANGED <<request, kind, answer, stored, audited, streamed, tasks, work>>

\* create_job inserts the job and its documents in one transaction. When the
\* key has been taken since Lookup the unique column raises IntegrityError.
CreateJob(r) ==
  /\ pc[r] = "create"
  /\ \/ /\ WithKey(r) = {}
        /\ status' = [status EXCEPT ![r] = "uploading"]
        /\ Goto(r, "put")
        /\ UNCHANGED answer
     \/ /\ WithKey(r) # {}
        /\ Answer(r, Error)
        /\ UNCHANGED status
  /\ UNCHANGED <<request, kind, stored, audited, streamed, tasks, work>>

\* storage.put, one document after the other.
PutSource(r) ==
  /\ pc[r] = "put"
  /\ stored[r] < Len(Documents(r))
  /\ stored' = [stored EXCEPT ![r] = @ + 1]
  /\ UNCHANGED <<request, pc, kind, answer, status, audited, streamed, tasks, work>>

AllStored(r) ==
  /\ pc[r] = "put"
  /\ stored[r] = Len(Documents(r))
  /\ Goto(r, Following.uploaded)
  /\ UNCHANGED <<request, kind, answer, rows, work>>

\* A put raises, before or after the object was written.
PutFails(r) ==
  /\ pc[r] = "put"
  /\ Goto(r, "fail_job")
  /\ UNCHANGED <<request, kind, answer, rows, work>>

FailJob(r) ==
  /\ pc[r] = "fail_job"
  /\ status' = [status EXCEPT ![r] = "failed"]
  /\ kind' = [kind EXCEPT ![r] = "failed"]
  /\ Goto(r, "record")
  /\ UNCHANGED <<request, answer, stored, audited, streamed, tasks, work>>

\* Mutant of MarkJobQueued: writes the status of a document into the job row.
MarkJobPending(r) ==
  /\ pc[r] = "mark_queued"
  /\ status' = [status EXCEPT ![r] = "pending"]
  /\ kind' = [kind EXCEPT ![r] = "queued"]
  /\ Goto(r, Following.marked)
  /\ UNCHANGED <<request, answer, stored, audited, streamed, tasks, work>>

MarkJobQueued(r) ==
  /\ pc[r] = "mark_queued"
  /\ status' = [status EXCEPT ![r] = "queued"]
  /\ kind' = [kind EXCEPT ![r] = "queued"]
  /\ Goto(r, Following.marked)
  /\ UNCHANGED <<request, answer, stored, audited, streamed, tasks, work>>

\* EventPublisher.publish with sequence 1: the audit row, ...
RecordEvent(r) ==
  /\ pc[r] = "record"
  /\ audited' = [audited EXCEPT ![r] = kind[r]]
  /\ Goto(r, "append")
  /\ UNCHANGED <<request, kind, answer, status, stored, streamed, tasks, work>>

\* ... then the stream entry. After a "failed" one the exception is raised
\* again.
AppendEvent(r) ==
  /\ pc[r] = "append"
  /\ streamed' = [streamed EXCEPT ![r] = kind[r]]
  /\ \/ kind[r] = "failed" /\ Answer(r, Error)
     \/ kind[r] = "queued" /\ Goto(r, Following.announced) /\ UNCHANGED answer
  /\ UNCHANGED <<request, kind, status, stored, audited, tasks, work>>

\* process_ingestion_job.send.
Enqueue(r) ==
  /\ pc[r] = "enqueue"
  /\ tasks' = tasks \cup {r}
  /\ Goto(r, Following.enqueued)
  /\ UNCHANGED <<request, kind, answer, status, stored, audited, streamed, work>>

\* get_job: the row is there, and is the answer.
Reload(r) ==
  /\ pc[r] = "reload"
  /\ Answer(r, r)
  /\ UNCHANGED <<request, kind, rows, work>>

\* A store raises outside the try block, or the API process dies.
Abandon(r) ==
  /\ pc[r] \notin {"idle", "done"}
  /\ Answer(r, Error)
  /\ UNCHANGED <<request, kind, rows, work>>

-----------------------------------------------------------------------------
(***************************************************************************)
(* The worker, as far as the job row shows it. The message may be          *)
(* delivered again, also while another copy of it is executed, and a copy  *)
(* may end anywhere.                                                       *)
(***************************************************************************)

Reach(j, w, p) == work' = [work EXCEPT ![j][w] = p]

\* get_job and the test of the status; for a finished job process() returns.
Load(j, w) ==
  /\ j \in tasks
  /\ work[j][w] = "idle"
  /\ status[j] \notin Terminal
  /\ Reach(j, w, "loaded")
  /\ UNCHANGED <<request, pc, kind, answer, rows>>

\* mark_job_processing, whatever the status has become.
Claim(j, w) ==
  /\ work[j][w] = "loaded"
  /\ status' = [status EXCEPT ![j] = "processing"]
  /\ Reach(j, w, "claimed")
  /\ UNCHANGED <<request, pc, kind, answer, stored, audited, streamed, tasks>>

\* finish_job, unconditional as well. What follows leaves the row alone.
Finish(j, w) ==
  /\ work[j][w] = "claimed"
  /\ \E s \in Terminal : status' = [status EXCEPT ![j] = s]
  /\ Reach(j, w, "idle")
  /\ UNCHANGED <<request, pc, kind, answer, stored, audited, streamed, tasks>>

\* An exception, the time limit or the death of the worker process.
GiveUp(j, w) ==
  /\ work[j][w] # "idle"
  /\ Reach(j, w, "idle")
  /\ UNCHANGED <<request, pc, kind, answer, rows>>

Step(r) ==
  \/ Lookup(r)
  \/ CreateJob(r)
  \/ PutSource(r)
  \/ AllStored(r)
  \/ FailJob(r)
  \/ MarkJobQueued(r)
  \/ RecordEvent(r)
  \/ AppendEvent(r)
  \/ Enqueue(r)
  \/ Reload(r)

WorkerStep(j, w) == Load(j, w) \/ Claim(j, w) \/ Finish(j, w) \/ GiveUp(j, w)

\* Every call has been made and answered and every job sent is finished.
Rest ==
  /\ \A r \in Requests : pc[r] = "done"
  /\ \A j \in tasks : status[j] \in Terminal /\ \A w \in Workers : work[j][w] = "idle"
  /\ UNCHANGED vars

Next ==
  \/ \E r \in Requests : Call(r) \/ Step(r) \/ PutFails(r) \/ Abandon(r)
  \/ \E j \in Requests, w \in Workers : WorkerStep(j, w)
  \/ Rest

Spec == Init /\ [][Next]_vars

\* A call that is being executed goes on. No client has to call, nothing has
\* to fail, and nothing is assumed of the worker: whether it finishes what it is
\* sent is the question of JobProcessing.
FairSpec == Spec /\ \A r \in Requests : WF_vars(Step(r))

-----------------------------------------------------------------------------
(***************************************************************************)
(* Properties.                                                             *)
(***************************************************************************)

IsJob(a) == a \in Requests

\* An idempotency key names one job: two calls with one key are never
\* answered with different jobs, even when both have looked the key up before
\* either created its job.
KeyNamesOneJob ==
  \A r, s \in Requests :
    /\ request[r].key = request[s].key
    /\ request[r].key # NoKey
    /\ IsJob(answer[r])
    /\ IsJob(answer[s])
    => answer[r] = answer[s]

Clean(s) == \A i \in DOMAIN s : s[i] # Nul

CleanNames(ds) == \A i \in DOMAIN ds : Clean(ds[i].name)

CleanContents(ds) == \A i \in DOMAIN ds : Clean(ds[i].content)

\* Lists of documents whose fields the separators of the digest keep apart: names
\* without NUL, and contents without NUL (text) or one document in each.
Separable(ds, es) ==
  /\ CleanNames(ds) /\ CleanNames(es)
  /\ \/ CleanContents(ds) /\ CleanContents(es)
     \/ Len(ds) = 1 /\ Len(es) = 1

\* A call is never answered with a job made from other documents, or from the
\* same in another order, as long as the digest can tell them apart: a name is
\* not taken for the beginning of a content, nor one document for two.
ReplayMatchesDocuments ==
  \A r \in Requests :
    /\ IsJob(answer[r])
    /\ Separable(Documents(r), Documents(answer[r]))
    => Documents(answer[r]) = Documents(r)

\* What a worker may rely on when it takes the message (JobProcessing starts
\* here): the row says so, every source can be read, and the "queued" event
\* has sequence 1 in the audit and comes first in the stream, so that the
\* worker's own numbers start at 2. In particular a job whose upload failed is
\* never sent.
EnqueuedIsReady ==
  \A j \in tasks :
    /\ status[j] \in {"queued", "processing"} \cup Terminal
    /\ stored[j] = Len(Documents(j))
    /\ audited[j] = "queued"
    /\ streamed[j] = "queued"

\* Once a worker has a job the API never sets it back, although submit may
\* still be running and writes the status without looking at it: whatever the
\* copies of the message do to each other's work, it stays theirs.
HandedOver ==
  [][\A j \in Requests : status[j] \in {"processing"} \cup Terminal
                         => status'[j] \in {"processing"} \cup Terminal]_status

\* API and worker together move a job through its life cycle without ever
\* going back, although both write the status without looking at it, if one copy
\* of the message is executed at a time. With two, the claim of one may come
\* after the end of the other.
Life(j) == INSTANCE JobLifecycle WITH status <- status[j]

\* \A j \in Requests : Life(j)!Spec, written with one box for TLC.
JobsFollowLifecycle ==
  /\ \A j \in Requests : Life(j)!Init
  /\ [][\A j \in Requests : [Life(j)!Next]_(status[j])]_status

\* A job that was created is sent to the worker, or failed because its sources
\* could not be stored, or its client is told of an error: no call leaves a job
\* behind and says nothing.
CreatedIsSent ==
  \A r \in Requests :
    status[r] # "absent" ~> r \in tasks \/ status[r] = "failed" \/ answer[r] = Error

\* A client that is answered with a job, by a replay of an earlier call too,
\* can wait for it: it is or will be sent to the worker, or it is over.
AcceptedIsSent ==
  \A r, j \in Requests : answer[r] = j ~> j \in tasks \/ status[j] \in Terminal
=============================================================================
