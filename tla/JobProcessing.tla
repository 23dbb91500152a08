--------------------------- MODULE JobProcessing ---------------------------
(***************************************************************************)
(* Worker side of the ingestion pipeline: IngestionService.process for one *)
(* job, together with the stores it writes to between its awaits - the job *)
(* row, the document rows and the audit rows in PostgreSQL, the Redis      *)
(* stream, the points in Qdrant - and the Dramatiq message that drives it. *)
(*                                                                         *)
(* Jobs share no row, stream, object or point, so one job is modelled. Its *)
(* task may exist in several copies (the broker delivers at least once);   *)
(* a process of this specification is a copy of the message, executed by   *)
(* whichever worker thread holds it.                                       *)
(*                                                                         *)
(* Every await that reads or writes a store is one step. An exception may  *)
(* be raised before or after the effect of any call: "after" is the call's *)
(* step followed by the error step.                                        *)
(***************************************************************************)
EXTENDS Naturals, FiniteSets, Sequences

CONSTANTS
  Docs,        \* the documents of the job
  Unreadable,  \* those parse_document or chunk_text rejects, every time
  NoDoc,       \* "no document": job-level events
  Messages,    \* slots for the copies of the job's Dramatiq message
  Sent,        \* the copy that submit enqueued
  MaxRetries,  \* max_retries of the Dramatiq actor
  MaxFaults,   \* bound: exceptions raised by a store, provider or time limit
  MaxCrashes   \* bound: worker processes killed in the middle of an attempt

ASSUME DocsAssumption ==
  /\ IsFiniteSet(Docs)
  /\ Docs # {}
  /\ NoDoc \notin Docs
  /\ Unreadable \subseteq Docs

ASSUME BrokerAssumption ==
  /\ Sent \in Messages
  /\ MaxRetries \in Nat
  /\ MaxFaults \in Nat
  /\ MaxCrashes \in Nat

VARIABLES
  job,        \* row of ingestion_jobs: status and the two counters
  docStatus,  \* status column of the documents rows
  audit,      \* rows of job_events, unique on (job_id, sequence)
  stream,     \* entries of the Redis stream, oldest first
  vectors     \* documents whose points the Qdrant collection holds

VARIABLES
  at,         \* Dramatiq: where each copy of the message is
  retries     \* Dramatiq: how often it has been retried

\* Local variables of process() and _process_document(), one set per copy.
VARIABLES
  pc,         \* the call that comes next
  kind,       \* kind of the event being published
  seq,        \* `sequence` in process()
  docSeq,     \* `sequence` in _process_document()
  doc,        \* `document`
  todo,       \* the rows of job.documents the loop has not reached
  completed,
  failed

VARIABLES
  faults,     \* bounded: exceptions raised so far
  crashes,    \* bounded: worker crashes so far
  uncleaned   \* history: documents whose compensating delete raised

stores == <<job, docStatus, audit, stream, vectors>>
broker == <<at, retries>>
locals == <<kind, seq, docSeq, doc, todo, completed, failed>>
bounds == <<faults, crashes>>

vars == <<stores, broker, pc, locals, bounds, uncleaned>>

-----------------------------------------------------------------------------
(***************************************************************************)
(* Data.                                                                   *)
(***************************************************************************)

Terminal == {"completed", "completed_with_errors", "failed"}

JobStatus == {"queued", "processing"} \cup Terminal

DocStatus == {"pending", "processing", "indexed", "failed"}

JobKinds == {"queued", "started", "failed", "completed"}

DocKinds == {"parsing", "chunking", "embedding", "indexing"}

Kinds == JobKinds \cup DocKinds

\* An audit row and the stream entry of the same publication. The stream
\* entry carries no sequence number in the code; it is kept here so that the
\* properties can tell which publication an entry came from.
Event == [seq : Nat \ {0}, kind : Kinds, doc : Docs \cup {NoDoc}]

\* Program points inside and outside the try block of process().
TryPC == {"mark_processing", "clear", "upsert", "mark_indexed", "return"}

PC == TryPC \cup {"idle", "load", "load_events", "claim", "next", "fail_document",
                  "cleanup", "record", "append", "shutdown"}

Place == {"absent", "queued", "running", "acked", "dead"}

\* The publication at hand, if there is one, is _process_document's.
InDocument(m) == kind[m] \in DocKinds

\* The try block of the document loop, where `except Exception` is in force.
InTry(m) == pc[m] \in TryPC \/ (pc[m] \in {"record", "append"} /\ InDocument(m))

\* The try block and the except block, where `document` is bound.
WithDocument(m) == InTry(m) \/ pc[m] \in {"fail_document", "cleanup"}

StoresOK ==
  /\ job \in [status : JobStatus, completed : Nat, failed : Nat]
  /\ docStatus \in [Docs -> DocStatus]
  /\ audit \subseteq Event
  /\ stream \in Seq(Event)
  /\ vectors \subseteq Docs
  /\ uncleaned \subseteq Docs

BrokerOK ==
  /\ at \in [Messages -> Place]
  /\ retries \in [Messages -> 0 .. MaxRetries]
  /\ faults \in 0 .. MaxFaults
  /\ crashes \in 0 .. MaxCrashes

LocalsOK ==
  /\ pc \in [Messages -> PC]
  /\ kind \in [Messages -> Kinds]
  /\ seq \in [Messages -> Nat \ {0}]
  /\ docSeq \in [Messages -> Nat \ {0}]
  /\ doc \in [Messages -> Docs \cup {NoDoc}]
  /\ todo \in [Messages -> SUBSET Docs]
  /\ completed \in [Messages -> Nat]
  /\ failed \in [Messages -> Nat]
  /\ \A m \in Messages : WithDocument(m) => doc[m] # NoDoc

TypeOK == StoresOK /\ BrokerOK /\ LocalsOK

\* What submit leaves behind once enqueue has returned: a queued job, pending
\* documents, the "queued" event both audited and streamed, one message.
Init ==
  LET queued == [seq |-> 1, kind |-> "queued", doc |-> NoDoc]
  IN  /\ job = [status |-> "queued", completed |-> 0, failed |-> 0]
      /\ docStatus = [d \in Docs |-> "pending"]
      /\ audit = {queued}
      /\ stream = <<queued>>
      /\ vectors = {}
      /\ at = [m \in Messages |-> IF m = Sent THEN "queued" ELSE "absent"]
      /\ retries = [m \in Messages |-> 0]
      /\ pc = [m \in Messages |-> "idle"]
      /\ kind = [m \in Messages |-> "queued"]
      /\ seq = [m \in Messages |-> 1]
      /\ docSeq = [m \in Messages |-> 1]
      /\ doc = [m \in Messages |-> NoDoc]
      /\ todo = [m \in Messages |-> {}]
      /\ completed = [m \in Messages |-> 0]
      /\ failed = [m \in Messages |-> 0]
      /\ faults = 0
      /\ crashes = 0
      /\ uncleaned = {}

-----------------------------------------------------------------------------
(***************************************************************************)
(* Helpers.                                                                *)
(***************************************************************************)

Goto(m, p) == pc' = [pc EXCEPT ![m] = p]

\* _process_document counts in a local of its own: process() sees its value
\* only when the call returns.
NextSeq(m) == IF InDocument(m) THEN docSeq[m] ELSE seq[m]

Publication(m) == [seq |-> NextSeq(m), kind |-> kind[m], doc |-> doc[m]]

\* Mutant of SeqTaken: no unique constraint.
SeqNeverTaken(n) == FALSE

\* (job_id, sequence) is unique in job_events.
SeqTaken(n) == \E e \in audit : e.seq = n

\* The attempt is over and its local variables are gone.
Leave(m) ==
  /\ Goto(m, "idle")
  /\ kind' = [kind EXCEPT ![m] = "queued"]
  /\ seq' = [seq EXCEPT ![m] = 1]
  /\ docSeq' = [docSeq EXCEPT ![m] = 1]
  /\ doc' = [doc EXCEPT ![m] = NoDoc]
  /\ todo' = [todo EXCEPT ![m] = {}]
  /\ completed' = [completed EXCEPT ![m] = 0]
  /\ failed' = [failed EXCEPT ![m] = 0]

\* Mutant of Raise: the message is retried without a limit.
RaiseForever(m) ==
  /\ Leave(m)
  /\ at' = [at EXCEPT ![m] = "queued"]
  /\ retries' = [retries EXCEPT ![m] = @ + 1]

\* Mutant of Raise: no retries.
RaiseOnce(m) ==
  /\ Leave(m)
  /\ at' = [at EXCEPT ![m] = "dead"]
  /\ UNCHANGED retries

\* The exception leaves _process(), after the container is closed, and Dramatiq's
\* Retries middleware enqueues the message again or, after the last retry,
\* gives it up.
Raise(m) ==
  /\ Leave(m)
  /\ \/ /\ retries[m] < MaxRetries
        /\ at' = [at EXCEPT ![m] = "queued"]
        /\ retries' = [retries EXCEPT ![m] = @ + 1]
     \/ /\ retries[m] = MaxRetries
        /\ at' = [at EXCEPT ![m] = "dead"]
        /\ UNCHANGED retries

\* Mutant of Ack: the message goes back to the queue.
AckRequeues(m) ==
  /\ Leave(m)
  /\ at' = [at EXCEPT ![m] = "queued"]
  /\ UNCHANGED retries

\* The message is acknowledged.
Ack(m) ==
  /\ Leave(m)
  /\ at' = [at EXCEPT ![m] = "acked"]
  /\ UNCHANGED retries

\* Mutant of CatchDocumentError: steps over the number _process_document may
\* have used, whether it did or not.
CatchSkippingNumber(m) ==
  /\ Goto(m, "fail_document")
  /\ kind' = [kind EXCEPT ![m] = "failed"]
  /\ seq' = [seq EXCEPT ![m] = docSeq[m] + 1]
  /\ failed' = [failed EXCEPT ![m] = @ + 1]
  /\ UNCHANGED <<broker, docSeq, doc, todo, completed>>

\* Mutant of CatchDocumentError: the failure is not counted.
CatchWithoutCounting(m) ==
  /\ Goto(m, "fail_document")
  /\ kind' = [kind EXCEPT ![m] = "failed"]
  /\ UNCHANGED <<broker, seq, docSeq, doc, todo, completed, failed>>

\* Mutant of CatchDocumentError: the document is tried again.
CatchAndRepeat(m) ==
  /\ Goto(m, "fail_document")
  /\ kind' = [kind EXCEPT ![m] = "failed"]
  /\ failed' = [failed EXCEPT ![m] = @ + 1]
  /\ todo' = [todo EXCEPT ![m] = @ \cup {doc[m]}]
  /\ UNCHANGED <<broker, seq, docSeq, doc, completed>>

\* An exception inside the try block: `sequence` keeps the value it had
\* before _process_document was called.
CatchDocumentError(m) ==
  /\ Goto(m, "fail_document")
  /\ kind' = [kind EXCEPT ![m] = "failed"]
  /\ failed' = [failed EXCEPT ![m] = @ + 1]
  /\ UNCHANGED <<broker, seq, docSeq, doc, todo, completed>>

-----------------------------------------------------------------------------
(***************************************************************************)
(* The broker.                                                             *)
(***************************************************************************)

\* A worker thread takes the message and starts a service container.
Deliver(m) ==
  /\ at[m] = "queued"
  /\ at' = [at EXCEPT ![m] = "running"]
  /\ Goto(m, "load")
  /\ UNCHANGED <<stores, retries, locals, bounds, uncleaned>>

\* The broker takes a stalled worker for dead and delivers its unacknowledged
\* message a second time, while the first worker goes on.
Redeliver(m, c) ==
  /\ at[m] = "running"
  /\ at[c] = "absent"
  /\ at' = [at EXCEPT ![c] = "queued"]
  /\ retries' = [retries EXCEPT ![c] = retries[m]]
  /\ UNCHANGED <<stores, pc, locals, bounds, uncleaned>>

\* The worker process dies; the message was not acknowledged and is requeued.
Crash(m) ==
  /\ at[m] = "running"
  /\ crashes < MaxCrashes
  /\ crashes' = crashes + 1
  /\ at' = [at EXCEPT ![m] = "queued"]
  /\ Leave(m)
  /\ UNCHANGED <<stores, retries, faults, uncleaned>>

\* An exception that `except Exception` does not stop: raised outside the try
\* block, in container.startup() or shutdown(), or by Dramatiq's time limit,
\* whose exception is not an Exception and so escapes from anywhere.
Escape(m) ==
  /\ at[m] = "running"
  /\ faults < MaxFaults
  /\ faults' = faults + 1
  /\ Raise(m)
  /\ UNCHANGED <<stores, crashes, uncleaned>>

-----------------------------------------------------------------------------
(***************************************************************************)
(* process(): load and claim the job.                                      *)
(***************************************************************************)

\* Mutant of LoadJob: a job that ended with failures is processed again.
LoadUnlessCompleted(m) ==
  /\ pc[m] = "load"
  /\ Goto(m, IF job.status = "completed" THEN "shutdown" ELSE "load_events")
  /\ UNCHANGED <<stores, broker, locals, bounds, uncleaned>>

\* Mutant of LoadJob: the status is not tested.
LoadWhateverStatus(m) ==
  /\ pc[m] = "load"
  /\ Goto(m, "load_events")
  /\ UNCHANGED <<stores, broker, locals, bounds, uncleaned>>

\* get_job selects the job row, whose status process() then tests, ...
LoadJob(m) ==
  /\ pc[m] = "load"
  /\ Goto(m, IF job.status \in Terminal THEN "shutdown" ELSE "load_events")
  /\ UNCHANGED <<stores, broker, locals, bounds, uncleaned>>

\* ... and, in later statements of the same READ COMMITTED transaction, the
\* documents and the events, whose number fixes the starting sequence.
LoadEvents(m) ==
  /\ pc[m] = "load_events"
  /\ Goto(m, "claim")
  /\ seq' = [seq EXCEPT ![m] = Cardinality(audit) + 1]
  /\ todo' = [todo EXCEPT ![m] = Docs]
  /\ UNCHANGED <<stores, broker, kind, docSeq, doc, completed, failed, bounds, uncleaned>>

\* Mutant of MarkJobProcessing: the row is left as it is.
MarkNothing(m) ==
  /\ pc[m] = "claim"
  /\ Goto(m, "record")
  /\ kind' = [kind EXCEPT ![m] = "started"]
  /\ UNCHANGED <<stores, broker, seq, docSeq, doc, todo, completed, failed, bounds, uncleaned>>

\* mark_job_processing updates the row whatever its status is by now.
MarkJobProcessing(m) ==
  /\ pc[m] = "claim"
  /\ job' = [job EXCEPT !.status = "processing"]
  /\ Goto(m, "record")
  /\ kind' = [kind EXCEPT ![m] = "started"]
  /\ UNCHANGED <<docStatus, audit, stream, vectors, broker, seq, docSeq, doc, todo,
                 completed, failed, bounds, uncleaned>>

(***************************************************************************)
(* EventPublisher.publish: the audit row first, the stream entry second.   *)
(***************************************************************************)

RecordEvent(m) ==
  /\ pc[m] = "record"
  /\ ~ SeqTaken(NextSeq(m))
  /\ kind[m] = "chunking" => doc[m] \notin Unreadable
  /\ audit' = audit \cup {Publication(m)}
  /\ Goto(m, "append")
  /\ UNCHANGED <<job, docStatus, stream, vectors, broker, locals, bounds, uncleaned>>

\* The insert violates uq_job_events_job_sequence. Inside the try block that
\* is one more document error; in the except block and around the loop it
\* leaves process().
RecordConflict(m) ==
  /\ pc[m] = "record"
  /\ SeqTaken(NextSeq(m))
  /\ \/ InDocument(m) /\ CatchDocumentError(m)
     \/ ~ InDocument(m) /\ Raise(m)
  /\ UNCHANGED <<stores, bounds, uncleaned>>

\* In _process_document, on to what follows the publication just made.
ContinueDocument(m) ==
  /\ docSeq' = [docSeq EXCEPT ![m] = @ + 1]
  /\ \/ kind[m] = "parsing" /\ Goto(m, "record") /\ kind' = [kind EXCEPT ![m] = "chunking"]
     \/ kind[m] = "chunking" /\ Goto(m, "record") /\ kind' = [kind EXCEPT ![m] = "embedding"]
     \/ kind[m] = "embedding" /\ Goto(m, "clear") /\ UNCHANGED kind
     \/ kind[m] = "indexing" /\ Goto(m, "mark_indexed") /\ UNCHANGED kind
  /\ UNCHANGED <<broker, seq, doc, todo, completed, failed>>

\* In process(), on to the next document.
ContinueLoop(m) ==
  /\ kind[m] \in {"started", "failed"}
  /\ Goto(m, "next")
  /\ seq' = [seq EXCEPT ![m] = @ + 1]
  /\ doc' = [doc EXCEPT ![m] = NoDoc]
  /\ UNCHANGED <<broker, kind, docSeq, todo, completed, failed>>

\* The last event is out and process() returns.
LeaveLoop(m) ==
  /\ kind[m] = "completed"
  /\ Goto(m, "shutdown")
  /\ UNCHANGED <<broker, locals>>

\* XADD, and `sequence + 1` for the caller.
AppendEvent(m) ==
  /\ pc[m] = "append"
  /\ stream' = Append(stream, Publication(m))
  /\ \/ ContinueDocument(m)
     \/ ContinueLoop(m)
     \/ LeaveLoop(m)
  /\ UNCHANGED <<job, docStatus, audit, vectors, bounds, uncleaned>>

-----------------------------------------------------------------------------
(***************************************************************************)
(* The document loop and _process_document. storage.get, the parser, the   *)
(* chunker and provider.embed change no store: what they may raise is      *)
(* raised at the publication that follows them.                            *)
(***************************************************************************)

\* The rows of job.documents come in no particular order.
NextDocument(m, d) ==
  /\ pc[m] = "next"
  /\ d \in todo[m]
  /\ Goto(m, "mark_processing")
  /\ kind' = [kind EXCEPT ![m] = "parsing"]
  /\ doc' = [doc EXCEPT ![m] = d]
  /\ todo' = [todo EXCEPT ![m] = @ \ {d}]
  /\ docSeq' = [docSeq EXCEPT ![m] = seq[m]]
  /\ UNCHANGED <<stores, broker, seq, completed, failed, bounds, uncleaned>>

\* Mutant of MarkDocumentProcessing: a retry leaves the old status.
MarkOnlyPending(m) ==
  /\ pc[m] = "mark_processing"
  /\ docStatus' = [docStatus EXCEPT ![doc[m]] = IF @ = "pending" THEN "processing" ELSE @]
  /\ Goto(m, "record")
  /\ UNCHANGED <<job, audit, stream, vectors, broker, locals, bounds, uncleaned>>

MarkDocumentProcessing(m) ==
  /\ pc[m] = "mark_processing"
  /\ docStatus' = [docStatus EXCEPT ![doc[m]] = "processing"]
  /\ Goto(m, "record")
  /\ UNCHANGED <<job, audit, stream, vectors, broker, locals, bounds, uncleaned>>

\* vectors.delete_document, before the upsert.
ClearVectors(m) ==
  /\ pc[m] = "clear"
  /\ vectors' = vectors \ {doc[m]}
  /\ uncleaned' = uncleaned \ {doc[m]}
  /\ Goto(m, "upsert")
  /\ UNCHANGED <<job, docStatus, audit, stream, broker, locals, bounds>>

\* vectors.upsert sends all points of the document in one request.
UpsertVectors(m) ==
  /\ pc[m] = "upsert"
  /\ vectors' = vectors \cup {doc[m]}
  /\ Goto(m, "record")
  /\ kind' = [kind EXCEPT ![m] = "indexing"]
  /\ UNCHANGED <<job, docStatus, audit, stream, broker, seq, docSeq, doc, todo,
                 completed, failed, bounds, uncleaned>>

MarkDocumentIndexed(m) ==
  /\ pc[m] = "mark_indexed"
  /\ docStatus' = [docStatus EXCEPT ![doc[m]] = "indexed"]
  /\ Goto(m, "return")
  /\ UNCHANGED <<job, audit, stream, vectors, broker, locals, bounds, uncleaned>>

\* `sequence = await self._process_document(...)`, `completed += 1`.
ReturnFromDocument(m) ==
  /\ pc[m] = "return"
  /\ Goto(m, "next")
  /\ doc' = [doc EXCEPT ![m] = NoDoc]
  /\ seq' = [seq EXCEPT ![m] = docSeq[m]]
  /\ completed' = [completed EXCEPT ![m] = @ + 1]
  /\ UNCHANGED <<stores, broker, kind, docSeq, todo, failed, bounds, uncleaned>>

(***************************************************************************)
(* The except block.                                                       *)
(***************************************************************************)

\* A store or the provider raises somewhere in the try block.
DocumentFault(m) ==
  /\ InTry(m)
  /\ faults < MaxFaults
  /\ faults' = faults + 1
  /\ CatchDocumentError(m)
  /\ UNCHANGED <<stores, crashes, uncleaned>>

\* The parser or the chunker rejects the content, as it will on every retry.
RejectDocument(m) ==
  /\ pc[m] = "record"
  /\ kind[m] = "chunking"
  /\ doc[m] \in Unreadable
  /\ CatchDocumentError(m)
  /\ UNCHANGED <<stores, bounds, uncleaned>>

FailDocument(m) ==
  /\ pc[m] = "fail_document"
  /\ docStatus' = [docStatus EXCEPT ![doc[m]] = "failed"]
  /\ Goto(m, "cleanup")
  /\ UNCHANGED <<job, audit, stream, vectors, broker, locals, bounds, uncleaned>>

CleanupDocument(m) ==
  /\ pc[m] = "cleanup"
  /\ vectors' = vectors \ {doc[m]}
  /\ uncleaned' = uncleaned \ {doc[m]}
  /\ Goto(m, "record")
  /\ UNCHANGED <<job, docStatus, audit, stream, broker, locals, bounds>>

\* The compensating delete raises: logged and swallowed.
CleanupFails(m) ==
  /\ pc[m] = "cleanup"
  /\ faults < MaxFaults
  /\ faults' = faults + 1
  /\ uncleaned' = uncleaned \cup {doc[m]}
  /\ Goto(m, "record")
  /\ UNCHANGED <<stores, broker, locals, crashes>>

-----------------------------------------------------------------------------
(***************************************************************************)
(* The end of process().                                                   *)
(***************************************************************************)

FinalStatus(done, bad) ==
  IF bad = 0 THEN "completed"
  ELSE IF done > 0 THEN "completed_with_errors" ELSE "failed"

FinishJob(m) ==
  /\ pc[m] = "next"
  /\ todo[m] = {}
  /\ job' = [status    |-> FinalStatus(completed[m], failed[m]),
             completed |-> completed[m],
             failed    |-> failed[m]]
  /\ Goto(m, "record")
  /\ kind' = [kind EXCEPT ![m] = "completed"]
  /\ UNCHANGED <<docStatus, audit, stream, vectors, broker, seq, docSeq, doc, todo,
                 completed, failed, bounds, uncleaned>>

\* process() has returned; the container is closed.
Shutdown(m) ==
  /\ pc[m] = "shutdown"
  /\ Ack(m)
  /\ UNCHANGED <<stores, bounds, uncleaned>>

\* What a live worker does next, no fault of its environment assumed.
Step(m) ==
  \/ LoadJob(m)
  \/ LoadEvents(m)
  \/ MarkJobProcessing(m)
  \/ RecordEvent(m)
  \/ RecordConflict(m)
  \/ AppendEvent(m)
  \/ \E d \in Docs : NextDocument(m, d)
  \/ MarkDocumentProcessing(m)
  \/ ClearVectors(m)
  \/ UpsertVectors(m)
  \/ MarkDocumentIndexed(m)
  \/ ReturnFromDocument(m)
  \/ RejectDocument(m)
  \/ FailDocument(m)
  \/ CleanupDocument(m)
  \/ FinishJob(m)
  \/ Shutdown(m)

Failure(m) ==
  \/ DocumentFault(m)
  \/ CleanupFails(m)
  \/ Escape(m)
  \/ Crash(m)
  \/ \E c \in Messages : Redeliver(m, c)

\* The broker holds no copy of the message any more.
Settled == \A m \in Messages : at[m] \in {"absent", "acked", "dead"}

\* Nothing is left to do for this job.
Rest == Settled /\ UNCHANGED vars

Next ==
  \/ \E m \in Messages : Deliver(m) \/ Step(m) \/ Failure(m)
  \/ Rest

Spec == Init /\ [][Next]_vars

\* The broker keeps delivering what is queued and a live worker keeps
\* executing; nothing forces a failure to happen.
FairSpec == Spec /\ \A m \in Messages : WF_vars(Deliver(m)) /\ WF_vars(Step(m))
-----------------------------------------------------------------------------
(***************************************************************************)
(* Properties that hold whatever the broker does.                          *)
(***************************************************************************)

\* The audit rows are numbered 1, 2, ..., n without a gap, although every
\* attempt restarts its counter from len(job.events) + 1 and the error path
\* goes back to an older value of it.
AuditGapless == {e.seq : e \in audit} = 1 .. Cardinality(audit)

\* A reader of the stream never sees an event the audit does not have, and
\* sees none of them twice.
StreamIsAudited ==
  /\ \A i \in DOMAIN stream : stream[i] \in audit
  /\ \A i, j \in DOMAIN stream : stream[i].seq = stream[j].seq => i = j

\* No message goes round for ever: retries, redelivered copies and documents
\* that can never succeed included.
EventuallySettled == <>[]Settled

\* What a copy of the message has left, most significant first: attempts, ...
AttemptsLeft(m) ==
  IF at[m] = "absent" THEN MaxRetries + 1 ELSE MaxRetries - retries[m]

\* ... documents of the attempt, all and one more before they are loaded, ...
DocumentsLeft(m) ==
  IF at[m] = "queued" \/ pc[m] \in {"load", "load_events"} THEN Cardinality(Docs) + 1
  ELSE Cardinality(todo[m])

\* ... calls until the next document or the end, an exception of each included.
CallsLeft(m) ==
  LET appended == CASE kind[m] = "started"   -> 22
                    [] kind[m] = "parsing"   -> 19
                    [] kind[m] = "chunking"  -> 17
                    [] kind[m] = "embedding" -> 15
                    [] kind[m] = "indexing"  -> 11
                    [] kind[m] = "failed"    -> 5
                    [] OTHER                 -> 2
  IN  CASE at[m] = "queued"         -> 3
        [] pc[m] = "load"            -> 2
        [] pc[m] = "load_events"     -> 1
        [] pc[m] = "claim"           -> 24
        [] pc[m] = "mark_processing" -> 21
        [] pc[m] = "clear"           -> 14
        [] pc[m] = "upsert"          -> 13
        [] pc[m] = "mark_indexed"    -> 10
        [] pc[m] = "return"          -> 9
        [] pc[m] = "fail_document"   -> 8
        [] pc[m] = "cleanup"         -> 7
        [] pc[m] = "next"            -> 4
        [] pc[m] = "shutdown"        -> 1
        [] pc[m] = "record"          -> appended + 1
        [] pc[m] = "append"          -> appended
        [] OTHER                     -> 0

Remaining(m) == <<AttemptsLeft(m), DocumentsLeft(m), CallsLeft(m)>>

\* The lexicographic order.
Less(a, b) ==
  \/ a[1] < b[1]
  \/ a[1] = b[1] /\ a[2] < b[2]
  \/ a[1] = b[1] /\ a[2] = b[2] /\ a[3] < b[3]

\* Why it does not: short of a crash, every step of a copy, failed or not,
\* leaves it with less to do than before and the others with what they had.
EveryStepCounts ==
  [][crashes' # crashes
     \/ \E m \in Messages :
          /\ Less(Remaining(m)', Remaining(m))
          /\ \A c \in Messages \ {m} : Remaining(c)' = Remaining(c)]_vars

(***************************************************************************)
(* Properties of a message that is executed by one worker at a time.       *)
(***************************************************************************)

\* What a terminal job row claims is so: its counters add up to the outcome
\* of its documents, indexed documents can be found, and failed ones cannot
\* unless their compensating delete raised.
TerminalTruth ==
  job.status \in Terminal =>
    /\ job.completed = Cardinality({d \in Docs : docStatus[d] = "indexed"})
    /\ job.failed = Cardinality({d \in Docs : docStatus[d] = "failed"})
    /\ job.completed + job.failed = Cardinality(Docs)
    /\ job.status = FinalStatus(job.completed, job.failed)
    /\ \A d \in Docs : IF docStatus[d] = "indexed"
                       THEN d \in vectors
                       ELSE d \in vectors => d \in uncleaned

\* A document is not called indexed while its points are missing, not even
\* during a retry, which deletes and rewrites the points of documents an
\* earlier attempt had indexed.
IndexedIsSearchable == \A d \in Docs : docStatus[d] = "indexed" => d \in vectors

\* The "completed" event is published once, and only for a finished job: the
\* end a stream reader waits for is the end of the job.
CompletedEventIsTrue ==
  \A e \in audit : e.kind = "completed" =>
    /\ job.status \in Terminal
    /\ \A f \in audit : f.kind = "completed" => f = e

\* Retries and crashes never reorder what a reader of the stream sees.
StreamInOrder ==
  \A i, j \in DOMAIN stream : i < j => stream[i].seq < stream[j].seq

\* A finished job is never reopened and its result never changes.
FinishedIsFinal == [][job.status \in Terminal => job' = job]_vars

\* Seen from outside, the worker moves the job along its life cycle: no attempt
\* finishes a job that is not being processed, and none starts over with one
\* that is finished, although both updates are made without a look at the row.
Life == INSTANCE JobLifecycle WITH status <- job.status

FollowsLifecycle == [][Life!Next]_(job.status)

\* The job is finished in the end, whatever becomes of its documents. Holds
\* when every document can be parsed and fewer exceptions occur than the actor
\* has attempts; fails for a document that is always rejected.
JobFinishes == <>[](job.status \in Terminal)

\* The documents of a completed job can be found when no copy of the message is
\* left, which is so for one copy. Fails for two: the compensating delete of one
\* copy may come right after the upsert of the other, which then completes the job.
CompletedStaysSearchable ==
  Settled /\ job.status = "completed" => Docs \subseteq vectors
=============================================================================
