# A formal model of the RAG service

TLA+ specifications, TLC model-checking runs and TLAPS proofs for the service in
`src/src/rag_service`: an API that accepts documents, a Dramatiq worker that parses, chunks,
embeds and indexes them, and a retrieval endpoint over the resulting vectors. Paths below are
relative to `src/src/rag_service` unless they say otherwise.

1. [The system](#the-system)
2. [Modules](#modules)
3. [Runs](#runs)
4. [What TLC found in the code](#what-tlc-found-in-the-code)
5. [Bounds](#bounds)
6. [Fairness](#fairness)
7. [Proofs](#proofs)
8. [What is not modelled](#what-is-not-modelled)
9. [Plan](#plan)

## The system

Two kinds of processes share four stores and a broker. The API (FastAPI, asyncio) and the worker
(Dramatiq threads, each running `process` in an event loop of its own) never talk to each other
directly; everything goes through

| store | what it holds | written by |
|---|---|---|
| PostgreSQL | `ingestion_jobs` (status, counters, unique idempotency key), `documents` (status), `job_events` (unique on job and sequence) | API and worker |
| object store | source documents | API writes, worker reads |
| Redis | the task queue; one stream of events per job, expiring a day after its last entry | API and worker |
| Qdrant | one point per chunk | worker writes, API searches |

No transaction spans two stores, no lock is held between two awaits, and the status updates carry
no condition. What keeps the system correct is the order of the calls, the two unique constraints
and the idempotence of the point ids.

### Components

| component | state it keeps | operations | hard behaviour | correct when |
|---|---|---|---|---|
| ingestion submission, `services/ingestion.py` `submit` | job row, sources, first event, message | key lookup, create, put, fail or queue, publish, enqueue, reload | two calls with one key; a call cut off between any two awaits; the worker starting while `submit` still runs | a key names one job, made from the same documents; only ready jobs are sent; what a worker has stays its own; a job is sent or somebody is told |
| ingestion worker, `services/ingestion.py` `process`, `workers/tasks.py` | job and document rows, audit rows, stream, points, its own counters | load, claim, per document parse/chunk/embed/index, error path, finish | exceptions anywhere, crashes, retries, redelivery, the time limit; a counter rebuilt from the number of rows | numbering without gaps, row and points agree, the job ends, a finished job stays finished |
| event publisher and store, `services/events.py`, `repositories/events.py` | audit rows, stream entries | publish, append, read | row written and entry not; entries expire | every entry is audited, none twice |
| event streaming, `container.py` `stream_events`, `api/routes.py` | position per connection | connect with or without Last-Event-ID, read, yield, check the job | reconnects, unsent batches, expiry, an end nobody announced, reading row and stream one after the other | nothing skipped or repeated, an end is an end, no client waits for ever |
| chunking, `services/chunking.py` | none (pure) | `_segments`, `chunk_text` | boundaries, overlap, white space, page markers | no text lost, no chunk too long or repeated, no page wrong, the loop ends |
| job repository, `repositories/database.py` | the rows | one transaction per method | `get_job` reads in three statements | the constraints hold |
| vector store, `repositories/qdrant.py` | points, the collection, its index | upsert, delete, search, `ensure_collection` | two calls to look and create, several processes at once; a call that raised after it took effect | made once, for one vector size |
| object storage, `repositories/storage.py` | sources, the bucket | put, get, `ensure_bucket` | two calls to look and create | made before anything is stored |
| start-up and readiness, `container.py`, `main.py`, `workers/tasks.py` | what the process has got | `startup()` by the API, by each probe and by each attempt of a task | processes racing, dying halfway, disagreeing in their settings | who is up can serve; who loses a race is not stuck |
| retrieval, `services/retrieval.py`, `api/routes.py` | locals of one request | embed, search, limit the context, ask, filter the labels, cite | the limit at its boundary; what a model may write; renumbered citations | cites relevant chunks of the namespace that the model was shown; a query is answered |
| provider client, `providers/openrouter.py` | none | `_request` with one retry, `embed`, `answer` | a retry of what was served; replies of the wrong shape | one vector per text, in order |
| parsers, HTTP layer, settings, logging, schema, deployment | | | | |

`PROJECT.json` names the source files of each and lists the hazards, at their lines, with the
properties that cover them.

## Modules

| module | models | how |
|---|---|---|
| `JobLifecycle` | the abstract promise of `ingestion_jobs.status` | absent, uploading, queued, processing, then one of the three terminal values, never back |
| `JobSubmission` | `IngestionService.submit`, concurrently | one process per call, `pc` names the await that comes next; the worker appears as copies of a job's message that load the job, claim it and finish it or give up |
| `JobProcessing` | `IngestionService.process` and `_process_document`, the Dramatiq message | one process per copy of the message, `pc` names the await that comes next |
| `EventStreaming` | `stream_events` and its clients | EXTENDS `JobProcessing`: readers interleaved with the worker |
| `Chunking` | `_segments` and `chunk_text` | one step per segment and per window; texts are functions from offsets to kinds of character |
| `Startup` | `ServiceContainer.startup`, concurrently, and readiness | one process per API process, probe and worker; `step` names the call that comes next |
| `ProviderClient` | what `_request`, `embed` and `answer` make of a reply | operators shared by the next two |
| `Embedding` | the embedding loop of `_process_document` | one step per request to the provider; a vector is the number of its chunk |
| `Retrieval` | one POST /v1/retrievals | one step per call, per hit and per match of the citation pattern; an answer is a sequence of characters |
| `Serving` | the containers at work | EXTENDS `Startup`, `Retrieval`, `Embedding`: a process serves between the end of its `startup()` and its death |
| `MCxxx` | | model values for TLC |
| `xxx_proofs` | | theorems and their proofs |
| `Recursion` | | induction on natural numbers and recursive functions, for the proofs |

`JobSubmission` ends where `JobProcessing` begins: `EnqueuedIsReady`, an invariant of the former,
is the initial state of the latter, and both refine `JobLifecycle` (`Life` in each) while one copy of a message is
executed at a time. `EventStreaming` composes the worker with readers. `Serving`
composes the rest: what startup has made sure of is what retrieval and indexing rely on.

### JobProcessing

One job is modelled: jobs share no row, stream, object or point. Each await on a store that
changes something or reads what another step can change is one action. The variables of the code
keep their names (`seq` and `docSeq` are the two variables called `sequence`); `kind` is the kind
of the publication at hand, so the seven publications share `RecordEvent` (the audit row, subject to
the unique constraint) and `AppendEvent` (the stream entry and the return to the caller).

* `storage.get`, the parser, the chunker and `embed` change nothing, so what they may raise is
  raised at the publication that follows: `DocumentFault` for what may succeed next time,
  `RejectDocument` for a document (`Unreadable`) that never will.
* An exception is caught (`CatchDocumentError`, inside the try block) or leaves the actor (`Raise`).
  `Escape` is every exception that `except Exception` does not stop: outside the try block, and
  anywhere for Dramatiq's `TimeLimitExceeded`, which derives from `BaseException`. An exception
  after a call took effect is that call's step followed by the error.
* `_process_document` counts in a local of its own, whose value `process` sees only on return. This
  decides what happens after an error, so both counters are variables.
* The Dramatiq side (`Deliver`, `Redeliver`, `Crash`, `Raise`, `Ack`) is external code: at-least-once
  delivery, a requeue when the worker process dies, at most `max_retries` retries.
* `get_job` under READ COMMITTED is two steps, `LoadJob` and `LoadEvents`: the status and the number
  of events may come from different moments.
* `uncleaned` is a history variable (documents whose compensating delete raised); nothing reads it
  but `TerminalTruth`. A stream entry carries its sequence number for the same purpose.

### JobSubmission

A call is a request that passed validation. `Following` holds the order of the calls after the
uploads. `Abandon` ends a call anywhere: a store raised or the API process died, which for what
is persisted is the same. A missing and an empty `Idempotency-Key` are different values: the empty
one skips the lookup and is stored.

A body is its documents and its scope, which stands for all that `digest_documents` leaves out: namespace, metadata,
content types. The digest itself is modelled byte by byte, because the question is what its NUL separators keep
apart: a name or content that holds NUL runs into the next field. Only SHA-256 is taken to be injective.

Of the worker, `Load` (the test of the status), `Claim` and `Finish` (the two updates, neither of which looks at the
row) are separate transactions, as in `JobProcessing`; any number of copies of a message may stand between them, and
each may end anywhere (`GiveUp`).

### EventStreaming

An entry's id is its place in `stream`. A client remembers what it has (`seen`), comes back with
the last id of it (`Connect`) or without (`Replay`), and is cut off at any moment (`Disconnect`), which
loses the unsent rest of the batch. `Expire` deletes the stream's key, at any moment: the time
since the last XADD is unbounded, because a document may take arbitrarily long and a message may
wait in the queue. The event made from the job row has `current_id` as its id and so moves nothing.

### Chunking

A character is a word character, a newline (`line`: what `rfind` looks for; a space differs only
in that no heading follows it), other white space (`blank`), the beginning of a heading or of a
page marker. A marker that begins no line of the text is a word, unless only white space precedes it (`indented`): it
begins its segment once that is stripped, and `_PAGE` is searched in the stripped segment. The page of a chunk
is the place of the marker it was taken from, or `NoPage`. Negative slice bounds are modelled as Python evaluates them (`Offset`), although the
proof shows that they do not occur when the overlap is at most half the size.

### Startup

`startup()` is SELECT 1 and PING, which change nothing, then four calls that look and create. Nothing
coordinates the processes. `CreateBucket` may be refused when the bucket exists (MinIO) or accepted (S3 in
us-east-1); Qdrant refuses to create a collection that exists. `ensure_collection` recognises "not
found" by the class of the exception, which other failures share: `MissCollection` is that mistake. It compares the
size only of a collection with one unnamed vector, as are all that this code makes, and no others are modelled. `dim` is
chosen per process: nothing in the code makes the settings of API and worker agree. A probe runs `startup()`
with the container of its server and shares its death (`Aboard`). `interrupted` is a history variable that
only `IndexIsMade` reads.

### Retrieval and Embedding

`Reply` is what a POST to the provider comes to, as far as the client distinguishes it: retried once when
it is `busy` or `broken`, refused without a retry when it is a JSON object of the wrong shape. The provider
returns embeddings in the order of the texts; the client does not look at the index, and no check could
see it otherwise. `Embedding` models the loop because `JobProcessing` has it as one step: the loop's result
is upserted whole or not at all.

In `Retrieval`, `Results` is what Qdrant may return (the filter, the limit, the order; which points exist at
that moment is left open). Scores and lengths are constants of the chunks, in any unit. The filter on the score
and `_limit_context` are one pass over the hits: the code filters first, and the two loops touch no other state. Each
match of `_CITATION` and each other character that `sub` passes is a step. The reply is stripped before (by the
provider client) and the answer after (`Trimmed`): removing a label at an end can uncover white space. `Sources` is the list that the
response cites; `citation_id` is the place in it, so it is not the number in the label.

### Serving

`Crash` takes the request or document of its process with it. A worker starts and ends with every attempt of a task
(`EndOf`), never within a document. `Query` needs an API process that is up; a probe that fails or a start of another
process does not stop it.

## Runs

Twelve runs, each a different question. Five of them state what a doc, a comment or a message of the
repository says and what the code does not do.

| run | question | answer |
|---|---|---|
| `processing_single` | one copy of the message; an exception and a crash at every await, a retry: do rows, audit, stream and points agree, and does the job end? | yes: `TerminalTruth`, `IndexedIsSearchable`, `CompletedEventIsTrue`, `StreamInOrder`, `FinishedIsFinal`, `FollowsLifecycle`, `JobFinishes` |
| `processing_duplicates` | two workers on one job, a document that always fails: what survives? | numbering and audit (`AuditGapless`, `StreamIsAudited`), and the broker gets rid of both copies (`EventuallySettled`, because of `EveryStepCounts`) |
| `processing_rejected` | does a job with a document that cannot be parsed finish? | no, finding 1 |
| `processing_redelivered` | do the documents of a completed job stay searchable? | no, finding 2 |
| `submission` | two concurrent calls, equal, different, empty or missing keys, abandoned anywhere, and two copies of every message | `KeyNamesOneJob`, `ReplayMatchesDocuments`, `EnqueuedIsReady`, `HandedOver`, `CreatedIsSent` |
| `submission_replay` | is every job a client is answered with sent, or over? | no, finding 3 |
| `chunking` | every text up to eight characters, four settings | `Coverage`, `ChunksProgress`, `PageOfLastMarker`, `StartAdvances` |
| `chunking_overlap` | the same with an overlap the guard admits | no, finding 4 |
| `streaming` | worker and client, drops, resumption, expiry, a worker that dies before it announced the end | `ResumeIsSeamless`, `CompletedIsTrue`, `EndHasEverything`, `ClientIsReleased` |
| `streaming_failed` | does the response end when the job does? | no, finding 5 |
| `serving` | an API process with a probe and a worker start against empty stores, with settings that may disagree, a failing call and a crash anywhere | `StartedIsUsable`, `IndexIsMade`, `EveryChunkEmbedded`, `AllStart`, `QueryIsAnswered` |
| `retrieval` | every answer of up to six characters, or five with white space, over contexts of one and two chunks | `CitationsAreGrounded`, `ContextIsLongestPrefix`, `CitationsFollowLabels`, `OnlyFalseLabelsRemoved`, `LabelsNameSources` |

Each property of a passing run has a mutant: an operator defined beside the original
that a plausible mistake would produce (a missing unique constraint, a status that is not tested, a
cursor that is not moved, a marker looked up in the wrong text), under which TLC finds the property
violated.

What the strongest properties say:

* `AuditGapless`: the numbers of the audit rows are 1..n, always. Every attempt starts its
  counter from the number of rows, and the error path goes back to an older value of it; the
  property holds because a number that is taken makes the insert fail, whatever the interleaving.
* `StreamIsAudited`: no stream entry without its row and none twice, with two workers as with one.
* `TerminalTruth`: when the row says the job is over, its counters are the numbers of indexed and
  failed documents, indexed documents have their points, failed ones have none unless the
  compensating delete raised.
* `HandedOver`: once a worker has a job, the API never sets it back, although `submit` is still running, writes the
  status without looking, and any number of copies of the message load, claim, finish and give up in between. It
  holds because the message is sent after the last update.
* `ReplayMatchesDocuments`: a call is answered only with a job of its own documents, as far as the digest can tell:
  names without NUL, and contents without NUL or one document each (`Separable`). Without the exception it is false:
  `[("a", "x"), ("b", "y")]` and `[("a", "x\0b\0y")]` have one digest.
* `CreatedIsSent`: no call leaves a job behind and says nothing: it is sent, or failed, or the client gets an error.
* `PageOfLastMarker`: the page of a chunk is the last marker at or before its beginning, however many windows ago;
  a chunk has none only where a heading came after the last marker, or there was no marker.
* `IndexedIsSearchable`: a retry that deletes and rewrites points never leaves a document that is called
  indexed without points, because it marks the document as processing first.
* `ResumeIsSeamless`: however often the client is cut off, it has the unexpired entries in order,
  none twice, none skipped.
* `EndHasEverything`: a client that has the "completed" entry has every unexpired entry, and none will follow: a
  retry after the end finds the job finished before it publishes anything. The end that is made from the job row
  does not promise that (`container.py:74`, below).
* `EveryStepCounts`: short of a crash, every step leaves its copy of the message with less to do - attempts, then
  documents, then calls - and takes nothing back from the other copies. A worker that dies gives its attempt back:
  a document that kills its worker is delivered as often as the broker likes.
* `ClientIsReleased`: no client waits for a job that is over, although the "completed" event may never
  have been written (the worker died between `finish_job` and `publish`) or has expired.
* `StartedIsUsable`: whoever is up has a bucket and a collection of its own vector size, although every
  process looks and creates in two calls and takes other failures for "not found". It holds because a
  collection is made only when there is none, and everybody who relies on one has seen it after that.
* `AllStart`: an API process that loses the race for the bucket or the collection exits, and its next start finds
  them, whatever the others do, unless the collection has another size.
* `IndexIsMade`: the index on `namespace` is missing only while its maker is about to make it, or for good if the
  maker was stopped. The second half is a weakness of the code (no later start looks for the index), which the
  property states as it is; searches work without the index, more slowly.
* `CitationsFollowLabels`: the n-th citation is the n-th source that the answer names. The labels in the answer
  keep the numbers of the context, so a client must not look label `[2]` up under `citation_id` 2.
* `OnlyFalseLabelsRemoved`: the answer is the reply without the labels that name no source and then without
  outermost white space, character by character.
* `LabelsNameSources`: the labels left in the answer name sources, unless the model writes one label inside another.
  `sub` makes one pass: with one chunk in the context, the answer `[2[2]]` becomes `[2]`, which names nothing.
  Without the exception (`Enclosed`) the property fails with exactly such answers. The citations are not affected:
  `CitationsAreGrounded` has no exception.

## What TLC found in the code

1. **A document error after the first publication blocks the job** (`services/ingestion.py:145`).
   `sequence = await self._process_document(...)` is not assigned when the call raises, so the
   `failed` event gets the number of the document's `parsing` event and violates
   `uq_job_events_job_sequence`. The exception leaves `process`, each retry fails in the same
   way, and the job stays `processing`. `docs/architecture/v0.2.0-ingestion-pipeline.md`
   describes a failed event followed by the next document. When the error is transient the retry
   succeeds, which is why `JobFinishes` holds in `processing_single`.
2. **A redelivered copy can leave a completed job without vectors** (`services/ingestion.py:139`). It is delivered
   while the first worker is about to publish `parsing`, and numbers its `started` event from the same audit
   rows. The first worker's insert conflicts, which to it is one more document error: it marks the document failed
   and deletes its points, which may come right after the second worker has written them. Its `failed` event
   conflicts as well and it gives up. The second worker marks the document indexed and the job completed, and nothing
   of it can be found. `docs/architecture/v0.2.0-ingestion-pipeline.md:45` calls the worker idempotent.
3. **A cut-off submission is replayed and never sent** (`services/ingestion.py:60`). The job
   exists under the client's key, was never sent, and no call will send it.
4. **A large overlap loops for ever** (`services/chunking.py:39`). The guard asks for
   `overlap < size`; a boundary just beyond half the window and an overlap above half of it
   bring `start` back to where it was.
5. **One failed document ends the response** (`container.py:71`). The kind `failed` is both a
   document's event and the end marker.

Seen while modelling, with no run of their own:

* The request hash covers names and contents only, so a key that is used again for another namespace, with other
  metadata or content types, is answered with the first job (`services/ingestion.py:58`), and so is one whose
  fields run into each other because a content holds NUL. `ReplayMatchesDocuments` says what is left.
* The status is tested in one transaction and overwritten in another (`services/ingestion.py:118`): a copy that loaded
  the job before another finished it sets it back to `processing`. With two copies of the message `FinishedIsFinal`,
  `FollowsLifecycle` and `JobsFollowLifecycle` are false, hence they are checked or proved for one.
* A compensating delete that raises is logged and forgotten (`services/ingestion.py:138`). The points of an attempt that died
  after its upsert then outlive a retry that fails before its own delete: `TerminalTruth` exempts such documents
  (`uncleaned`).
* A heading inside a page takes the page away from everything up to the next marker, since the marker is looked up in
  the segment (`services/chunking.py:56`). `PageOfLastMarker` allows it.
* The job row is read after an empty XREAD, so entries written in between are not sent before the end, though a client
  that resumes gets them (`container.py:74`).
* A label inside another leaves one that names no source, and a collection whose maker died has no payload index
  (both above).

## Bounds

| run | bounds | why they are enough |
|---|---|---|
| `processing_*` | two documents (one with two copies) | documents interact only through the loop's counters and the job's totals; two give every combination of the first and the later ones, and of completed and failed |
| | `MaxRetries` 1 or 2, or the actor's 5 (`processing_redelivered`), `MaxFaults` 1, `MaxCrashes` 1 | a fault or crash may come at every await of the first or of the second attempt; retries do not depend on how many there were, and the theorems hold for all numbers. `MaxRetries = MaxFaults` in `processing_single` because `JobFinishes` promises an end only when there are fewer exceptions than attempts |
| | two copies of the message | a third copy adds a third party to the same conflicts; the theorems about numbering hold for any number |
| `submission*` | two calls; the keys: one, empty, missing; bodies with the same bytes as two documents, as one, and as one whose content holds the separators, for another namespace; two copies of a message (one in `submission_replay`) | a race for a key needs two calls, and a stale claim two copies; the bodies share digests where the code confuses them and differ only in a separator where it does not. The theorems hold for any number and any body |
| `chunking*` | texts of up to 8 (6 with the large overlap) kinds of character, sizes 1, 3, 4 | texts of two full windows with overlap and a remainder, or of up to four segments; the theorems hold for every length and size |
| `streaming*` | one client, one or two documents, `Count = 2`, the stream expires once | readers change nothing that another reads, so two clients show nothing that one does not; the stream of one document has seven entries and more, several batches; a second expiry deletes a longer prefix, as a later first one does |
| `serving` | one API process, one probe, one worker; two dimensions; one fault, one crash | a race needs two processes and the probe makes a third caller; a second fault or crash meets the same states. The theorems hold for all numbers. One chunk and one answer: what a request retrieves concerns no other process |
| | documents of up to three chunks, batches of two | one batch, a full one, a full one and a rest; the theorem holds for all sizes |
| `retrieval` | five chunks: two that fit together and are equally similar, one longer than the limit, one below the threshold, one in another namespace; `TopK` 1 and 3 | contexts of one and two chunks, stopped by the limit, by the threshold and by the end |
| | answers of up to six characters over two digits and the brackets | two labels side by side, repeated or in any order, a label of two digits, one within another, brackets that do not match |
| | answers of up to five characters over a digit, the brackets and white space | white space within, and at an end that a removed label uncovers |

## Fairness

Weak fairness, per process, and of no failure:

* `Step(m)` of every copy of the message and `Deliver(m)`: Dramatiq keeps delivering what is queued, and
  an `await` on a store returns or raises (the clients of all stores have timeouts, and Dramatiq's time
  limit ends an attempt that does not). Crashes, exceptions and redeliveries are never forced.
* `Step(r)` in `JobSubmission`: a call goes on once it has begun. A client need not call, and nothing is assumed of
  the worker: whether it finishes what it is sent is the question of `JobFinishes`, and finding 1 is a case where it
  does not.
* `Serve(c)` in `EventStreaming`: the API serves an open connection: XREAD returns after 15 seconds at
  the latest. `ClientIsReleased` needs nothing of the client.
* `StartOf(c)` of every API process in `Serving`: an API process is started again when it ends (`restart: unless-stopped`
  in `docker-compose.yml:38`, Kubernetes), and a start goes on, since the clients of the stores have timeouts. Workers
  and probes start when a task or a request comes, which is not assumed, and may stop halfway.
* `Query /\ RetrievalStep`: a query that was received goes on; the provider client has a timeout, and its two attempts
  are all there are. That a request comes is not assumed.

Weak fairness suffices: as long as a copy runs, a call is on its way or a connection is open, one of the
process's own steps is enabled, and no other process can disable it except by ending it.

## Proofs

`tlapm` checks every theorem, from the assumptions named in the modules: `DocsAssumption` (the documents
are a finite set, not empty), `BrokerAssumption`, `AnswersAssumption`, `BodiesAssumption` (names and
contents are sequences of bytes), `SettingsAssumption` (what the guard
of `chunk_text` and pydantic enforce), `StreamingAssumption`, `ProcessAssumption`, `StartupAssumption`,
`EmbeddingAssumption`, `PointsAssumption`, `RequestAssumption`, `RolesAssumption`. All bounds are arbitrary naturals and the
numbers of workers, clients, requests, documents and characters are arbitrary.

The induction theorems of the library that take an operator cannot be instantiated by the installed provers. Where a
proof needs induction over data (sums, numerals, digests, cardinalities), it takes the set form: `<` on Nat is well-founded
(`NatLessThanWellFounded`, `WFMin`), hence a set that has 0 and with each n its successor has all of them
(`Induction`), and a function defined by recursion on an interval exists and is unique (`RecursionExists`,
`RecursionUnique`). These lemmas are in `Recursion`, with `LeastNumber` and `GreatestNumber`.

### JobProcessing_proofs

For any number of copies of the message:

* `TypeCorrect`.
* `AuditNeverHasGaps`, `StreamNeverOutrunsAudit`, from `IInv == TypeOK /\ NumbersInv /\ OwnershipInv`.
  Neither property is inductive. `NumbersInv` adds that no counter is ahead of the number of rows by
  more than one (so an insert that does not conflict takes exactly the next number), and that the
  number of a publication whose row is in is not beyond the rows. `OwnershipInv` adds that such a
  publication owns its row: no other copy is publishing that number and no entry has it yet. Most steps
  neither insert nor append; `QuietSteps` says so once (`Quiet`), and only `RecordEvent` and `AppendEvent`
  get a proof of their own.

While one copy exists (`Messages = {Sent}`, an assumption of the theorems; with two copies they are
false, see finding 2 and what follows the findings):

* `OneCopyFollowsLifecycle` and `OneCopyFinishesForGood`. `ClaimInv` relates the program point to the
  row: not finished until claimed, `processing` until the end, finished from then on. The two
  unconditional updates are steps of `JobLifecycle` under it.
* `OneCopyCompletesOnce`: at most one `completed` event, and only for a finished job. `EndInv` adds that
  a copy about to record it is the first.
* `OneCopyIndexedIsSearchable`. `IndexInv` adds that a document is `processing` while its points are
  deleted and written, and `failed` before they are deleted for good: the order of those calls is what
  makes the property hold.
* `OneCopyResultIsTrue` (`TerminalTruth`), from `OneCopyInv`, which joins all of these with `TallyInv`: from the
  claim to the end of the loop the two counters are the numbers of indexed and failed documents among
  those the loop is done with (`Done`), a failure being counted before its row says so (`Counted`).
  `FinishJob` turns the tally into the result, and nothing touches a finished job (`FinishedIsLeftAlone`).
* `OneCopyStreamsInOrder`. `OrderInv` adds that the publication between its insert and its XADD has the
  highest number there is.
* `OneCopyEndsItsStream`: nothing is streamed after the "completed" entry. Once it is there the job is over (it is
  audited), so a copy that is about to append could only append that same event, which it owns (`OwnershipInv`).

For any number of copies again, `WorkRunsOut` proves `EveryStepCounts` and `NoEndlessDescent` that the order it descends
in is well-founded. `PlaceInv` adds that a copy is at a call exactly while it runs, and which publication follows
a call. With finitely many copies and crashes this is why `EventuallySettled` holds; what TLAPS cannot add is that
a step is always enabled.

`ResultsAddUp` is what is left of `TerminalTruth` with any number of copies. The counters of the row may then differ
from the rows of the documents (finding 2), but they still count every document once and the status follows from
them (`ResultAddsUp`): each copy counts the documents it was loaded with (`SumInv`), and `FinishJob` writes counters
and status together, so a second finish replaces the first as a whole.

### EventStreaming_proofs

`WorkerUndisturbed` shows that the composition implements `JobProcessing`, so every theorem above holds
of it. Then, for any number of clients, any batch size, workers and faults:

* `ReaderTypeCorrect`: no position points outside the stream, which only grows.
* `ResumingIsSeamless`. The invariant `SeamInv` says of each client that its entries are in order and
  complete up to the last, that `current_id` is that last entry while it is served, and that the batch
  is consecutive and follows `current_id` but for expired entries. It is what makes losing a batch harmless.
* `OneCopyToldTheTruth`, for one copy of the message: `completed` is told only of a finished job. It
  combines `StreamNeverOutrunsAudit` (the entry is audited), `OneCopyCompletesOnce` (the audited event
  belongs to a finished job) and `OneCopyFinishesForGood` (it stays finished).
* `OneCopyEndIsComplete` (`EndHasEverything`), from `ResumingIsSeamless` and `OneCopyEndsItsStream`.

### JobSubmission_proofs

For any number of calls, keys and bodies, and of copies of a message:

* `TypeCorrect`; `OnlyReadyJobsAreEnqueued` from `ProgressInv`, which says for each program point what
  has been made durable, and that only a job that was sent has a copy at work.
* `KeysAreIdempotent` (`KeyNamesOneJob`) from `KeyInv`: the key column is unique, and every answer is a committed job
  with the caller's key and digest.
* `DigestSeparates`: lists of documents that are `Separable` have different digests when they differ. From the end
  (`DigestByPrefix`), the last content and then the last name can be read off, since neither contains a separator
  (`LastField`); for single documents the name is read off from the front (`FirstField`), and the content is what is
  left. `ReplaysMatch` (`ReplayMatchesDocuments`) follows.
* `WorkersKeepTheirJobs` (`HandedOver`): `StatusWriters` says who may write a status in which state; the calls of
  `submit` that do precede the message.

`OneCopyImplementsLifecycle` assumes one copy of each message (`OneCopy`): for every job, the initial states and the
steps of API and worker map to those of `JobLifecycle`. `CopyInv` relates how far the copy has got to the row: the
status it tested is still true when it claims, because nobody else writes it. The run `submission` has two copies, with which
this is false, so the refinement is proved and not model-checked.

### Chunking_proofs

`NothingIsLost`, `ChunksNeverRepeat`, `LoopAdvances`, for texts of any length and every size, under
`ModerateOverlap` (the overlap is at most half the size, as in the defaults 1200 and 200). Without it they are
false (finding 4). `Geometry` is the core: each window begins `overlap` before the end of the chunk it
follows and `Reached` never decreases, because a preferred boundary lies beyond half the window.
`PagesFollowMarks` (`PageOfLastMarker`) rests on `PageInv`: a segment has at most one mark, at its beginning - what strip() removes
is never a mark, and what it uncovers may be an indented marker, which then is first - and only the first segment
may have none. `TypeCorrect` holds under the same assumption.

### Retrieval_proofs

* `TrimmedFacts` says which characters strip() leaves.
* `RetrievalTypeCorrect` and `AnswersAreGrounded`, from `RetrievalInv`, one conjunct per stage: the hits are distinct
  and of the namespace (`HitsInv`), the context is taken from the hits the loop has passed and has no more than they
  have (`ContextInv`), the labels that were kept are distinct places in it (`CitedInv`). The type says that the model
  is asked at most twice.
* `ContextIsBest` (`ContextIsLongestPrefix`), for every score, length and limit. The hits come in descending order of
  their scores (`Sorted`), so the relevant ones are the first ones and nothing is skipped between two that are
  taken: while the loop runs, `context` is the first `Len(context)` hits, `total` is their length, and each fits
  (`PrefixInv`). `EndInv` keeps what ended the loop. `LengthFacts` relates `total` to `Length`, by induction.

### Citation_proofs

For every answer of the model, of any length. The pass over the answer keeps two functions that no variable holds:
g says which character of the reply each character of the answer is (`PassInv`), f says where the reply names each
cited source first (`FirstsInv`). Both only grow at their ends.

* `OnlyFalseLabelsGo` (`OnlyFalseLabelsRemoved`): g is increasing and reaches all characters outside the false labels.
  What the last strip() leaves of them are exactly those between the first and the last that is not white space
  (`TrimmedIsSent`), so character k of the answer is the k-th of those (`CopyCounts`, `InvRemovesFalseLabels`). That the pass meets
  labels only at their beginnings rests on `LabelsApart`: no label begins inside another.
* `CitationsInOrderOfLabels` (`CitationsFollowLabels`): f is increasing and reaches every source that is named, so
  its position in `cited` is the number of sources named no later (`BeginningCounts`).
* `SentLabelsNameSources` (`LabelsNameSources`): the characters of a label of the answer are neighbours in the reply as
  well, because a gap is a removed label that would lie inside the brackets of another (`GapIsLabel`), which
  `Enclosed` excludes; then it is a label of the reply that was kept, with the same number (`NumberMoved`).
* `QueriesRunOut`: every step of a query lowers the stages that are left or, within one, the hits or answers that
  are left.

### Serving_proofs

* `StartedFindsItsStores` and `IndexHasOneMaker`, about `Startup`, from `StartupInv`. `CallsHold` says what the program
  point of a caller implies: past `ensure_bucket` there is a bucket, past the collection it has the caller's size. The step
  that matters is `CreateCollection`: it takes effect only when there is no collection, hence when nobody is past it.
* `NoChunkWithoutVector`, about `Embedding`: the vectors are those of the chunks before `start` (`LoopInv`), and a
  batch continues them (`BatchContinues`). `BatchesRunOut`: each request lowers
  the chunks that are left, or uses up the retry of its batch.
* `ServingImplements`: every step of the composition is a step of each component or leaves it alone (`StepMaps`), so
  the theorems above hold of it (`ComponentsKeepTheirPromises`, `ServingTypeCorrect`).

### Only model-checked

* Liveness (`JobFinishes`, `EventuallySettled`, `CreatedIsSent`, `ClientIsReleased`, `AllStart`, `QueryIsAnswered`) and anything about
  ENABLED: out of the prover's reach. What `EventuallySettled` and the termination of the chunking loop rest on is
  proved: `EveryStepCounts` and `StartAdvances`. For the query of `QueryIsAnswered` it is `QueriesRunOut`.
* Every safety invariant and action property of a passing run is also proved.
* No module uses a RECURSIVE operator.

## What is not modelled

* Late effects: a vector upsert that timed out on the client and is applied after the compensating delete.
  Here a call takes effect before its exception or not at all. Nothing in the code could prevent or notice it.
* The parsers (pypdf, python-docx): `Chunking` starts from every text they can return up to the bound, and
  `JobProcessing` from the fact that they may reject.
* Reading and validating a request body (`_read_ingestion_request`, `_validate_submission`, content types): one
  sequential pass without state or calls, whose outcome is a rejection before anything is stored or the body that the models
  start from. Its properties restate its guards. Response formats, settings, logging: no state of their own.
* The wording of prompt and answers, `usage`, and characters other than ASCII digits that `\d` matches: no property
  tells them apart.
* The order of the provider's reply: the client does not look at the index of an embedding, and the models assume the
  order of the request.
* A collection that is deleted, or changed by hand, while the service runs, and one with named vectors, which
  `ensure_collection` accepts whatever their size (`repositories/qdrant.py:20`): this code never makes one.
* Chunk ids and metadata other than the page: computed from inputs that do not change. Point ids are
  deterministic, hence a document's points are one element of `vectors`.
* `EventStore.stream`: not called.
* Migrations, containers, Kubernetes, Terraform: declarative. The unique constraints are those of the models.

## Plan

Written so far, in this order: `JobProcessing`, `JobSubmission` with `JobLifecycle`, `Chunking`,
`EventStreaming`, `Startup`, `Embedding`, `Retrieval`, their composition `Serving`, and the proofs of each.

1. `Embedding` as the refinement of the step of `JobProcessing` that stands for it.
2. What survives of `IndexedIsSearchable` when two copies of the message run, as `ResultAddsUp` does of `TerminalTruth`.
3. An extension of `JobProcessing` with late effects of vector calls, if a version of the code gives them a meaning.
