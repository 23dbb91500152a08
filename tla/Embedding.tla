----------------------------- MODULE Embedding -----------------------------
(***************************************************************************)
(* The embedding loop of _process_document: the chunks of a document are   *)
(* sent to the provider in batches, and their vectors are collected. What  *)
(* it collects is what is upserted, or nothing is: JobProcessing models    *)
(* the loop as one step that succeeds or raises.                           *)
(***************************************************************************)
EXTENDS ProviderClient, Sequences

CONSTANTS
  BatchSize,  \* embedding_batch_size
  MaxChunks   \* bound: chunks of a document

ASSUME EmbeddingAssumption ==
  /\ BatchSize \in Nat \ {0}
  /\ MaxChunks \in Nat \ {0}

VARIABLES
  stage,    \* what the loop does
  count,    \* len(chunks)
  start,    \* `start`
  tries,    \* `attempt` in _request
  vectors   \* the chunk of each VectorPoint made so far

embeddingVars == <<stage, count, start, tries, vectors>>

-----------------------------------------------------------------------------

EmbeddingTypeOK ==
  /\ stage \in {"idle", "embed", "embedded", "failed"}
  /\ count \in 0 .. MaxChunks
  /\ start \in Nat
  /\ tries \in 0 .. 1
  /\ vectors \in Seq(1 .. MaxChunks)

EmbeddingInit ==
  /\ configured \in BOOLEAN
  /\ stage = "idle"
  /\ count = 0
  /\ start = 0
  /\ tries = 0
  /\ vectors = <<>>

\* Mutant of BatchEnd: the last batch is cut short.
BatchEndExclusive == IF start + BatchSize < count THEN start + BatchSize ELSE count - 1

\* chunks[start : start + embedding_batch_size] ends with this chunk.
BatchEnd == IF start + BatchSize < count THEN start + BatchSize ELSE count

\* A document has been chunked. embed() raises at once without configuration.
TakeDocument ==
  /\ stage # "embed"
  /\ count' \in 1 .. MaxChunks
  /\ stage' = IF configured THEN "embed" ELSE "failed"
  /\ start' = 0
  /\ tries' = 0
  /\ vectors' = <<>>
  /\ UNCHANGED configured

\* The provider returns as many vectors as it was sent texts, in their order
\* (embed compares the numbers and ignores the provider's indexes): vector i
\* of the batch is chunk i's.
EmbedBatch ==
  /\ stage = "embed"
  /\ vectors' = vectors \o [i \in 1 .. BatchEnd - start |-> start + i]
  /\ start' = start + BatchSize
  /\ stage' = IF start' < count THEN "embed" ELSE "embedded"
  /\ tries' = 0
  /\ UNCHANGED <<configured, count>>

RetryBatch ==
  /\ stage = "embed"
  /\ \E reply \in Reply : Retries(tries, reply)
  /\ tries' = tries + 1
  /\ UNCHANGED <<configured, stage, count, start, vectors>>

\* The exception takes the vectors of earlier batches with it.
LoseDocument ==
  /\ stage = "embed"
  /\ \E reply \in Reply : Fails(tries, reply)
  /\ stage' = "failed"
  /\ vectors' = <<>>
  /\ UNCHANGED <<configured, count, start, tries>>

\* The worker dies.
DropDocument ==
  /\ stage' = "idle"
  /\ count' = 0
  /\ start' = 0
  /\ tries' = 0
  /\ vectors' = <<>>
  /\ UNCHANGED configured

EmbeddingStep == EmbedBatch \/ RetryBatch \/ LoseDocument

EmbeddingNext == TakeDocument \/ EmbeddingStep \/ DropDocument

EmbeddingSpec == EmbeddingInit /\ [][EmbeddingNext]_<<configured, embeddingVars>>

-----------------------------------------------------------------------------

\* When the loop is through, every chunk has one vector, in the order of the
\* chunks, whatever the batch size and however many requests were repeated.
EveryChunkEmbedded ==
  stage = "embedded" => vectors = [i \in 1 .. count |-> i]
=============================================================================
