------------------------------ MODULE Serving ------------------------------
(***************************************************************************)
(* The containers at work: processes that start, stop and start again      *)
(* (Startup), one of them answering queries (Retrieval) and one embedding  *)
(* documents (Embedding). A process serves only between the end of its     *)
(* startup() and its death, which takes the work at hand with it.          *)
(***************************************************************************)
EXTENDS Startup, Retrieval, Embedding

CONSTANTS
  Api,    \* the API process that gets the queries
  Worker  \* the worker whose documents are modelled

ASSUME RolesAssumption == Api \in Apis /\ Worker \in Workers

servingVars == <<configured, startupVars, retrievalVars, embeddingVars>>

ServingTypeOK ==
  configured \in BOOLEAN /\ StartupTypeOK /\ RetrievalTypeOK /\ EmbeddingTypeOK

ServingInit == StartupInit /\ RetrievalInit /\ EmbeddingInit

\* uvicorn accepts requests once the lifespan has started.
Query ==
  /\ step[Api] = "up"
  /\ Receive \/ RetrievalStep \/ (phase = "done" /\ Discard)
  /\ UNCHANGED <<startupVars, embeddingVars>>

\* _process runs the task once its container has started.
Embed ==
  /\ step[Worker] = "up"
  /\ TakeDocument \/ EmbeddingStep
  /\ UNCHANGED <<startupVars, retrievalVars>>

\* A task ends between two documents, never within one.
EndOf(c) ==
  /\ Finish(c)
  /\ c = Worker => stage # "embed"
  /\ UNCHANGED <<configured, retrievalVars, embeddingVars>>

StartOf(c) ==
  /\ Begin(c) \/ Proceed(c)
  /\ UNCHANGED <<configured, retrievalVars, embeddingVars>>

FaultOf(c) ==
  /\ Disturb(c)
  /\ UNCHANGED <<configured, retrievalVars, embeddingVars>>

Crash(c) ==
  /\ CrashProcess(c)
  /\ IF c = Api THEN Discard ELSE UNCHANGED retrievalVars
  /\ IF c = Worker THEN DropDocument ELSE UNCHANGED embeddingVars
  /\ UNCHANGED configured

ServingNext ==
  \/ \E c \in Callers : StartOf(c) \/ FaultOf(c) \/ EndOf(c)
  \/ \E c \in Containers : Crash(c)
  \/ Query
  \/ Embed

ServingSpec == ServingInit /\ [][ServingNext]_servingVars

\* An API process is started again when it ends (`restart: unless-stopped`,
\* Kubernetes), a start goes on, and so does a query that was received. No
\* task, request, probe, fault or crash is ever forced.
ServingFairSpec ==
  /\ ServingSpec
  /\ \A c \in Apis : WF_servingVars(StartOf(c))
  /\ WF_servingVars(Query /\ RetrievalStep)

-----------------------------------------------------------------------------

\* A query that was received is answered, whatever the provider replies to
\* the requests and their repetitions, unless the process is killed first.
QueryIsAnswered == phase = "embed" ~> phase \in {"done", "idle"}
=============================================================================
