------------------------------ MODULE Startup ------------------------------
(***************************************************************************)
(* ServiceContainer.startup(), run by every process of the service against *)
(* the same bucket and the same Qdrant collection: by an API process in    *)
(* its lifespan, by the same process again for each GET /readyz, and by a  *)
(* worker at the beginning of each attempt of a task.                      *)
(*                                                                         *)
(* Nothing coordinates them: each looks whether a resource exists and      *)
(* creates it if not, two calls with other processes in between.           *)
(***************************************************************************)
EXTENDS Naturals

CONSTANTS
  Apis,          \* API processes
  Workers,       \* worker threads, each with a container per attempt
  Probes,        \* GET /readyz requests in progress
  Server,        \* the API process that answers each of them
  Dims,          \* values EMBEDDING_DIMENSIONS may be given
  NoCollection,  \* "the collection does not exist"
  MaxFaults,     \* bound: calls that raise although they could succeed
  MaxCrashes     \* bound: processes killed

Containers == Apis \cup Workers

Callers == Containers \cup Probes

ASSUME ProcessAssumption ==
  /\ Apis \cap Workers = {}
  /\ Containers \cap Probes = {}
  /\ Server \in [Probes -> Apis]

ASSUME StartupAssumption ==
  /\ NoCollection \notin Dims
  /\ MaxFaults \in Nat
  /\ MaxCrashes \in Nat

VARIABLES
  dim,         \* embedding_dimensions in the settings of each process
  bucket,      \* does the bucket exist?
  collection,  \* the vector size of the Qdrant collection, or NoCollection
  index,       \* does the collection have the payload index on "namespace"?
  step,        \* the call of startup() that comes next, for each caller
  faults,      \* bounded: calls that raised so far
  crashes,     \* bounded: processes killed so far
  interrupted  \* history: a call of create_payload_index was due and not made

startupVars == <<dim, bucket, collection, index, step, faults, crashes, interrupted>>

-----------------------------------------------------------------------------

\* "down" is a process before startup(), or one whose startup() raised: the
\* API process exits, the probe is answered 503, the task is retried.
Steps == {"down", "head_bucket", "create_bucket", "get_collection",
          "create_collection", "create_index", "up"}

StartupTypeOK ==
  /\ dim \in [Containers -> Dims]
  /\ bucket \in BOOLEAN
  /\ collection \in Dims \cup {NoCollection}
  /\ index \in BOOLEAN
  /\ step \in [Callers -> Steps]
  /\ faults \in 0 .. MaxFaults
  /\ crashes \in 0 .. MaxCrashes
  /\ interrupted \in BOOLEAN

\* The stores are empty; settings of different processes may disagree.
StartupInit ==
  /\ dim \in [Containers -> Dims]
  /\ bucket = FALSE
  /\ collection = NoCollection
  /\ index = FALSE
  /\ step = [c \in Callers |-> "down"]
  /\ faults = 0
  /\ crashes = 0
  /\ interrupted = FALSE

-----------------------------------------------------------------------------

\* A probe runs with the container, and so the settings, of its server.
Dimension(c) == dim[IF c \in Probes THEN Server[c] ELSE c]

Enter(c, s) == step' = [step EXCEPT ![c] = s]

\* A process starts, or Kubernetes asks a started one whether it is ready. The
\* SELECT 1 and the Redis PING that come first change nothing; when they raise
\* the caller has not got anywhere.
Begin(c) ==
  /\ step[c] = "down"
  /\ c \in Probes => step[Server[c]] = "up"
  /\ Enter(c, "head_bucket")
  /\ UNCHANGED <<dim, bucket, collection, index, faults, crashes, interrupted>>

(***************************************************************************)
(* ensure_bucket.                                                          *)
(***************************************************************************)

HeadBucket(c) ==
  /\ step[c] = "head_bucket"
  /\ Enter(c, IF bucket THEN "get_collection" ELSE "create_bucket")
  /\ UNCHANGED <<dim, bucket, collection, index, faults, crashes, interrupted>>

\* The store may refuse to create a bucket that another process has just
\* created, as MinIO does, or accept it, as S3 does in us-east-1.
CreateBucket(c) ==
  /\ step[c] = "create_bucket"
  /\ bucket' = TRUE
  /\ \/ Enter(c, "get_collection")
     \/ bucket /\ Enter(c, "down")
  /\ UNCHANGED <<dim, collection, index, faults, crashes, interrupted>>

(***************************************************************************)
(* ensure_collection.                                                      *)
(***************************************************************************)

\* Mutant of GetCollection: does not look whether the collection exists.
GetNoCollection(c) ==
  /\ step[c] = "get_collection"
  /\ Enter(c, "create_collection")
  /\ UNCHANGED <<dim, bucket, collection, index, faults, crashes, interrupted>>

\* A collection of another size is refused: the RuntimeError is raised again.
\* (The code compares the size only where the collection has one unnamed
\* vector, as every collection has that CreateCollection made.)
GetCollection(c) ==
  /\ step[c] = "get_collection"
  /\ Enter(c, CASE collection = NoCollection -> "create_collection"
                [] collection = Dimension(c) -> "up"
                [] OTHER -> "down")
  /\ UNCHANGED <<dim, bucket, collection, index, faults, crashes, interrupted>>

\* Any other failure of get_collection has one of the two exception classes
\* that stand for "not found", and is taken for that.
MissCollection(c) ==
  /\ step[c] = "get_collection"
  /\ faults < MaxFaults
  /\ faults' = faults + 1
  /\ Enter(c, "create_collection")
  /\ UNCHANGED <<dim, bucket, collection, index, crashes, interrupted>>

\* Mutant of CreateCollection: replaces a collection that exists.
RecreateCollection(c) ==
  /\ step[c] = "create_collection"
  /\ collection' = Dimension(c)
  /\ Enter(c, "create_index")
  /\ UNCHANGED <<dim, bucket, index, faults, crashes, interrupted>>

\* Qdrant refuses to create a collection that exists, and the exception is
\* not caught, since it is raised in the except block.
CreateCollection(c) ==
  /\ step[c] = "create_collection"
  /\ \/ /\ collection = NoCollection
        /\ collection' = Dimension(c)
        /\ Enter(c, "create_index")
     \/ /\ collection # NoCollection
        /\ Enter(c, "down")
        /\ UNCHANGED collection
  /\ UNCHANGED <<dim, bucket, index, faults, crashes, interrupted>>

\* Mutant of CreateIndex: left to somebody else.
CreateNoIndex(c) ==
  /\ step[c] = "create_index"
  /\ Enter(c, "up")
  /\ UNCHANGED <<dim, bucket, collection, index, faults, crashes, interrupted>>

CreateIndex(c) ==
  /\ step[c] = "create_index"
  /\ index' = TRUE
  /\ Enter(c, "up")
  /\ UNCHANGED <<dim, bucket, collection, faults, crashes, interrupted>>

-----------------------------------------------------------------------------

\* The call that comes next raises. (One that raises after it took effect is
\* the call's step followed by this one.)
CallFails(c) ==
  /\ step[c] \notin {"down", "up"}
  /\ faults < MaxFaults
  /\ faults' = faults + 1
  /\ interrupted' = (interrupted \/ step[c] = "create_index")
  /\ Enter(c, "down")
  /\ UNCHANGED <<dim, bucket, collection, index, crashes>>

\* The callers that end with process c.
Aboard(c) == {c} \cup {p \in Probes : Server[p] = c}

CrashProcess(c) ==
  /\ step[c] # "down"
  /\ crashes < MaxCrashes
  /\ crashes' = crashes + 1
  /\ interrupted' = (interrupted \/ \E d \in Aboard(c) : step[d] = "create_index")
  /\ step' = [d \in Callers |-> IF d \in Aboard(c) THEN "down" ELSE step[d]]
  /\ UNCHANGED <<dim, bucket, collection, index, faults>>

\* The probe is answered "ready"; the worker's attempt is over and its
\* container is shut down.
Finish(c) ==
  /\ c \in Probes \cup Workers
  /\ step[c] = "up"
  /\ Enter(c, "down")
  /\ UNCHANGED <<dim, bucket, collection, index, faults, crashes, interrupted>>

Proceed(c) ==
  HeadBucket(c) \/ CreateBucket(c) \/ GetCollection(c) \/ CreateCollection(c) \/ CreateIndex(c)

Disturb(c) == MissCollection(c) \/ CallFails(c)

StartupNext ==
  \/ \E c \in Callers : Begin(c) \/ Proceed(c) \/ Disturb(c) \/ Finish(c)
  \/ \E c \in Containers : CrashProcess(c)

StartupSpec == StartupInit /\ [][StartupNext]_startupVars

-----------------------------------------------------------------------------
(***************************************************************************)
(* Properties.                                                             *)
(***************************************************************************)

\* Whoever has started - an API process that serves, a probe about to answer
\* "ready", a worker about to process - finds the bucket, and a collection for
\* vectors of its own size, whichever of the racing processes made them and
\* whatever their settings.
StartedIsUsable ==
  \A c \in Callers : step[c] = "up" => bucket /\ collection = Dimension(c)

\* The index is made by the process that made the collection and by no other:
\* it is missing only until that process has made it, or for ever if that
\* process was stopped in between.
IndexIsMade ==
  collection # NoCollection /\ ~ index =>
    interrupted \/ \E c \in Callers : step[c] = "create_index"

\* An API process starts, and starts again after every crash, also when it loses
\* the race for the bucket or the collection or a worker stops halfway, unless
\* the collection has another vector size.
AllStart ==
  \A c \in Apis : []<>(step[c] = "up" \/ collection \notin {NoCollection, dim[c]})
=============================================================================
