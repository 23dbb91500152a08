--------------------------- MODULE JobLifecycle ---------------------------
(***************************************************************************)
(* What the status column of one ingestion job promises its readers - the  *)
(* replaying client, the SSE stream, the worker that takes the message:    *)
(* a job is uploaded before it is queued, queued before it is processed,   *)
(* processed before it is finished, and never goes back. JobSubmission     *)
(* (all jobs, both writers) and JobProcessing (one worker at a time)       *)
(* implement it.                                                           *)
(***************************************************************************)

VARIABLE status

Terminal == {"completed", "completed_with_errors", "failed"}

TypeOK == status \in {"absent", "uploading", "queued", "processing"} \cup Terminal

Init == status = "absent"

Create == status = "absent" /\ status' = "uploading"

\* A source document could not be persisted.
Refuse == status = "uploading" /\ status' = "failed"

Queue == status = "uploading" /\ status' = "queued"

\* Another attempt at a job that is being processed is a stuttering step.
Start == status = "queued" /\ status' = "processing"

Finish == status = "processing" /\ status' \in Terminal

Next == Create \/ Refuse \/ Queue \/ Start \/ Finish

Spec == Init /\ [][Next]_status
=============================================================================
