--------------------------- MODULE EventStreaming ---------------------------
(***************************************************************************)
(* The event stream of one job as its clients see it: the worker of        *)
(* JobProcessing writes, ServiceContainer.stream_events reads the Redis    *)
(* stream and the job row and yields server-sent events, connections drop, *)
(* clients come back with their Last-Event-ID or without it.               *)
(*                                                                         *)
(* An entry's id is its place in `stream`; 0 is the code's "0-0". A client *)
(* reaches its job again by sending its Idempotency-Key (JobSubmission).   *)
(***************************************************************************)
EXTENDS JobProcessing

CONSTANTS
  Clients,
  Count      \* entries one XREAD returns at most

ASSUME StreamingAssumption == Count \in Nat \ {0}

VARIABLES
  expired,   \* the first entries of the stream, gone with an expired key
  conn,      \* what the server does for each client
  cursor,    \* `current_id` in stream_events
  batch,     \* entries read and not yet yielded
  seen,      \* entries the client has, in the order of their arrival
  told       \* kind of the event that ended the client's response

readers == <<conn, cursor, batch, seen, told>>

streamVars == <<vars, expired, readers>>

-----------------------------------------------------------------------------

Serving == {"read", "deliver", "check"}

EndKinds == {"completed", "failed"}

StreamTypeOK ==
  /\ expired \in 0 .. Len(stream)
  /\ conn \in [Clients -> {"off", "closed"} \cup Serving]
  /\ cursor \in [Clients -> 0 .. Len(stream)]
  /\ batch \in [Clients -> Seq(1 .. Len(stream))]
  /\ seen \in [Clients -> Seq(1 .. Len(stream))]
  /\ told \in [Clients -> EndKinds \cup {"nothing"}]
  /\ \A c \in Clients : batch[c] # <<>> <=> conn[c] = "deliver"

StreamInit ==
  /\ Init
  /\ expired = 0
  /\ conn = [c \in Clients |-> "off"]
  /\ cursor = [c \in Clients |-> 0]
  /\ batch = [c \in Clients |-> <<>>]
  /\ seen = [c \in Clients |-> <<>>]
  /\ told = [c \in Clients |-> "nothing"]

-----------------------------------------------------------------------------
(***************************************************************************)
(* Connections.                                                            *)
(***************************************************************************)

LastSeen(c) == IF seen[c] = <<>> THEN 0 ELSE seen[c][Len(seen[c])]

\* The first request, or one that resumes. The end that closed the previous
\* response need not have been the end of the job.
Connect(c) ==
  /\ conn[c] \notin Serving
  /\ conn' = [conn EXCEPT ![c] = "read"]
  /\ cursor' = [cursor EXCEPT ![c] = LastSeen(c)]
  /\ told' = [told EXCEPT ![c] = "nothing"]
  /\ UNCHANGED <<vars, expired, batch, seen>>

\* A request without Last-Event-ID: the client starts over.
Replay(c) ==
  /\ conn[c] \notin Serving
  /\ conn' = [conn EXCEPT ![c] = "read"]
  /\ cursor' = [cursor EXCEPT ![c] = 0]
  /\ seen' = [seen EXCEPT ![c] = <<>>]
  /\ told' = [told EXCEPT ![c] = "nothing"]
  /\ UNCHANGED <<vars, expired, batch>>

\* The connection drops, the API process dies, or a store raises: the response
\* breaks off, and what was read and not yet sent is lost.
Disconnect(c) ==
  /\ conn[c] \in Serving
  /\ conn' = [conn EXCEPT ![c] = "off"]
  /\ batch' = [batch EXCEPT ![c] = <<>>]
  /\ UNCHANGED <<vars, expired, cursor, seen, told>>

-----------------------------------------------------------------------------
(***************************************************************************)
(* stream_events.                                                          *)
(***************************************************************************)

\* The last entry that XREAD passes over.
Below(c) == IF cursor[c] < expired THEN expired ELSE cursor[c]

\* XREAD returns at once when there are entries after current_id ...
ReadEvents(c) ==
  /\ conn[c] = "read"
  /\ Below(c) < Len(stream)
  /\ LET rest == Len(stream) - Below(c)
         n    == IF rest < Count THEN rest ELSE Count
     IN  batch' = [batch EXCEPT ![c] = [i \in 1 .. n |-> Below(c) + i]]
  /\ conn' = [conn EXCEPT ![c] = "deliver"]
  /\ UNCHANGED <<vars, expired, cursor, seen, told>>

\* ... and an empty answer after 15 seconds without one.
ReadNothing(c) ==
  /\ conn[c] = "read"
  /\ Below(c) = Len(stream)
  /\ conn' = [conn EXCEPT ![c] = "check"]
  /\ UNCHANGED <<vars, expired, cursor, batch, seen, told>>

\* Mutant of AfterEvent: reads again before the batch is exhausted.
AfterFirstEvent(c) ==
  IF stream[Head(batch[c])].kind \in EndKinds THEN "closed" ELSE "read"

\* What follows the yield of the first entry of the batch.
AfterEvent(c) ==
  IF stream[Head(batch[c])].kind \in EndKinds THEN "closed"
  ELSE IF Len(batch[c]) = 1 THEN "read" ELSE "deliver"

\* Mutant of YieldEvent: current_id is not moved.
YieldWithoutCursor(c) ==
  /\ conn[c] = "deliver"
  /\ seen' = [seen EXCEPT ![c] = Append(@, Head(batch[c]))]
  /\ conn' = [conn EXCEPT ![c] = AfterEvent(c)]
  /\ batch' = [batch EXCEPT ![c] = IF conn'[c] = "closed" THEN <<>> ELSE Tail(@)]
  /\ told' = [told EXCEPT ![c] = IF conn'[c] = "closed" THEN stream[Head(batch[c])].kind ELSE @]
  /\ UNCHANGED <<vars, expired, cursor>>

YieldEvent(c) ==
  /\ conn[c] = "deliver"
  /\ cursor' = [cursor EXCEPT ![c] = Head(batch[c])]
  /\ seen' = [seen EXCEPT ![c] = Append(@, Head(batch[c]))]
  /\ conn' = [conn EXCEPT ![c] = AfterEvent(c)]
  /\ batch' = [batch EXCEPT ![c] = IF conn'[c] = "closed" THEN <<>> ELSE Tail(@)]
  /\ told' = [told EXCEPT ![c] = IF conn'[c] = "closed" THEN stream[Head(batch[c])].kind ELSE @]
  /\ UNCHANGED <<vars, expired>>

\* Mutant of TerminalStates: one is forgotten.
TerminalButFailed == {"completed", "completed_with_errors"}

\* Mutant of TerminalStates: a job at work counts as over.
TerminalOrProcessing == {"processing", "completed", "completed_with_errors", "failed"}

TerminalStates == {"completed", "completed_with_errors", "failed"}

\* get_job after an empty read: a finished job gets an event made from its
\* row, whose id is current_id.
CheckJob(c) ==
  /\ conn[c] = "check"
  /\ \/ /\ job.status \in TerminalStates
        /\ conn' = [conn EXCEPT ![c] = "closed"]
        /\ told' = [told EXCEPT ![c] = IF job.status = "failed" THEN "failed" ELSE "completed"]
     \/ /\ job.status \notin TerminalStates
        /\ conn' = [conn EXCEPT ![c] = "read"]
        /\ UNCHANGED told
  /\ UNCHANGED <<vars, expired, cursor, batch, seen>>

\* event_retention_seconds have passed since the last XADD and the key is
\* gone, whatever has become of the job. Later entries get greater ids. Bound:
\* it happens once.
Expire ==
  /\ expired = 0
  /\ expired' = Len(stream)
  /\ UNCHANGED <<vars, readers>>

Serve(c) == ReadEvents(c) \/ ReadNothing(c) \/ YieldEvent(c) \/ CheckJob(c)

StreamNext ==
  \/ Next /\ UNCHANGED <<expired, readers>>
  \/ \E c \in Clients : Connect(c) \/ Replay(c) \/ Disconnect(c) \/ Serve(c)
  \/ Expire

StreamSpec == StreamInit /\ [][StreamNext]_streamVars

\* The API serves a connected client; the worker is as fair as in FairSpec.
StreamFairSpec ==
  /\ StreamSpec
  /\ \A m \in Messages : WF_vars(Deliver(m)) /\ WF_vars(Step(m))
  /\ \A c \in Clients : WF_streamVars(Serve(c))
-----------------------------------------------------------------------------
(***************************************************************************)
(* Properties.                                                             *)
(***************************************************************************)

\* However often a client is cut off and resumes, it gets the entries in order,
\* none twice, and misses none but those that have expired.
ResumeIsSeamless ==
  \A c \in Clients :
    /\ \A i, j \in DOMAIN seen[c] : i < j => seen[c][i] < seen[c][j]
    /\ \A p \in 1 .. LastSeen(c) : p <= expired \/ \E i \in DOMAIN seen[c] : seen[c][i] = p

\* A client is told "completed", by an entry or from the job row, only when the
\* job is over.
CompletedIsTrue ==
  \A c \in Clients : told[c] = "completed" => job.status \in Terminal

\* A client that has the "completed" entry has every entry of the job that has
\* not expired: neither a retry nor a crash makes the worker write another.
EndHasEverything ==
  \A c \in Clients : \A i \in DOMAIN seen[c] :
    stream[seen[c][i]].kind = "completed" =>
      \A p \in DOMAIN stream : p <= expired \/ \E j \in DOMAIN seen[c] : seen[c][j] = p

\* No client waits for a job that is over: when the "completed" entry was
\* never written or has expired, the job row ends the response.
ClientIsReleased ==
  \A c \in Clients : job.status \in Terminal ~> conn[c] \notin Serving

\* The response ends when the job does.
EndOfStreamIsEndOfJob ==
  \A c \in Clients : told[c] # "nothing" => job.status \in Terminal
=============================================================================
