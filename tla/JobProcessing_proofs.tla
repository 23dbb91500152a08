----------------------- MODULE JobProcessing_proofs -----------------------
(***************************************************************************)
(* Theorems about JobProcessing, for any set of documents, any number of   *)
(* copies of the message and any bounds on retries, faults and crashes.    *)
(***************************************************************************)
EXTENDS JobProcessing, FiniteSetTheorems, WellFoundedInduction, TLAPS

-----------------------------------------------------------------------------
(***************************************************************************)
(* Facts about the initial state.                                          *)
(***************************************************************************)

\* The state submit leaves behind has the right types.
LEMMA InitType ==
  ASSUME DocsAssumption, BrokerAssumption, Init
  PROVE  TypeOK
<1>1. StoresOK
  BY DEF Init, StoresOK, JobStatus, DocStatus, Event, Kinds, JobKinds
<1>2. BrokerOK
  BY DEF Init, BrokerOK, BrokerAssumption, Place
<1>3. LocalsOK
  BY DEF Init, LocalsOK, PC, TryPC, Kinds, JobKinds, DocKinds, WithDocument, InTry
<1> QED
  BY <1>1, <1>2, <1>3 DEF TypeOK

-----------------------------------------------------------------------------
(***************************************************************************)
(* What the helpers do to the types.                                       *)
(***************************************************************************)

\* Leaving process() resets every local variable of the copy.
LEMMA LeaveType ==
  ASSUME LocalsOK, NEW m \in Messages, Leave(m)
  PROVE  LocalsOK'
BY DEF Leave, Goto, LocalsOK, PC, TryPC, Kinds, JobKinds, DocKinds, InDocument, InTry, WithDocument

\* Raise counts retries up to max_retries and no further.
LEMMA RaiseType ==
  ASSUME BrokerAssumption, LocalsOK, NEW m \in Messages, Raise(m),
         at \in [Messages -> Place], retries \in [Messages -> 0 .. MaxRetries]
  PROVE  /\ LocalsOK'
         /\ at' \in [Messages -> Place]
         /\ retries' \in [Messages -> 0 .. MaxRetries]
<1>1. LocalsOK'
  BY LeaveType DEF Raise
<1>2. at' \in [Messages -> Place] /\ retries' \in [Messages -> 0 .. MaxRetries]
  BY DEF Raise, Place, BrokerAssumption
<1> QED
  BY <1>1, <1>2

LEMMA AckType ==
  ASSUME LocalsOK, NEW m \in Messages, Ack(m), at \in [Messages -> Place]
  PROVE  LocalsOK' /\ at' \in [Messages -> Place] /\ retries' = retries
<1>1. LocalsOK'
  BY LeaveType DEF Ack
<1> QED
  BY <1>1 DEF Ack, Place

\* The except block of the loop is entered with the document bound.
LEMMA CatchType ==
  ASSUME LocalsOK, NEW m \in Messages, CatchDocumentError(m), doc[m] # NoDoc
  PROVE  LocalsOK'
BY DEF CatchDocumentError, Goto, LocalsOK, PC, TryPC, Kinds, JobKinds, DocKinds, InDocument,
       InTry, WithDocument

\* What a copy publishes is an event.
LEMMA PublicationType ==
  ASSUME LocalsOK, NEW m \in Messages
  PROVE  Publication(m) \in Event
BY DEF LocalsOK, Publication, NextSeq, Event

-----------------------------------------------------------------------------
(***************************************************************************)
(* Type correctness.                                                       *)
(***************************************************************************)

\* Every step of every copy keeps every variable inside its type; in
\* particular no call of the try or the except block runs without a document.
LEMMA TypeStep ==
  ASSUME TypeOK, IsFiniteSet(audit), [Next]_vars
  PROVE  TypeOK'
<1> USE DocsAssumption, BrokerAssumption
    DEF TypeOK, stores, broker, locals, bounds, Goto, PC, TryPC, Kinds, JobKinds, DocKinds
<1>1. ASSUME NEW m \in Messages, Deliver(m)
      PROVE  TypeOK'
  BY <1>1 DEF Deliver, StoresOK, BrokerOK, Place, LocalsOK, WithDocument, InTry, InDocument
<1>2. ASSUME NEW m \in Messages, LoadJob(m)
      PROVE  TypeOK'
  BY <1>2 DEF LoadJob, StoresOK, BrokerOK, LocalsOK, WithDocument, InTry, InDocument
<1>3. ASSUME NEW m \in Messages, LoadEvents(m)
      PROVE  TypeOK'
  <2>1. Cardinality(audit) + 1 \in Nat \ {0}
    BY FS_CardinalityType
  <2>2. LocalsOK'
    BY <1>3, <2>1 DEF LoadEvents, LocalsOK, WithDocument, InTry, InDocument
  <2> QED
    BY <1>3, <2>2 DEF LoadEvents, StoresOK, BrokerOK
<1>4. ASSUME NEW m \in Messages, MarkJobProcessing(m)
      PROVE  TypeOK'
  <2>1. StoresOK'
    <3>1. job' \in [status : JobStatus, completed : Nat, failed : Nat]
      BY <1>4 DEF MarkJobProcessing, StoresOK, JobStatus
    <3> QED
      BY <1>4, <3>1 DEF MarkJobProcessing, StoresOK
  <2>2. BrokerOK' /\ LocalsOK'
    BY <1>4 DEF MarkJobProcessing, BrokerOK, LocalsOK, WithDocument, InTry, InDocument
  <2> QED
    BY <2>1, <2>2
<1>5. ASSUME NEW m \in Messages, RecordEvent(m)
      PROVE  TypeOK'
  <2>1. StoresOK'
    BY <1>5, PublicationType DEF RecordEvent, StoresOK
  <2>2. BrokerOK' /\ LocalsOK'
    BY <1>5 DEF RecordEvent, BrokerOK, LocalsOK, WithDocument, InTry, InDocument
  <2> QED
    BY <2>1, <2>2
<1>6. ASSUME NEW m \in Messages, RecordConflict(m)
      PROVE  TypeOK'
  <2>1. CASE InDocument(m) /\ CatchDocumentError(m)
    <3>1. doc[m] # NoDoc
      BY <1>6, <2>1 DEF RecordConflict, LocalsOK, WithDocument, InTry
    <3>2. LocalsOK'
      BY <2>1, <3>1, CatchType
    <3> QED
      BY <1>6, <2>1, <3>2 DEF RecordConflict, CatchDocumentError, StoresOK, BrokerOK
  <2>2. CASE Raise(m)
    BY <1>6, <2>2, RaiseType DEF RecordConflict, StoresOK, BrokerOK
  <2> QED
    BY <1>6, <2>1, <2>2 DEF RecordConflict
<1>7. ASSUME NEW m \in Messages, AppendEvent(m)
      PROVE  TypeOK'
  <2>1. StoresOK'
    BY <1>7, PublicationType DEF AppendEvent, StoresOK
  <2>2. CASE ContinueDocument(m)
    <3>1. doc[m] # NoDoc
      BY <1>7, <2>2 DEF AppendEvent, ContinueDocument, LocalsOK, WithDocument, InTry, InDocument, DocKinds
    <3>2. LocalsOK'
      BY <2>2, <3>1 DEF ContinueDocument, LocalsOK, WithDocument, InTry, InDocument
    <3> QED
      BY <1>7, <2>1, <2>2, <3>2 DEF AppendEvent, ContinueDocument, BrokerOK
  <2>3. CASE ContinueLoop(m)
    <3>1. LocalsOK'
      BY <2>3 DEF ContinueLoop, LocalsOK, WithDocument, InTry, InDocument
    <3> QED
      BY <1>7, <2>1, <2>3, <3>1 DEF AppendEvent, ContinueLoop, BrokerOK
  <2>4. CASE LeaveLoop(m)
    <3>1. LocalsOK'
      BY <2>4 DEF LeaveLoop, LocalsOK, WithDocument, InTry, InDocument
    <3> QED
      BY <1>7, <2>1, <2>4, <3>1 DEF AppendEvent, LeaveLoop, BrokerOK
  <2> QED
    BY <1>7, <2>2, <2>3, <2>4 DEF AppendEvent
<1>8. ASSUME NEW m \in Messages, NEW d \in Docs, NextDocument(m, d)
      PROVE  TypeOK'
  BY <1>8 DEF NextDocument, StoresOK, BrokerOK, LocalsOK, WithDocument, InTry, InDocument
<1>9. ASSUME NEW m \in Messages, MarkDocumentProcessing(m)
      PROVE  TypeOK'
  BY <1>9 DEF MarkDocumentProcessing, StoresOK, BrokerOK, DocStatus, LocalsOK, WithDocument, InTry, InDocument
<1>10. ASSUME NEW m \in Messages, ClearVectors(m)
      PROVE  TypeOK'
  BY <1>10 DEF ClearVectors, StoresOK, BrokerOK, LocalsOK, WithDocument, InTry, InDocument
<1>11. ASSUME NEW m \in Messages, UpsertVectors(m)
      PROVE  TypeOK'
  BY <1>11 DEF UpsertVectors, StoresOK, BrokerOK, LocalsOK, WithDocument, InTry, InDocument
<1>12. ASSUME NEW m \in Messages, MarkDocumentIndexed(m)
      PROVE  TypeOK'
  BY <1>12 DEF MarkDocumentIndexed, StoresOK, BrokerOK, DocStatus, LocalsOK, WithDocument, InTry, InDocument
<1>13. ASSUME NEW m \in Messages, ReturnFromDocument(m)
      PROVE  TypeOK'
  <2>1. LocalsOK'
    BY <1>13 DEF ReturnFromDocument, LocalsOK, WithDocument, InTry, InDocument
  <2> QED
    BY <1>13, <2>1 DEF ReturnFromDocument, StoresOK, BrokerOK
<1>14. ASSUME NEW m \in Messages, RejectDocument(m)
      PROVE  TypeOK'
  <2>1. doc[m] # NoDoc
    BY <1>14 DEF RejectDocument, LocalsOK, WithDocument, InTry, InDocument, DocKinds
  <2>2. LocalsOK'
    BY <1>14, <2>1, CatchType DEF RejectDocument
  <2> QED
    BY <1>14, <2>2 DEF RejectDocument, CatchDocumentError, StoresOK, BrokerOK
<1>15. ASSUME NEW m \in Messages, FailDocument(m)
      PROVE  TypeOK'
  BY <1>15 DEF FailDocument, StoresOK, BrokerOK, DocStatus, LocalsOK, WithDocument, InTry, InDocument
<1>16. ASSUME NEW m \in Messages, CleanupDocument(m)
      PROVE  TypeOK'
  BY <1>16 DEF CleanupDocument, StoresOK, BrokerOK, LocalsOK, WithDocument, InTry, InDocument
<1>17. ASSUME NEW m \in Messages, FinishJob(m)
      PROVE  TypeOK'
  BY <1>17 DEF FinishJob, StoresOK, BrokerOK, FinalStatus, JobStatus, Terminal, LocalsOK, WithDocument, InTry, InDocument
<1>18. ASSUME NEW m \in Messages, DocumentFault(m)
      PROVE  TypeOK'
  <2>1. doc[m] # NoDoc
    BY <1>18 DEF DocumentFault, LocalsOK, WithDocument
  <2>2. LocalsOK'
    BY <1>18, <2>1, CatchType DEF DocumentFault
  <2> QED
    BY <1>18, <2>2 DEF DocumentFault, CatchDocumentError, StoresOK, BrokerOK
<1>19. ASSUME NEW m \in Messages, CleanupFails(m)
      PROVE  TypeOK'
  <2>1. LocalsOK'
    BY <1>19 DEF CleanupFails, LocalsOK, WithDocument, InTry, InDocument
  <2>2. uncleaned' \subseteq Docs
    BY <1>19 DEF CleanupFails, StoresOK, LocalsOK, WithDocument
  <2> QED
    BY <1>19, <2>1, <2>2 DEF CleanupFails, StoresOK, BrokerOK
<1>20. ASSUME NEW m \in Messages, Escape(m)
      PROVE  TypeOK'
  <2>1. /\ LocalsOK'
        /\ at' \in [Messages -> Place]
        /\ retries' \in [Messages -> 0 .. MaxRetries]
    BY <1>20, RaiseType DEF Escape, BrokerOK
  <2> QED
    BY <1>20, <2>1 DEF Escape, StoresOK, BrokerOK
<1>21. ASSUME NEW m \in Messages, Crash(m)
      PROVE  TypeOK'
  <2>1. LocalsOK'
    BY <1>21, LeaveType DEF Crash
  <2> QED
    BY <1>21, <2>1 DEF Crash, StoresOK, BrokerOK, Place
<1>22. ASSUME NEW m \in Messages, NEW c \in Messages, Redeliver(m, c)
      PROVE  TypeOK'
  BY <1>22 DEF Redeliver, StoresOK, BrokerOK, Place, LocalsOK, WithDocument, InTry, InDocument
<1>23. ASSUME NEW m \in Messages, Shutdown(m)
       PROVE  TypeOK'
  BY <1>23, AckType DEF Shutdown, StoresOK, BrokerOK
<1>24. CASE UNCHANGED vars
  BY <1>24 DEF vars, StoresOK, BrokerOK, LocalsOK, InDocument, InTry, WithDocument
<1> QED
  BY <1>1, <1>2, <1>3, <1>4, <1>5, <1>6, <1>7, <1>8, <1>9, <1>10, <1>11, <1>12,
     <1>13, <1>14, <1>15, <1>16, <1>17, <1>18, <1>19, <1>20, <1>21, <1>22, <1>23, <1>24
     DEF Next, Step, Failure, Rest

-----------------------------------------------------------------------------
(***************************************************************************)
(* The two publication invariants. A copy's counter never runs ahead of    *)
(* the audit by more than one, and between its insert and its XADD a copy  *)
(* owns the row it inserted: nobody has streamed it and nobody else is     *)
(* about to.                                                               *)
(***************************************************************************)

Publishing(m) == pc[m] = "append"

NumbersInv ==
  /\ IsFiniteSet(audit)
  /\ AuditGapless
  /\ \A m \in Messages : /\ seq[m] <= Cardinality(audit) + 1
                         /\ docSeq[m] <= Cardinality(audit) + 1
                         /\ Publishing(m) => NextSeq(m) <= Cardinality(audit)

OwnershipInv ==
  /\ StreamIsAudited
  /\ \A m \in Messages : Publishing(m) =>
       /\ Publication(m) \in audit
       /\ \A i \in DOMAIN stream : stream[i].seq # NextSeq(m)
       /\ \A n \in Messages \ {m} : Publishing(n) => NextSeq(n) # NextSeq(m)

IInv == TypeOK /\ NumbersInv /\ OwnershipInv

\* What every step does that neither inserts a row nor appends an entry: it
\* starts no publication and sets no counter but from a counter, from 1 or
\* from the number of rows.
Quiet ==
  /\ UNCHANGED <<audit, stream>>
  /\ \A m \in Messages :
       /\ seq'[m] \in {1, seq[m], docSeq[m], Cardinality(audit) + 1}
       /\ docSeq'[m] \in {1, seq[m], docSeq[m]}
       /\ pc'[m] = "append" => /\ pc[m] = "append"
                               /\ kind'[m] = kind[m]
                               /\ doc'[m] = doc[m]
                               /\ seq'[m] = seq[m]
                               /\ docSeq'[m] = docSeq[m]

LEMMA QuietSteps ==
  ASSUME TypeOK, [Next]_vars
  PROVE  \/ \E m \in Messages : RecordEvent(m)
         \/ \E m \in Messages : AppendEvent(m)
         \/ Quiet
<1> SUFFICES ASSUME ~ \E m \in Messages : RecordEvent(m),
                    ~ \E m \in Messages : AppendEvent(m)
             PROVE  Quiet
  OBVIOUS
<1> USE DEF TypeOK, LocalsOK, Quiet, stores, broker, locals, Goto
<1>1. ASSUME NEW m \in Messages, Deliver(m)
      PROVE  Quiet
  BY <1>1 DEF Deliver
<1>2. ASSUME NEW m \in Messages, LoadJob(m)
      PROVE  Quiet
  BY <1>2 DEF LoadJob
<1>3. ASSUME NEW m \in Messages, LoadEvents(m)
      PROVE  Quiet
  BY <1>3 DEF LoadEvents
<1>4. ASSUME NEW m \in Messages, MarkJobProcessing(m)
      PROVE  Quiet
  BY <1>4 DEF MarkJobProcessing
<1>5. ASSUME NEW m \in Messages, RecordConflict(m)
      PROVE  Quiet
  BY <1>5 DEF RecordConflict, CatchDocumentError, Raise, Leave
<1>6. ASSUME NEW m \in Messages, NEW d \in Docs, NextDocument(m, d)
      PROVE  Quiet
  BY <1>6 DEF NextDocument
<1>7. ASSUME NEW m \in Messages, MarkDocumentProcessing(m)
      PROVE  Quiet
  BY <1>7 DEF MarkDocumentProcessing
<1>8. ASSUME NEW m \in Messages, ClearVectors(m)
      PROVE  Quiet
  BY <1>8 DEF ClearVectors
<1>9. ASSUME NEW m \in Messages, UpsertVectors(m)
      PROVE  Quiet
  BY <1>9 DEF UpsertVectors
<1>10. ASSUME NEW m \in Messages, MarkDocumentIndexed(m)
      PROVE  Quiet
  BY <1>10 DEF MarkDocumentIndexed
<1>11. ASSUME NEW m \in Messages, ReturnFromDocument(m)
      PROVE  Quiet
  BY <1>11 DEF ReturnFromDocument
<1>12. ASSUME NEW m \in Messages, RejectDocument(m)
      PROVE  Quiet
  BY <1>12 DEF RejectDocument, CatchDocumentError
<1>13. ASSUME NEW m \in Messages, FailDocument(m)
      PROVE  Quiet
  BY <1>13 DEF FailDocument
<1>14. ASSUME NEW m \in Messages, CleanupDocument(m)
      PROVE  Quiet
  BY <1>14 DEF CleanupDocument
<1>15. ASSUME NEW m \in Messages, FinishJob(m)
      PROVE  Quiet
  BY <1>15 DEF FinishJob
<1>16. ASSUME NEW m \in Messages, DocumentFault(m)
      PROVE  Quiet
  BY <1>16 DEF DocumentFault, CatchDocumentError
<1>17. ASSUME NEW m \in Messages, CleanupFails(m)
      PROVE  Quiet
  BY <1>17 DEF CleanupFails
<1>18. ASSUME NEW m \in Messages, Escape(m)
      PROVE  Quiet
  BY <1>18 DEF Escape, Raise, Leave
<1>19. ASSUME NEW m \in Messages, Crash(m)
      PROVE  Quiet
  BY <1>19 DEF Crash, Leave
<1>20. ASSUME NEW m \in Messages, NEW c \in Messages, Redeliver(m, c)
      PROVE  Quiet
  BY <1>20 DEF Redeliver
<1>21. ASSUME NEW m \in Messages, Shutdown(m)
       PROVE  Quiet
  BY <1>21 DEF Shutdown, Ack, Leave
<1>22. CASE UNCHANGED vars
  BY <1>22 DEF vars
<1> QED
  BY <1>1, <1>2, <1>3, <1>4, <1>5, <1>6, <1>7, <1>8, <1>9, <1>10, <1>11, <1>12,
     <1>13, <1>14, <1>15, <1>16, <1>17, <1>18, <1>19, <1>20, <1>21, <1>22
     DEF Next, Step, Failure, Rest

\* A quiet step keeps the two invariants.
LEMMA QuietKeeps ==
  ASSUME IInv, TypeOK', Quiet
  PROVE  NumbersInv' /\ OwnershipInv'
<1>1. Cardinality(audit) \in Nat
  BY FS_CardinalityType DEF IInv, NumbersInv
<1>2. \A m \in Messages : Publishing(m)' =>
        /\ Publishing(m)
        /\ Publication(m)' = Publication(m)
        /\ NextSeq(m)' = NextSeq(m)
  BY DEF Quiet, Publishing, Publication, NextSeq, InDocument
<1>3. NumbersInv'
  <2>1. audit' = audit /\ AuditGapless'
    BY DEF IInv, NumbersInv, AuditGapless, Quiet
  <2>2. ASSUME NEW m \in Messages
        PROVE  seq'[m] <= Cardinality(audit) + 1 /\ docSeq'[m] <= Cardinality(audit) + 1
    BY <1>1 DEF IInv, NumbersInv, Quiet, TypeOK, LocalsOK
  <2>3. \A m \in Messages : Publishing(m)' => NextSeq(m)' <= Cardinality(audit)
    BY <1>2 DEF IInv, NumbersInv
  <2> QED
    BY <2>1, <2>2, <2>3 DEF IInv, NumbersInv
<1>4. OwnershipInv'
  BY <1>2 DEF IInv, OwnershipInv, StreamIsAudited, Quiet
<1> QED
  BY <1>3, <1>4

\* RecordEvent inserts the one number the audit lacks, because the number is
\* neither taken nor beyond the next free one.
LEMMA RecordNumber ==
  ASSUME IInv, NEW m \in Messages, RecordEvent(m)
  PROVE  /\ Cardinality(audit) \in Nat
         /\ IsFiniteSet(audit') /\ Cardinality(audit') = Cardinality(audit) + 1
         /\ NextSeq(m) = Cardinality(audit) + 1
         /\ NextSeq(m) \notin {e.seq : e \in audit}
         /\ \A k \in Messages : NextSeq(k)' = NextSeq(k) /\ Publication(k)' = Publication(k)
<1> DEFINE n == Cardinality(audit)
<1>1. n \in Nat /\ IsFiniteSet(audit)
  BY FS_CardinalityType DEF IInv, NumbersInv
<1>2. Publication(m) \notin audit
  BY DEF RecordEvent, SeqTaken, Publication
<1>3. audit' = audit \cup {Publication(m)}
  BY DEF RecordEvent
<1>4. IsFiniteSet(audit') /\ Cardinality(audit') = n + 1
  BY <1>1, <1>2, <1>3, FS_AddElement
<1>5. NextSeq(m) \in Nat \ {0} /\ NextSeq(m) <= n + 1
  BY DEF IInv, NumbersInv, TypeOK, LocalsOK, NextSeq
<1>6. NextSeq(m) \notin {e.seq : e \in audit}
  BY DEF RecordEvent, SeqTaken
<1>7. NextSeq(m) = n + 1
  BY <1>1, <1>5, <1>6 DEF IInv, NumbersInv, AuditGapless
<1>8. \A k \in Messages : NextSeq(k)' = NextSeq(k) /\ Publication(k)' = Publication(k)
  BY DEF RecordEvent, locals, NextSeq, Publication, InDocument
<1> QED
  BY <1>1, <1>4, <1>6, <1>7, <1>8

\* RecordEvent keeps both invariants.
LEMMA RecordKeeps ==
  ASSUME IInv, TypeOK', NEW m \in Messages, RecordEvent(m)
  PROVE  NumbersInv' /\ OwnershipInv'
<1> DEFINE n == Cardinality(audit)
<1>1. n \in Nat
  BY RecordNumber
<1>2. audit' = audit \cup {Publication(m)}
  BY DEF RecordEvent
<1>3. IsFiniteSet(audit') /\ Cardinality(audit') = n + 1
  BY RecordNumber
<1>4. UNCHANGED <<stream, kind, doc, seq, docSeq>>
  BY DEF RecordEvent, locals
<1>5. \A k \in Messages : NextSeq(k)' = NextSeq(k) /\ Publication(k)' = Publication(k)
  BY RecordNumber
<1>6. NextSeq(m) \notin {e.seq : e \in audit}
  BY RecordNumber
<1>7. NextSeq(m) = n + 1
  BY RecordNumber
<1>8. {e.seq : e \in audit'} = 1 .. n + 1
  <2>1. Publication(m).seq = n + 1
    BY <1>7 DEF Publication
  <2>2. {e.seq : e \in audit'} = {e.seq : e \in audit} \cup {n + 1}
    BY <1>2, <2>1
  <2> QED
    BY <1>1, <2>2 DEF IInv, NumbersInv, AuditGapless
<1>9. \A k \in Messages : Publishing(k)' => k = m \/ Publishing(k)
  BY DEF RecordEvent, Goto, Publishing, IInv, TypeOK, LocalsOK
<1>10. NumbersInv'
  <2>1. AuditGapless'
    BY <1>3, <1>8 DEF AuditGapless
  <2>2. \A k \in Messages : (Publishing(k) => NextSeq(k) <= Cardinality(audit))'
    BY <1>1, <1>3, <1>5, <1>7, <1>9 DEF IInv, NumbersInv, TypeOK, LocalsOK, NextSeq
  <2>3. \A k \in Messages : (seq[k] <= Cardinality(audit) + 1 /\ docSeq[k] <= Cardinality(audit) + 1)'
    BY <1>1, <1>3, <1>4 DEF IInv, NumbersInv, TypeOK, LocalsOK
  <2> QED
    BY <1>3, <2>1, <2>2, <2>3 DEF NumbersInv
<1>11. OwnershipInv'
  <2>1. StreamIsAudited'
    BY <1>2, <1>4 DEF IInv, OwnershipInv, StreamIsAudited
  <2>2. \A e \in audit : e.seq # NextSeq(m)
    BY <1>6
  <2>3. \A i \in DOMAIN stream : stream[i].seq # NextSeq(m)
    BY <2>2 DEF IInv, OwnershipInv, StreamIsAudited
  <2>4. \A k \in Messages : Publishing(k) => NextSeq(k) # NextSeq(m)
    BY <2>2 DEF IInv, OwnershipInv, Publication
  <2> QED
    BY <1>2, <1>4, <1>5, <1>9, <2>1, <2>3, <2>4 DEF IInv, OwnershipInv
<1> QED
  BY <1>10, <1>11

\* AppendEvent streams the row its copy owns, and gives it up.
LEMMA AppendKeeps ==
  ASSUME IInv, TypeOK', NEW m \in Messages, AppendEvent(m)
  PROVE  NumbersInv' /\ OwnershipInv'
<1>1. Cardinality(audit) \in Nat
  BY FS_CardinalityType DEF IInv, NumbersInv
<1>2. audit' = audit /\ stream' = Append(stream, Publication(m))
  BY DEF AppendEvent
<1>3. pc' = [pc EXCEPT ![m] = pc'[m]] /\ ~ Publishing(m)'
  BY DEF AppendEvent, ContinueDocument, ContinueLoop, LeaveLoop, Goto, Publishing, IInv, TypeOK, LocalsOK
<1>4. \A k \in Messages \ {m} : /\ kind'[k] = kind[k]
                                /\ doc'[k] = doc[k]
                                /\ seq'[k] = seq[k]
                                /\ docSeq'[k] = docSeq[k]
  BY DEF AppendEvent, ContinueDocument, ContinueLoop, LeaveLoop, locals, IInv, TypeOK, LocalsOK
<1>5. \A k \in Messages : Publishing(k)' => /\ k # m
                                            /\ Publishing(k)
                                            /\ NextSeq(k)' = NextSeq(k)
                                            /\ Publication(k)' = Publication(k)
  BY <1>3, <1>4 DEF Publishing, NextSeq, Publication, InDocument, IInv, TypeOK, LocalsOK
<1>6. NumbersInv'
  <2>1. NextSeq(m) <= Cardinality(audit)
    BY DEF AppendEvent, Publishing, IInv, NumbersInv
  <2>2. /\ seq'[m] \in {1, seq[m], NextSeq(m) + 1}
        /\ docSeq'[m] \in {1, docSeq[m], NextSeq(m) + 1}
    BY DEF AppendEvent, ContinueDocument, ContinueLoop, LeaveLoop, locals, NextSeq, InDocument, DocKinds, IInv,
           TypeOK, LocalsOK
  <2>3. NextSeq(m) \in Nat
    BY DEF NextSeq, IInv, TypeOK, LocalsOK
  <2>4. seq'[m] <= Cardinality(audit) + 1 /\ docSeq'[m] <= Cardinality(audit) + 1
    BY <1>1, <2>1, <2>2, <2>3 DEF IInv, NumbersInv, TypeOK, LocalsOK
  <2> QED
    BY <1>2, <1>4, <1>5, <2>4 DEF IInv, NumbersInv, AuditGapless
<1>7. OwnershipInv'
  <2>1. /\ Publication(m) \in audit
        /\ Publication(m).seq = NextSeq(m)
        /\ \A i \in DOMAIN stream : stream[i].seq # NextSeq(m)
    BY DEF AppendEvent, Publishing, IInv, OwnershipInv, Publication
  <2>2. stream \in Seq(Event) /\ Publication(m) \in Event
    BY PublicationType DEF IInv, TypeOK, StoresOK
  <2>3. /\ DOMAIN stream' = 1 .. Len(stream) + 1
        /\ DOMAIN stream = 1 .. Len(stream)
        /\ \A i \in DOMAIN stream : stream'[i] = stream[i]
        /\ stream'[Len(stream) + 1] = Publication(m)
        /\ Len(stream) \in Nat
    BY <1>2, <2>2
  <2>4. StreamIsAudited'
    BY <1>2, <2>1, <2>3 DEF IInv, OwnershipInv, StreamIsAudited
  <2>5. \A k \in Messages : Publishing(k)' => NextSeq(k) # NextSeq(m)
    BY <1>5 DEF AppendEvent, Publishing, IInv, OwnershipInv
  <2>6. \A k \in Messages : Publishing(k)' =>
          \A i \in DOMAIN stream' : stream'[i].seq # NextSeq(k)
    BY <1>5, <2>1, <2>3, <2>5 DEF IInv, OwnershipInv
  <2> QED
    BY <1>2, <1>5, <2>4, <2>6 DEF IInv, OwnershipInv
<1> QED
  BY <1>6, <1>7

-----------------------------------------------------------------------------
(***************************************************************************)
(* The theorems.                                                           *)
(***************************************************************************)

\* The initial state satisfies the inductive invariant.
LEMMA InitIInv ==
  ASSUME Init
  PROVE  IInv
<1> DEFINE q == [seq |-> 1, kind |-> "queued", doc |-> NoDoc]
<1>1. TypeOK
  BY InitType, DocsAssumption, BrokerAssumption
<1>2. audit = {q} /\ stream = <<q>>
  BY DEF Init
<1>3. IsFiniteSet(audit) /\ Cardinality(audit) = 1
  BY <1>2, FS_Singleton
<1>4. \A m \in Messages : ~ Publishing(m) /\ seq[m] = 1 /\ docSeq[m] = 1
  BY DEF Init, Publishing
<1>5. {e.seq : e \in audit} = 1 .. 1
  BY <1>2
<1>6. NumbersInv
  BY <1>3, <1>4, <1>5 DEF NumbersInv, AuditGapless
<1>7. DOMAIN stream = {1} /\ stream[1] = q
  BY <1>2
<1>8. OwnershipInv
  BY <1>2, <1>4, <1>7 DEF OwnershipInv, StreamIsAudited
<1> QED
  BY <1>1, <1>6, <1>8 DEF IInv

\* Every step keeps the inductive invariant.
LEMMA NextIInv ==
  ASSUME IInv, [Next]_vars
  PROVE  IInv'
<1>1. TypeOK'
  BY TypeStep DEF IInv, NumbersInv
<1> QED
  BY <1>1, QuietSteps, QuietKeeps, RecordKeeps, AppendKeeps DEF IInv

\* The inductive invariant holds in every reachable state.
THEOREM Invariant == Spec => []IInv
BY InitIInv, NextIInv, PTL DEF Spec

\* Every variable stays inside its type, and no call of the try or the except
\* block of the document loop is made without a document.
THEOREM TypeCorrect == Spec => []TypeOK
<1>1. IInv => TypeOK
  BY DEF IInv
<1> QED
  BY <1>1, Invariant, PTL

\* The audit rows of a job are numbered without a gap, whatever the retries,
\* faults, crashes and concurrent copies.
THEOREM AuditNeverHasGaps == Spec => []AuditGapless
<1>1. IInv => AuditGapless
  BY DEF IInv, NumbersInv
<1> QED
  BY <1>1, Invariant, PTL

\* Every stream entry is audited and none is there twice, whatever the
\* retries, faults, crashes and concurrent copies.
THEOREM StreamNeverOutrunsAudit == Spec => []StreamIsAudited
<1>1. IInv => StreamIsAudited
  BY DEF IInv, OwnershipInv
<1> QED
  BY <1>1, Invariant, PTL

-----------------------------------------------------------------------------
(***************************************************************************)
(* While one copy of the message exists, no two workers are ever on the    *)
(* job. Then what the copy saw of the job row when it loaded it still      *)
(* holds when it claims the job, and nobody else finishes it: the updates, *)
(* which look at nothing, go through in the order of the life cycle. With  *)
(* two copies neither theorem holds.                                       *)
(***************************************************************************)

\* What the row says at each point of process(): still unfinished until the
\* job is claimed, then being processed, and finished once the last event is
\* at hand.
ClaimInv ==
  /\ at[Sent] # "running" => pc[Sent] = "idle"
  /\ pc[Sent] \in {"load_events", "claim"} => job.status \notin Terminal
  /\ kind[Sent] = "completed" => pc[Sent] \in {"record", "append", "shutdown"}
  /\ pc[Sent] \notin {"idle", "load", "load_events", "claim", "shutdown"} =>
       IF kind[Sent] = "completed" THEN job.status \in Terminal ELSE job.status = "processing"

\* Every step of the only copy keeps ClaimInv.
LEMMA ClaimStep ==
  ASSUME Messages = {Sent}, TypeOK, ClaimInv, [Next]_vars
  PROVE  ClaimInv'
<1> USE DEF TypeOK, StoresOK, BrokerOK, LocalsOK, ClaimInv, Goto, stores, broker, locals
<1>1. CASE Deliver(Sent)
  BY <1>1 DEF Deliver
<1>2. CASE LoadJob(Sent)
  BY <1>2 DEF LoadJob
<1>3. CASE LoadEvents(Sent)
  BY <1>3 DEF LoadEvents
<1>4. CASE MarkJobProcessing(Sent)
  BY <1>4 DEF MarkJobProcessing
<1>5. CASE RecordEvent(Sent)
  BY <1>5 DEF RecordEvent
<1>6. CASE RecordConflict(Sent)
  BY <1>6 DEF RecordConflict, CatchDocumentError, Raise, Leave, InDocument, DocKinds
<1>7. CASE AppendEvent(Sent)
  BY <1>7 DEF AppendEvent, ContinueDocument, ContinueLoop, LeaveLoop
<1>8. ASSUME NEW d \in Docs, NextDocument(Sent, d)
      PROVE  ClaimInv'
  BY <1>8 DEF NextDocument
<1>9. CASE MarkDocumentProcessing(Sent)
  BY <1>9 DEF MarkDocumentProcessing
<1>10. CASE ClearVectors(Sent)
  BY <1>10 DEF ClearVectors
<1>11. CASE UpsertVectors(Sent)
  BY <1>11 DEF UpsertVectors
<1>12. CASE MarkDocumentIndexed(Sent)
  BY <1>12 DEF MarkDocumentIndexed
<1>13. CASE ReturnFromDocument(Sent)
  BY <1>13 DEF ReturnFromDocument
<1>14. CASE RejectDocument(Sent)
  BY <1>14 DEF RejectDocument, CatchDocumentError
<1>15. CASE FailDocument(Sent)
  BY <1>15 DEF FailDocument
<1>16. CASE CleanupDocument(Sent)
  BY <1>16 DEF CleanupDocument
<1>17. CASE FinishJob(Sent)
  BY <1>17 DEF FinishJob, FinalStatus, Terminal
<1>18. CASE DocumentFault(Sent)
  BY <1>18 DEF DocumentFault, CatchDocumentError, InTry, TryPC, InDocument, DocKinds
<1>19. CASE CleanupFails(Sent)
  BY <1>19 DEF CleanupFails
<1>20. CASE Escape(Sent)
  BY <1>20 DEF Escape, Raise, Leave
<1>21. CASE Crash(Sent)
  BY <1>21 DEF Crash, Leave
<1>22. ASSUME NEW c \in Messages, Redeliver(Sent, c)
       PROVE  ClaimInv'
  BY <1>22 DEF Redeliver
<1>23. CASE Shutdown(Sent)
  BY <1>23 DEF Shutdown, Ack, Leave
<1>24. CASE UNCHANGED vars
  BY <1>24 DEF vars
<1> QED
  BY <1>1, <1>2, <1>3, <1>4, <1>5, <1>6, <1>7, <1>8, <1>9, <1>10, <1>11, <1>12,
     <1>13, <1>14, <1>15, <1>16, <1>17, <1>18, <1>19, <1>20, <1>21, <1>22, <1>23, <1>24
     DEF Next, Step, Failure, Rest

\* Only the claim and the end of process() write the job row.
LEMMA JobWriters ==
  ASSUME Messages = {Sent}, [Next]_vars
  PROVE  MarkJobProcessing(Sent) \/ FinishJob(Sent) \/ UNCHANGED job
BY DEF Next, Step, Failure, Rest, vars, stores, Deliver, LoadJob, LoadEvents, RecordEvent,
       RecordConflict, AppendEvent, NextDocument, MarkDocumentProcessing, ClearVectors,
       UpsertVectors, MarkDocumentIndexed, ReturnFromDocument, RejectDocument, FailDocument,
       CleanupDocument, DocumentFault, CleanupFails, Escape, Crash, Redeliver, Shutdown

\* The claim and the end are steps of the life cycle, and neither touches a
\* finished job.
LEMMA WritesFollowLifecycle ==
  ASSUME Messages = {Sent}, TypeOK, ClaimInv, [Next]_vars
  PROVE  /\ [Life!Next]_(job.status)
         /\ job.status \in Terminal => job' = job
<1>1. CASE MarkJobProcessing(Sent)
  <2>1. job.status \in {"queued", "processing"} /\ job'.status = "processing"
    BY <1>1 DEF MarkJobProcessing, ClaimInv, TypeOK, StoresOK, JobStatus
  <2> QED
    BY <2>1 DEF Life!Next, Life!Start, Terminal
<1>2. CASE FinishJob(Sent)
  <2>1. job.status = "processing" /\ job'.status \in Terminal
    BY <1>2 DEF FinishJob, ClaimInv, FinalStatus, Terminal
  <2> QED
    BY <2>1 DEF Life!Next, Life!Finish, Life!Terminal, Terminal
<1> QED
  BY <1>1, <1>2, JobWriters

\* ClaimInv holds in every reachable state of a job with one copy.
LEMMA ClaimInvariant ==
  ASSUME Messages = {Sent}
  PROVE  Spec => []ClaimInv
<1>1. Init => ClaimInv
  BY BrokerAssumption DEF Init, ClaimInv
<1>2. TypeOK /\ ClaimInv /\ [Next]_vars => ClaimInv'
  BY ClaimStep
<1> QED
  BY <1>1, <1>2, TypeCorrect, PTL DEF Spec

\* A job whose message exists once never goes back in its life cycle: every
\* change of its status is a step of JobLifecycle.
THEOREM OneCopyFollowsLifecycle ==
  ASSUME Messages = {Sent}
  PROVE  Spec => FollowsLifecycle
<1>1. TypeOK /\ ClaimInv /\ [Next]_vars => [Life!Next]_(job.status)
  BY WritesFollowLifecycle
<1> QED
  BY <1>1, ClaimInvariant, TypeCorrect, PTL DEF Spec, FollowsLifecycle

\* A finished job whose message exists once keeps its row: the status a client
\* has read is the last one, whatever is retried afterwards.
THEOREM OneCopyFinishesForGood ==
  ASSUME Messages = {Sent}
  PROVE  Spec => FinishedIsFinal
<1>1. TypeOK /\ ClaimInv /\ [Next]_vars => [job.status \in Terminal => job' = job]_vars
  BY WritesFollowLifecycle
<1> QED
  BY <1>1, ClaimInvariant, TypeCorrect, PTL DEF Spec, FinishedIsFinal

-----------------------------------------------------------------------------
(***************************************************************************)
(* The "completed" event of a job with one copy.                           *)
(***************************************************************************)

\* A copy about to record the event is the first to do so.
EndInv ==
  /\ CompletedEventIsTrue
  /\ pc[Sent] = "record" /\ kind[Sent] = "completed" =>
       \A e \in audit : e.kind # "completed"

\* Apart from the end of process(), no step leads to the record of a
\* "completed" event.
LEMMA OnlyTheEndCompletes ==
  ASSUME Messages = {Sent}, TypeOK, ClaimInv, [Next]_vars,
         pc'[Sent] = "record", kind'[Sent] = "completed"
  PROVE  FinishJob(Sent) \/ (pc[Sent] = "record" /\ kind[Sent] = "completed")
<1> USE DEF TypeOK, BrokerOK, LocalsOK, ClaimInv, Goto, broker, locals
<1>1. ~ Deliver(Sent) /\ ~ LoadJob(Sent) /\ ~ LoadEvents(Sent) /\ ~ MarkJobProcessing(Sent)
  BY DEF Deliver, LoadJob, LoadEvents, MarkJobProcessing
<1>2. ~ RecordEvent(Sent) /\ ~ RecordConflict(Sent) /\ ~ AppendEvent(Sent)
  BY DEF RecordEvent, RecordConflict, CatchDocumentError, Raise, Leave, AppendEvent,
         ContinueDocument, ContinueLoop, LeaveLoop
<1>3. /\ \A d \in Docs : ~ NextDocument(Sent, d)
      /\ ~ MarkDocumentProcessing(Sent) /\ ~ ClearVectors(Sent) /\ ~ UpsertVectors(Sent)
      /\ ~ MarkDocumentIndexed(Sent) /\ ~ ReturnFromDocument(Sent)
  BY DEF NextDocument, MarkDocumentProcessing, ClearVectors, UpsertVectors,
         MarkDocumentIndexed, ReturnFromDocument
<1>4. ~ RejectDocument(Sent) /\ ~ FailDocument(Sent) /\ ~ CleanupDocument(Sent)
  BY DEF RejectDocument, CatchDocumentError, FailDocument, CleanupDocument
<1>5. ~ DocumentFault(Sent) /\ ~ CleanupFails(Sent)
  BY DEF DocumentFault, CatchDocumentError, CleanupFails
<1>6. ~ Escape(Sent) /\ ~ Crash(Sent) /\ ~ Shutdown(Sent)
  BY DEF Escape, Raise, Crash, Shutdown, Ack, Leave
<1>7. \A c \in Messages : Redeliver(Sent, c) => UNCHANGED <<pc, kind>>
  BY DEF Redeliver
<1>8. UNCHANGED vars => UNCHANGED <<pc, kind>>
  BY DEF vars
<1> QED
  BY <1>1, <1>2, <1>3, <1>4, <1>5, <1>6, <1>7, <1>8 DEF Next, Step, Failure, Rest

\* Every step of the only copy keeps EndInv.
LEMMA EndStep ==
  ASSUME Messages = {Sent}, TypeOK, ClaimInv, EndInv, [Next]_vars
  PROVE  EndInv'
<1>1. job.status \in Terminal => job'.status \in Terminal
  BY WritesFollowLifecycle
<1>2. CASE RecordEvent(Sent)
  <2>1. audit' = audit \cup {Publication(Sent)} /\ pc'[Sent] = "append"
    BY <1>2 DEF RecordEvent, Goto, TypeOK, LocalsOK
  <2>2. Publication(Sent).kind = kind[Sent]
    BY DEF Publication
  <2>3. kind[Sent] = "completed" => job.status \in Terminal /\ \A e \in audit : e.kind # "completed"
    BY <1>2 DEF RecordEvent, ClaimInv, EndInv
  <2> QED
    BY <1>1, <2>1, <2>2, <2>3 DEF EndInv, CompletedEventIsTrue
<1>3. CASE ~ RecordEvent(Sent)
  <2>1. audit' = audit
    BY <1>3, QuietSteps DEF Quiet, AppendEvent
  <2>2. FinishJob(Sent) => \A e \in audit : e.kind # "completed"
    BY DEF FinishJob, ClaimInv, EndInv, CompletedEventIsTrue, Terminal
  <2>3. pc'[Sent] = "record" /\ kind'[Sent] = "completed" => \A e \in audit : e.kind # "completed"
    BY <2>2, OnlyTheEndCompletes DEF EndInv
  <2> QED
    BY <1>1, <2>1, <2>3 DEF EndInv, CompletedEventIsTrue
<1> QED
  BY <1>2, <1>3

\* The "completed" event of a job whose message exists once is audited at most
\* once, and only when the job is over, however often the message is retried.
THEOREM OneCopyCompletesOnce ==
  ASSUME Messages = {Sent}
  PROVE  Spec => []CompletedEventIsTrue
<1>1. Init => EndInv
  BY BrokerAssumption DEF Init, EndInv, CompletedEventIsTrue
<1>2. TypeOK /\ ClaimInv /\ EndInv /\ [Next]_vars => EndInv'
  BY EndStep
<1>3. EndInv => CompletedEventIsTrue
  BY DEF EndInv
<1> QED
  BY <1>1, <1>2, <1>3, ClaimInvariant, TypeCorrect, PTL DEF Spec

-----------------------------------------------------------------------------
(***************************************************************************)
(* Documents and points of a job with one copy. A document is marked as    *)
(* being processed before its points are touched, and marked as failed     *)
(* before they are deleted for good.                                       *)
(***************************************************************************)

\* The publications that belong to a document being processed.
Announcing == pc[Sent] \in {"record", "append"} /\ InDocument(Sent)

IndexInv ==
  /\ IndexedIsSearchable
  /\ pc[Sent] = "mark_processing" => kind[Sent] = "parsing"
  /\ pc[Sent] \in {"fail_document", "cleanup"} => kind[Sent] = "failed"
  /\ Announcing \/ pc[Sent] \in {"clear", "upsert", "mark_indexed"} =>
       docStatus[doc[Sent]] = "processing"
  /\ (Announcing /\ kind[Sent] = "indexing") \/ pc[Sent] = "mark_indexed" =>
       doc[Sent] \in vectors
  /\ pc[Sent] = "cleanup" => docStatus[doc[Sent]] = "failed"
  /\ pc[Sent] = "return" => docStatus[doc[Sent]] = "indexed"

\* Every step of the only copy keeps IndexInv.
LEMMA IndexStep ==
  ASSUME Messages = {Sent}, TypeOK, IndexInv, [Next]_vars
  PROVE  IndexInv'
<1> USE DEF TypeOK, StoresOK, BrokerOK, LocalsOK, IndexInv, IndexedIsSearchable, Announcing,
            InDocument, DocKinds, WithDocument, InTry, TryPC, Goto, stores, broker, locals
<1>1. CASE Deliver(Sent)
  BY <1>1 DEF Deliver
<1>2. CASE LoadJob(Sent)
  BY <1>2 DEF LoadJob
<1>3. CASE LoadEvents(Sent)
  BY <1>3 DEF LoadEvents
<1>4. CASE MarkJobProcessing(Sent)
  BY <1>4 DEF MarkJobProcessing
<1>5. CASE RecordEvent(Sent)
  BY <1>5 DEF RecordEvent
<1>6. CASE RecordConflict(Sent)
  BY <1>6 DEF RecordConflict, CatchDocumentError, Raise, Leave
<1>7. CASE AppendEvent(Sent)
  BY <1>7 DEF AppendEvent, ContinueDocument, ContinueLoop, LeaveLoop
<1>8. ASSUME NEW d \in Docs, NextDocument(Sent, d)
      PROVE  IndexInv'
  BY <1>8 DEF NextDocument
<1>9. CASE MarkDocumentProcessing(Sent)
  BY <1>9 DEF MarkDocumentProcessing
<1>10. CASE ClearVectors(Sent)
  BY <1>10 DEF ClearVectors
<1>11. CASE UpsertVectors(Sent)
  BY <1>11 DEF UpsertVectors
<1>12. CASE MarkDocumentIndexed(Sent)
  BY <1>12 DEF MarkDocumentIndexed
<1>13. CASE ReturnFromDocument(Sent)
  BY <1>13 DEF ReturnFromDocument
<1>14. CASE RejectDocument(Sent)
  BY <1>14 DEF RejectDocument, CatchDocumentError
<1>15. CASE FailDocument(Sent)
  BY <1>15 DEF FailDocument
<1>16. CASE CleanupDocument(Sent)
  BY <1>16 DEF CleanupDocument
<1>17. CASE FinishJob(Sent)
  BY <1>17 DEF FinishJob
<1>18. CASE DocumentFault(Sent)
  BY <1>18 DEF DocumentFault, CatchDocumentError
<1>19. CASE CleanupFails(Sent)
  BY <1>19 DEF CleanupFails
<1>20. CASE Escape(Sent)
  BY <1>20 DEF Escape, Raise, Leave
<1>21. CASE Crash(Sent)
  BY <1>21 DEF Crash, Leave
<1>22. ASSUME NEW c \in Messages, Redeliver(Sent, c)
       PROVE  IndexInv'
  BY <1>22 DEF Redeliver
<1>23. CASE Shutdown(Sent)
  BY <1>23 DEF Shutdown, Ack, Leave
<1>24. CASE UNCHANGED vars
  BY <1>24 DEF vars
<1> QED
  BY <1>1, <1>2, <1>3, <1>4, <1>5, <1>6, <1>7, <1>8, <1>9, <1>10, <1>11, <1>12,
     <1>13, <1>14, <1>15, <1>16, <1>17, <1>18, <1>19, <1>20, <1>21, <1>22, <1>23, <1>24
     DEF Next, Step, Failure, Rest

\* While the message exists once, no document is called indexed while its
\* points are missing: not during a retry that deletes and rewrites them, nor
\* after a fault or a crash in the middle of one.
THEOREM OneCopyIndexedIsSearchable ==
  ASSUME Messages = {Sent}
  PROVE  Spec => []IndexedIsSearchable
<1>1. Init => IndexInv
  BY BrokerAssumption DEF Init, IndexInv, IndexedIsSearchable, Announcing
<1>2. TypeOK /\ IndexInv /\ [Next]_vars => IndexInv'
  BY IndexStep
<1>3. IndexInv => IndexedIsSearchable
  BY DEF IndexInv
<1> QED
  BY <1>1, <1>2, <1>3, TypeCorrect, PTL DEF Spec

-----------------------------------------------------------------------------
(***************************************************************************)
(* The result of a job with one copy.                                      *)
(***************************************************************************)

\* The document at hand, as long as its outcome is open; those the loop is
\* done with; and whether the one at hand is counted already.
Current == IF WithDocument(Sent) THEN {doc[Sent]} ELSE {}

Done == Docs \ (todo[Sent] \cup Current)

Counted == IF pc[Sent] \in {"fail_document", "cleanup"} THEN 1 ELSE 0

DoneWith(s) == {d \in Done : docStatus[d] = s}

\* From the claim to the end of the loop.
InLoop ==
  pc[Sent] \notin {"idle", "load", "load_events", "shutdown"} /\ kind[Sent] # "completed"

Tally ==
  /\ Current \cap todo[Sent] = {}
  /\ completed[Sent] = Cardinality(DoneWith("indexed"))
  /\ failed[Sent] = Cardinality(DoneWith("failed")) + Counted
  /\ \A d \in Done : /\ docStatus[d] \in {"indexed", "failed"}
                     /\ docStatus[d] = "failed" /\ d \in vectors => d \in uncleaned

TallyInv ==
  /\ pc[Sent] \in {"idle", "load", "load_events"} => completed[Sent] = 0 /\ failed[Sent] = 0
  /\ InLoop => Tally

OneCopyInv == TypeOK /\ ClaimInv /\ IndexInv /\ TallyInv

\* A step that leaves the loop or stays outside it ...
Outside ==
  /\ ~ InLoop'
  /\ pc'[Sent] \in {"idle", "load", "load_events"} => completed'[Sent] = 0 /\ failed'[Sent] = 0

\* ... and one that changes nothing of the documents that are done.
TallyKept ==
  /\ InLoop /\ InLoop'
  /\ Done' = Done /\ Counted' = Counted /\ Current' \cap todo'[Sent] = {}
  /\ completed'[Sent] = completed[Sent] /\ failed'[Sent] = failed[Sent]
  /\ \A d \in Done : /\ docStatus'[d] = docStatus[d]
                     /\ d \in vectors' => d \in vectors
                     /\ d \in uncleaned => d \in uncleaned'

\* Most steps are of these two kinds.
LEMMA TallySteps ==
  ASSUME Messages = {Sent}, OneCopyInv, [Next]_vars,
         ~ LoadEvents(Sent), ~ ReturnFromDocument(Sent),
         ~ CleanupDocument(Sent), ~ CleanupFails(Sent),
         ~ RecordConflict(Sent), ~ DocumentFault(Sent), ~ RejectDocument(Sent)
  PROVE  Outside \/ TallyKept
<1> USE DEF TypeOK, StoresOK, BrokerOK, LocalsOK, OneCopyInv, ClaimInv, IndexInv, TallyInv, Tally,
            Outside, TallyKept, InLoop, Done, Current, Counted, Announcing,
            InDocument, DocKinds, WithDocument, InTry, TryPC, Goto, stores, broker, locals
<1>1. CASE Deliver(Sent)
  BY <1>1 DEF Deliver
<1>2. CASE LoadJob(Sent)
  BY <1>2 DEF LoadJob
<1>3. CASE MarkJobProcessing(Sent)
  BY <1>3 DEF MarkJobProcessing
<1>4. CASE RecordEvent(Sent)
  BY <1>4 DEF RecordEvent
<1>5. CASE AppendEvent(Sent)
  BY <1>5 DEF AppendEvent, ContinueDocument, ContinueLoop, LeaveLoop
<1>6. ASSUME NEW d \in Docs, NextDocument(Sent, d)
      PROVE  Outside \/ TallyKept
  BY <1>6 DEF NextDocument
<1>7. CASE MarkDocumentProcessing(Sent)
  BY <1>7 DEF MarkDocumentProcessing
<1>8. CASE ClearVectors(Sent)
  BY <1>8 DEF ClearVectors
<1>9. CASE UpsertVectors(Sent)
  BY <1>9 DEF UpsertVectors
<1>10. CASE MarkDocumentIndexed(Sent)
  BY <1>10 DEF MarkDocumentIndexed
<1>11. CASE FailDocument(Sent)
  BY <1>11 DEF FailDocument
<1>12. CASE Escape(Sent)
  BY <1>12 DEF Escape, Raise, Leave
<1>13. CASE Crash(Sent)
  BY <1>13 DEF Crash, Leave
<1>14. ASSUME NEW c \in Messages, Redeliver(Sent, c)
      PROVE  Outside \/ TallyKept
  BY <1>14 DEF Redeliver
<1>15. CASE Shutdown(Sent)
  BY <1>15 DEF Shutdown, Ack, Leave
<1>16. CASE FinishJob(Sent)
  BY <1>16 DEF FinishJob
<1>17. CASE UNCHANGED vars
  BY <1>17 DEF vars
<1> HIDE DEF TypeOK, OneCopyInv, Outside, TallyKept, InLoop, Done, Current, Counted,
             stores, broker, locals
<1> QED
  BY <1>1, <1>2, <1>3, <1>4, <1>5, <1>6, <1>7, <1>8, <1>9, <1>10, <1>11, <1>12,
     <1>13, <1>14, <1>15, <1>16, <1>17
     DEF Next, Step, Failure, Rest

\* The documents that are done are finitely many.
LEMMA DoneFinite == \A s : IsFiniteSet(DoneWith(s)) /\ Cardinality(DoneWith(s)) \in Nat
<1> SUFFICES ASSUME NEW s
             PROVE  IsFiniteSet(DoneWith(s)) /\ Cardinality(DoneWith(s)) \in Nat
  OBVIOUS
<1>1. DoneWith(s) \subseteq Docs
  BY DEF DoneWith, Done
<1> QED
  BY <1>1, DocsAssumption, FS_Subset, FS_CardinalityType

\* Steps outside the loop and steps that touch no document that is done keep
\* the tally.
LEMMA TallyKeeps ==
  ASSUME TallyInv, Outside \/ TallyKept
  PROVE  TallyInv'
<1>1. CASE Outside
  BY <1>1 DEF Outside, TallyInv
<1>2. CASE TallyKept
  <2>1. DoneWith("indexed")' = DoneWith("indexed") /\ DoneWith("failed")' = DoneWith("failed")
    BY <1>2 DEF TallyKept, DoneWith
  <2>2. Tally /\ Tally'
    BY <1>2, <2>1 DEF TallyInv, TallyKept, Tally
  <2>3. ~ pc'[Sent] \in {"idle", "load", "load_events"}
    BY <1>2 DEF TallyKept, InLoop
  <2> QED
    BY <2>2, <2>3 DEF TallyInv
<1> QED
  BY <1>1, <1>2

\* An attempt begins with no document done.
LEMMA TallyBegins ==
  ASSUME Messages = {Sent}, OneCopyInv, LoadEvents(Sent)
  PROVE  TallyInv'
<1> USE DEF OneCopyInv, TypeOK, LocalsOK, LoadEvents, Goto
<1>1. pc'[Sent] = "claim" /\ todo'[Sent] = Docs /\ completed'[Sent] = 0 /\ failed'[Sent] = 0
  BY DEF TallyInv
<1>2. Current' = {} /\ Done' = {} /\ Counted' = 0
  BY <1>1 DEF Current, Done, Counted, WithDocument, InTry, TryPC
<1>3. Cardinality(DoneWith("indexed")') = 0 /\ Cardinality(DoneWith("failed")') = 0
  BY <1>2, FS_EmptySet DEF DoneWith
<1> QED
  BY <1>1, <1>2, <1>3 DEF TallyInv, Tally

\* A failure is counted before the document's row says so.
LEMMA TallyCatches ==
  ASSUME Messages = {Sent}, OneCopyInv,
         InTry(Sent), CatchDocumentError(Sent), UNCHANGED stores, UNCHANGED uncleaned
  PROVE  TallyInv'
<1> USE DEF OneCopyInv, TypeOK, LocalsOK
<1>1. /\ pc'[Sent] = "fail_document" /\ failed'[Sent] = failed[Sent] + 1
      /\ completed' = completed /\ todo' = todo /\ doc' = doc
  BY DEF CatchDocumentError, Goto
<1>2. InLoop
  BY DEF InLoop, InTry, TryPC, InDocument, DocKinds, ClaimInv
<1>3. Current' = Current /\ Done' = Done /\ Counted = 0 /\ Counted' = 1
  BY <1>1 DEF Current, Done, Counted, WithDocument, InTry, TryPC
<1>4. DoneWith("indexed")' = DoneWith("indexed") /\ DoneWith("failed")' = DoneWith("failed")
  BY <1>3 DEF DoneWith, stores
<1>5. Tally
  BY <1>2 DEF TallyInv
<1>6. failed'[Sent] = Cardinality(DoneWith("failed")) + 1
  BY <1>1, <1>3, <1>5, DoneFinite DEF Tally
<1> QED
  BY <1>1, <1>3, <1>4, <1>5, <1>6 DEF TallyInv, Tally, stores

\* One more document is done.
LEMMA OneMoreDone ==
  ASSUME OneCopyInv, InLoop, Current = {doc[Sent]}, doc[Sent] \in Docs, todo' = todo, Current' = {},
         NEW s \in {"indexed", "failed"}, docStatus' = docStatus, docStatus[doc[Sent]] = s
  PROVE  /\ Done' = Done \cup {doc[Sent]}
         /\ Current' \cap todo'[Sent] = {}
         /\ \A t \in {"indexed", "failed"} :
              Cardinality(DoneWith(t)') = Cardinality(DoneWith(t)) + (IF t = s THEN 1 ELSE 0)
<1>1. doc[Sent] \notin todo[Sent]
  BY DEF OneCopyInv, TallyInv, Tally
<1>2. Done' = Done \cup {doc[Sent]} /\ doc[Sent] \notin Done
  BY <1>1 DEF Done
<1>3. ASSUME NEW t \in {"indexed", "failed"}
      PROVE  Cardinality(DoneWith(t)') = Cardinality(DoneWith(t)) + (IF t = s THEN 1 ELSE 0)
  <2>1. IsFiniteSet(DoneWith(t)) /\ Cardinality(DoneWith(t)) \in Nat /\ doc[Sent] \notin DoneWith(t)
    BY <1>2, DoneFinite DEF DoneWith
  <2>2. CASE t = s
    <3>1. DoneWith(t)' = DoneWith(t) \cup {doc[Sent]}
      BY <1>2, <2>2 DEF DoneWith
    <3> QED
      BY <2>1, <2>2, <3>1, FS_AddElement
  <2>3. CASE t # s
    <3>1. DoneWith(t)' = DoneWith(t)
      BY <1>2, <2>3 DEF DoneWith
    <3> QED
      BY <2>1, <2>3, <3>1
  <2> QED
    BY <2>2, <2>3
<1> QED
  BY <1>2, <1>3

\* An indexed document is counted when its call returns.
LEMMA TallyReturns ==
  ASSUME Messages = {Sent}, OneCopyInv, ReturnFromDocument(Sent)
  PROVE  TallyInv'
<1> USE DEF OneCopyInv, TypeOK, LocalsOK, StoresOK
<1>1. /\ pc[Sent] = "return" /\ pc'[Sent] = "next" /\ completed'[Sent] = completed[Sent] + 1
      /\ failed' = failed /\ todo' = todo /\ docStatus' = docStatus
      /\ vectors' = vectors /\ uncleaned' = uncleaned
      /\ docStatus[doc[Sent]] = "indexed"
  BY DEF ReturnFromDocument, Goto, stores, IndexInv
<1>2. WithDocument(Sent) /\ doc[Sent] \in Docs
  BY <1>1 DEF WithDocument, InTry, TryPC
<1>3. InLoop /\ Current = {doc[Sent]} /\ Current' = {} /\ Counted = 0 /\ Counted' = 0
  BY <1>1, <1>2 DEF InLoop, ClaimInv, Current, Counted, WithDocument, InTry, TryPC
<1>4. /\ Done' = Done \cup {doc[Sent]} /\ Current' \cap todo'[Sent] = {}
      /\ Cardinality(DoneWith("indexed")') = Cardinality(DoneWith("indexed")) + 1
      /\ Cardinality(DoneWith("failed")') = Cardinality(DoneWith("failed"))
  <2>1. \A t \in {"indexed", "failed"} :
          Cardinality(DoneWith(t)') = Cardinality(DoneWith(t)) + (IF t = "indexed" THEN 1 ELSE 0)
    BY <1>1, <1>2, <1>3, OneMoreDone
  <2>2. Done' = Done \cup {doc[Sent]} /\ Current' \cap todo'[Sent] = {}
    BY <1>1, <1>2, <1>3, OneMoreDone
  <2> QED
    BY <2>1, <2>2, DoneFinite
<1>5. Tally
  BY <1>3 DEF TallyInv
<1>6. Tally'
  BY <1>1, <1>3, <1>4, <1>5 DEF Tally
<1> QED
  BY <1>1, <1>6 DEF TallyInv

\* A failed document is done once its points are dealt with.
LEMMA TallyCleans ==
  ASSUME Messages = {Sent}, OneCopyInv, CleanupDocument(Sent) \/ CleanupFails(Sent)
  PROVE  TallyInv'
<1> USE DEF OneCopyInv, TypeOK, LocalsOK, StoresOK
<1>1. /\ pc[Sent] = "cleanup" /\ pc'[Sent] = "record" /\ kind[Sent] = "failed" /\ kind' = kind
      /\ completed' = completed /\ failed' = failed /\ todo' = todo /\ docStatus' = docStatus
      /\ docStatus[doc[Sent]] = "failed"
  BY DEF CleanupDocument, CleanupFails, Goto, stores, locals, IndexInv
<1>2. doc[Sent] \in Docs
  BY <1>1 DEF WithDocument
<1>3. InLoop /\ Current = {doc[Sent]} /\ Current' = {} /\ Counted = 1 /\ Counted' = 0
  BY <1>1 DEF InLoop, Current, Counted, WithDocument, InTry, TryPC, InDocument, DocKinds
<1>4. /\ Done' = Done \cup {doc[Sent]} /\ Current' \cap todo'[Sent] = {}
      /\ Cardinality(DoneWith("indexed")') = Cardinality(DoneWith("indexed"))
      /\ Cardinality(DoneWith("failed")') = Cardinality(DoneWith("failed")) + 1
  <2>1. \A t \in {"indexed", "failed"} :
          Cardinality(DoneWith(t)') = Cardinality(DoneWith(t)) + (IF t = "failed" THEN 1 ELSE 0)
    BY <1>1, <1>2, <1>3, OneMoreDone
  <2>2. Done' = Done \cup {doc[Sent]} /\ Current' \cap todo'[Sent] = {}
    BY <1>1, <1>2, <1>3, OneMoreDone
  <2> QED
    BY <2>1, <2>2, DoneFinite
<1>5. Tally
  BY <1>3 DEF TallyInv
<1>6. \A d \in Done' : /\ docStatus'[d] \in {"indexed", "failed"}
                       /\ docStatus'[d] = "failed" /\ d \in vectors' => d \in uncleaned'
  <2>1. /\ \A d \in Docs \ {doc[Sent]} : /\ d \in vectors' <=> d \in vectors
                                         /\ d \in uncleaned' <=> d \in uncleaned
        /\ doc[Sent] \in vectors' => doc[Sent] \in uncleaned'
    BY <1>2 DEF CleanupDocument, CleanupFails, stores
  <2>2. \A d \in Done : d \in Docs \ {doc[Sent]}
    BY <1>3 DEF Done
  <2> QED
    BY <1>1, <1>4, <1>5, <2>1, <2>2 DEF Tally
<1>7. Tally'
  BY <1>1, <1>3, <1>4, <1>5, <1>6, DoneFinite DEF Tally
<1> QED
  BY <1>1, <1>7 DEF TallyInv

\* Every step of the only copy keeps the tally.
LEMMA TallyStep ==
  ASSUME Messages = {Sent}, OneCopyInv, [Next]_vars
  PROVE  TallyInv'
<1>1. CASE RecordConflict(Sent)
  <2>1. CASE InDocument(Sent) /\ CatchDocumentError(Sent)
    <3>1. InTry(Sent) /\ UNCHANGED stores /\ UNCHANGED uncleaned
      BY <1>1, <2>1 DEF RecordConflict, InTry
    <3> QED
      BY <2>1, <3>1, TallyCatches
  <2>2. CASE Raise(Sent)
    <3>1. Outside
      BY <2>2 DEF Raise, Leave, Goto, Outside, InLoop, OneCopyInv, TypeOK, LocalsOK
    <3> QED
      BY <3>1, TallyKeeps DEF OneCopyInv
  <2> QED
    BY <1>1, <2>1, <2>2 DEF RecordConflict
<1>2. CASE DocumentFault(Sent)
  BY <1>2, TallyCatches DEF DocumentFault
<1>3. CASE RejectDocument(Sent)
  <2>1. InTry(Sent)
    BY <1>3 DEF RejectDocument, InTry, InDocument, DocKinds
  <2> QED
    BY <1>3, <2>1, TallyCatches DEF RejectDocument
<1> QED
  BY <1>1, <1>2, <1>3, TallySteps, TallyKeeps, TallyBegins, TallyReturns, TallyCleans
     DEF OneCopyInv

\* All that is known of a job with one copy holds in every reachable state.
LEMMA OneCopyInvariant ==
  ASSUME Messages = {Sent}
  PROVE  Spec => []OneCopyInv
<1>1. Init => IndexInv /\ TallyInv
  BY BrokerAssumption DEF Init, IndexInv, IndexedIsSearchable, Announcing, TallyInv, InLoop
<1>2. TypeOK /\ ClaimInv /\ IndexInv /\ TallyInv /\ [Next]_vars => IndexInv' /\ TallyInv'
  BY IndexStep, TallyStep DEF OneCopyInv
<1>3. TypeOK /\ ClaimInv /\ IndexInv /\ TallyInv => OneCopyInv
  BY DEF OneCopyInv
<1> QED
  BY <1>1, <1>2, <1>3, ClaimInvariant, TypeCorrect, PTL DEF Spec

\* At the end of the loop the tally is the result.
LEMMA FinishIsTrue ==
  ASSUME Messages = {Sent}, OneCopyInv, FinishJob(Sent)
  PROVE  TerminalTruth'
<1> USE DEF OneCopyInv, TypeOK, LocalsOK, StoresOK
<1>1. /\ docStatus' = docStatus /\ vectors' = vectors /\ uncleaned' = uncleaned
      /\ pc[Sent] = "next" /\ todo[Sent] = {} /\ kind[Sent] # "completed"
      /\ job' = [status    |-> FinalStatus(completed[Sent], failed[Sent]),
                 completed |-> completed[Sent],
                 failed    |-> failed[Sent]]
  BY DEF FinishJob, ClaimInv
<1>2. Done = Docs /\ Counted = 0 /\ Tally
  BY <1>1 DEF TallyInv, InLoop, Current, Done, Counted, WithDocument, InTry, TryPC
<1>3. /\ completed[Sent] = Cardinality({d \in Docs : docStatus[d] = "indexed"})
      /\ failed[Sent] = Cardinality({d \in Docs : docStatus[d] = "failed"})
  <2>1. failed[Sent] = Cardinality(DoneWith("failed"))
    BY <1>2, DoneFinite DEF Tally
  <2> QED
    BY <1>2, <2>1 DEF Tally, DoneWith
<1>4. completed[Sent] + failed[Sent] = Cardinality(Docs)
  <2> DEFINE I == DoneWith("indexed")
             F == DoneWith("failed")
  <2>1. I \cup F = Docs /\ I \cap F = {}
    BY <1>2 DEF Tally, DoneWith
  <2>2. IsFiniteSet(I) /\ IsFiniteSet(F) /\ Cardinality(I) \in Nat /\ Cardinality(F) \in Nat
    BY DoneFinite
  <2>3. Cardinality(I \cup F) = Cardinality(I) + Cardinality(F) - Cardinality(I \cap F)
    BY <2>2, FS_Union
  <2>4. Cardinality(I) = completed[Sent] /\ Cardinality(F) = failed[Sent]
    BY <1>2, <1>3 DEF DoneWith
  <2>5. Cardinality(I \cap F) = 0
    BY <2>1, FS_EmptySet
  <2>6. Cardinality(Docs) = Cardinality(I) + Cardinality(F) - 0
    BY <2>1, <2>3, <2>5
  <2> HIDE DEF I, F
  <2> QED
    BY <2>2, <2>4, <2>6
<1>5. \A d \in Docs : IF docStatus[d] = "indexed"
                      THEN d \in vectors
                      ELSE d \in vectors => d \in uncleaned
  BY <1>2 DEF Tally, IndexInv, IndexedIsSearchable
<1> QED
  BY <1>1, <1>3, <1>4, <1>5 DEF TerminalTruth

\* Once the row says that the job is over, nothing of it is touched.
LEMMA FinishedIsLeftAlone ==
  ASSUME Messages = {Sent}, OneCopyInv, job.status \in Terminal, [Next]_vars
  PROVE  UNCHANGED <<job, docStatus, vectors, uncleaned>>
<1>1. pc[Sent] \in {"idle", "load", "shutdown"} \/ (pc[Sent] \in {"record", "append"} /\ kind[Sent] = "completed")
  BY DEF OneCopyInv, ClaimInv, Terminal, TypeOK, LocalsOK
<1> USE DEF stores
<1>2. ~ LoadEvents(Sent) /\ ~ MarkJobProcessing(Sent) /\ ~ FinishJob(Sent)
  BY <1>1 DEF LoadEvents, MarkJobProcessing, FinishJob
<1>3. /\ \A d \in Docs : ~ NextDocument(Sent, d)
      /\ ~ MarkDocumentProcessing(Sent) /\ ~ ClearVectors(Sent) /\ ~ UpsertVectors(Sent)
      /\ ~ MarkDocumentIndexed(Sent) /\ ~ ReturnFromDocument(Sent)
      /\ ~ FailDocument(Sent) /\ ~ CleanupDocument(Sent) /\ ~ CleanupFails(Sent)
  BY <1>1 DEF NextDocument, MarkDocumentProcessing, ClearVectors, UpsertVectors,
              MarkDocumentIndexed, ReturnFromDocument, FailDocument, CleanupDocument, CleanupFails
<1>4. /\ Deliver(Sent) \/ LoadJob(Sent) \/ Shutdown(Sent) \/ Escape(Sent) \/ Crash(Sent) =>
           UNCHANGED <<job, docStatus, vectors, uncleaned>>
      /\ RecordEvent(Sent) \/ RecordConflict(Sent) \/ AppendEvent(Sent) =>
           UNCHANGED <<job, docStatus, vectors, uncleaned>>
      /\ RejectDocument(Sent) \/ DocumentFault(Sent) =>
           UNCHANGED <<job, docStatus, vectors, uncleaned>>
      /\ \A c \in Messages : Redeliver(Sent, c) => UNCHANGED <<job, docStatus, vectors, uncleaned>>
      /\ UNCHANGED vars => UNCHANGED <<job, docStatus, vectors, uncleaned>>
  BY DEF Deliver, LoadJob, Shutdown, Escape, Crash, RecordEvent, RecordConflict, AppendEvent,
         RejectDocument, DocumentFault, Redeliver, vars
<1> QED
  BY <1>2, <1>3, <1>4 DEF Next, Step, Failure, Rest

\* What the row of a finished job claims is so, while its message exists once:
\* its counters are the numbers of indexed and failed documents, the indexed
\* ones have their points, and the failed ones have none unless a compensating
\* delete raised - after any number of faults, crashes and retries.
THEOREM OneCopyResultIsTrue ==
  ASSUME Messages = {Sent}
  PROVE  Spec => []TerminalTruth
<1>1. Init => TerminalTruth
  BY DEF Init, TerminalTruth, Terminal
<1>2. OneCopyInv /\ TerminalTruth /\ [Next]_vars => TerminalTruth'
  <2> SUFFICES ASSUME OneCopyInv, TerminalTruth, [Next]_vars
               PROVE  TerminalTruth'
    OBVIOUS
  <2>1. CASE FinishJob(Sent)
    BY <2>1, FinishIsTrue
  <2>2. CASE MarkJobProcessing(Sent)
    BY <2>2 DEF MarkJobProcessing, TerminalTruth, Terminal, OneCopyInv, TypeOK, StoresOK
  <2>3. CASE UNCHANGED job /\ job.status \in Terminal
    BY <2>3, FinishedIsLeftAlone DEF TerminalTruth
  <2>4. CASE UNCHANGED job /\ job.status \notin Terminal
    BY <2>4 DEF TerminalTruth
  <2> QED
    BY <2>1, <2>2, <2>3, <2>4, JobWriters
<1> QED
  BY <1>1, <1>2, OneCopyInvariant, PTL DEF Spec

-----------------------------------------------------------------------------
(***************************************************************************)
(* The order of the stream of a job with one copy. Between the insert and  *)
(* the XADD nobody else inserts, so an entry has the last number there is. *)
(***************************************************************************)

OrderInv == StreamInOrder /\ (Publishing(Sent) => NextSeq(Sent) = Cardinality(audit))

\* Every step of the only copy keeps OrderInv.
LEMMA OrderStep ==
  ASSUME Messages = {Sent}, IInv, OrderInv, [Next]_vars
  PROVE  OrderInv'
<1>1. CASE RecordEvent(Sent)
  <2>1. stream' = stream
    BY <1>1 DEF RecordEvent
  <2>2. NextSeq(Sent)' = Cardinality(audit')
    BY <1>1, RecordNumber
  <2> QED
    BY <2>1, <2>2 DEF OrderInv, StreamInOrder
<1>2. CASE AppendEvent(Sent)
  <2> DEFINE p == Publication(Sent)
  <2>1. Publishing(Sent) /\ ~ Publishing(Sent)' /\ stream' = Append(stream, p)
    BY <1>2 DEF AppendEvent, ContinueDocument, ContinueLoop, LeaveLoop, Goto, Publishing, IInv,
                TypeOK, LocalsOK
  <2>2. stream \in Seq(Event) /\ p \in Event
    BY PublicationType DEF IInv, TypeOK, StoresOK
  <2>3. /\ DOMAIN stream' = 1 .. Len(stream) + 1 /\ DOMAIN stream = 1 .. Len(stream)
        /\ \A i \in DOMAIN stream : stream'[i] = stream[i]
        /\ stream'[Len(stream) + 1] = p
        /\ Len(stream) \in Nat
    BY <2>1, <2>2
  <2>4. ASSUME NEW i \in DOMAIN stream
        PROVE  stream[i].seq < p.seq
    <3>1. stream[i].seq \in 1 .. Cardinality(audit)
      BY DEF IInv, OwnershipInv, StreamIsAudited, NumbersInv, AuditGapless
    <3>2. stream[i].seq # NextSeq(Sent)
      BY <2>1 DEF IInv, OwnershipInv
    <3>3. p.seq = NextSeq(Sent) /\ NextSeq(Sent) = Cardinality(audit)
      BY <2>1 DEF Publication, OrderInv
    <3>4. Cardinality(audit) \in Nat
      BY FS_CardinalityType DEF IInv, NumbersInv
    <3> QED
      BY <3>1, <3>2, <3>3, <3>4
  <2>5. StreamInOrder'
    <3> HIDE DEF p
    <3> SUFFICES ASSUME NEW i \in 1 .. Len(stream) + 1, NEW j \in 1 .. Len(stream) + 1, i < j
                 PROVE  stream'[i].seq < stream'[j].seq
      BY <2>3 DEF StreamInOrder
    <3>1. i \in DOMAIN stream /\ stream'[i] = stream[i]
      BY <2>3
    <3>2. CASE j = Len(stream) + 1
      BY <2>3, <2>4, <3>1, <3>2
    <3>3. CASE j \in DOMAIN stream
      BY <2>3, <3>1, <3>3 DEF OrderInv, StreamInOrder
    <3> QED
      BY <2>3, <3>2, <3>3
  <2> QED
    BY <2>1, <2>5 DEF OrderInv
<1>3. CASE Quiet
  <2>1. audit' = audit /\ stream' = stream
    BY <1>3 DEF Quiet
  <2>2. Publishing(Sent)' => Publishing(Sent) /\ NextSeq(Sent)' = NextSeq(Sent)
    BY <1>3, BrokerAssumption DEF Quiet, Publishing, NextSeq, InDocument
  <2> QED
    BY <2>1, <2>2 DEF OrderInv, StreamInOrder
<1> QED
  BY <1>1, <1>2, <1>3, QuietSteps DEF IInv

\* The entries of a job whose message exists once are streamed in the order of
\* their numbers, whatever is retried.
THEOREM OneCopyStreamsInOrder ==
  ASSUME Messages = {Sent}
  PROVE  Spec => []StreamInOrder
<1>1. Init => OrderInv
  BY BrokerAssumption DEF Init, OrderInv, StreamInOrder, Publishing
<1>2. IInv /\ OrderInv /\ [Next]_vars => OrderInv'
  BY OrderStep
<1>3. OrderInv => StreamInOrder
  BY DEF OrderInv
<1> QED
  BY <1>1, <1>2, <1>3, Invariant, PTL DEF Spec

\* Nothing follows the "completed" entry.
EndIsLast == \A i \in DOMAIN stream : stream[i].kind = "completed" => i = Len(stream)

\* While one exists, the only copy has nothing to append: it could only append
\* the "completed" event once more.
LEMMA EndLastStep ==
  ASSUME Messages = {Sent}, IInv, ClaimInv, CompletedEventIsTrue, EndIsLast, [Next]_vars
  PROVE  EndIsLast'
<1>1. CASE AppendEvent(Sent)
  <2> DEFINE p == Publication(Sent)
  <2>1. pc[Sent] = "append" /\ Publishing(Sent) /\ stream' = Append(stream, p)
    BY <1>1 DEF AppendEvent, Publishing
  <2>2. stream \in Seq(Event) /\ p \in Event
    BY PublicationType DEF IInv, TypeOK, StoresOK
  <2>3. /\ DOMAIN stream' = 1 .. Len(stream) + 1 /\ DOMAIN stream = 1 .. Len(stream)
        /\ Len(stream') = Len(stream) + 1
        /\ \A i \in DOMAIN stream : stream'[i] = stream[i]
        /\ Len(stream) \in Nat
    BY <2>1, <2>2
  <2>4. ASSUME NEW i \in DOMAIN stream, stream[i].kind = "completed"
        PROVE  FALSE
    <3>1. stream[i] \in audit /\ p \in audit /\ stream[i].seq # NextSeq(Sent)
      BY <2>1 DEF IInv, OwnershipInv, StreamIsAudited
    <3>2. job.status \in Terminal
      BY <2>4, <3>1 DEF CompletedEventIsTrue
    <3>3. p.kind = "completed"
      BY <2>1, <3>2 DEF ClaimInv, Terminal, Publication
    <3>4. stream[i] = p
      BY <2>4, <3>1, <3>3 DEF CompletedEventIsTrue
    <3> QED
      BY <3>1, <3>4 DEF Publication
  <2> HIDE DEF p
  <2>5. \A i \in 1 .. Len(stream) + 1 : i \in DOMAIN stream \/ i = Len(stream')
    BY <2>3
  <2> QED
    BY <2>3, <2>4, <2>5 DEF EndIsLast
<1>2. CASE RecordEvent(Sent) \/ Quiet
  BY <1>2 DEF RecordEvent, Quiet, EndIsLast
<1> QED
  BY <1>1, <1>2, QuietSteps DEF IInv

\* The "completed" entry of a job whose message exists once is the last entry
\* of its stream for good.
THEOREM OneCopyEndsItsStream ==
  ASSUME Messages = {Sent}
  PROVE  Spec => []EndIsLast
<1>1. Init => EndIsLast
  BY DEF Init, EndIsLast
<1>2. IInv /\ ClaimInv /\ CompletedEventIsTrue /\ EndIsLast /\ [Next]_vars => EndIsLast'
  BY EndLastStep
<1> QED
  BY <1>1, <1>2, Invariant, ClaimInvariant, OneCopyCompletesOnce, PTL DEF Spec

-----------------------------------------------------------------------------
(***************************************************************************)
(* Every step leaves less to do. This is the safety half of                *)
(* EventuallySettled: what is left of a copy is a triple of numbers, and   *)
(* their lexicographic order has no infinite descent.                      *)
(***************************************************************************)

\* A copy is at a call exactly while a worker runs it, and the publication that
\* follows the call is known before it.
PlaceInv ==
  /\ TypeOK
  /\ \A m \in Messages : /\ pc[m] # "idle" <=> at[m] = "running"
                         /\ pc[m] = "mark_processing" => kind[m] = "parsing"
                         /\ pc[m] \in {"fail_document", "cleanup"} => kind[m] = "failed"

\* Every step of every copy keeps it.
LEMMA PlaceStep ==
  ASSUME PlaceInv, TypeOK', [Next]_vars
  PROVE  PlaceInv'
<1> USE DEF PlaceInv, TypeOK, BrokerOK, LocalsOK, stores, broker, locals, Goto, Place
<1>1. ASSUME NEW m \in Messages, Deliver(m)
      PROVE  PlaceInv'
  BY <1>1 DEF Deliver
<1>2. ASSUME NEW m \in Messages, pc[m] # "idle", Leave(m), at' \in [Messages -> Place],
             at'[m] # "running", \A c \in Messages \ {m} : at'[c] = at[c]
      PROVE  PlaceInv'
  BY <1>2 DEF Leave
<1>3. ASSUME NEW m \in Messages, pc[m] # "idle", pc'[m] # "idle", at' = at,
             pc'[m] = "mark_processing" => kind'[m] = "parsing",
             pc'[m] \in {"fail_document", "cleanup"} => kind'[m] = "failed",
             \A c \in Messages \ {m} : pc'[c] = pc[c] /\ kind'[c] = kind[c]
      PROVE  PlaceInv'
  BY <1>3
<1>4. ASSUME NEW m \in Messages, LoadJob(m) \/ LoadEvents(m) \/ MarkJobProcessing(m)
                                 \/ RecordEvent(m) \/ AppendEvent(m)
      PROVE  PlaceInv'
  <2>1. /\ pc[m] # "idle" /\ at' = at /\ \A c \in Messages \ {m} : pc'[c] = pc[c] /\ kind'[c] = kind[c]
        /\ pc'[m] \notin {"idle", "mark_processing", "fail_document", "cleanup"}
    BY <1>4 DEF LoadJob, LoadEvents, MarkJobProcessing, RecordEvent, AppendEvent,
                ContinueDocument, ContinueLoop, LeaveLoop
  <2> QED
    BY <1>3, <2>1
<1>5. ASSUME NEW m \in Messages, CatchDocumentError(m), pc[m] # "idle"
      PROVE  PlaceInv'
  BY <1>3, <1>5 DEF CatchDocumentError
<1>6. ASSUME NEW m \in Messages, Raise(m), pc[m] # "idle"
      PROVE  PlaceInv'
  BY <1>2, <1>6 DEF Raise
<1>7. ASSUME NEW m \in Messages, NEW d \in Docs, NextDocument(m, d)
      PROVE  PlaceInv'
  BY <1>3, <1>7 DEF NextDocument
<1>8. ASSUME NEW m \in Messages, MarkDocumentProcessing(m) \/ ClearVectors(m) \/ UpsertVectors(m)
                                 \/ MarkDocumentIndexed(m) \/ ReturnFromDocument(m)
      PROVE  PlaceInv'
  BY <1>3, <1>8 DEF MarkDocumentProcessing, ClearVectors, UpsertVectors, MarkDocumentIndexed,
                    ReturnFromDocument
<1>9. ASSUME NEW m \in Messages, FailDocument(m) \/ CleanupDocument(m) \/ CleanupFails(m)
                                 \/ FinishJob(m)
      PROVE  PlaceInv'
  BY <1>3, <1>9 DEF FailDocument, CleanupDocument, CleanupFails, FinishJob
<1>10. ASSUME NEW m \in Messages, RecordConflict(m) \/ RejectDocument(m) \/ DocumentFault(m)
       PROVE  PlaceInv'
  BY <1>5, <1>6, <1>10 DEF RecordConflict, RejectDocument, DocumentFault, InTry, TryPC
<1>11. ASSUME NEW m \in Messages, Escape(m)
       PROVE  PlaceInv'
  BY <1>6, <1>11 DEF Escape
<1>12. ASSUME NEW m \in Messages, Crash(m)
       PROVE  PlaceInv'
  BY <1>2, <1>12 DEF Crash
<1>13. ASSUME NEW m \in Messages, Shutdown(m)
       PROVE  PlaceInv'
  BY <1>2, <1>13 DEF Shutdown, Ack
<1>14. ASSUME NEW m \in Messages, NEW c \in Messages, Redeliver(m, c)
       PROVE  PlaceInv'
  BY <1>14 DEF Redeliver
<1>15. CASE UNCHANGED vars
  BY <1>15 DEF vars
<1> QED
  BY <1>1, <1>4, <1>7, <1>8, <1>9, <1>10, <1>11, <1>12, <1>13, <1>14, <1>15
     DEF Next, Step, Failure, Rest

\* A step of the copy m that counts.
Counts(m) ==
  /\ Less(Remaining(m)', Remaining(m))
  /\ \A c \in Messages \ {m} : Remaining(c)' = Remaining(c)

\* What is left is counted in natural numbers.
LEMMA RemainingTypes ==
  ASSUME PlaceInv, NEW m \in Messages
  PROVE  /\ Cardinality(Docs) \in Nat
         /\ IsFiniteSet(todo[m]) /\ Cardinality(todo[m]) \in 0 .. Cardinality(Docs)
         /\ AttemptsLeft(m) \in Nat /\ DocumentsLeft(m) \in Nat /\ CallsLeft(m) \in Nat
<1>1. IsFiniteSet(Docs) /\ todo[m] \subseteq Docs
  BY DocsAssumption DEF PlaceInv, TypeOK, LocalsOK
<1>2. /\ IsFiniteSet(todo[m]) /\ Cardinality(todo[m]) <= Cardinality(Docs)
      /\ Cardinality(todo[m]) \in Nat /\ Cardinality(Docs) \in Nat
  BY <1>1, FS_Subset, FS_CardinalityType
<1>3. AttemptsLeft(m) \in Nat
  BY BrokerAssumption DEF PlaceInv, TypeOK, BrokerOK, AttemptsLeft
<1>4. DocumentsLeft(m) \in Nat
  BY <1>2 DEF DocumentsLeft
<1>5. CallsLeft(m) \in Nat
  BY DEF CallsLeft
<1> QED
  BY <1>2, <1>3, <1>4, <1>5

\* The other copies keep what they have, as long as nothing of theirs changes.
LEMMA CountsFor ==
  ASSUME PlaceInv, NEW m \in Messages,
         \A c \in Messages \ {m} : /\ at'[c] = at[c] /\ retries'[c] = retries[c]
                                   /\ pc'[c] = pc[c] /\ kind'[c] = kind[c] /\ todo'[c] = todo[c],
         \/ AttemptsLeft(m)' < AttemptsLeft(m)
         \/ AttemptsLeft(m)' = AttemptsLeft(m) /\ DocumentsLeft(m)' < DocumentsLeft(m)
         \/ /\ AttemptsLeft(m)' = AttemptsLeft(m) /\ DocumentsLeft(m)' = DocumentsLeft(m)
            /\ CallsLeft(m)' < CallsLeft(m)
  PROVE  Counts(m)
<1>1. Less(Remaining(m)', Remaining(m))
  BY DEF Less, Remaining
<1>2. ASSUME NEW c \in Messages \ {m}
      PROVE  Remaining(c)' = Remaining(c)
  BY <1>2 DEF Remaining, AttemptsLeft, DocumentsLeft, CallsLeft
<1> QED
  BY <1>1, <1>2 DEF Counts

\* The next call of the same document, or of the frame around the documents.
LEMMA CallCounts ==
  ASSUME PlaceInv, NEW m \in Messages, at' = at, retries' = retries, todo' = todo,
         pc[m] \notin {"idle", "load", "load_events"},
         pc'[m] \notin {"idle", "load", "load_events"},
         \A c \in Messages \ {m} : pc'[c] = pc[c] /\ kind'[c] = kind[c],
         CallsLeft(m)' < CallsLeft(m)
  PROVE  Counts(m)
<1>1. AttemptsLeft(m)' = AttemptsLeft(m) /\ DocumentsLeft(m)' = DocumentsLeft(m)
  BY DEF AttemptsLeft, DocumentsLeft
<1> QED
  BY <1>1, CountsFor

\* A document that fails is done with.
LEMMA CatchCounts ==
  ASSUME PlaceInv, NEW m \in Messages, InTry(m), CatchDocumentError(m)
  PROVE  Counts(m)
<1> USE DEF PlaceInv, TypeOK, BrokerOK, LocalsOK, CatchDocumentError, Goto, broker
<1>1. at[m] = "running"
  BY DEF InTry, TryPC
<1>2. /\ at' = at /\ retries' = retries /\ todo' = todo /\ pc'[m] = "fail_document"
      /\ \A c \in Messages \ {m} : pc'[c] = pc[c] /\ kind'[c] = kind[c]
  OBVIOUS
<1>3. CallsLeft(m)' = 8
  BY <1>1, <1>2 DEF CallsLeft
<1>4. CallsLeft(m) > 8
  BY <1>1 DEF CallsLeft, InTry, TryPC, InDocument, DocKinds
<1>5. pc[m] \notin {"idle", "load", "load_events"}
  BY DEF InTry, TryPC
<1> QED
  BY <1>2, <1>3, <1>4, <1>5, CallCounts

\* An attempt that ends, acknowledged or given up, leaves nothing to do.
LEMMA LeaveCounts ==
  ASSUME PlaceInv, NEW m \in Messages, pc[m] # "idle", Leave(m), retries' = retries,
         at' = [at EXCEPT ![m] = "acked"] \/ at' = [at EXCEPT ![m] = "dead"]
  PROVE  Counts(m)
<1> USE DEF PlaceInv, TypeOK, BrokerOK, LocalsOK, Leave, Goto
<1>1. at[m] = "running" /\ at'[m] \in {"acked", "dead"} /\ pc'[m] = "idle" /\ todo'[m] = {}
  OBVIOUS
<1>2. AttemptsLeft(m)' = AttemptsLeft(m)
  BY <1>1 DEF AttemptsLeft
<1>3. DocumentsLeft(m)' = 0 /\ CallsLeft(m)' = 0
  BY <1>1, FS_EmptySet DEF DocumentsLeft, CallsLeft
<1>4. CallsLeft(m) > 0
  BY <1>1 DEF CallsLeft, PC, TryPC
<1>5. DocumentsLeft(m) \in Nat /\ CallsLeft(m) \in Nat
  BY RemainingTypes
<1> QED
  BY <1>2, <1>3, <1>4, <1>5, CountsFor

\* A retry uses up an attempt.
LEMMA RaiseCounts ==
  ASSUME PlaceInv, NEW m \in Messages, pc[m] # "idle", Raise(m)
  PROVE  Counts(m)
<1> USE DEF PlaceInv, TypeOK, BrokerOK, LocalsOK
<1>1. CASE retries[m] < MaxRetries /\ at' = [at EXCEPT ![m] = "queued"]
             /\ retries' = [retries EXCEPT ![m] = @ + 1]
  <2>1. AttemptsLeft(m)' < AttemptsLeft(m)
    BY <1>1, BrokerAssumption DEF AttemptsLeft
  <2> QED
    BY <1>1, <2>1, CountsFor DEF Raise, Leave, Goto
<1>2. CASE at' = [at EXCEPT ![m] = "dead"] /\ retries' = retries
  BY <1>2, LeaveCounts DEF Raise
<1> QED
  BY <1>1, <1>2 DEF Raise

\* Every step counts, of whatever copy, but a crash, which gives the attempt
\* back.
LEMMA StepCounts ==
  ASSUME PlaceInv, [Next]_vars
  PROVE  [crashes' # crashes \/ \E m \in Messages : Counts(m)]_vars
<1> USE DEF PlaceInv, TypeOK, BrokerOK, LocalsOK, Goto, stores, broker, locals, bounds
<1>1. ASSUME NEW m \in Messages, Deliver(m)
      PROVE  Counts(m)
  <2>1. at[m] = "queued" /\ at'[m] = "running" /\ pc'[m] = "load" /\ UNCHANGED <<retries, locals>>
    BY <1>1 DEF Deliver
  <2>2. AttemptsLeft(m)' = AttemptsLeft(m) /\ DocumentsLeft(m)' = DocumentsLeft(m)
    BY <2>1 DEF AttemptsLeft, DocumentsLeft
  <2>3. CallsLeft(m)' = 2 /\ CallsLeft(m) = 3
    BY <2>1 DEF CallsLeft
  <2> QED
    BY <1>1, <2>2, <2>3, CountsFor DEF Deliver
<1>2. ASSUME NEW m \in Messages, LoadJob(m)
      PROVE  Counts(m)
  <2>1. /\ pc[m] = "load" /\ at[m] = "running" /\ pc'[m] \in {"shutdown", "load_events"}
        /\ UNCHANGED <<broker, locals>>
    BY <1>2 DEF LoadJob
  <2>2. AttemptsLeft(m)' = AttemptsLeft(m)
    BY <2>1 DEF AttemptsLeft
  <2>3. CASE pc'[m] = "load_events"
    <3>1. DocumentsLeft(m)' = DocumentsLeft(m) /\ CallsLeft(m)' = 1 /\ CallsLeft(m) = 2
      BY <2>1, <2>3 DEF DocumentsLeft, CallsLeft
    <3> QED
      BY <1>2, <2>2, <3>1, CountsFor DEF LoadJob
  <2>4. CASE pc'[m] = "shutdown"
    <3>1. DocumentsLeft(m)' < DocumentsLeft(m)
      BY <2>1, <2>4, RemainingTypes DEF DocumentsLeft
    <3> QED
      BY <1>2, <2>2, <3>1, CountsFor DEF LoadJob
  <2> QED
    BY <2>1, <2>3, <2>4
<1>3. ASSUME NEW m \in Messages, LoadEvents(m)
      PROVE  Counts(m)
  <2>1. /\ pc[m] = "load_events" /\ at[m] = "running" /\ pc'[m] = "claim" /\ todo'[m] = Docs
        /\ UNCHANGED broker
    BY <1>3 DEF LoadEvents
  <2>2. AttemptsLeft(m)' = AttemptsLeft(m) /\ DocumentsLeft(m)' < DocumentsLeft(m)
    BY <2>1, RemainingTypes DEF AttemptsLeft, DocumentsLeft
  <2> QED
    BY <1>3, <2>2, CountsFor DEF LoadEvents
<1>4. ASSUME NEW m \in Messages,
             MarkJobProcessing(m) \/ MarkDocumentProcessing(m) \/ ClearVectors(m)
               \/ UpsertVectors(m) \/ MarkDocumentIndexed(m) \/ ReturnFromDocument(m)
      PROVE  Counts(m)
  <2>1. /\ pc[m] \notin {"idle", "load", "load_events"}
        /\ pc'[m] \notin {"idle", "load", "load_events"}
        /\ UNCHANGED <<broker, todo>> /\ at[m] = "running"
        /\ \A c \in Messages \ {m} : pc'[c] = pc[c] /\ kind'[c] = kind[c]
    BY <1>4 DEF MarkJobProcessing, MarkDocumentProcessing, ClearVectors, UpsertVectors,
                MarkDocumentIndexed, ReturnFromDocument
  <2>2. CallsLeft(m)' < CallsLeft(m)
    BY <1>4, <2>1 DEF CallsLeft, MarkJobProcessing, MarkDocumentProcessing, ClearVectors,
                      UpsertVectors, MarkDocumentIndexed, ReturnFromDocument
  <2> QED
    BY <2>1, <2>2, CallCounts
<1>5. ASSUME NEW m \in Messages,
             RecordEvent(m) \/ FailDocument(m) \/ CleanupDocument(m) \/ CleanupFails(m) \/ FinishJob(m)
      PROVE  Counts(m)
  <2>1. /\ pc[m] \notin {"idle", "load", "load_events"}
        /\ pc'[m] \notin {"idle", "load", "load_events"}
        /\ UNCHANGED <<broker, todo>> /\ at[m] = "running"
        /\ \A c \in Messages \ {m} : pc'[c] = pc[c] /\ kind'[c] = kind[c]
    BY <1>5 DEF RecordEvent, FailDocument, CleanupDocument, CleanupFails, FinishJob
  <2>2. CallsLeft(m)' < CallsLeft(m)
    BY <1>5, <2>1 DEF CallsLeft, RecordEvent, FailDocument, CleanupDocument, CleanupFails, FinishJob
  <2> QED
    BY <2>1, <2>2, CallCounts
<1>6. ASSUME NEW m \in Messages, AppendEvent(m)
      PROVE  Counts(m)
  <2>1. /\ pc[m] = "append" /\ pc'[m] \notin {"idle", "load", "load_events"}
        /\ UNCHANGED <<broker, todo>> /\ at[m] = "running"
        /\ \A c \in Messages \ {m} : pc'[c] = pc[c] /\ kind'[c] = kind[c]
    BY <1>6 DEF AppendEvent, ContinueDocument, ContinueLoop, LeaveLoop
  <2>2. CallsLeft(m)' < CallsLeft(m)
    BY <1>6, <2>1 DEF CallsLeft, AppendEvent, ContinueDocument, ContinueLoop, LeaveLoop
  <2> QED
    BY <2>1, <2>2, CallCounts
<1>7. ASSUME NEW m \in Messages, NEW d \in Docs, NextDocument(m, d)
      PROVE  Counts(m)
  <2>1. /\ pc[m] = "next" /\ pc'[m] = "mark_processing" /\ at[m] = "running" /\ UNCHANGED broker
        /\ d \in todo[m] /\ todo'[m] = todo[m] \ {d}
    BY <1>7 DEF NextDocument
  <2>2. Cardinality(todo'[m]) = Cardinality(todo[m]) - 1
    <3>1. IsFiniteSet(todo[m])
      BY RemainingTypes
    <3>2. Cardinality(todo[m] \ {d}) = Cardinality(todo[m]) - 1
      BY <2>1, <3>1, FS_RemoveElement
    <3> QED
      BY <2>1, <3>2
  <2>3. AttemptsLeft(m)' = AttemptsLeft(m) /\ DocumentsLeft(m)' < DocumentsLeft(m)
    BY <2>1, <2>2, RemainingTypes DEF AttemptsLeft, DocumentsLeft
  <2> QED
    BY <1>7, <2>3, CountsFor DEF NextDocument
<1>8. ASSUME NEW m \in Messages, RecordConflict(m) \/ RejectDocument(m) \/ DocumentFault(m)
      PROVE  Counts(m)
  BY <1>8, CatchCounts, RaiseCounts
     DEF RecordConflict, RejectDocument, DocumentFault, InTry, InDocument, DocKinds
<1>9. ASSUME NEW m \in Messages, Escape(m)
      PROVE  Counts(m)
  BY <1>9, RaiseCounts DEF Escape
<1>10. ASSUME NEW m \in Messages, Shutdown(m)
       PROVE  Counts(m)
  BY <1>10, LeaveCounts DEF Shutdown, Ack
<1>11. ASSUME NEW m \in Messages, NEW c \in Messages, Redeliver(m, c)
       PROVE  Counts(c)
  <2>1. /\ at[c] = "absent" /\ at'[c] = "queued" /\ retries'[c] = retries[m]
        /\ \A n \in Messages \ {c} : at'[n] = at[n] /\ retries'[n] = retries[n]
        /\ UNCHANGED <<pc, locals>>
    BY <1>11 DEF Redeliver
  <2>2. AttemptsLeft(c)' < AttemptsLeft(c)
    BY <2>1, BrokerAssumption DEF AttemptsLeft
  <2> QED
    BY <2>1, <2>2, CountsFor
<1>12. ASSUME NEW m \in Messages, Crash(m)
       PROVE  crashes' # crashes
  BY <1>12 DEF Crash
<1>13. CASE UNCHANGED vars
  BY <1>13
<1> QED
  BY <1>1, <1>2, <1>3, <1>4, <1>5, <1>6, <1>7, <1>8, <1>9, <1>10, <1>11, <1>12, <1>13
     DEF Next, Step, Failure, Rest

\* PlaceInv holds in every reachable state.
LEMMA PlaceInvariant == Spec => []PlaceInv
<1>1. Init => PlaceInv
  <2>1. Init => TypeOK
    BY InitType, DocsAssumption, BrokerAssumption
  <2> QED
    BY <2>1 DEF Init, PlaceInv
<1>2. PlaceInv /\ TypeOK' /\ [Next]_vars => PlaceInv'
  BY PlaceStep
<1> QED
  BY <1>1, <1>2, TypeCorrect, PTL DEF Spec

\* However many copies of the message there are and whatever fails, every step
\* short of a crash leaves its copy with less to do and takes nothing back from
\* the others: the message cannot go round for ever.
THEOREM WorkRunsOut == Spec => EveryStepCounts
<1>1. PlaceInv /\ [Next]_vars
        => [crashes' # crashes
            \/ \E m \in Messages :
                 /\ Less(Remaining(m)', Remaining(m))
                 /\ \A c \in Messages \ {m} : Remaining(c)' = Remaining(c)]_vars
  BY StepCounts DEF Counts
<1> QED
  BY <1>1, PlaceInvariant, PTL DEF Spec, EveryStepCounts

\* A set of natural numbers has a least element.
LEMMA LeastOf ==
  ASSUME NEW S, S \subseteq Nat, S # {}
  PROVE  \E n \in S : \A k \in S : n <= k
<1>1. IsWellFoundedOn(OpToRel(<, Nat), Nat)
  BY NatLessThanWellFounded
<1>2. PICK n \in S : \A k \in S : <<k, n>> \notin OpToRel(<, Nat)
  BY <1>1, WFMin
<1>3. \A k \in S : ~ (k < n)
  BY <1>2 DEF OpToRel
<1> QED
  BY <1>3

\* The order of what is left is well-founded: among any triples there is one
\* with none below it, so no sequence of steps of one copy goes down for ever.
THEOREM NoEndlessDescent ==
  ASSUME NEW S, S \subseteq Nat \X Nat \X Nat, S # {}
  PROVE  \E a \in S : \A b \in S : ~ Less(b, a)
<1>0. \A t \in S : t[1] \in Nat /\ t[2] \in Nat /\ t[3] \in Nat
  OBVIOUS
<1> DEFINE A == {t[1] : t \in S}
<1>1. PICK x \in A : \A k \in A : x <= k
  <2>1. A \subseteq Nat /\ A # {}
    BY <1>0
  <2> HIDE DEF A
  <2> QED
    BY <2>1, LeastOf
<1> DEFINE B == {t[2] : t \in {u \in S : u[1] = x}}
<1>2. PICK y \in B : \A k \in B : y <= k
  <2>1. B \subseteq Nat /\ B # {}
    BY <1>0
  <2> HIDE DEF B
  <2> QED
    BY <2>1, LeastOf
<1> DEFINE C == {t[3] : t \in {u \in S : u[1] = x /\ u[2] = y}}
<1>3. PICK z \in C : \A k \in C : z <= k
  <2>1. C \subseteq Nat /\ C # {}
    BY <1>0
  <2> HIDE DEF C
  <2> QED
    BY <2>1, LeastOf
<1>4. PICK a \in S : a[1] = x /\ a[2] = y /\ a[3] = z
  OBVIOUS
<1>5. ASSUME NEW b \in S, Less(b, a)
      PROVE  FALSE
  <2>1. x <= b[1]
    BY <1>1
  <2>2. b[1] = x => y <= b[2]
    BY <1>2
  <2>3. b[1] = x /\ b[2] = y => z <= b[3]
    BY <1>3
  <2> QED
    BY <1>0, <1>4, <1>5, <2>1, <2>2, <2>3 DEF Less
<1> QED
  BY <1>5

-----------------------------------------------------------------------------
(***************************************************************************)
(* What is left of TerminalTruth when copies of the message disturb each   *)
(* other: no row of a document can be relied on, but each copy counts its  *)
(* own documents, and the result is written in one statement.              *)
(***************************************************************************)

\* The row of a finished job accounts for every document once, and its status
\* says what its counters say.
ResultAddsUp ==
  job.status \in Terminal =>
    /\ job.completed + job.failed = Cardinality(Docs)
    /\ job.status = FinalStatus(job.completed, job.failed)

\* Where a copy counts: from the claim to the result.
Counting(m) == pc[m] \notin {"idle", "load", "load_events", "shutdown"}

\* The document at hand that is not counted yet.
Uncounted(m) == IF InTry(m) THEN 1 ELSE 0

\* What a copy has counted, the document it is at and those still to do make up
\* all documents; a copy that has not loaded the job has counted nothing.
SumInv ==
  /\ \A m \in Messages :
       /\ pc[m] \in {"idle", "load", "load_events"} => completed[m] = 0 /\ failed[m] = 0
       /\ Counting(m) =>
            completed[m] + failed[m] + Uncounted(m) + Cardinality(todo[m]) = Cardinality(Docs)
  /\ ResultAddsUp

\* What a step of m does to the sum, when it neither loads nor finishes the job.
LEMMA SumKept ==
  ASSUME TypeOK, SumInv, NEW m \in Messages, UNCHANGED job,
         \A c \in Messages \ {m} : /\ pc'[c] = pc[c] /\ kind'[c] = kind[c]
                                   /\ completed'[c] = completed[c] /\ failed'[c] = failed[c]
                                   /\ todo'[c] = todo[c],
         pc'[m] \in {"idle", "load", "load_events"} => completed'[m] = 0 /\ failed'[m] = 0,
         Counting(m)' =>
           completed'[m] + failed'[m] + Uncounted(m)' + Cardinality(todo'[m]) = Cardinality(Docs)
  PROVE  SumInv'
<1>1. ResultAddsUp'
  BY DEF SumInv, ResultAddsUp
<1>2. ASSUME NEW c \in Messages \ {m}
      PROVE  /\ pc'[c] \in {"idle", "load", "load_events"} => completed'[c] = 0 /\ failed'[c] = 0
             /\ Counting(c)' =>
                  completed'[c] + failed'[c] + Uncounted(c)' + Cardinality(todo'[c]) = Cardinality(Docs)
  BY <1>2 DEF SumInv, Counting, Uncounted, InTry, InDocument
<1> QED
  BY <1>1, <1>2 DEF SumInv

\* Every step of every copy keeps the sums.
LEMMA SumStep ==
  ASSUME PlaceInv, SumInv, [Next]_vars
  PROVE  SumInv'
<1> USE DEF PlaceInv, TypeOK, BrokerOK, LocalsOK, Goto, stores, broker, locals, bounds
<1>1. ASSUME NEW m \in Messages, Leave(m), UNCHANGED job
      PROVE  SumInv'
  BY <1>1, SumKept DEF Leave, Counting
<1>2. ASSUME NEW m \in Messages, UNCHANGED <<job, completed, failed, todo>>,
             \A c \in Messages \ {m} : pc'[c] = pc[c] /\ kind'[c] = kind[c],
             Counting(m), Uncounted(m)' = Uncounted(m),
             pc'[m] \notin {"idle", "load", "load_events"}
      PROVE  SumInv'
  BY <1>2, SumKept DEF SumInv
<1>3. ASSUME NEW m \in Messages, Deliver(m) \/ LoadJob(m)
      PROVE  SumInv'
  BY <1>3, SumKept DEF Deliver, LoadJob, SumInv, Counting
<1>4. ASSUME NEW m \in Messages, LoadEvents(m)
      PROVE  SumInv'
  <2>1. Uncounted(m)' = 0 /\ todo'[m] = Docs /\ completed'[m] = 0 /\ failed'[m] = 0
    BY <1>4 DEF LoadEvents, SumInv, Uncounted, InTry, TryPC
  <2>2. Cardinality(Docs) \in Nat
    BY RemainingTypes
  <2> QED
    BY <1>4, <2>1, <2>2, SumKept DEF LoadEvents
<1>5. ASSUME NEW m \in Messages, MarkJobProcessing(m)
      PROVE  SumInv'
  <2>1. /\ job'.status = "processing" /\ pc[m] = "claim" /\ pc'[m] = "record" /\ kind'[m] = "started"
        /\ UNCHANGED <<completed, failed, todo>>
        /\ \A c \in Messages \ {m} : pc'[c] = pc[c] /\ kind'[c] = kind[c]
    BY <1>5 DEF MarkJobProcessing, StoresOK
  <2>2. \A c \in Messages : Uncounted(c)' = Uncounted(c) /\ (Counting(c)' <=> Counting(c))
    BY <2>1 DEF Uncounted, Counting, InTry, TryPC, InDocument, DocKinds
  <2>3. ResultAddsUp'
    BY <2>1 DEF ResultAddsUp, Terminal
  <2> QED
    BY <2>1, <2>2, <2>3 DEF SumInv
<1>6. ASSUME NEW m \in Messages,
             RecordEvent(m) \/ MarkDocumentProcessing(m) \/ ClearVectors(m) \/ UpsertVectors(m)
               \/ MarkDocumentIndexed(m)
      PROVE  SumInv'
  <2>1. Uncounted(m)' = Uncounted(m)
    BY <1>6 DEF RecordEvent, MarkDocumentProcessing, ClearVectors, UpsertVectors,
                MarkDocumentIndexed, Uncounted, InTry, TryPC, InDocument, DocKinds
  <2> QED
    BY <1>2, <1>6, <2>1 DEF RecordEvent, MarkDocumentProcessing, ClearVectors, UpsertVectors,
                            MarkDocumentIndexed, Counting
<1>7. ASSUME NEW m \in Messages, FailDocument(m) \/ CleanupDocument(m) \/ CleanupFails(m)
      PROVE  SumInv'
  <2>1. Uncounted(m)' = Uncounted(m)
    BY <1>7 DEF FailDocument, CleanupDocument, CleanupFails, Uncounted, InTry, TryPC,
                InDocument, DocKinds
  <2> QED
    BY <1>2, <1>7, <2>1 DEF FailDocument, CleanupDocument, CleanupFails, Counting
<1>8. ASSUME NEW m \in Messages, AppendEvent(m)
      PROVE  SumInv'
  <2>1. /\ pc[m] = "append" /\ UNCHANGED <<job, completed, failed, todo>>
        /\ \A c \in Messages \ {m} : pc'[c] = pc[c] /\ kind'[c] = kind[c]
        /\ pc'[m] \notin {"idle", "load", "load_events"}
    BY <1>8 DEF AppendEvent, ContinueDocument, ContinueLoop, LeaveLoop
  <2>2. CASE LeaveLoop(m)
    BY <2>1, <2>2, SumKept DEF LeaveLoop, Counting
  <2>3. CASE ContinueDocument(m) \/ ContinueLoop(m)
    <3>1. Uncounted(m)' = Uncounted(m)
      BY <2>1, <2>3 DEF ContinueDocument, ContinueLoop, Uncounted, InTry, TryPC, InDocument, DocKinds
    <3> QED
      BY <1>2, <2>1, <3>1 DEF Counting
  <2> QED
    BY <1>8, <2>2, <2>3 DEF AppendEvent
<1>9. ASSUME NEW m \in Messages, NEW d \in Docs, NextDocument(m, d)
      PROVE  SumInv'
  <2>1. /\ pc[m] = "next" /\ pc'[m] = "mark_processing" /\ d \in todo[m]
        /\ todo'[m] = todo[m] \ {d} /\ UNCHANGED <<job, completed, failed>>
    BY <1>9 DEF NextDocument
  <2>2. IsFiniteSet(todo[m]) /\ Cardinality(todo[m]) \in Nat
    BY RemainingTypes
  <2>3. Cardinality(todo[m] \ {d}) = Cardinality(todo[m]) - 1
    BY <2>1, <2>2, FS_RemoveElement
  <2>4. Uncounted(m) = 0 /\ Uncounted(m)' = 1 /\ Counting(m)
    BY <2>1 DEF Uncounted, InTry, TryPC, Counting
  <2>5. completed[m] + failed[m] + 0 + Cardinality(todo[m]) = Cardinality(Docs)
    BY <2>4 DEF SumInv
  <2>6. completed'[m] + failed'[m] + Uncounted(m)' + Cardinality(todo'[m]) = Cardinality(Docs)
    BY <2>1, <2>2, <2>3, <2>4, <2>5
  <2> QED
    BY <1>9, <2>1, <2>6, SumKept DEF NextDocument
<1>10. ASSUME NEW m \in Messages, ReturnFromDocument(m)
       PROVE  SumInv'
  <2>1. Uncounted(m) = 1 /\ Uncounted(m)' = 0 /\ Counting(m)
    BY <1>10 DEF ReturnFromDocument, Uncounted, InTry, TryPC, Counting
  <2>2. completed'[m] = completed[m] + 1 /\ UNCHANGED <<job, failed, todo>>
    BY <1>10 DEF ReturnFromDocument
  <2>3. Cardinality(todo[m]) \in Nat
    BY RemainingTypes
  <2>4. completed'[m] + failed'[m] + Uncounted(m)' + Cardinality(todo'[m]) = Cardinality(Docs)
    BY <2>1, <2>2, <2>3 DEF SumInv
  <2> QED
    BY <1>10, <2>4, SumKept DEF ReturnFromDocument
<1>11. ASSUME NEW m \in Messages, CatchDocumentError(m), InTry(m), UNCHANGED job
       PROVE  SumInv'
  <2>1. Uncounted(m) = 1 /\ Uncounted(m)' = 0 /\ Counting(m)
    BY <1>11 DEF CatchDocumentError, Uncounted, InTry, TryPC, Counting
  <2>2. failed'[m] = failed[m] + 1 /\ UNCHANGED <<completed, todo>>
    BY <1>11 DEF CatchDocumentError
  <2>3. Cardinality(todo[m]) \in Nat
    BY RemainingTypes
  <2>4. completed'[m] + failed'[m] + Uncounted(m)' + Cardinality(todo'[m]) = Cardinality(Docs)
    BY <2>1, <2>2, <2>3 DEF SumInv
  <2> QED
    BY <1>11, <2>4, SumKept DEF CatchDocumentError
<1>12. ASSUME NEW m \in Messages, RecordConflict(m) \/ RejectDocument(m) \/ DocumentFault(m)
       PROVE  SumInv'
  BY <1>1, <1>11, <1>12
     DEF RecordConflict, RejectDocument, DocumentFault, InTry, InDocument, DocKinds, Raise
<1>13. ASSUME NEW m \in Messages, Escape(m) \/ Crash(m) \/ Shutdown(m)
       PROVE  SumInv'
  BY <1>1, <1>13 DEF Escape, Crash, Shutdown, Raise, Ack
<1>14. ASSUME NEW m \in Messages, FinishJob(m)
       PROVE  SumInv'
  <2>1. /\ pc[m] = "next" /\ todo[m] = {} /\ pc'[m] = "record" /\ kind'[m] = "completed"
        /\ UNCHANGED <<completed, failed, todo>>
        /\ \A c \in Messages \ {m} : pc'[c] = pc[c] /\ kind'[c] = kind[c]
        /\ job' = [status    |-> FinalStatus(completed[m], failed[m]),
                   completed |-> completed[m],
                   failed    |-> failed[m]]
    BY <1>14 DEF FinishJob
  <2>2. \A c \in Messages : Uncounted(c)' = Uncounted(c) /\ (Counting(c)' <=> Counting(c))
    BY <2>1 DEF Uncounted, Counting, InTry, TryPC, InDocument, DocKinds
  <2>3. Counting(m) /\ Uncounted(m) = 0 /\ Cardinality(todo[m]) = 0
    BY <2>1, FS_EmptySet DEF Counting, Uncounted, InTry, TryPC
  <2>4. completed[m] + failed[m] = Cardinality(Docs)
    BY <2>3 DEF SumInv
  <2>5. ResultAddsUp'
    BY <2>1, <2>4 DEF ResultAddsUp
  <2> QED
    BY <2>1, <2>2, <2>5 DEF SumInv
<1>15. ASSUME NEW m \in Messages, NEW c \in Messages, Redeliver(m, c)
       PROVE  SumInv'
  BY <1>15 DEF Redeliver, SumInv, ResultAddsUp, Counting, Uncounted, InTry, InDocument
<1>16. CASE UNCHANGED vars
  BY <1>16 DEF vars, SumInv, ResultAddsUp, Counting, Uncounted, InTry, InDocument
<1> QED
  BY <1>3, <1>4, <1>5, <1>6, <1>7, <1>8, <1>9, <1>10, <1>12, <1>13, <1>14, <1>15, <1>16
     DEF Next, Step, Failure, Rest

\* With any number of copies of the message on the job at once, a finished job
\* still accounts for each document once, under the status its counters imply:
\* what a second copy can falsify is which documents, not how many.
THEOREM ResultsAddUp == Spec => []ResultAddsUp
<1>1. Init => SumInv
  BY DEF Init, SumInv, ResultAddsUp, Terminal, Counting
<1>2. PlaceInv /\ SumInv /\ [Next]_vars => SumInv'
  BY SumStep
<1>3. SumInv => ResultAddsUp
  BY DEF SumInv
<1> QED
  BY <1>1, <1>2, <1>3, PlaceInvariant, PTL DEF Spec
=============================================================================
