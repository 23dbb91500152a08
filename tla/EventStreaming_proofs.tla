----------------------- MODULE EventStreaming_proofs -----------------------
(***************************************************************************)
(* Theorems about EventStreaming, for any clients, documents, bounds and   *)
(* batch size.                                                             *)
(***************************************************************************)
EXTENDS EventStreaming, JobProcessing_proofs, SequenceTheorems

-----------------------------------------------------------------------------
(***************************************************************************)
(* Sequences.                                                              *)
(***************************************************************************)

\* The head and the tail of a batch.
LEMMA HeadAndTail ==
  ASSUME NEW S, NEW q \in Seq(S), q # <<>>
  PROVE  /\ Len(q) \in Nat \ {0}
         /\ Head(q) \in S /\ Head(q) = q[1]
         /\ Tail(q) \in Seq(S) /\ Len(Tail(q)) = Len(q) - 1
         /\ \A i \in 1 .. Len(q) - 1 : Tail(q)[i] = q[i + 1]
         /\ Tail(q) = <<>> <=> Len(q) = 1
<1>1. Len(q) \in Nat /\ Len(q) # 0
  BY EmptySeq, LenProperties
<1>2. Head(q) \in S /\ Tail(q) \in Seq(S) /\ Len(Tail(q)) = Len(q) - 1
  BY HeadTailProperties
<1>3. \A i \in 1 .. Len(q) - 1 : Tail(q)[i] = q[i + 1]
  BY <1>1
<1>4. Tail(q) = <<>> <=> Len(Tail(q)) = 0
  BY <1>2, EmptySeq
<1> QED
  BY <1>1, <1>2, <1>3, <1>4

-----------------------------------------------------------------------------
(***************************************************************************)
(* The worker, as the readers see it.                                      *)
(***************************************************************************)

\* Readers change nothing of the worker's, so all that JobProcessing_proofs
\* shows of the worker holds beside them.
LEMMA WorkerUndisturbed == StreamSpec => Spec
<1>1. StreamInit => Init
  BY DEF StreamInit
<1>2. [StreamNext]_streamVars => [Next]_vars
  BY DEF StreamNext, streamVars, Connect, Replay, Disconnect, Serve, ReadEvents, ReadNothing,
         YieldEvent, CheckJob, Expire
<1> QED
  BY <1>1, <1>2, PTL DEF StreamSpec, Spec

\* Entries are appended to the stream and never changed.
LEMMA StreamGrows ==
  ASSUME TypeOK, [Next]_vars
  PROVE  \/ stream' = stream
         \/ \E m \in Messages : AppendEvent(m) /\ stream' = Append(stream, Publication(m))
<1>1. ASSUME NEW m \in Messages, RecordEvent(m)
      PROVE  stream' = stream
  BY <1>1 DEF RecordEvent
<1>2. ASSUME NEW m \in Messages, AppendEvent(m)
      PROVE  stream' = Append(stream, Publication(m))
  BY <1>2 DEF AppendEvent
<1>3. Quiet => stream' = stream
  BY DEF Quiet
<1> QED
  BY <1>1, <1>2, <1>3, QuietSteps

\* The stream is a sequence and gets longer by one entry or stays as it is.
LEMMA Lengths ==
  ASSUME TypeOK, [Next]_vars
  PROVE  /\ Len(stream) \in Nat /\ Len(stream') \in Nat
         /\ Len(stream) <= Len(stream')
         /\ \A p \in 1 .. Len(stream) : stream'[p] = stream[p]
<1>1. stream \in Seq(Event)
  BY DEF TypeOK, StoresOK
<1>2. \A m \in Messages : Publication(m) \in Event
  BY PublicationType DEF TypeOK
<1> QED
  BY <1>1, <1>2, StreamGrows

-----------------------------------------------------------------------------
(***************************************************************************)
(* Type correctness of the readers.                                        *)
(***************************************************************************)

\* A step of the worker leaves every reader's positions inside the stream.
LEMMA WorkerKeepsTypes ==
  ASSUME TypeOK, StreamTypeOK, [Next]_vars, UNCHANGED <<expired, readers>>
  PROVE  StreamTypeOK'
<1>1. /\ Len(stream) \in Nat /\ Len(stream') \in Nat
      /\ Len(stream) <= Len(stream')
  BY Lengths
<1>2. 1 .. Len(stream) \subseteq 1 .. Len(stream') /\ 0 .. Len(stream) \subseteq 0 .. Len(stream')
  BY <1>1
<1>3. Seq(1 .. Len(stream)) \subseteq Seq(1 .. Len(stream'))
  BY <1>2, SeqMonotonic
<1> QED
  BY <1>2, <1>3 DEF StreamTypeOK, readers

\* XREAD returns at least one entry, and only entries that are there.
LEMMA ReadBatch ==
  ASSUME TypeOK, StreamTypeOK, NEW c \in Clients, ReadEvents(c)
  PROVE  \E n \in Nat \ {0} :
           /\ Below(c) \in Nat /\ Below(c) + n <= Len(stream) /\ Len(stream) \in Nat
           /\ batch'[c] = [i \in 1 .. n |-> Below(c) + i]
           /\ batch'[c] \in Seq(1 .. Len(stream)) /\ Len(batch'[c]) = n
<1> DEFINE rest == Len(stream) - Below(c)
           n    == IF rest < Count THEN rest ELSE Count
<1>1. Len(stream) \in Nat
  BY DEF TypeOK, StoresOK
<1>2. Below(c) \in Nat /\ Below(c) < Len(stream)
  BY <1>1 DEF StreamTypeOK, Below, ReadEvents
<1>3. n \in Nat \ {0} /\ Below(c) + n <= Len(stream)
  BY <1>1, <1>2, StreamingAssumption
<1>4. batch'[c] = [i \in 1 .. n |-> Below(c) + i]
  BY DEF ReadEvents, StreamTypeOK
<1> HIDE DEF n
<1>5. \A i \in 1 .. n : Below(c) + i \in 1 .. Len(stream)
  BY <1>1, <1>2, <1>3
<1>6. batch'[c] \in Seq(1 .. Len(stream)) /\ Len(batch'[c]) = n
  BY <1>3, <1>4, <1>5
<1> QED
  BY <1>1, <1>2, <1>3, <1>4, <1>6

\* Every step of worker and readers keeps the readers' variables inside their
\* types.
LEMMA ReaderTypeStep ==
  ASSUME TypeOK, StreamTypeOK, [StreamNext]_streamVars
  PROVE  StreamTypeOK'
<1>1. Len(stream) \in Nat
  BY DEF TypeOK, StoresOK
<1> USE DEF StreamTypeOK, Serving, vars, stores
<1>2. CASE Next /\ UNCHANGED <<expired, readers>>
  BY <1>2, WorkerKeepsTypes
<1>3. ASSUME NEW c \in Clients, Connect(c)
      PROVE  StreamTypeOK'
  <2>1. LastSeen(c) \in 0 .. Len(stream)
    BY <1>1 DEF LastSeen
  <2> QED
    BY <1>1, <1>3, <2>1 DEF Connect
<1>4. ASSUME NEW c \in Clients, Replay(c)
      PROVE  StreamTypeOK'
  BY <1>1, <1>4 DEF Replay
<1>5. ASSUME NEW c \in Clients, Disconnect(c)
      PROVE  StreamTypeOK'
  BY <1>1, <1>5 DEF Disconnect
<1>6. ASSUME NEW c \in Clients, ReadEvents(c)
      PROVE  StreamTypeOK'
  <2>1. batch'[c] \in Seq(1 .. Len(stream)) /\ batch'[c] # <<>>
    BY <1>6, ReadBatch
  <2> QED
    BY <1>1, <1>6, <2>1 DEF ReadEvents
<1>7. ASSUME NEW c \in Clients, ReadNothing(c)
      PROVE  StreamTypeOK'
  BY <1>1, <1>7 DEF ReadNothing
<1>8. ASSUME NEW c \in Clients, YieldEvent(c)
      PROVE  StreamTypeOK'
  <2> DEFINE q == batch[c]
  <2>1. q \in Seq(1 .. Len(stream)) /\ q # <<>>
    BY <1>8 DEF YieldEvent
  <2>2. /\ Head(q) \in 1 .. Len(stream)
        /\ Tail(q) \in Seq(1 .. Len(stream))
        /\ Tail(q) = <<>> <=> Len(q) = 1
    BY <2>1, HeadAndTail
  <2>3. conn'[c] = AfterEvent(c) /\ conn' \in [Clients -> {"off", "closed"} \cup Serving]
    BY <1>8 DEF YieldEvent, AfterEvent
  <2>4. conn'[c] = "closed" => stream[Head(q)].kind \in EndKinds
    BY <2>3 DEF AfterEvent
  <2>5. seen' \in [Clients -> Seq(1 .. Len(stream))]
    BY <1>8, <2>2 DEF YieldEvent
  <2>6. cursor' \in [Clients -> 0 .. Len(stream)]
    BY <1>1, <1>8, <2>2 DEF YieldEvent
  <2>7. told' \in [Clients -> EndKinds \cup {"nothing"}]
    BY <1>8, <2>4 DEF YieldEvent
  <2>8. batch'[c] = IF conn'[c] = "closed" THEN <<>> ELSE Tail(q)
    BY <1>8 DEF YieldEvent
  <2>9. batch' \in [Clients -> Seq(1 .. Len(stream))]
    BY <1>8, <2>2, EmptySeq DEF YieldEvent
  <2>10. \A d \in Clients \ {c} : batch'[d] = batch[d] /\ conn'[d] = conn[d]
    BY <1>8 DEF YieldEvent
  <2>11. batch'[c] # <<>> <=> conn'[c] = "deliver"
    BY <2>2, <2>3, <2>8 DEF AfterEvent
  <2>12. stream' = stream /\ expired' = expired
    BY <1>8 DEF YieldEvent
  <2> HIDE DEF q
  <2> QED
    BY <2>3, <2>5, <2>6, <2>7, <2>9, <2>10, <2>11, <2>12
<1>9. ASSUME NEW c \in Clients, CheckJob(c)
      PROVE  StreamTypeOK'
  BY <1>1, <1>9 DEF CheckJob, EndKinds
<1>10. CASE Expire
  BY <1>1, <1>10 DEF Expire, readers
<1>11. CASE UNCHANGED streamVars
  BY <1>11 DEF streamVars, readers
<1> QED
  BY <1>2, <1>3, <1>4, <1>5, <1>6, <1>7, <1>8, <1>9, <1>10, <1>11 DEF StreamNext, Serve

\* Every variable of the readers stays inside its type; in particular no
\* position ever points outside the stream.
THEOREM ReaderTypeCorrect == StreamSpec => []StreamTypeOK
<1>1. StreamInit => StreamTypeOK
  <2> SUFFICES ASSUME StreamInit
               PROVE  StreamTypeOK
    OBVIOUS
  <2>1. stream \in Seq(Event) /\ Len(stream) \in Nat
    BY InitType, DocsAssumption, BrokerAssumption DEF StreamInit, TypeOK, StoresOK
  <2> QED
    BY <2>1 DEF StreamInit, StreamTypeOK, Serving
<1>2. TypeOK /\ StreamTypeOK /\ [StreamNext]_streamVars => StreamTypeOK'
  BY ReaderTypeStep
<1> QED
  BY <1>1, <1>2, WorkerUndisturbed, TypeCorrect, PTL DEF StreamSpec

-----------------------------------------------------------------------------
(***************************************************************************)
(* Resuming. While a client is served, current_id is the last entry it     *)
(* has; a batch holds consecutive entries, and what lies between           *)
(* current_id and the batch has expired. A client that comes back sends    *)
(* its last entry, which is why nothing is lost with a batch.              *)
(***************************************************************************)

InOrder(c) == \A i, j \in DOMAIN seen[c] : i < j => seen[c][i] < seen[c][j]

NothingMissed(c) ==
  \A p \in 1 .. LastSeen(c) : p <= expired \/ \E i \in DOMAIN seen[c] : seen[c][i] = p

CursorInv(c) == conn[c] \in Serving => cursor[c] = LastSeen(c)

BatchInv(c) ==
  batch[c] # <<>> =>
    /\ \A i \in 1 .. Len(batch[c]) : batch[c][i] = batch[c][1] + i - 1
    /\ cursor[c] < batch[c][1]
    /\ \A p \in Nat : cursor[c] < p /\ p < batch[c][1] => p <= expired

SeamInv(c) == InOrder(c) /\ NothingMissed(c) /\ CursorInv(c) /\ BatchInv(c)

\* What LastSeen says of a client's entries.
LEMMA LastSeenFacts ==
  ASSUME TypeOK, StreamTypeOK, NEW c \in Clients
  PROVE  /\ LastSeen(c) \in Nat /\ Len(seen[c]) \in Nat
         /\ DOMAIN seen[c] = 1 .. Len(seen[c])
         /\ \A i \in 1 .. Len(seen[c]) : seen[c][i] \in Nat
         /\ InOrder(c) => \A i \in 1 .. Len(seen[c]) : seen[c][i] <= LastSeen(c)
<1>1. Len(stream) \in Nat /\ seen[c] \in Seq(1 .. Len(stream))
  BY DEF TypeOK, StoresOK, StreamTypeOK
<1>2. /\ Len(seen[c]) \in Nat /\ DOMAIN seen[c] = 1 .. Len(seen[c])
      /\ \A i \in 1 .. Len(seen[c]) : seen[c][i] \in Nat
  BY <1>1, LenProperties, ElementOfSeq
<1>3. seen[c] # <<>> => Len(seen[c]) # 0
  BY <1>1, EmptySeq
<1> QED
  BY <1>2, <1>3 DEF LastSeen, InOrder

\* A client whose variables stay as they are keeps its part of the invariant:
\* entries only ever expire.
LEMMA SeamUntouched ==
  ASSUME NEW c \in Clients, SeamInv(c), expired \in Nat, expired' \in Nat, expired <= expired',
         StreamTypeOK, TypeOK,
         seen'[c] = seen[c], cursor'[c] = cursor[c], batch'[c] = batch[c], conn'[c] = conn[c]
  PROVE  SeamInv(c)'
<1>1. LastSeen(c)' = LastSeen(c) /\ LastSeen(c) \in Nat
  BY LastSeenFacts DEF LastSeen
<1>2. InOrder(c)' /\ CursorInv(c)'
  BY <1>1 DEF SeamInv, InOrder, CursorInv
<1>3. NothingMissed(c)'
  BY <1>1 DEF SeamInv, NothingMissed
<1>4. BatchInv(c)'
  BY DEF SeamInv, BatchInv
<1> QED
  BY <1>2, <1>3, <1>4 DEF SeamInv

\* Resuming, starting over and breaking off keep the invariant.
LEMMA SeamConnection ==
  ASSUME TypeOK, StreamTypeOK, NEW c \in Clients, SeamInv(c),
         Connect(c) \/ Replay(c) \/ Disconnect(c) \/ ReadNothing(c) \/ CheckJob(c)
  PROVE  SeamInv(c)'
<1> USE DEF StreamTypeOK, SeamInv
<1>1. expired' = expired
  BY DEF Connect, Replay, Disconnect, ReadNothing, CheckJob
<1>2. batch'[c] = <<>>
  BY DEF Connect, Replay, Disconnect, ReadNothing, CheckJob, Serving
<1>3. CASE Replay(c)
  <2>1. seen'[c] = <<>> /\ cursor'[c] = 0
    BY <1>3 DEF Replay
  <2> QED
    BY <1>2, <2>1 DEF InOrder, NothingMissed, CursorInv, BatchInv, LastSeen
<1>4. CASE ~ Replay(c)
  <2>1. seen'[c] = seen[c] /\ LastSeen(c)' = LastSeen(c)
    BY <1>4 DEF Connect, Disconnect, ReadNothing, CheckJob, LastSeen
  <2>2. CursorInv(c)'
    BY <1>4, <2>1 DEF Connect, Disconnect, ReadNothing, CheckJob, CursorInv, Serving
  <2> QED
    BY <1>1, <1>2, <2>1, <2>2 DEF InOrder, NothingMissed, BatchInv
<1> QED
  BY <1>3, <1>4

\* What XREAD returns follows on from current_id.
LEMMA SeamRead ==
  ASSUME TypeOK, StreamTypeOK, NEW c \in Clients, SeamInv(c), ReadEvents(c)
  PROVE  SeamInv(c)'
<1>1. PICK n \in Nat \ {0} : batch'[c] = [i \in 1 .. n |-> Below(c) + i] /\ Len(batch'[c]) = n
                              /\ Below(c) \in Nat
  BY ReadBatch
<1>2. seen'[c] = seen[c] /\ LastSeen(c)' = LastSeen(c)
  BY DEF ReadEvents, LastSeen
<1>3. cursor'[c] = cursor[c] /\ expired' = expired /\ conn[c] \in Serving
  BY DEF ReadEvents, Serving
<1>4. InOrder(c)' /\ NothingMissed(c)' /\ CursorInv(c)'
  BY <1>2, <1>3 DEF SeamInv, InOrder, NothingMissed, CursorInv
<1>5. cursor[c] \in Nat /\ expired \in Nat
  BY DEF StreamTypeOK, TypeOK, StoresOK
<1>6. cursor[c] <= Below(c) /\ \A p \in Nat : cursor[c] < p /\ p <= Below(c) => p <= expired
  BY <1>5 DEF Below
<1>7. BatchInv(c)'
  BY <1>1, <1>3, <1>5, <1>6 DEF BatchInv
<1> QED
  BY <1>4, <1>7 DEF SeamInv

\* The entry at the head of the batch is the next one for the client.
LEMMA SeamYield ==
  ASSUME TypeOK, StreamTypeOK, NEW c \in Clients, SeamInv(c), YieldEvent(c)
  PROVE  SeamInv(c)'
<1> DEFINE q == batch[c]
           h == Head(batch[c])
           s == seen[c]
<1>1. Len(stream) \in Nat /\ q \in Seq(1 .. Len(stream)) /\ s \in Seq(1 .. Len(stream)) /\ q # <<>>
  BY DEF TypeOK, StoresOK, StreamTypeOK, YieldEvent
<1>2. /\ Len(q) \in Nat \ {0} /\ h \in Nat \ {0} /\ h = q[1]
      /\ Tail(q) \in Seq(1 .. Len(stream)) /\ Len(Tail(q)) = Len(q) - 1
      /\ \A i \in 1 .. Len(q) - 1 : Tail(q)[i] = q[i + 1]
      /\ Tail(q) = <<>> <=> Len(q) = 1
  <2>1. h \in 1 .. Len(stream)
    BY <1>1, HeadAndTail
  <2> HIDE DEF q, h
  <2>2. h \in Nat \ {0}
    BY <1>1, <2>1
  <2> USE DEF q, h
  <2> QED
    BY <1>1, <2>2, HeadAndTail
<1>3. cursor'[c] = h /\ seen'[c] = Append(s, h) /\ expired' = expired
  BY DEF YieldEvent, StreamTypeOK
<1>4. batch'[c] = <<>> \/ batch'[c] = Tail(q)
  BY DEF YieldEvent, StreamTypeOK
<1>5. /\ cursor[c] = LastSeen(c) /\ LastSeen(c) < h
      /\ \A p \in Nat : LastSeen(c) < p /\ p < h => p <= expired
      /\ \A i \in 1 .. Len(q) : q[i] = h + i - 1
  BY <1>1, <1>2 DEF SeamInv, CursorInv, BatchInv, YieldEvent, Serving
<1>6. /\ LastSeen(c) \in Nat /\ Len(s) \in Nat /\ DOMAIN s = 1 .. Len(s)
      /\ \A i \in 1 .. Len(s) : s[i] \in Nat /\ s[i] <= LastSeen(c)
  BY LastSeenFacts DEF SeamInv
<1>7. /\ seen'[c] # <<>> /\ Len(seen'[c]) = Len(s) + 1
      /\ DOMAIN seen'[c] = 1 .. Len(s) + 1
      /\ \A i \in 1 .. Len(s) : seen'[c][i] = s[i]
      /\ seen'[c][Len(s) + 1] = h
  <2>1. s \in Seq(Nat)
    BY <1>1, SeqMonotonic
  <2>2. h \in Nat
    BY <1>2
  <2> HIDE DEF s, h
  <2>3. /\ Append(s, h) \in Seq(Nat) /\ Append(s, h) # <<>> /\ Len(Append(s, h)) = Len(s) + 1
        /\ \A i \in 1 .. Len(s) : Append(s, h)[i] = s[i]
        /\ Append(s, h)[Len(s) + 1] = h
    BY <2>1, <2>2, AppendProperties
  <2>4. DOMAIN Append(s, h) = 1 .. Len(s) + 1
    BY <2>3, LenProperties
  <2> QED
    BY <1>3, <2>3, <2>4
<1>8. LastSeen(c)' = h
  BY <1>7 DEF LastSeen
<1> HIDE DEF q, h
<1>9. InOrder(c)'
  <2>1. \A i, j \in 1 .. Len(s) : i < j => s[i] < s[j]
    BY <1>6 DEF SeamInv, InOrder
  <2> HIDE DEF s
  <2>2. ASSUME NEW i \in 1 .. Len(s) + 1, NEW j \in 1 .. Len(s) + 1, i < j
        PROVE  seen'[c][i] < seen'[c][j]
    <3>1. i \in 1 .. Len(s)
      BY <1>6, <2>2
    <3>2. CASE j = Len(s) + 1
      <4>1. seen'[c][j] = h /\ seen'[c][i] = s[i]
        BY <1>7, <3>1, <3>2
      <4>2. s[i] \in Nat /\ s[i] <= LastSeen(c)
        BY <1>6, <3>1 DEF s
      <4> QED
        BY <1>2, <1>5, <1>6, <4>1, <4>2
    <3>3. CASE j # Len(s) + 1
      BY <1>6, <1>7, <2>1, <2>2, <3>1, <3>3
    <3> QED
      BY <3>2, <3>3
  <2> QED
    BY <1>7, <2>2 DEF InOrder
<1>10. NothingMissed(c)'
  <2>1. \A p \in 1 .. LastSeen(c) : p <= expired \/ \E i \in 1 .. Len(s) : s[i] = p
    BY <1>6 DEF SeamInv, NothingMissed
  <2> HIDE DEF s
  <2>2. ASSUME NEW p \in 1 .. h
        PROVE  p <= expired \/ \E i \in 1 .. Len(s) + 1 : seen'[c][i] = p
    <3>1. CASE p = h
      BY <1>6, <1>7, <3>1
    <3>2. CASE p <= LastSeen(c)
      <4>1. p \in 1 .. LastSeen(c)
        BY <1>2, <1>6, <3>2
      <4>2. 1 .. Len(s) \subseteq 1 .. Len(s) + 1
        BY <1>6
      <4> QED
        BY <1>7, <2>1, <4>1, <4>2
    <3>3. CASE LastSeen(c) < p /\ p < h
      BY <1>2, <1>5, <3>3
    <3>4. h \in Nat /\ LastSeen(c) \in Nat
      BY <1>2, <1>6
    <3>5. p = h \/ p <= LastSeen(c) \/ (LastSeen(c) < p /\ p < h)
      BY <3>4
    <3> QED
      BY <3>1, <3>2, <3>3, <3>5
  <2> QED
    BY <1>3, <1>7, <1>8, <2>2 DEF NothingMissed
<1>11. CursorInv(c)'
  BY <1>3, <1>8 DEF CursorInv
<1>12. BatchInv(c)'
  <2> SUFFICES ASSUME batch'[c] # <<>>
               PROVE  BatchInv(c)'
    BY DEF BatchInv
  <2>1. batch'[c] = Tail(q) /\ Len(q) # 1 /\ Len(batch'[c]) = Len(q) - 1
    BY <1>2, <1>4
  <2>2. ASSUME NEW i \in 1 .. Len(q) - 1
        PROVE  batch'[c][i] = h + i
    <3>1. batch'[c][i] = q[i + 1]
      BY <1>2, <2>1
    <3>2. i \in Nat /\ i + 1 \in 1 .. Len(q)
      BY <1>2
    <3>3. q[i + 1] = h + (i + 1) - 1
      BY <1>5, <3>2
    <3>4. h + (i + 1) - 1 = h + i
      BY <1>2, <3>2
    <3> QED
      BY <3>1, <3>3, <3>4
  <2>3. batch'[c][1] = h + 1
    BY <1>2, <2>1, <2>2
  <2>4. \A p \in Nat : ~ (h < p /\ p < h + 1)
    BY <1>2
  <2>5. \A i \in 1 .. Len(batch'[c]) : batch'[c][i] = batch'[c][1] + i - 1
    <3>1. ASSUME NEW i \in 1 .. Len(q) - 1
          PROVE  batch'[c][i] = batch'[c][1] + i - 1
      <4>1. batch'[c][i] = h + i /\ i \in Nat
        BY <1>2, <2>2
      <4> QED
        BY <1>2, <2>3, <4>1
    <3> QED
      BY <2>1, <3>1
  <2>6. cursor'[c] < batch'[c][1]
    BY <1>2, <1>3, <2>3
  <2>7. \A p \in Nat : ~ (cursor'[c] < p /\ p < batch'[c][1])
    BY <1>3, <2>3, <2>4
  <2> QED
    BY <2>5, <2>6, <2>7 DEF BatchInv
<1> QED
  BY <1>9, <1>10, <1>11, <1>12 DEF SeamInv

\* Every step of worker and readers keeps the invariant of every client.
LEMMA SeamStep ==
  ASSUME TypeOK, StreamTypeOK, \A c \in Clients : SeamInv(c), [StreamNext]_streamVars
  PROVE  \A c \in Clients : SeamInv(c)'
<1> SUFFICES ASSUME NEW c \in Clients
             PROVE  SeamInv(c)'
  OBVIOUS
<1>1. expired \in Nat /\ Len(stream) \in Nat
  BY DEF StreamTypeOK, TypeOK, StoresOK
<1>2. CASE Next /\ UNCHANGED <<expired, readers>>
  BY <1>1, <1>2, SeamUntouched DEF readers
<1>3. ASSUME NEW d \in Clients, Connect(d) \/ Replay(d) \/ Disconnect(d) \/ Serve(d)
      PROVE  SeamInv(c)'
  <2>1. CASE d = c
    BY <1>3, <2>1, SeamConnection, SeamRead, SeamYield DEF Serve
  <2>2. CASE d # c
    <3>1. /\ seen'[c] = seen[c] /\ cursor'[c] = cursor[c] /\ batch'[c] = batch[c]
          /\ conn'[c] = conn[c] /\ expired' = expired
      BY <1>3, <2>2 DEF StreamTypeOK, Connect, Replay, Disconnect, Serve, ReadEvents,
                        ReadNothing, YieldEvent, CheckJob
    <3> QED
      BY <1>1, <3>1, SeamUntouched
  <2> QED
    BY <2>1, <2>2
<1>4. CASE Expire
  BY <1>1, <1>4, SeamUntouched DEF Expire, readers
<1>5. CASE UNCHANGED streamVars
  BY <1>1, <1>5, SeamUntouched DEF streamVars, readers
<1> QED
  BY <1>2, <1>3, <1>4, <1>5 DEF StreamNext

\* A client that is cut off and comes back with its Last-Event-ID, any number
\* of times and at any point, gets the entries in order, none twice, and
\* misses none that has not expired.
THEOREM ResumingIsSeamless == StreamSpec => []ResumeIsSeamless
<1> DEFINE Inv == \A c \in Clients : SeamInv(c)
<1>1. StreamInit => Inv
  BY DEF StreamInit, SeamInv, InOrder, NothingMissed, CursorInv, BatchInv, LastSeen, Serving
<1>2. TypeOK /\ StreamTypeOK /\ Inv /\ [StreamNext]_streamVars => Inv'
  BY SeamStep
<1>3. Inv => ResumeIsSeamless
  BY DEF SeamInv, InOrder, NothingMissed, ResumeIsSeamless
<1> QED
  BY <1>1, <1>2, <1>3, ReaderTypeCorrect, WorkerUndisturbed, TypeCorrect, PTL DEF StreamSpec

-----------------------------------------------------------------------------
(***************************************************************************)
(* The end a client is told of.                                            *)
(***************************************************************************)

\* Only an entry and the job row end a response, and both tell the truth: a
\* "completed" entry is audited, an audited one belongs to a finished job, and
\* a finished job stays finished.
LEMMA ToldStep ==
  ASSUME Messages = {Sent}, TypeOK, StreamTypeOK, ClaimInv, StreamIsAudited,
         CompletedEventIsTrue, CompletedIsTrue, [StreamNext]_streamVars
  PROVE  CompletedIsTrue'
<1> USE DEF StreamTypeOK, CompletedIsTrue
<1>1. CASE Next /\ UNCHANGED <<expired, readers>>
  <2>1. job.status \in Terminal => job'.status \in Terminal
    BY <1>1, WritesFollowLifecycle
  <2> QED
    BY <1>1, <2>1 DEF readers
<1>2. ASSUME NEW c \in Clients, Connect(c) \/ Replay(c) \/ Disconnect(c) \/ ReadEvents(c)
                                \/ ReadNothing(c)
      PROVE  CompletedIsTrue'
  BY <1>2 DEF Connect, Replay, Disconnect, ReadEvents, ReadNothing, vars, stores
<1>3. ASSUME NEW c \in Clients, YieldEvent(c)
      PROVE  CompletedIsTrue'
  <2> DEFINE h == Head(batch[c])
  <2>1. h \in 1 .. Len(stream)
    BY <1>3, HeadAndTail DEF YieldEvent
  <2>2. stream \in Seq(Event) /\ DOMAIN stream = 1 .. Len(stream)
    BY LenProperties DEF TypeOK, StoresOK
  <2>3. stream[h] \in audit
    BY <2>1, <2>2 DEF StreamIsAudited
  <2>4. stream[h].kind = "completed" => job.status \in Terminal
    BY <2>3 DEF CompletedEventIsTrue
  <2>5. job' = job
    BY <1>3 DEF YieldEvent, vars, stores
  <2>6. \A d \in Clients : told'[d] = told[d] \/ told'[d] = stream[h].kind
    BY <1>3 DEF YieldEvent
  <2> QED
    BY <2>4, <2>5, <2>6
<1>4. ASSUME NEW c \in Clients, CheckJob(c)
      PROVE  CompletedIsTrue'
  BY <1>4 DEF CheckJob, TerminalStates, Terminal, vars, stores
<1>5. CASE Expire
  BY <1>5 DEF Expire, readers, vars, stores
<1>6. CASE UNCHANGED streamVars
  BY <1>6 DEF streamVars, readers, vars, stores
<1> QED
  BY <1>1, <1>2, <1>3, <1>4, <1>5, <1>6 DEF StreamNext, Serve

\* No client of a job whose message exists once is told "completed" before the
\* job is over.
THEOREM OneCopyToldTheTruth ==
  ASSUME Messages = {Sent}
  PROVE  StreamSpec => []CompletedIsTrue
<1>1. StreamInit => CompletedIsTrue
  BY DEF StreamInit, CompletedIsTrue
<1>2. TypeOK /\ StreamTypeOK /\ ClaimInv /\ StreamIsAudited /\ CompletedEventIsTrue
        /\ CompletedIsTrue /\ [StreamNext]_streamVars => CompletedIsTrue'
  BY ToldStep
<1> QED
  BY <1>1, <1>2, ReaderTypeCorrect, WorkerUndisturbed, TypeCorrect, ClaimInvariant,
     StreamNeverOutrunsAudit, OneCopyCompletesOnce, PTL DEF StreamSpec

\* A client that has the last entry has them all.
LEMMA LastEntryIsAll ==
  ASSUME TypeOK, StreamTypeOK, ResumeIsSeamless, EndIsLast
  PROVE  EndHasEverything
<1> SUFFICES ASSUME NEW c \in Clients, NEW i \in DOMAIN seen[c],
                    stream[seen[c][i]].kind = "completed", NEW p \in DOMAIN stream
             PROVE  p <= expired \/ \E j \in DOMAIN seen[c] : seen[c][j] = p
  BY DEF EndHasEverything
<1>1. seen[c] \in Seq(1 .. Len(stream)) /\ DOMAIN stream = 1 .. Len(stream) /\ Len(stream) \in Nat
  BY LenProperties DEF TypeOK, StoresOK, StreamTypeOK
<1>2. seen[c][i] \in 1 .. Len(stream)
  BY <1>1, ElementOfSeq, LenProperties
<1>3. seen[c][i] = Len(stream)
  BY <1>1, <1>2 DEF EndIsLast
<1>4. InOrder(c)
  BY DEF ResumeIsSeamless, InOrder
<1>5. seen[c][i] <= LastSeen(c) /\ LastSeen(c) \in Nat
  BY <1>4, LastSeenFacts
<1>6. p \in 1 .. LastSeen(c)
  BY <1>1, <1>3, <1>5
<1> QED
  BY <1>6 DEF ResumeIsSeamless

\* However it came by it, a client of a job whose message exists once that has
\* the "completed" entry has all the others that have not expired, and there
\* will be no more.
THEOREM OneCopyEndIsComplete ==
  ASSUME Messages = {Sent}
  PROVE  StreamSpec => []EndHasEverything
  BY LastEntryIsAll, ResumingIsSeamless, ReaderTypeCorrect, WorkerUndisturbed, TypeCorrect,
     OneCopyEndsItsStream, PTL

=============================================================================
