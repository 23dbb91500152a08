--------------------------- MODULE Serving_proofs ---------------------------
(***************************************************************************)
(* Theorems about Startup, Embedding and Serving: the composition          *)
(* implements each of its components, so that their theorems hold of it.   *)
(***************************************************************************)
EXTENDS Serving, Citation_proofs, SequenceTheorems

-----------------------------------------------------------------------------
(***************************************************************************)
(* Startup, for any number of processes and probes, any settings and any   *)
(* number of faults and crashes. The inductive invariant: what the earlier *)
(* calls of startup() have seen to is still true when the later ones are   *)
(* made.                                                                   *)
(***************************************************************************)

AfterBucket == {"get_collection", "create_collection", "create_index", "up"}

AfterCollection == {"create_index", "up"}

CallsHold ==
  \A c \in Callers :
    /\ step[c] \in AfterBucket => bucket
    /\ step[c] \in AfterCollection => collection = Dimension(c)

StartupInv == StartupTypeOK /\ CallsHold /\ IndexIsMade

\* A caller has the settings of a process.
LEMMA DimensionType ==
  ASSUME StartupTypeOK, NEW c \in Callers
  PROVE  Dimension(c) \in Dims
<1>1. CASE c \in Probes
  <2>1. Server[c] \in Containers
    BY <1>1, ProcessAssumption DEF Containers
  <2> QED
    BY <1>1, <2>1 DEF StartupTypeOK, Dimension
<1>2. CASE c \notin Probes
  BY <1>2 DEF StartupTypeOK, Dimension, Callers
<1> QED
  BY <1>1, <1>2

LEMMA InitStartup ==
  ASSUME StartupInit
  PROVE  StartupInv
<1>1. StartupTypeOK
  <2>1. step \in [Callers -> Steps]
    BY DEF StartupInit, Steps
  <2>2. faults \in 0 .. MaxFaults /\ crashes \in 0 .. MaxCrashes
    BY StartupAssumption DEF StartupInit
  <2> QED
    BY <2>1, <2>2 DEF StartupInit, StartupTypeOK
<1>2. \A c \in Callers : step[c] = "down"
  BY DEF StartupInit
<1>3. CallsHold
  BY <1>2 DEF CallsHold, AfterBucket, AfterCollection
<1>4. IndexIsMade
  BY DEF StartupInit, IndexIsMade
<1> QED
  BY <1>1, <1>3, <1>4 DEF StartupInv

LEMMA StartupTypeStep ==
  ASSUME StartupTypeOK, [StartupNext]_startupVars
  PROVE  StartupTypeOK'
<1> USE StartupAssumption DEF StartupTypeOK, Steps, Enter
<1>1. ASSUME NEW c \in Callers, Begin(c)
      PROVE  StartupTypeOK'
  BY <1>1 DEF Begin
<1>2. ASSUME NEW c \in Callers, HeadBucket(c)
      PROVE  StartupTypeOK'
  BY <1>2 DEF HeadBucket
<1>3. ASSUME NEW c \in Callers, CreateBucket(c)
      PROVE  StartupTypeOK'
  BY <1>3 DEF CreateBucket
<1>4. ASSUME NEW c \in Callers, GetCollection(c)
      PROVE  StartupTypeOK'
  BY <1>4 DEF GetCollection
<1>5. ASSUME NEW c \in Callers, CreateCollection(c)
      PROVE  StartupTypeOK'
  BY <1>5, DimensionType DEF CreateCollection
<1>6. ASSUME NEW c \in Callers, CreateIndex(c)
      PROVE  StartupTypeOK'
  BY <1>6 DEF CreateIndex
<1>7. ASSUME NEW c \in Callers, MissCollection(c)
      PROVE  StartupTypeOK'
  BY <1>7 DEF MissCollection
<1>8. ASSUME NEW c \in Callers, CallFails(c)
      PROVE  StartupTypeOK'
  BY <1>8 DEF CallFails
<1>9. ASSUME NEW c \in Callers, Finish(c)
      PROVE  StartupTypeOK'
  BY <1>9 DEF Finish
<1>10. ASSUME NEW c \in Containers, CrashProcess(c)
       PROVE  StartupTypeOK'
  BY <1>10 DEF CrashProcess
<1>11. CASE UNCHANGED startupVars
  BY <1>11 DEF startupVars
<1> QED
  BY <1>1, <1>2, <1>3, <1>4, <1>5, <1>6, <1>7, <1>8, <1>9, <1>10, <1>11
     DEF StartupNext, Proceed, Disturb

\* The bucket and the collection are made once and never removed; a collection
\* is not made while somebody relies on one.
LEMMA CallsStep ==
  ASSUME StartupInv, [StartupNext]_startupVars
  PROVE  CallsHold'
<1> USE DEF StartupInv, StartupTypeOK, CallsHold, AfterBucket, AfterCollection, Enter
<1>1. ASSUME UNCHANGED dim
      PROVE  \A c : Dimension(c)' = Dimension(c)
  BY <1>1 DEF Dimension
<1>2. ASSUME NEW c \in Callers, Begin(c)
      PROVE  CallsHold'
  BY <1>1, <1>2 DEF Begin
<1>3. ASSUME NEW c \in Callers, HeadBucket(c)
      PROVE  CallsHold'
  BY <1>1, <1>3 DEF HeadBucket
<1>4. ASSUME NEW c \in Callers, CreateBucket(c)
      PROVE  CallsHold'
  BY <1>1, <1>4 DEF CreateBucket
<1>5. ASSUME NEW c \in Callers, GetCollection(c)
      PROVE  CallsHold'
  BY <1>1, <1>5 DEF GetCollection
<1>6. ASSUME NEW c \in Callers, CreateCollection(c)
      PROVE  CallsHold'
  <2>1. CASE collection = NoCollection
    <3>1. \A d \in Callers : step[d] \notin AfterCollection
      BY <2>1, DimensionType, StartupAssumption
    <3> QED
      BY <1>1, <1>6, <2>1, <3>1 DEF CreateCollection
  <2>2. CASE collection # NoCollection
    BY <1>1, <1>6, <2>2 DEF CreateCollection
  <2> QED
    BY <2>1, <2>2
<1>7. ASSUME NEW c \in Callers, CreateIndex(c)
      PROVE  CallsHold'
  BY <1>1, <1>7 DEF CreateIndex
<1>8. ASSUME NEW c \in Callers, MissCollection(c)
      PROVE  CallsHold'
  BY <1>1, <1>8 DEF MissCollection
<1>9. ASSUME NEW c \in Callers, CallFails(c)
      PROVE  CallsHold'
  BY <1>1, <1>9 DEF CallFails
<1>10. ASSUME NEW c \in Callers, Finish(c)
       PROVE  CallsHold'
  BY <1>1, <1>10 DEF Finish
<1>11. ASSUME NEW c \in Containers, CrashProcess(c)
       PROVE  CallsHold'
  BY <1>1, <1>11 DEF CrashProcess
<1>12. CASE UNCHANGED startupVars
  BY <1>1, <1>12 DEF startupVars
<1> QED
  BY <1>2, <1>3, <1>4, <1>5, <1>6, <1>7, <1>8, <1>9, <1>10, <1>11, <1>12
     DEF StartupNext, Proceed, Disturb

\* Only the caller that made the collection comes to the index, and it leaves
\* for no other place without being noted in `interrupted`.
LEMMA IndexStep ==
  ASSUME StartupInv, [StartupNext]_startupVars
  PROVE  IndexIsMade'
<1> USE DEF StartupInv, StartupTypeOK, IndexIsMade, Enter
<1>1. ASSUME NEW c \in Callers, Begin(c)
      PROVE  IndexIsMade'
  BY <1>1 DEF Begin
<1>2. ASSUME NEW c \in Callers, HeadBucket(c)
      PROVE  IndexIsMade'
  BY <1>2 DEF HeadBucket
<1>3. ASSUME NEW c \in Callers, CreateBucket(c)
      PROVE  IndexIsMade'
  BY <1>3 DEF CreateBucket
<1>4. ASSUME NEW c \in Callers, GetCollection(c)
      PROVE  IndexIsMade'
  BY <1>4 DEF GetCollection
<1>5. ASSUME NEW c \in Callers, CreateCollection(c)
      PROVE  IndexIsMade'
  BY <1>5 DEF CreateCollection
<1>6. ASSUME NEW c \in Callers, CreateIndex(c)
      PROVE  IndexIsMade'
  BY <1>6 DEF CreateIndex
<1>7. ASSUME NEW c \in Callers, MissCollection(c)
      PROVE  IndexIsMade'
  BY <1>7 DEF MissCollection
<1>8. ASSUME NEW c \in Callers, CallFails(c)
      PROVE  IndexIsMade'
  BY <1>8 DEF CallFails
<1>9. ASSUME NEW c \in Callers, Finish(c)
      PROVE  IndexIsMade'
  BY <1>9 DEF Finish
<1>10. ASSUME NEW c \in Containers, CrashProcess(c)
       PROVE  IndexIsMade'
  BY <1>10 DEF CrashProcess
<1>11. CASE UNCHANGED startupVars
  BY <1>11 DEF startupVars
<1> QED
  BY <1>1, <1>2, <1>3, <1>4, <1>5, <1>6, <1>7, <1>8, <1>9, <1>10, <1>11
     DEF StartupNext, Proceed, Disturb

LEMMA StartupStep ==
  ASSUME StartupInv, [StartupNext]_startupVars
  PROVE  StartupInv'
BY StartupTypeStep, CallsStep, IndexStep DEF StartupInv

\* Whoever has started finds what startup() promises.
LEMMA InvIsUsable ==
  ASSUME StartupInv
  PROVE  StartedIsUsable
BY DEF StartupInv, CallsHold, AfterBucket, AfterCollection, StartedIsUsable

\* The inductive invariant holds in every reachable state.
THEOREM StartupInvariant == StartupSpec => []StartupInv
  BY InitStartup, StartupStep, PTL DEF StartupSpec

\* A process that is up, and a probe about to answer "ready", has its bucket
\* and a collection of its own vector size, however the starts of the others
\* interleave, fail or break off.
THEOREM StartedFindsItsStores == StartupSpec => []StartedIsUsable
  BY StartupInvariant, InvIsUsable, PTL

\* The payload index is missing only while its maker is about to make it, or
\* after its maker was stopped.
THEOREM IndexHasOneMaker == StartupSpec => []IndexIsMade
<1>1. StartupInv => IndexIsMade
  BY DEF StartupInv
<1> QED
  BY <1>1, StartupInvariant, PTL

-----------------------------------------------------------------------------
(***************************************************************************)
(* Embedding, for any batch size and documents of any number of chunks.    *)
(***************************************************************************)

\* The first n chunks, in their order.
First(n) == [i \in 1 .. n |-> i]

\* The loop has the vectors of the chunks before `start`.
LoopInv ==
  /\ stage = "embed" => start < count /\ vectors = First(start)
  /\ EveryChunkEmbedded

EmbeddingInv == EmbeddingTypeOK /\ LoopInv

\* A batch goes on where the vectors end.
LEMMA BatchContinues ==
  ASSUME NEW a \in Nat, NEW b \in Nat
  PROVE  First(a) \o [i \in 1 .. b |-> a + i] = First(a + b)
<1> DEFINE s == First(a)
           t == [i \in 1 .. b |-> a + i]
           u == First(a + b)
<1>1. s \in Seq(Nat) /\ Len(s) = a /\ \A i \in 1 .. a : s[i] = i
  BY DEF First
<1>2. t \in Seq(Nat) /\ Len(t) = b /\ \A i \in 1 .. b : t[i] = a + i
  OBVIOUS
<1>3. u \in Seq(Nat) /\ Len(u) = a + b /\ \A i \in 1 .. a + b : u[i] = i
  BY DEF First
<1> HIDE DEF s, t, u
<1>4. s \o t \in Seq(Nat) /\ Len(s \o t) = a + b
  BY <1>1, <1>2
<1>5. \A i \in 1 .. a + b : (s \o t)[i] = i
  BY <1>1, <1>2
<1>6. s \o t = u
  <2>1. Len(s \o t) = Len(u) /\ \A i \in 1 .. Len(s \o t) : (s \o t)[i] = u[i]
    BY <1>3, <1>4, <1>5
  <2> QED
    BY <1>3, <1>4, <2>1, SeqEqual, Zenon
<1> QED
  BY <1>6 DEF s, t, u

\* Before the first document there are no vectors.
LEMMA InitEmbedding ==
  ASSUME EmbeddingInit
  PROVE  EmbeddingInv
BY EmbeddingAssumption
   DEF EmbeddingInit, EmbeddingInv, EmbeddingTypeOK, LoopInv, EveryChunkEmbedded

\* The batch ends where the next one starts, or with the last chunk.
LEMMA BatchKeeps ==
  ASSUME EmbeddingInv, EmbedBatch
  PROVE  EmbeddingInv'
<1> USE EmbeddingAssumption
<1> DEFINE size == BatchEnd - start
<1>1. /\ start \in Nat /\ count \in 1 .. MaxChunks /\ start < count /\ stage = "embed"
      /\ vectors = First(start)
  BY DEF EmbedBatch, EmbeddingInv, EmbeddingTypeOK, LoopInv
<1>2. /\ BatchEnd \in 1 .. count /\ size \in Nat /\ start + size = BatchEnd
      /\ BatchEnd = IF start + BatchSize < count THEN start + BatchSize ELSE count
  BY <1>1 DEF BatchEnd
<1>3. vectors' = vectors \o [i \in 1 .. size |-> start + i]
  BY DEF EmbedBatch
<1> HIDE DEF size
<1>4. vectors' = First(BatchEnd)
  BY <1>1, <1>2, <1>3, BatchContinues
<1>5. /\ start' = start + BatchSize /\ count' = count /\ tries' = 0
      /\ stage' = IF start' < count THEN "embed" ELSE "embedded"
  BY DEF EmbedBatch
<1>6. First(BatchEnd) \in Seq(1 .. MaxChunks)
  BY <1>1, <1>2 DEF First
<1>7. EmbeddingTypeOK'
  BY <1>1, <1>4, <1>5, <1>6 DEF EmbeddingTypeOK
<1>8. LoopInv'
  BY <1>1, <1>2, <1>4, <1>5 DEF LoopInv, EveryChunkEmbedded, First
<1> QED
  BY <1>7, <1>8 DEF EmbeddingInv

\* Only a batch adds vectors; a retry repeats it from the same place.
LEMMA EmbeddingKeeps ==
  ASSUME EmbeddingInv, [EmbeddingNext]_<<configured, embeddingVars>>
  PROVE  EmbeddingInv'
<1> USE DEF EmbeddingInv, EmbeddingTypeOK, LoopInv, EveryChunkEmbedded
<1>1. CASE TakeDocument
  <2>1. First(0) = <<>>
    BY DEF First
  <2> QED
    BY <1>1, <2>1, EmbeddingAssumption DEF TakeDocument
<1>2. CASE EmbedBatch
  BY <1>2, BatchKeeps
<1>3. CASE RetryBatch
  BY <1>3 DEF RetryBatch, Retries
<1>4. CASE LoseDocument
  BY <1>4 DEF LoseDocument
<1>5. CASE DropDocument
  BY <1>5, EmbeddingAssumption DEF DropDocument
<1>6. CASE UNCHANGED <<configured, embeddingVars>>
  BY <1>6 DEF embeddingVars
<1> QED
  BY <1>1, <1>2, <1>3, <1>4, <1>5, <1>6 DEF EmbeddingNext, EmbeddingStep

\* What the loop hands to the upsert has one vector per chunk, in the order of
\* the chunks, for every batch size, number of chunks and pattern of retries.
THEOREM NoChunkWithoutVector == EmbeddingSpec => [](EmbeddingTypeOK /\ EveryChunkEmbedded)
<1>1. EmbeddingInv => EmbeddingTypeOK /\ EveryChunkEmbedded
  BY DEF EmbeddingInv, LoopInv
<1> QED
  BY <1>1, InitEmbedding, EmbeddingKeeps, PTL DEF EmbeddingSpec

\* The chunks that have no vector yet.
ChunksLeft == IF stage = "embed" THEN count - start ELSE 0

\* A batch lowers their number, and a batch has one retry.
BatchAdvances ==
  /\ ChunksLeft \in Nat /\ 1 - tries \in Nat
  /\ EmbeddingStep =>
       \/ ChunksLeft' < ChunksLeft
       \/ ChunksLeft' = ChunksLeft /\ 1 - tries' < 1 - tries

\* The loop over the batches of a document ends, whatever the provider does:
\* every request lowers a pair of natural numbers.
THEOREM BatchesRunOut == EmbeddingSpec => [][BatchAdvances]_<<configured, embeddingVars>>
<1>1. ASSUME EmbeddingInv
      PROVE  BatchAdvances
  <2> USE EmbeddingAssumption DEF EmbeddingInv, EmbeddingTypeOK, LoopInv, ChunksLeft
  <2>1. ChunksLeft \in Nat /\ 1 - tries \in Nat
    BY <1>1
  <2>2. EmbedBatch \/ LoseDocument => ChunksLeft' < ChunksLeft
    BY <1>1 DEF EmbedBatch, LoseDocument
  <2>3. RetryBatch => ChunksLeft' = ChunksLeft /\ 1 - tries' < 1 - tries
    BY <1>1 DEF RetryBatch, Retries
  <2> QED
    BY <2>1, <2>2, <2>3 DEF BatchAdvances, EmbeddingStep
<1> QED
  BY <1>1, InitEmbedding, EmbeddingKeeps, PTL DEF EmbeddingSpec

-----------------------------------------------------------------------------
(***************************************************************************)
(* The components.                                                         *)
(***************************************************************************)

\* Every step of the composition is a step of each component, or leaves it
\* alone: a crash discards the request and the document of its process.
LEMMA StepMaps ==
  ASSUME [ServingNext]_servingVars
  PROVE  /\ [StartupNext]_startupVars
         /\ [RetrievalNext]_<<configured, retrievalVars>>
         /\ [EmbeddingNext]_<<configured, embeddingVars>>
<1>1. ASSUME NEW c \in Callers, StartOf(c) \/ FaultOf(c) \/ EndOf(c)
      PROVE  StartupNext /\ UNCHANGED <<configured, retrievalVars, embeddingVars>>
  BY <1>1 DEF StartOf, FaultOf, EndOf, StartupNext
<1>2. ASSUME NEW c \in Containers, Crash(c)
      PROVE  /\ StartupNext
             /\ RetrievalNext \/ UNCHANGED <<configured, retrievalVars>>
             /\ EmbeddingNext \/ UNCHANGED <<configured, embeddingVars>>
  BY <1>2 DEF Crash, StartupNext, RetrievalNext, EmbeddingNext
<1>3. ASSUME Query
      PROVE  RetrievalNext /\ UNCHANGED <<configured, startupVars, embeddingVars>>
  <2>1. RetrievalNext /\ UNCHANGED <<startupVars, embeddingVars>>
    BY <1>3 DEF Query, RetrievalNext
  <2>2. UNCHANGED configured
    BY <2>1
       DEF RetrievalNext, RetrievalStep, Receive, EmbedQuery, Search, SkipHit, TakeHit,
           EndSelection, AskModel, KeepLabel, DropLabel, KeepCharacter, Respond, Discard
  <2> QED
    BY <2>1, <2>2
<1>4. ASSUME Embed
      PROVE  EmbeddingNext /\ UNCHANGED <<configured, startupVars, retrievalVars>>
  <2>1. EmbeddingNext /\ UNCHANGED <<startupVars, retrievalVars>>
    BY <1>4 DEF Embed, EmbeddingNext
  <2>2. UNCHANGED configured
    BY <2>1
       DEF EmbeddingNext, EmbeddingStep, TakeDocument, EmbedBatch, RetryBatch, LoseDocument,
           DropDocument
  <2> QED
    BY <2>1, <2>2
<1>5. ASSUME UNCHANGED servingVars
      PROVE  UNCHANGED <<configured, startupVars, retrievalVars, embeddingVars>>
  BY <1>5 DEF servingVars
<1> QED
  BY <1>1, <1>2, <1>3, <1>4, <1>5 DEF ServingNext

\* The composition implements start-up, retrieval and embedding.
THEOREM ServingImplements == ServingSpec => StartupSpec /\ RetrievalSpec /\ EmbeddingSpec
<1>1. ServingInit => StartupInit /\ RetrievalInit /\ EmbeddingInit
  BY DEF ServingInit
<1> QED
  BY <1>1, StepMaps, PTL DEF ServingSpec, StartupSpec, RetrievalSpec, EmbeddingSpec

-----------------------------------------------------------------------------
(***************************************************************************)
(* The theorems.                                                           *)
(***************************************************************************)

ConfiguredInv == configured \in BOOLEAN

\* Every variable of the composition stays inside its type.
THEOREM ServingTypeCorrect == ServingSpec => []ServingTypeOK
<1>1. ConfiguredInv /\ [ServingNext]_servingVars => ConfiguredInv'
  BY StepMaps
     DEF ConfiguredInv, RetrievalNext, RetrievalStep, Receive, EmbedQuery, Search, SkipHit,
         TakeHit, EndSelection, AskModel, KeepLabel, DropLabel, KeepCharacter, Respond, Discard
<1>2. ServingInit => ConfiguredInv
  BY DEF ServingInit, RetrievalInit, ConfiguredInv
<1>3. StartupInv => StartupTypeOK
  BY DEF StartupInv
<1>4. ConfiguredInv /\ StartupTypeOK /\ RetrievalTypeOK /\ EmbeddingTypeOK => ServingTypeOK
  BY DEF ServingTypeOK, ConfiguredInv
<1> QED
  BY <1>1, <1>2, <1>3, <1>4, ServingImplements, StartupInvariant, RetrievalTypeCorrect,
     NoChunkWithoutVector, PTL DEF ServingSpec

\* The invariants of the components hold of the composition.
THEOREM ComponentsKeepTheirPromises ==
  ServingSpec =>
    []( /\ StartedIsUsable
        /\ IndexIsMade
        /\ EveryChunkEmbedded
        /\ ContextIsLongestPrefix
        /\ CitationsAreGrounded
        /\ CitationsFollowLabels
        /\ LabelsNameSources
        /\ OnlyFalseLabelsRemoved)
  BY ServingImplements, StartedFindsItsStores, IndexHasOneMaker, NoChunkWithoutVector,
     ContextIsBest, AnswersAreGrounded, CitationsInOrderOfLabels, SentLabelsNameSources,
     OnlyFalseLabelsGo, PTL
=============================================================================
