----------------------- MODULE JobSubmission_proofs -----------------------
(***************************************************************************)
(* Theorems about JobSubmission, for any number of concurrent calls and    *)
(* any keys and bodies.                                                    *)
(***************************************************************************)
EXTENDS JobSubmission, Recursion, SequenceTheorems

-----------------------------------------------------------------------------
(***************************************************************************)
(* Type correctness.                                                       *)
(***************************************************************************)

LEMMA DocumentsType ==
  ASSUME request \in [Requests -> [key : Keys \cup {NoKey}, body : Bodies]]
  PROVE  \A r \in Requests : Documents(r) \in Seq(Document) /\ Len(Documents(r)) \in Nat
  BY BodiesAssumption DEF Documents

LEMMA TypeStep ==
  ASSUME TypeOK, [Next]_vars
  PROVE  TypeOK'
<1> USE DEF TypeOK, PC, Kinds, Status, Terminal, Work, Documents, Goto, Reach, rows
<1>1. ASSUME NEW r \in Requests, Call(r)
      PROVE  TypeOK'
  BY <1>1 DEF Call
<1>2. ASSUME NEW r \in Requests, Lookup(r)
      PROVE  TypeOK'
  <2>1. WithKey(r) \subseteq Requests
    BY DEF WithKey
  <2> QED
    BY <1>2, <2>1 DEF Lookup, Answer
<1>3. ASSUME NEW r \in Requests, CreateJob(r)
      PROVE  TypeOK'
  BY <1>3 DEF CreateJob, Answer
<1>4. ASSUME NEW r \in Requests, PutSource(r)
      PROVE  TypeOK'
  BY <1>4 DEF PutSource
<1>5. ASSUME NEW r \in Requests, AllStored(r)
      PROVE  TypeOK'
  BY <1>5 DEF AllStored, Following
<1>6. ASSUME NEW r \in Requests, PutFails(r)
      PROVE  TypeOK'
  BY <1>6 DEF PutFails
<1>7. ASSUME NEW r \in Requests, FailJob(r)
      PROVE  TypeOK'
  BY <1>7 DEF FailJob
<1>8. ASSUME NEW r \in Requests, MarkJobQueued(r)
      PROVE  TypeOK'
  BY <1>8 DEF MarkJobQueued, Following
<1>9. ASSUME NEW r \in Requests, RecordEvent(r)
      PROVE  TypeOK'
  BY <1>9 DEF RecordEvent
<1>10. ASSUME NEW r \in Requests, AppendEvent(r)
      PROVE  TypeOK'
  BY <1>10 DEF AppendEvent, Answer, Following
<1>11. ASSUME NEW r \in Requests, Enqueue(r)
      PROVE  TypeOK'
  BY <1>11 DEF Enqueue, Following
<1>12. ASSUME NEW r \in Requests, Reload(r)
      PROVE  TypeOK'
  BY <1>12 DEF Reload, Answer
<1>13. ASSUME NEW r \in Requests, Abandon(r)
      PROVE  TypeOK'
  BY <1>13 DEF Abandon, Answer
<1>14. ASSUME NEW j \in Requests, NEW w \in Workers, Load(j, w)
      PROVE  TypeOK'
  BY <1>14 DEF Load
<1>15. ASSUME NEW j \in Requests, NEW w \in Workers, Claim(j, w)
      PROVE  TypeOK'
  BY <1>15 DEF Claim
<1>16. ASSUME NEW j \in Requests, NEW w \in Workers, Finish(j, w)
      PROVE  TypeOK'
  BY <1>16 DEF Finish
<1>17. ASSUME NEW j \in Requests, NEW w \in Workers, GiveUp(j, w)
      PROVE  TypeOK'
  BY <1>17 DEF GiveUp
<1>18. CASE UNCHANGED vars
  BY <1>18 DEF vars
<1> QED
  BY <1>1, <1>2, <1>3, <1>4, <1>5, <1>6, <1>7, <1>8, <1>9, <1>10, <1>11, <1>12, <1>13,
     <1>14, <1>15, <1>16, <1>17, <1>18 DEF Next, Step, WorkerStep, Rest

\* Every variable stays inside its type.
THEOREM TypeCorrect == Spec => []TypeOK
<1>1. Init => TypeOK
  BY DocumentsType DEF Init, TypeOK, PC, Kinds, Status, Work
<1> QED
  BY <1>1, TypeStep, PTL DEF Spec

-----------------------------------------------------------------------------
(***************************************************************************)
(* The state of a job while its submit is on the way: the program point    *)
(* says what has been made durable so far.                                 *)
(***************************************************************************)

Queued(r) == status[r] = "queued" /\ stored[r] = Len(Documents(r)) /\ kind[r] = "queued"

Progress(r) ==
  /\ pc[r] \in {"idle", "lookup", "create"} => status[r] = "absent"
  /\ pc[r] \in {"put", "fail_job"} => status[r] = "uploading"
  /\ pc[r] = "mark_queued" => status[r] = "uploading" /\ stored[r] = Len(Documents(r))
  /\ pc[r] \in {"record", "append"} => Queued(r) \/ (kind[r] = "failed" /\ status[r] = "failed")
  /\ pc[r] = "append" => audited[r] = kind[r]
  /\ pc[r] = "enqueue" => Queued(r) /\ audited[r] = "queued" /\ streamed[r] = "queued"
  /\ pc[r] \notin {"reload", "done"} => r \notin tasks
  /\ \A w \in Workers : work[r][w] # "idle" => r \in tasks

ProgressInv == (\A r \in Requests : Progress(r)) /\ EnqueuedIsReady

LEMMA ProgressStep ==
  ASSUME TypeOK, ProgressInv, [Next]_vars
  PROVE  ProgressInv'
<1> USE DEF TypeOK, ProgressInv, Progress, Queued, EnqueuedIsReady, Documents, Goto, rows
<1>1. ASSUME NEW r \in Requests, Call(r)
      PROVE  ProgressInv'
  BY <1>1 DEF Call
<1>2. ASSUME NEW r \in Requests, Lookup(r)
      PROVE  ProgressInv'
  BY <1>2 DEF Lookup, Answer
<1>3. ASSUME NEW r \in Requests, CreateJob(r)
      PROVE  ProgressInv'
  <2>1. /\ UNCHANGED <<request, kind, stored, audited, streamed, tasks, work>>
        /\ pc[r] = "create" /\ status[r] = "absent" /\ r \notin tasks
        /\ \/ pc' = [pc EXCEPT ![r] = "put"] /\ status' = [status EXCEPT ![r] = "uploading"]
           \/ pc' = [pc EXCEPT ![r] = "done"] /\ status' = status
    BY <1>3 DEF CreateJob, Answer
  <2> QED
    BY <2>1
<1>4. ASSUME NEW r \in Requests, PutSource(r)
      PROVE  ProgressInv'
  BY <1>4 DEF PutSource
<1>5. ASSUME NEW r \in Requests, AllStored(r)
      PROVE  ProgressInv'
  BY <1>5 DEF AllStored, Following
<1>6. ASSUME NEW r \in Requests, PutFails(r)
      PROVE  ProgressInv'
  BY <1>6 DEF PutFails
<1>7. ASSUME NEW r \in Requests, FailJob(r)
      PROVE  ProgressInv'
  <2>1. r \notin tasks
    BY <1>7 DEF FailJob
  <2>2. \A j \in Requests : Progress(j)'
    BY <1>7, <2>1 DEF FailJob
  <2>3. EnqueuedIsReady'
    BY <1>7, <2>1 DEF FailJob
  <2> QED
    BY <2>2, <2>3
<1>8. ASSUME NEW r \in Requests, MarkJobQueued(r)
      PROVE  ProgressInv'
  BY <1>8 DEF MarkJobQueued, Following
<1>9. ASSUME NEW r \in Requests, RecordEvent(r)
      PROVE  ProgressInv'
  BY <1>9 DEF RecordEvent
<1>10. ASSUME NEW r \in Requests, AppendEvent(r)
      PROVE  ProgressInv'
  BY <1>10 DEF AppendEvent, Answer, Following
<1>11. ASSUME NEW r \in Requests, Enqueue(r)
      PROVE  ProgressInv'
  BY <1>11 DEF Enqueue, Following
<1>12. ASSUME NEW r \in Requests, Reload(r)
      PROVE  ProgressInv'
  BY <1>12 DEF Reload, Answer
<1>13. ASSUME NEW r \in Requests, Abandon(r)
      PROVE  ProgressInv'
  BY <1>13 DEF Abandon, Answer
<1>14. ASSUME NEW j \in Requests, NEW w \in Workers, Load(j, w)
      PROVE  ProgressInv'
  BY <1>14 DEF Load, Reach, Terminal
<1>15. ASSUME NEW j \in Requests, NEW w \in Workers, Claim(j, w)
      PROVE  ProgressInv'
  BY <1>15 DEF Claim, Reach, Terminal
<1>16. ASSUME NEW j \in Requests, NEW w \in Workers, Finish(j, w)
      PROVE  ProgressInv'
  BY <1>16 DEF Finish, Reach, Terminal
<1>17. ASSUME NEW j \in Requests, NEW w \in Workers, GiveUp(j, w)
      PROVE  ProgressInv'
  BY <1>17 DEF GiveUp, Reach, Terminal
<1>18. CASE UNCHANGED vars
  BY <1>18 DEF vars
<1> QED
  BY <1>1, <1>2, <1>3, <1>4, <1>5, <1>6, <1>7, <1>8, <1>9, <1>10, <1>11, <1>12, <1>13,
     <1>14, <1>15, <1>16, <1>17, <1>18 DEF Next, Step, WorkerStep, Rest

\* No worker is ever sent a job that is not ready for it.
THEOREM OnlyReadyJobsAreEnqueued == Spec => []EnqueuedIsReady
<1>1. Init => TypeOK /\ ProgressInv
  BY DocumentsType DEF Init, TypeOK, PC, Kinds, Status, Work, ProgressInv, Progress, EnqueuedIsReady
<1>2. TypeOK /\ ProgressInv /\ [Next]_vars => (TypeOK /\ ProgressInv)'
  BY TypeStep, ProgressStep
<1>3. TypeOK /\ ProgressInv => EnqueuedIsReady
  BY DEF ProgressInv
<1> QED
  BY <1>1, <1>2, <1>3, PTL DEF Spec

-----------------------------------------------------------------------------
(***************************************************************************)
(* The digest of a list of documents.                                      *)
(***************************************************************************)

\* Fields are sequences of bytes.
LEMMA DocumentFields ==
  ASSUME NEW d \in Document
  PROVE  /\ d.name \in Seq(Byte) /\ d.content \in Seq(Byte)
         /\ Field(d.name) \in Seq(Byte) /\ Field(d.content) \in Seq(Byte)
         /\ d = [name |-> d.name, content |-> d.content]
<1>1. <<Nul>> \in Seq(Byte) /\ d.name \in Seq(Byte) /\ d.content \in Seq(Byte)
  BY DEF Document, Byte, Nul
<1>2. Field(d.name) \in Seq(Byte) /\ Field(d.content) \in Seq(Byte)
  BY <1>1, ConcatProperties DEF Field
<1> QED
  BY <1>1, <1>2 DEF Document

LEMMA DocumentIsBytes ==
  ASSUME NEW d \in Document
  PROVE  Fields(d) \in Seq(Byte)
  BY DocumentFields, ConcatProperties DEF Fields

\* The digest grows by the fields of one document at a time.
LEMMA DigestByPrefix ==
  ASSUME NEW ds \in Seq(Document)
  PROVE  \E D \in [0 .. Len(ds) -> Seq(Byte)] :
           /\ D[0] = <<>>
           /\ \A k \in 1 .. Len(ds) : D[k] = D[k - 1] \o Fields(ds[k])
           /\ digest_documents(ds) = D[Len(ds)]
<1> DEFINE n == Len(ds)
           S == Seq(Byte)
           Digests(f) == f = [k \in 0 .. n |-> IF k = 0 THEN <<>> ELSE f[k - 1] \o Fields(ds[k])]
           chosen == CHOOSE f : Digests(f)
           step == [k \in Int |-> [v \in S |-> IF k \in 1 .. n THEN v \o Fields(ds[k]) ELSE v]]
<1>1. digest_documents(ds) = chosen[n]
  BY DEF digest_documents
<1>2. n \in Nat /\ n \in Int /\ 0 <= n /\ 0 \in Int /\ <<>> \in S
  OBVIOUS
<1>3. \A k \in 1 .. n, v \in S : v \o Fields(ds[k]) \in S
  BY DocumentIsBytes, ConcatProperties
<1>4. step \in [Int -> [S -> S]]
  BY <1>3
<1>5. \A k \in 1 .. n, v \in S : step[k][v] = v \o Fields(ds[k])
  OBVIOUS
<1> HIDE DEF chosen, step, S
<1>6. PICK f \in [0 .. n -> S] : Follows(f, 0, n, <<>>, step)
  <2> HIDE DEF n
  <2> QED
    BY <1>2, <1>4, RecursionExists
<1>7. \A k \in 0 .. n : k = 0 \/ (k \in 1 .. n /\ k - 1 \in 0 .. n)
  BY <1>2
<1>8. \A k \in 0 .. n : f[k] = IF k = 0 THEN <<>> ELSE f[k - 1] \o Fields(ds[k])
  BY <1>5, <1>6, <1>7 DEF Follows
<1>9. Digests(f)
  BY <1>8
<1>10. Digests(chosen)
  BY <1>9 DEF chosen
<1>11. \A k \in 0 .. n : chosen[k] = IF k = 0 THEN <<>> ELSE chosen[k - 1] \o Fields(ds[k])
  BY <1>10
<1>12. Parallel(chosen, f, 0, n)
  BY <1>8, <1>11 DEF Parallel
<1>13. Agree(chosen, f, 0, n)
  BY <1>2, <1>12, RecursionUnique
<1>14. chosen[n] = f[n]
  BY <1>2, <1>13 DEF Agree
<1> QED
  BY <1>1, <1>2, <1>6, <1>8, <1>14 DEF S

\* s is x, the field f and its separator.
FieldAt(s, x, f) ==
  /\ s \in Seq(Byte)
  /\ Len(s) = Len(x) + Len(f) + 1
  /\ s[Len(s)] = Nul
  /\ \A i \in 1 .. Len(x) : s[i] = x[i]
  /\ \A i \in 1 .. Len(f) : s[Len(x) + i] = f[i]

LEMMA FieldAfter ==
  ASSUME NEW x \in Seq(Byte), NEW f \in Seq(Byte)
  PROVE  FieldAt(x \o Field(f), x, f)
<1>1. <<Nul>> \in Seq(Byte) /\ Len(<<Nul>>) = 1 /\ <<Nul>>[1] = Nul
  BY DEF Byte, Nul
<1> DEFINE g == Field(f)
           s == x \o g
<1>2. /\ g \in Seq(Byte) /\ Len(g) = Len(f) + 1
      /\ \A i \in 1 .. Len(f) + 1 : g[i] = IF i <= Len(f) THEN f[i] ELSE <<Nul>>[i - Len(f)]
  BY <1>1, ConcatProperties DEF Field
<1>3. Len(x) \in Nat /\ Len(f) \in Nat
  OBVIOUS
<1>4. g[Len(f) + 1] = Nul /\ \A i \in 1 .. Len(f) : g[i] = f[i]
  BY <1>1, <1>2, <1>3
<1> HIDE DEF g
<1>5. /\ s \in Seq(Byte) /\ Len(s) = Len(x) + Len(g)
      /\ \A i \in 1 .. Len(x) + Len(g) : s[i] = IF i <= Len(x) THEN x[i] ELSE g[i - Len(x)]
  <2>1. g \in Seq(Byte)
    BY <1>2
  <2> QED
    BY <2>1, ConcatProperties
<1> HIDE DEF s
<1>6. Len(s) = Len(x) + Len(f) + 1
  BY <1>2, <1>3, <1>5
<1>7. s[Len(s)] = Nul
  BY <1>2, <1>3, <1>4, <1>5, <1>6
<1>8. \A i \in 1 .. Len(x) : s[i] = x[i]
  BY <1>2, <1>3, <1>5
<1>9. ASSUME NEW i \in 1 .. Len(f)
      PROVE  s[Len(x) + i] = f[i]
  <2>1. /\ Len(x) + i \in 1 .. Len(x) + Len(g)
        /\ ~ (Len(x) + i <= Len(x))
        /\ (Len(x) + i) - Len(x) = i
    BY <1>2, <1>3
  <2> QED
    BY <1>4, <1>5, <2>1
<1>10. FieldAt(s, x, f)
  BY <1>5, <1>6, <1>7, <1>8, <1>9 DEF FieldAt
<1> QED
  BY <1>10 DEF s, g

\* A digest is empty or ends with a separator.
Closed(x) == x = <<>> \/ x[Len(x)] = Nul

\* The last field can be read off when there is no separator in it.
LEMMA LastField ==
  ASSUME NEW x \in Seq(Byte), NEW y \in Seq(Byte), Closed(x), Closed(y),
         NEW f \in Seq(Byte), NEW g \in Seq(Byte), Clean(f), Clean(g),
         NEW s, FieldAt(s, x, f), FieldAt(s, y, g)
  PROVE  x = y /\ f = g
<1>2. PICK n \in Nat, k \in Nat, u \in Nat, v \in Nat :
        n = Len(x) /\ k = Len(f) /\ u = Len(y) /\ v = Len(g)
  OBVIOUS
<1>3. /\ Len(s) = n + k + 1
      /\ \A i \in 1 .. n : s[i] = x[i]
      /\ \A i \in 1 .. k : s[n + i] = f[i]
  BY <1>2 DEF FieldAt
<1>4. /\ Len(s) = u + v + 1
      /\ \A i \in 1 .. u : s[i] = y[i]
      /\ \A i \in 1 .. v : s[u + i] = g[i]
  BY <1>2 DEF FieldAt
<1>5. (n # 0 => s[n] = Nul) /\ (u # 0 => s[u] = Nul)
  <2>1. (n # 0 => x[n] = Nul /\ n \in 1 .. n) /\ (u # 0 => y[u] = Nul /\ u \in 1 .. u)
    BY <1>2 DEF Closed
  <2> QED
    BY <1>3, <1>4, <2>1
<1>6. /\ \A i \in n + 1 .. n + k : s[i] # Nul
      /\ \A i \in u + 1 .. u + v : s[i] # Nul
  <2>1. ASSUME NEW i \in n + 1 .. n + k
        PROVE  s[i] # Nul
    <3>1. i - n \in 1 .. k /\ n + (i - n) = i /\ i - n \in DOMAIN f
      BY <1>2
    <3> QED
      BY <1>3, <3>1 DEF Clean
  <2>2. ASSUME NEW i \in u + 1 .. u + v
        PROVE  s[i] # Nul
    <3>1. i - u \in 1 .. v /\ u + (i - u) = i /\ i - u \in DOMAIN g
      BY <1>2
    <3> QED
      BY <1>4, <3>1 DEF Clean
  <2> QED
    BY <2>1, <2>2
<1>7. n = u /\ k = v
  <2>1. n + k = u + v
    BY <1>3, <1>4
  <2>2. ~ (n < u)
    <3> SUFFICES ASSUME n < u
                 PROVE  FALSE
      OBVIOUS
    <3>1. u \in n + 1 .. n + k /\ u # 0
      BY <2>1
    <3> QED
      BY <1>5, <1>6, <3>1
  <2>3. ~ (u < n)
    <3> SUFFICES ASSUME u < n
                 PROVE  FALSE
      OBVIOUS
    <3>1. n \in u + 1 .. u + v /\ n # 0
      BY <2>1
    <3> QED
      BY <1>5, <1>6, <3>1
  <2> QED
    BY <2>1, <2>2, <2>3
<1>8. Len(x) = Len(y) /\ \A i \in 1 .. Len(x) : x[i] = y[i]
  BY <1>2, <1>3, <1>4, <1>7
<1>9. Len(f) = Len(g) /\ \A i \in 1 .. Len(f) : f[i] = g[i]
  BY <1>2, <1>3, <1>4, <1>7
<1> QED
  BY <1>8, <1>9, SeqEqual

\* s begins with the field f.
Begins(s, f, x) == s = Field(f) \o x

\* So can the first one.
LEMMA FirstField ==
  ASSUME NEW f \in Seq(Byte), NEW g \in Seq(Byte), Clean(f), Clean(g),
         NEW x \in Seq(Byte), NEW y \in Seq(Byte),
         NEW s, Begins(s, f, x), Begins(s, g, y)
  PROVE  f = g /\ x = y
<1>1. <<>> \in Seq(Byte) /\ Len(<<>>) = 0
  OBVIOUS
<1>2. /\ Field(f) \in Seq(Byte) /\ Field(g) \in Seq(Byte)
      /\ <<>> \o Field(f) = Field(f) /\ <<>> \o Field(g) = Field(g)
  <2>1. <<Nul>> \in Seq(Byte)
    BY DEF Byte, Nul
  <2>2. Field(f) \in Seq(Byte) /\ Field(g) \in Seq(Byte)
    BY <2>1, ConcatProperties DEF Field
  <2> QED
    BY <2>2, ConcatEmptySeq
<1>3. PICK k \in Nat, v \in Nat : k = Len(f) /\ v = Len(g)
  OBVIOUS
<1>4. /\ Len(Field(f)) = k + 1 /\ Field(f)[k + 1] = Nul
      /\ \A i \in 1 .. k : Field(f)[i] = f[i]
  <2>1. FieldAt(Field(f), <<>>, f)
    BY <1>1, <1>2, FieldAfter
  <2>2. /\ Len(Field(f)) = Len(<<>>) + Len(f) + 1
        /\ Field(f)[Len(Field(f))] = Nul
        /\ \A i \in 1 .. Len(f) : Field(f)[Len(<<>>) + i] = f[i]
    BY <2>1 DEF FieldAt
  <2> QED
    BY <1>1, <1>3, <2>2
<1>5. /\ Len(Field(g)) = v + 1 /\ Field(g)[v + 1] = Nul
      /\ \A i \in 1 .. v : Field(g)[i] = g[i]
  <2>1. FieldAt(Field(g), <<>>, g)
    BY <1>1, <1>2, FieldAfter
  <2>2. /\ Len(Field(g)) = Len(<<>>) + Len(g) + 1
        /\ Field(g)[Len(Field(g))] = Nul
        /\ \A i \in 1 .. Len(g) : Field(g)[Len(<<>>) + i] = g[i]
    BY <2>1 DEF FieldAt
  <2> QED
    BY <1>1, <1>3, <2>2
<1>6. s = Field(f) \o x /\ s = Field(g) \o y
  BY DEF Begins
<1>7. /\ \A i \in 1 .. k + 1 : s[i] = Field(f)[i]
      /\ \A i \in 1 .. v + 1 : s[i] = Field(g)[i]
  <2>1. \A i \in 1 .. Len(Field(f)) + Len(x) :
           (Field(f) \o x)[i] = IF i <= Len(Field(f)) THEN Field(f)[i] ELSE x[i - Len(Field(f))]
    BY <1>2, ConcatProperties
  <2>2. \A i \in 1 .. Len(Field(g)) + Len(y) :
           (Field(g) \o y)[i] = IF i <= Len(Field(g)) THEN Field(g)[i] ELSE y[i - Len(Field(g))]
    BY <1>2, ConcatProperties
  <2>3. Len(x) \in Nat /\ Len(y) \in Nat
    OBVIOUS
  <2>4. ASSUME NEW i \in 1 .. k + 1
        PROVE  s[i] = Field(f)[i]
    <3>1. i \in 1 .. Len(Field(f)) + Len(x) /\ i <= Len(Field(f))
      BY <1>4, <2>3
    <3>2. (Field(f) \o x)[i] = Field(f)[i]
      BY <2>1, <3>1
    <3> QED
      BY <1>6, <3>2
  <2>5. ASSUME NEW i \in 1 .. v + 1
        PROVE  s[i] = Field(g)[i]
    <3>1. i \in 1 .. Len(Field(g)) + Len(y) /\ i <= Len(Field(g))
      BY <1>5, <2>3
    <3>2. (Field(g) \o y)[i] = Field(g)[i]
      BY <2>2, <3>1
    <3> QED
      BY <1>6, <3>2
  <2> QED
    BY <2>4, <2>5
<1>8. k = v
  <2>1. s[k + 1] = Nul /\ s[v + 1] = Nul
    BY <1>4, <1>5, <1>7
  <2>2. ~ (k < v)
    <3> SUFFICES ASSUME k < v
                 PROVE  FALSE
      OBVIOUS
    <3>1. k + 1 \in 1 .. v /\ k + 1 \in 1 .. v + 1 /\ k + 1 \in DOMAIN g
      BY <1>3
    <3> QED
      BY <1>5, <1>7, <2>1, <3>1 DEF Clean
  <2>3. ~ (v < k)
    <3> SUFFICES ASSUME v < k
                 PROVE  FALSE
      OBVIOUS
    <3>1. v + 1 \in 1 .. k /\ v + 1 \in 1 .. k + 1 /\ v + 1 \in DOMAIN f
      BY <1>3
    <3> QED
      BY <1>4, <1>7, <2>1, <3>1 DEF Clean
  <2> QED
    BY <2>2, <2>3
<1>9. f = g
  <2>1. \A i \in 1 .. k : f[i] = g[i]
    BY <1>4, <1>5, <1>7, <1>8
  <2> QED
    BY <1>3, <1>8, <2>1, SeqEqual
<1> QED
  BY <1>2, <1>6, <1>9, ConcatSimplifications

\* A single document can be read off its fields when its name has no separator
\* in it.
LEMMA SingleDocument ==
  ASSUME NEW d \in Document, NEW e \in Document, Clean(d.name), Clean(e.name),
         Fields(d) = Fields(e)
  PROVE  d = e
<1>1. /\ Begins(Fields(d), d.name, Field(d.content))
      /\ Begins(Fields(d), e.name, Field(e.content))
  BY DEF Fields, Begins
<1>2. d.name = e.name /\ Field(d.content) = Field(e.content)
  BY <1>1, DocumentFields, FirstField
<1>3. <<Nul>> \in Seq(Byte)
  BY DEF Byte, Nul
<1>4. d.content = e.content
  BY <1>2, <1>3, DocumentFields, ConcatSimplifications DEF Field
<1> QED
  BY <1>2, <1>4, DocumentFields

\* A document after x ends with its content, which follows its name.
LEMMA DocumentAfter ==
  ASSUME NEW x \in Seq(Byte), NEW d \in Document
  PROVE  \E a \in Seq(Byte) : /\ FieldAt(a, x, d.name)
                              /\ FieldAt(x \o Fields(d), a, d.content)
<1> DEFINE a == x \o Field(d.name)
<1>1. FieldAt(a, x, d.name)
  BY DocumentFields, FieldAfter
<1>2. a \in Seq(Byte)
  BY <1>1 DEF FieldAt
<1>3. FieldAt(a \o Field(d.content), a, d.content)
  <2> HIDE DEF a
  <2> QED
    BY <1>2, DocumentFields, FieldAfter
<1>4. a \o Field(d.content) = x \o Fields(d)
  <2>1. PICK f \in Seq(Byte), g \in Seq(Byte) : f = Field(d.name) /\ g = Field(d.content)
    BY DocumentFields
  <2>2. (x \o f) \o g = x \o (f \o g)
    BY ConcatAssociative
  <2> QED
    BY <2>1, <2>2 DEF Fields
<1> QED
  BY <1>1, <1>2, <1>3, <1>4

\* s ends with the fields of d.
Ends(s, x, d) == s = x \o Fields(d)

\* The last document can be read off a digest when there is no separator in it.
LEMMA LastDocument ==
  ASSUME NEW x \in Seq(Byte), NEW y \in Seq(Byte), Closed(x), Closed(y),
         NEW d \in Document, NEW e \in Document,
         Clean(d.name), Clean(e.name), Clean(d.content), Clean(e.content),
         NEW s, Ends(s, x, d), Ends(s, y, e)
  PROVE  x = y /\ d = e
<1>1. /\ d.name \in Seq(Byte) /\ d.content \in Seq(Byte)
      /\ e.name \in Seq(Byte) /\ e.content \in Seq(Byte)
  BY DocumentFields
<1>2. PICK a \in Seq(Byte) : FieldAt(a, x, d.name) /\ FieldAt(s, a, d.content)
  BY DocumentAfter DEF Ends
<1>3. PICK b \in Seq(Byte) : FieldAt(b, y, e.name) /\ FieldAt(s, b, e.content)
  BY DocumentAfter DEF Ends
<1>4. Closed(a) /\ Closed(b)
  BY <1>2, <1>3 DEF FieldAt, Closed
<1>5. a = b /\ d.content = e.content
  BY <1>1, <1>2, <1>3, <1>4, LastField
<1>6. x = y /\ d.name = e.name
  BY <1>1, <1>2, <1>3, <1>5, LastField
<1> QED
  BY <1>5, <1>6, DocumentFields

\* The digest of documents with separable fields tells them apart, number and
\* order included.
THEOREM DigestSeparates ==
  ASSUME NEW ds \in Seq(Document), NEW es \in Seq(Document), Separable(ds, es),
         digest_documents(ds) = digest_documents(es)
  PROVE  ds = es
<1>1. PICK D \in [0 .. Len(ds) -> Seq(Byte)] :
        /\ D[0] = <<>>
        /\ \A k \in 1 .. Len(ds) : D[k] = D[k - 1] \o Fields(ds[k])
        /\ digest_documents(ds) = D[Len(ds)]
  BY DigestByPrefix
<1>2. PICK E \in [0 .. Len(es) -> Seq(Byte)] :
        /\ E[0] = <<>>
        /\ \A k \in 1 .. Len(es) : E[k] = E[k - 1] \o Fields(es[k])
        /\ digest_documents(es) = E[Len(es)]
  BY DigestByPrefix
<1>3. /\ Len(ds) \in Nat /\ Len(es) \in Nat
      /\ \A k \in 1 .. Len(ds) : ds[k] \in Document
      /\ \A k \in 1 .. Len(es) : es[k] \in Document
  OBVIOUS
<1>4. ASSUME NEW x \in Seq(Byte), NEW d \in Document
      PROVE  Closed(x \o Fields(d)) /\ x \o Fields(d) # <<>>
  <2>1. PICK a \in Seq(Byte) : FieldAt(x \o Fields(d), a, d.content)
    BY DocumentAfter
  <2>2. Len(a) \in Nat /\ Len(d.content) \in Nat
    BY DocumentFields
  <2> QED
    BY <2>1, <2>2 DEF FieldAt, Closed
<1>5. /\ \A k \in 0 .. Len(ds) : Closed(D[k]) /\ (k # 0 => D[k] # <<>>)
      /\ \A k \in 0 .. Len(es) : Closed(E[k]) /\ (k # 0 => E[k] # <<>>)
  <2>1. ASSUME NEW k \in 0 .. Len(ds)
        PROVE  Closed(D[k]) /\ (k # 0 => D[k] # <<>>)
    <3>1. CASE k = 0
      BY <1>1, <3>1 DEF Closed
    <3>2. CASE k # 0
      <4>1. k \in 1 .. Len(ds) /\ k - 1 \in 0 .. Len(ds)
        BY <1>3, <3>2
      <4>2. D[k] = D[k - 1] \o Fields(ds[k]) /\ D[k - 1] \in Seq(Byte) /\ ds[k] \in Document
        BY <1>1, <1>3, <4>1
      <4> QED
        BY <1>4, <4>2
    <3> QED
      BY <3>1, <3>2
  <2>2. ASSUME NEW k \in 0 .. Len(es)
        PROVE  Closed(E[k]) /\ (k # 0 => E[k] # <<>>)
    <3>1. CASE k = 0
      BY <1>2, <3>1 DEF Closed
    <3>2. CASE k # 0
      <4>1. k \in 1 .. Len(es) /\ k - 1 \in 0 .. Len(es)
        BY <1>3, <3>2
      <4>2. E[k] = E[k - 1] \o Fields(es[k]) /\ E[k - 1] \in Seq(Byte) /\ es[k] \in Document
        BY <1>2, <1>3, <4>1
      <4> QED
        BY <1>4, <4>2
    <3> QED
      BY <3>1, <3>2
  <2> QED
    BY <2>1, <2>2
<1>6. CASE Len(ds) = 1 /\ Len(es) = 1
  <2>1. /\ 1 \in 1 .. Len(ds) /\ 1 \in 1 .. Len(es) /\ 1 - 1 = 0
        /\ 1 \in DOMAIN ds /\ 1 \in DOMAIN es
    BY <1>6
  <2>2. <<>> \o Fields(ds[1]) = <<>> \o Fields(es[1])
    <3>1. digest_documents(ds) = D[1] /\ D[1] = D[0] \o Fields(ds[1])
      BY <1>1, <1>6, <2>1
    <3>2. digest_documents(es) = E[1] /\ E[1] = E[0] \o Fields(es[1])
      BY <1>2, <1>6, <2>1
    <3> QED
      BY <1>1, <1>2, <3>1, <3>2
  <2>3. Clean(ds[1].name) /\ Clean(es[1].name)
    BY <2>1 DEF Separable, CleanNames
  <2>4. Fields(ds[1]) = Fields(es[1])
    BY <1>3, <2>1, <2>2, DocumentIsBytes, ConcatEmptySeq
  <2>5. ds[1] = es[1]
    BY <1>3, <2>1, <2>3, <2>4, SingleDocument
  <2> QED
    BY <1>6, <2>5
<1>7. CASE CleanContents(ds) /\ CleanContents(es)
  <2> DEFINE Same(m, n) == m = n /\ \A i \in 1 .. m : ds[i] = es[i]
             G == {m \in Nat : m <= Len(ds) =>
                     \A n \in 0 .. Len(es) : D[m] = E[n] => Same(m, n)}
  <2>1. 0 \in G
    <3>1. ASSUME NEW n \in 0 .. Len(es), D[0] = E[n]
          PROVE  Same(0, n)
      <4>1. n = 0
        BY <1>1, <1>5, <3>1
      <4> QED
        BY <4>1
    <3> QED
      BY <3>1
  <2>2. ASSUME NEW m \in Nat, m \in G
        PROVE  m + 1 \in G
    <3> SUFFICES ASSUME m + 1 <= Len(ds), NEW n \in 0 .. Len(es), D[m + 1] = E[n]
                 PROVE  Same(m + 1, n)
      OBVIOUS
    <3>1. /\ m + 1 \in 0 .. Len(ds) /\ m + 1 \in 1 .. Len(ds) /\ m + 1 # 0 /\ (m + 1) - 1 = m
          /\ m \in 0 .. Len(ds) /\ m <= Len(ds)
      BY <1>3
    <3>2. n # 0
      BY <1>2, <1>5, <3>1
    <3>3. n \in 1 .. Len(es) /\ n - 1 \in 0 .. Len(es)
      BY <1>3, <3>2
    <3>4. E[n] = D[m] \o Fields(ds[m + 1]) /\ E[n] = E[n - 1] \o Fields(es[n])
      BY <1>1, <1>2, <3>1, <3>3
    <3>5. /\ D[m] \in Seq(Byte) /\ Closed(D[m]) /\ ds[m + 1] \in Document
          /\ E[n - 1] \in Seq(Byte) /\ Closed(E[n - 1]) /\ es[n] \in Document
      BY <1>1, <1>2, <1>3, <1>5, <3>1, <3>3
    <3>6. /\ Clean(ds[m + 1].name) /\ Clean(ds[m + 1].content)
          /\ Clean(es[n].name) /\ Clean(es[n].content)
      BY <1>3, <1>7, <3>1, <3>3 DEF Separable, CleanNames, CleanContents
    <3>7. D[m] = E[n - 1] /\ ds[m + 1] = es[n]
      <4> HIDE DEF G
      <4>1. PICK x \in Seq(Byte), y \in Seq(Byte), d \in Document, e \in Document :
              x = D[m] /\ y = E[n - 1] /\ d = ds[m + 1] /\ e = es[n]
        BY <3>5
      <4>2. /\ Ends(E[n], x, d) /\ Ends(E[n], y, e) /\ Closed(x) /\ Closed(y)
            /\ Clean(d.name) /\ Clean(e.name) /\ Clean(d.content) /\ Clean(e.content)
        BY <3>4, <3>5, <3>6, <4>1 DEF Ends
      <4>3. x = y /\ d = e
        BY <4>2, LastDocument
      <4> QED
        BY <4>1, <4>3
    <3>8. Same(m, n - 1)
      BY <2>2, <3>1, <3>3, <3>7
    <3>9. n = m + 1
      BY <3>3, <3>8
    <3> QED
      BY <3>1, <3>7, <3>8, <3>9
  <2>3. Len(ds) \in G
    <3> HIDE DEF G
    <3> QED
      BY <1>3, <2>1, <2>2, Induction
  <2>4. Same(Len(ds), Len(es))
    BY <1>1, <1>2, <1>3, <2>3
  <2> QED
    BY <2>4
<1> QED
  BY <1>6, <1>7 DEF Separable

-----------------------------------------------------------------------------
(***************************************************************************)
(* Idempotency keys.                                                       *)
(***************************************************************************)

SameKey(r, s) == request[r].key = request[s].key /\ request[r].key # NoKey

Committed(r) == status[r] # "absent"

KeysUnique ==
  \A r, s \in Requests : Committed(r) /\ Committed(s) /\ SameKey(r, s) => r = s

CommitPoint ==
  \A r \in Requests : /\ pc[r] \in {"idle", "lookup", "create"} => ~ Committed(r)
                      /\ pc[r] \notin {"idle", "lookup", "create", "done"} => Committed(r)

AnswersMatch ==
  \A r \in Requests : IsJob(answer[r]) =>
    /\ Committed(answer[r])
    /\ answer[r] = r \/ SameKey(answer[r], r)
    /\ SameHash(r, answer[r])

KeyInv == KeysUnique /\ CommitPoint /\ AnswersMatch

LEMMA KeyStep ==
  ASSUME TypeOK, ProgressInv, KeyInv, [Next]_vars
  PROVE  KeyInv'
<1> USE AnswersAssumption DEF TypeOK, KeyInv, KeysUnique, CommitPoint, AnswersMatch,
                              Committed, SameKey, IsJob, Goto, rows
<1>0. ASSUME UNCHANGED request
      PROVE  \A r, j : SameHash(r, j)' <=> SameHash(r, j)
  BY <1>0 DEF SameHash, Documents
<1>1. ASSUME NEW r \in Requests, Call(r)
      PROVE  KeyInv'
  BY <1>1, <1>0 DEF Call
<1>2. ASSUME NEW r \in Requests, Lookup(r)
      PROVE  KeyInv'
  <2>1. CASE WithKey(r) = {} /\ Goto(r, "create") /\ UNCHANGED answer
    BY <1>2, <1>0, <2>1 DEF Lookup
  <2>2. ASSUME NEW j \in WithKey(r), Answer(r, IF SameHash(r, j) THEN j ELSE Conflict)
        PROVE  KeyInv'
    <3>1. j \in Requests /\ Committed(j) /\ SameKey(j, r)
      BY DEF WithKey
    <3>2. KeysUnique' /\ CommitPoint'
      BY <1>2, <2>2 DEF Lookup, Answer
    <3>3. AnswersMatch'
      BY <1>2, <1>0, <2>2, <3>1 DEF Lookup, Answer
    <3> QED
      BY <3>2, <3>3
  <2> QED
    BY <1>2, <2>1, <2>2 DEF Lookup
<1>3. ASSUME NEW r \in Requests, CreateJob(r)
      PROVE  KeyInv'
  <2>1. CASE WithKey(r) = {}
    <3>1. \A s \in Requests : Committed(s) => ~ SameKey(s, r)
      BY <2>1 DEF WithKey
    <3>2. \A s \in Requests : Committed(s)' <=> s = r \/ Committed(s)
      BY <1>3, <2>1 DEF CreateJob
    <3>3. KeysUnique'
      <4>1. UNCHANGED request
        BY <1>3 DEF CreateJob
      <4> QED
        BY <3>1, <3>2, <4>1
    <3>4. CommitPoint'
      BY <1>3, <2>1, <3>2 DEF CreateJob
    <3>5. AnswersMatch'
      <4>1. UNCHANGED <<request, answer>>
        BY <1>3, <2>1 DEF CreateJob
      <4> QED
        BY <1>0, <3>2, <4>1
    <3> QED
      BY <3>3, <3>4, <3>5
  <2>2. CASE WithKey(r) # {}
    <3>1. /\ UNCHANGED <<status, request>>
          /\ Goto(r, "done")
          /\ answer' = [answer EXCEPT ![r] = Error]
      BY <1>3, <2>2 DEF CreateJob, Answer
    <3>2. \A s \in Requests : IsJob(answer'[s]) => answer'[s] = answer[s]
      BY <3>1
    <3>3. KeysUnique' /\ CommitPoint'
      BY <3>1
    <3>4. AnswersMatch'
      BY <1>0, <3>1, <3>2
    <3> QED
      BY <3>3, <3>4
  <2> QED
    BY <2>1, <2>2
<1>4. ASSUME NEW r \in Requests, PutSource(r)
      PROVE  KeyInv'
  BY <1>4, <1>0 DEF PutSource
<1>5. ASSUME NEW r \in Requests, AllStored(r)
      PROVE  KeyInv'
  BY <1>5, <1>0 DEF AllStored, Following
<1>6. ASSUME NEW r \in Requests, PutFails(r)
      PROVE  KeyInv'
  BY <1>6, <1>0 DEF PutFails
<1>7. ASSUME NEW r \in Requests, FailJob(r)
      PROVE  KeyInv'
  BY <1>7, <1>0 DEF FailJob
<1>8. ASSUME NEW r \in Requests, MarkJobQueued(r)
      PROVE  KeyInv'
  BY <1>8, <1>0 DEF MarkJobQueued, Following
<1>9. ASSUME NEW r \in Requests, RecordEvent(r)
      PROVE  KeyInv'
  BY <1>9, <1>0 DEF RecordEvent
<1>10. ASSUME NEW r \in Requests, AppendEvent(r)
      PROVE  KeyInv'
  <2>1. \A s \in Requests : Committed(s)' <=> Committed(s)
    BY <1>10 DEF AppendEvent, Answer, Following
  <2>2. KeysUnique'
    BY <1>10, <2>1 DEF AppendEvent, Answer, Following
  <2>3. CommitPoint'
    BY <1>10, <2>1 DEF AppendEvent, Answer, Following
  <2>4. AnswersMatch'
    <3>1. UNCHANGED request
      BY <1>10 DEF AppendEvent
    <3>2. \A s \in Requests : IsJob(answer'[s]) => answer'[s] = answer[s]
      BY <1>10 DEF AppendEvent, Answer
    <3> QED
      BY <1>0, <2>1, <3>1, <3>2
  <2> QED
    BY <2>2, <2>3, <2>4
<1>11. ASSUME NEW r \in Requests, Enqueue(r)
      PROVE  KeyInv'
  BY <1>11, <1>0 DEF Enqueue, Following
<1>12. ASSUME NEW r \in Requests, Reload(r)
      PROVE  KeyInv'
  <2>1. /\ pc[r] = "reload" /\ UNCHANGED <<request, status>>
        /\ pc' = [pc EXCEPT ![r] = "done"] /\ answer' = [answer EXCEPT ![r] = r]
    BY <1>12 DEF Reload, Answer
  <2>2. KeysUnique' /\ CommitPoint'
    BY <2>1
  <2>3. AnswersMatch'
    <3>1. SameHash(r, r) /\ Committed(r)
      BY <2>1 DEF SameHash
    <3>2. \A s \in Requests : answer'[s] = answer[s] \/ (s = r /\ answer'[s] = r)
      BY <2>1
    <3> QED
      BY <1>0, <2>1, <3>1, <3>2
  <2> QED
    BY <2>2, <2>3
<1>13. ASSUME NEW r \in Requests, Abandon(r)
      PROVE  KeyInv'
  BY <1>13, <1>0 DEF Abandon, Answer
<1>14. ASSUME NEW j \in Requests, NEW w \in Workers, Load(j, w)
      PROVE  KeyInv'
  BY <1>14, <1>0 DEF Load
<1>15. ASSUME NEW j \in Requests, NEW w \in Workers, Claim(j, w)
      PROVE  KeyInv'
  <2>0. status[j] # "absent"
    BY <1>15 DEF Claim, ProgressInv, Progress, EnqueuedIsReady, Terminal
  <2>1. \A s \in Requests : Committed(s)' <=> Committed(s)
    BY <1>15, <2>0 DEF Claim
  <2>2. KeysUnique'
    BY <1>15, <2>1 DEF Claim
  <2>3. CommitPoint'
    BY <1>15, <2>1 DEF Claim
  <2>4. AnswersMatch'
    BY <1>15, <1>0, <2>1 DEF Claim
  <2> QED
    BY <2>2, <2>3, <2>4
<1>16. ASSUME NEW j \in Requests, NEW w \in Workers, Finish(j, w)
      PROVE  KeyInv'
  <2>0. status[j] # "absent"
    BY <1>16 DEF Finish, ProgressInv, Progress, EnqueuedIsReady, Terminal
  <2>1. \A s \in Requests : Committed(s)' <=> Committed(s)
    BY <1>16, <2>0 DEF Finish, Terminal
  <2>2. KeysUnique'
    BY <1>16, <2>1 DEF Finish
  <2>3. CommitPoint'
    BY <1>16, <2>1 DEF Finish
  <2>4. AnswersMatch'
    BY <1>16, <1>0, <2>1 DEF Finish
  <2> QED
    BY <2>2, <2>3, <2>4
<1>17. ASSUME NEW j \in Requests, NEW w \in Workers, GiveUp(j, w)
      PROVE  KeyInv'
  BY <1>17, <1>0 DEF GiveUp
<1>18. CASE UNCHANGED vars
  BY <1>18, <1>0 DEF vars
<1> QED
  BY <1>1, <1>2, <1>3, <1>4, <1>5, <1>6, <1>7, <1>8, <1>9, <1>10, <1>11, <1>12, <1>13,
     <1>14, <1>15, <1>16, <1>17, <1>18 DEF Next, Step, WorkerStep, Rest

LEMMA KeyInvariant == Spec => [](TypeOK /\ ProgressInv /\ KeyInv)
<1> DEFINE I == TypeOK /\ ProgressInv /\ KeyInv
<1>1. Init => I
  BY AnswersAssumption, DocumentsType
     DEF Init, TypeOK, PC, Kinds, Status, Work, ProgressInv, Progress, EnqueuedIsReady,
         KeyInv, KeysUnique, CommitPoint, AnswersMatch, Committed, SameKey, IsJob
<1>2. I /\ [Next]_vars => I'
  BY TypeStep, ProgressStep, KeyStep
<1> QED
  BY <1>1, <1>2, PTL DEF Spec

\* A key is answered with one job only, whatever the interleaving of the calls.
THEOREM KeysAreIdempotent == Spec => []KeyNamesOneJob
<1>1. TypeOK /\ ProgressInv /\ KeyInv => KeyNamesOneJob
  <2> SUFFICES ASSUME KeyInv, NEW r \in Requests, NEW s \in Requests,
                      request[r].key = request[s].key, request[r].key # NoKey,
                      IsJob(answer[r]), IsJob(answer[s])
               PROVE  answer[r] = answer[s]
    BY DEF KeyNamesOneJob
  <2>1. /\ answer[r] \in Requests /\ Committed(answer[r])
        /\ request[answer[r]].key = request[r].key
    BY DEF KeyInv, AnswersMatch, SameKey, IsJob
  <2>2. /\ answer[s] \in Requests /\ Committed(answer[s])
        /\ request[answer[s]].key = request[r].key
    BY DEF KeyInv, AnswersMatch, SameKey, IsJob
  <2> QED
    BY <2>1, <2>2 DEF KeyInv, KeysUnique, SameKey
<1> QED
  BY <1>1, KeyInvariant, PTL

\* No call is answered with a job made from other documents, unless their
\* fields contain the separator of the digest.
THEOREM ReplaysMatch == Spec => []ReplayMatchesDocuments
<1>1. TypeOK /\ ProgressInv /\ KeyInv => ReplayMatchesDocuments
  <2> SUFFICES ASSUME TypeOK, KeyInv, NEW r \in Requests, IsJob(answer[r]),
                      Separable(Documents(r), Documents(answer[r]))
               PROVE  Documents(answer[r]) = Documents(r)
    BY DEF ReplayMatchesDocuments
  <2>1. SameHash(r, answer[r]) /\ answer[r] \in Requests
    BY DEF KeyInv, AnswersMatch, IsJob
  <2>2. Documents(r) \in Seq(Document) /\ Documents(answer[r]) \in Seq(Document)
    BY <2>1, DocumentsType DEF TypeOK
  <2> QED
    BY <2>1, <2>2, DigestSeparates DEF SameHash
<1> QED
  BY <1>1, KeyInvariant, PTL

-----------------------------------------------------------------------------
(***************************************************************************)
(* What API and worker do to the status.                                   *)
(***************************************************************************)

\* Until a job is sent only submit writes its status, afterwards only the
\* copies of its message do.
LEMMA StatusWriters ==
  ASSUME TypeOK, ProgressInv, [Next]_vars, NEW j \in Requests
  PROVE  \/ status'[j] = status[j]
         \/ /\ j \notin tasks
            /\ \/ status[j] = "absent" /\ status'[j] = "uploading"
               \/ status[j] = "uploading" /\ status'[j] \in {"queued", "failed"}
         \/ /\ j \in tasks
            /\ \E w \in Workers : \/ Claim(j, w) /\ status'[j] = "processing"
                                  \/ Finish(j, w) /\ status'[j] \in Terminal
<1> USE DEF TypeOK, ProgressInv, Progress, Goto, Reach, rows
<1>1. ASSUME NEW r \in Requests, Call(r) \/ Lookup(r) \/ PutSource(r) \/ AllStored(r)
             \/ PutFails(r) \/ RecordEvent(r) \/ AppendEvent(r) \/ Enqueue(r)
             \/ Reload(r) \/ Abandon(r)
      PROVE  status' = status
  BY <1>1 DEF Call, Lookup, PutSource, AllStored, PutFails, RecordEvent, AppendEvent,
              Enqueue, Reload, Abandon
<1>2. ASSUME NEW r \in Requests, CreateJob(r)
      PROVE  \/ status' = status
             \/ status[r] = "absent" /\ r \notin tasks /\ status' = [status EXCEPT ![r] = "uploading"]
  BY <1>2 DEF CreateJob
<1>3. ASSUME NEW r \in Requests, FailJob(r) \/ MarkJobQueued(r)
      PROVE  /\ status[r] = "uploading" /\ r \notin tasks
             /\ \E s \in {"queued", "failed"} : status' = [status EXCEPT ![r] = s]
  BY <1>3 DEF FailJob, MarkJobQueued
<1>4. ASSUME NEW i \in Requests, NEW w \in Workers, Load(i, w) \/ GiveUp(i, w)
      PROVE  status' = status
  BY <1>4 DEF Load, GiveUp
<1>5. ASSUME NEW i \in Requests, NEW w \in Workers, Claim(i, w)
      PROVE  i \in tasks /\ status' = [status EXCEPT ![i] = "processing"]
  BY <1>5 DEF Claim
<1>6. ASSUME NEW i \in Requests, NEW w \in Workers, Finish(i, w)
      PROVE  i \in tasks /\ \E s \in Terminal : status' = [status EXCEPT ![i] = s]
  BY <1>6 DEF Finish
<1>7. CASE UNCHANGED vars
  BY <1>7 DEF vars
<1>8. CASE \E r \in Requests : Call(r) \/ Step(r) \/ PutFails(r) \/ Abandon(r)
  <2>1. PICK r \in Requests : Call(r) \/ Step(r) \/ PutFails(r) \/ Abandon(r)
    BY <1>8
  <2> QED
    BY <2>1, <1>1, <1>2, <1>3 DEF Step
<1>9. CASE \E i \in Requests, w \in Workers : WorkerStep(i, w)
  <2>1. PICK i \in Requests, w \in Workers : WorkerStep(i, w)
    BY <1>9
  <2>2. CASE Load(i, w) \/ GiveUp(i, w)
    BY <2>2, <1>4
  <2>3. CASE Claim(i, w)
    BY <2>3, <1>5
  <2>4. CASE Finish(i, w)
    BY <2>4, <1>6
  <2> QED
    BY <2>1, <2>2, <2>3, <2>4 DEF WorkerStep
<1> QED
  BY <1>7, <1>8, <1>9 DEF Next, Rest

\* However many copies of its message run, the API never sets a job back that a
\* worker has.
THEOREM WorkersKeepTheirJobs == Spec => HandedOver
<1>1. TypeOK /\ ProgressInv /\ [Next]_vars =>
        [\A j \in Requests : status[j] \in {"processing"} \cup Terminal
                             => status'[j] \in {"processing"} \cup Terminal]_status
  BY StatusWriters DEF Terminal
<1> QED
  BY <1>1, KeyInvariant, PTL DEF Spec, HandedOver

\* One copy of each message is executed at a time.
OneCopy == \A v, w \in Workers : v = w

\* The only copy acts on a status that is still true.
CopyInv ==
  \A j \in Requests, w \in Workers :
    /\ work[j][w] = "loaded" => status[j] \in {"queued", "processing"}
    /\ work[j][w] = "claimed" => status[j] = "processing"

LEMMA CopyStep ==
  ASSUME OneCopy, TypeOK, ProgressInv, CopyInv, [Next]_vars
  PROVE  CopyInv'
<1> USE DEF TypeOK, CopyInv, Reach, rows
<1>1. ASSUME NEW j \in Requests, NEW w \in Workers, Load(j, w)
      PROVE  CopyInv'
  <2>1. status[j] \in {"queued", "processing"}
    BY <1>1 DEF Load, ProgressInv, EnqueuedIsReady
  <2> QED
    BY <1>1, <2>1 DEF Load
<1>2. ASSUME NEW j \in Requests, NEW w \in Workers, Claim(j, w)
      PROVE  CopyInv'
  BY <1>2 DEF Claim, OneCopy
<1>3. ASSUME NEW j \in Requests, NEW w \in Workers, Finish(j, w)
      PROVE  CopyInv'
  BY <1>3 DEF Finish, OneCopy
<1>4. ASSUME NEW j \in Requests, NEW w \in Workers, GiveUp(j, w)
      PROVE  CopyInv'
  BY <1>4 DEF GiveUp
<1>5. CASE UNCHANGED work
  <2>1. \A j \in Requests, w \in Workers : ~ Claim(j, w) /\ ~ Finish(j, w)
    BY <1>5 DEF Claim, Finish
  <2>2. \A j \in Requests : j \in tasks => status'[j] = status[j]
    BY <2>1, StatusWriters
  <2>3. \A j \in Requests, w \in Workers : work[j][w] # "idle" => j \in tasks
    BY DEF ProgressInv, Progress
  <2> QED
    BY <1>5, <2>2, <2>3
<1>6. [Next]_vars => \/ UNCHANGED work
                     \/ \E j \in Requests, w \in Workers : WorkerStep(j, w)
  BY DEF Next, Step, Rest, vars, Call, Lookup, CreateJob, PutSource, AllStored, PutFails,
         FailJob, MarkJobQueued, RecordEvent, AppendEvent, Enqueue, Reload, Abandon
<1> QED
  BY <1>1, <1>2, <1>3, <1>4, <1>5, <1>6 DEF WorkerStep

\* While one copy is executed at a time, every step of the API and the worker is
\* a step of the life cycle of each job, or leaves it alone.
LEMMA LifecycleStep ==
  ASSUME TypeOK, ProgressInv, CopyInv, [Next]_vars, NEW j \in Requests
  PROVE  [Life(j)!Next]_(status[j])
<1> USE DEF Life!Next, Life!Create, Life!Refuse, Life!Queue, Life!Start, Life!Finish,
            Life!Terminal
<1>1. CASE status'[j] = status[j]
  BY <1>1
<1>2. CASE \/ status[j] = "absent" /\ status'[j] = "uploading"
           \/ status[j] = "uploading" /\ status'[j] \in {"queued", "failed"}
  BY <1>2
<1>3. ASSUME NEW w \in Workers, Claim(j, w), status'[j] = "processing"
      PROVE  [Life(j)!Next]_(status[j])
  <2>1. status[j] \in {"queued", "processing"}
    BY <1>3 DEF Claim, CopyInv
  <2> QED
    BY <1>3, <2>1
<1>4. ASSUME NEW w \in Workers, Finish(j, w), status'[j] \in Terminal
      PROVE  [Life(j)!Next]_(status[j])
  <2>1. status[j] = "processing"
    BY <1>4 DEF Finish, CopyInv
  <2> QED
    BY <1>4, <2>1 DEF Terminal
<1> QED
  BY <1>1, <1>2, <1>3, <1>4, StatusWriters

\* While one copy of a message is executed at a time, JobSubmission implements
\* JobLifecycle, job by job.
THEOREM OneCopyImplementsLifecycle ==
  ASSUME OneCopy
  PROVE  Spec => JobsFollowLifecycle
<1>1. Init => CopyInv /\ \A j \in Requests : Life(j)!Init
  BY DEF Init, CopyInv, Life!Init
<1>2. TypeOK /\ ProgressInv /\ CopyInv /\ [Next]_vars => CopyInv'
  BY CopyStep
<1>3. TypeOK /\ ProgressInv /\ CopyInv /\ [Next]_vars =>
        [\A j \in Requests : [Life(j)!Next]_(status[j])]_status
  BY LifecycleStep
<1> QED
  BY <1>1, <1>2, <1>3, KeyInvariant, PTL DEF Spec, JobsFollowLifecycle
=============================================================================
