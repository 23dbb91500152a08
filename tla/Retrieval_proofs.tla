-------------------------- MODULE Retrieval_proofs --------------------------
(***************************************************************************)
(* Theorems about Retrieval, for any collection, limits and answers of the *)
(* model.                                                                  *)
(***************************************************************************)
EXTENDS Retrieval, Recursion

-----------------------------------------------------------------------------
(***************************************************************************)
(* The inductive invariant, one conjunct per stage of the handler.         *)
(***************************************************************************)

\* No value is listed twice.
Distinct(s) == \A i, j \in DOMAIN s : s[i] = s[j] => i = j

\* What the search returned.
HitsInv ==
  /\ Len(hits) <= topK
  /\ Distinct(hits)
  /\ \A i \in DOMAIN hits : NamespaceOf[hits[i]] = namespace

\* The context is taken from the hits that the loop has passed.
ContextInv ==
  /\ place <= Len(hits) + 1
  /\ Len(context) < place
  /\ Distinct(context)
  /\ \A n \in DOMAIN context :
       Score[context[n]] >= MinScore /\ \E k \in 1 .. place - 1 : context[n] = hits[k]
  /\ Len(context) <= 1 \/ total <= MaxContext

\* The labels that were kept are places in the context.
CitedInv ==
  /\ Distinct(cited)
  /\ \A i \in DOMAIN cited : cited[i] \in DOMAIN context

\* What a program point has yet to compute is empty there.
PhaseInv ==
  /\ phase \in {"idle", "embed", "search"} => hits = <<>>
  /\ phase \in {"idle", "embed", "search", "select"} => cited = <<>>
  /\ phase \in {"answer", "validate"} => context # <<>>
  /\ phase # "done" => citations = <<>>
  /\ phase \in {"idle", "search", "select"} => attempt = 0
  /\ phase \in {"idle", "embed", "search", "select"} => chats = 0
  /\ phase = "answer" => chats = attempt

\* The citations are chunks of the context, each once.
CitationsInv ==
  /\ Distinct(citations)
  /\ \A i \in DOMAIN citations : \E n \in DOMAIN context : citations[i] = context[n]

\* The inductive invariant.
RetrievalInv ==
  RetrievalTypeOK /\ HitsInv /\ ContextInv /\ CitedInv /\ PhaseInv /\ CitationsInv

-----------------------------------------------------------------------------
(***************************************************************************)
(* Facts about the operators.                                              *)
(***************************************************************************)

\* What Qdrant may return is a list of points, at most topK of them.
LEMMA ResultsFacts ==
  ASSUME topK \in Nat, NEW s \in Results
  PROVE  /\ s \in Seq(Chunks) /\ Len(s) <= topK
         /\ Distinct(s)
         /\ \A i \in DOMAIN s : NamespaceOf[s[i]] = namespace
<1>1. PICK n \in 0 .. topK : s \in [1 .. n -> Chunks]
  BY DEF Results
<1>2. s \in Seq(Chunks) /\ Len(s) = n /\ DOMAIN s = 1 .. n
  BY <1>1
<1>3. \A i, j \in 1 .. n : i < j => s[i] # s[j]
  BY <1>2 DEF Results
<1>4. \A i, j \in 1 .. n : s[i] = s[j] => i = j
  BY <1>3
<1>5. Distinct(s)
  BY <1>2, <1>4 DEF Distinct
<1> QED
  BY <1>1, <1>2, <1>5 DEF Results

\* A label has one end.
LEMMA LabelEndIsEnd ==
  ASSUME NEW t \in Text, NEW i \in Nat \ {0}, LabelAt(t, i)
  PROVE  /\ LabelEnd(t, i) \in DOMAIN t /\ i + 2 <= LabelEnd(t, i)
         /\ IsLabel(t, i, LabelEnd(t, i))
         /\ \A j \in DOMAIN t : IsLabel(t, i, j) => j = LabelEnd(t, i)
<1>1. \E j \in DOMAIN t : IsLabel(t, i, j)
  BY DEF LabelAt
<1>2. LabelEnd(t, i) \in DOMAIN t /\ IsLabel(t, i, LabelEnd(t, i))
  BY <1>1 DEF LabelEnd
<1>3. \A j, k \in DOMAIN t : IsLabel(t, i, j) /\ IsLabel(t, i, k) => ~ (j < k)
  BY DEF IsLabel, Digit, Close, Text
<1>4. DOMAIN t \subseteq Int
  BY DEF Text
<1> QED
  BY <1>2, <1>3, <1>4 DEF IsLabel

\* A stripped text goes from the first to the last character to be seen.
LEMMA TrimmedFacts ==
  ASSUME NEW t \in Text
  PROVE  /\ Trimmed(t) \in Text
         /\ \/ Shows(t) = {} /\ Trimmed(t) = <<>>
            \/ \E a, b \in Shows(t) : /\ a <= b
                                    /\ Trimmed(t) = SubSeq(t, a, b)
                                    /\ \A k \in Shows(t) : a <= k /\ k <= b
<1>1. /\ Len(t) \in Nat /\ DOMAIN t = 1 .. Len(t) /\ Shows(t) \in SUBSET Nat
      /\ \A k \in Shows(t) : k <= Len(t) /\ k \in 1 .. Len(t)
  BY DEF Text, Shows
<1>2. CASE Shows(t) = {}
  BY <1>2 DEF Trimmed, Text
<1>3. CASE Shows(t) # {}
  <2> DEFINE a == CHOOSE i \in Shows(t) : \A j \in Shows(t) : i <= j
             b == CHOOSE j \in Shows(t) : \A i \in Shows(t) : i <= j
  <2>1. a \in Shows(t) /\ \A k \in Shows(t) : a <= k
    <3>1. \E i \in Shows(t) : \A j \in Shows(t) : i <= j
      BY <1>1, <1>3, LeastNumber
    <3> QED
      BY <3>1
  <2>2. b \in Shows(t) /\ \A k \in Shows(t) : k <= b
    <3>1. \E j \in Shows(t) : \A i \in Shows(t) : i <= j
      BY <1>1, <1>3, GreatestNumber
    <3> QED
      BY <3>1
  <2>3. Trimmed(t) = SubSeq(t, a, b)
    BY <1>3 DEF Trimmed
  <2> HIDE DEF a, b
  <2>4. SubSeq(t, a, b) \in Text
    BY <1>1, <2>1, <2>2 DEF Text
  <2> QED
    BY <2>1, <2>2, <2>3, <2>4
<1> QED
  BY <1>2, <1>3

\* Listing another value keeps a list free of repetitions.
LEMMA AppendDistinct ==
  ASSUME NEW S, NEW s \in Seq(S), NEW e \in S, Distinct(s), \A i \in DOMAIN s : s[i] # e
  PROVE  Append(s, e) \in Seq(S) /\ Distinct(Append(s, e))
<1>1. /\ Append(s, e) \in Seq(S) /\ Len(Append(s, e)) = Len(s) + 1
      /\ \A i \in 1 .. Len(s) : Append(s, e)[i] = s[i]
      /\ Append(s, e)[Len(s) + 1] = e
  OBVIOUS
<1>2. \A i \in DOMAIN Append(s, e) : i \in 1 .. Len(s) \/ i = Len(s) + 1
  BY <1>1
<1>3. \A i, j \in 1 .. Len(s) : s[i] = s[j] => i = j
  BY DEF Distinct
<1>4. \A i \in 1 .. Len(s) : s[i] # e
  OBVIOUS
<1> QED
  BY <1>1, <1>2, <1>3, <1>4 DEF Distinct

-----------------------------------------------------------------------------
(***************************************************************************)
(* Types.                                                                  *)
(***************************************************************************)

\* A step keeps the types; the two attempts are what bounds the calls.
LEMMA RetrievalTypeStep ==
  ASSUME RetrievalTypeOK, PhaseInv, CitedInv, [RetrievalNext]_<<configured, retrievalVars>>
  PROVE  RetrievalTypeOK'
<1> USE RequestAssumption, PointsAssumption
    DEF RetrievalTypeOK, request, search, result, Phases
<1>1. CASE Receive
  BY <1>1 DEF Receive
<1>2. CASE EmbedQuery
  <2>1. phase' \in Phases /\ attempt' \in 0 .. 1 /\ status' \in {0, 200, 500, 502, 503}
    BY <1>2 DEF EmbedQuery, Fail, Retries
  <2>2. UNCHANGED <<request, search, chats, result, citations>>
    BY <1>2 DEF EmbedQuery, Fail
  <2> QED
    BY <2>1, <2>2
<1>3. CASE Search
  <2>1. hits' \in Seq(Chunks)
    BY <1>3, ResultsFacts DEF Search, Fail
  <2>2. phase' \in Phases /\ status' \in {0, 200, 500, 502, 503}
    BY <1>3 DEF Search, Fail
  <2>3. UNCHANGED <<request, attempt, place, context, total, chats, result, citations>>
    BY <1>3 DEF Search, Fail
  <2> QED
    BY <2>1, <2>2, <2>3
<1>4. CASE SkipHit
  BY <1>4 DEF SkipHit
<1>5. CASE TakeHit
  <2>1. hits[place] \in Chunks /\ Size[hits[place]] \in Nat
    BY <1>5 DEF TakeHit
  <2>2. context' \in Seq(Chunks)
    BY <1>5, <2>1 DEF TakeHit
  <2>3. total' \in Nat /\ place' \in Nat \ {0}
    <3>1. /\ total' = total + Size[hits[place]] /\ total \in Nat
          /\ place' = place + 1 /\ place \in Nat \ {0}
      BY <1>5 DEF TakeHit
    <3> HIDE RequestAssumption, PointsAssumption DEF RetrievalTypeOK
    <3> QED
      BY <2>1, <3>1
  <2>4. UNCHANGED <<phase, request, attempt, hits, chats, result, status, citations>>
    BY <1>5 DEF TakeHit
  <2> QED
    BY <2>2, <2>3, <2>4
<1>6. CASE EndSelection
  BY <1>6 DEF EndSelection
<1>7. CASE AskModel
  <2>1. phase' \in Phases /\ attempt' \in 0 .. 1 /\ status' \in {0, 200, 500, 502, 503}
    BY <1>7 DEF AskModel, Retries
  <2>2. reply' \in Text
    BY <1>7, RequestAssumption, TrimmedFacts DEF AskModel
  <2>3. chats' \in 0 .. 2
    BY <1>7 DEF AskModel, PhaseInv
  <2>4. UNCHANGED <<request, search, pos, answer, cited, citations>>
    BY <1>7 DEF AskModel
  <2> QED
    BY <2>1, <2>2, <2>3, <2>4
<1>8. CASE KeepLabel
  <2>1. LabelEnd(reply, pos) \in DOMAIN reply /\ pos + 2 <= LabelEnd(reply, pos)
    BY <1>8, LabelEndIsEnd DEF KeepLabel
  <2>2. LabelEnd(reply, pos) \in Nat
    BY <2>1 DEF Text
  <2>3. SubSeq(reply, pos, LabelEnd(reply, pos)) \in Text
    BY <2>1, <2>2 DEF Text
  <2>4. answer' \in Text
    BY <1>8, <2>3 DEF KeepLabel, Text
  <2>5. Number(reply, pos) \in Nat
    BY <1>8 DEF KeepLabel, IsSource
  <2>6. cited' \in Seq(Nat)
    BY <1>8, <2>5 DEF KeepLabel, Cite
  <2>7. pos' \in Nat \ {0}
    <3>1. pos' = LabelEnd(reply, pos) + 1
      BY <1>8 DEF KeepLabel
    <3> HIDE RequestAssumption, PointsAssumption DEF RetrievalTypeOK
    <3> QED
      BY <2>2, <3>1
  <2>8. UNCHANGED <<phase, request, attempt, search, chats, reply, status, citations>>
    BY <1>8 DEF KeepLabel
  <2> QED
    BY <2>4, <2>6, <2>7, <2>8
<1>9. CASE DropLabel
  <2>1. LabelEnd(reply, pos) \in DOMAIN reply /\ pos + 2 <= LabelEnd(reply, pos)
    BY <1>9, LabelEndIsEnd DEF DropLabel
  <2>2. pos' \in Nat \ {0}
    BY <1>9, <2>1 DEF DropLabel, Text
  <2>3. UNCHANGED <<phase, request, attempt, search, chats, reply, answer, cited, status, citations>>
    BY <1>9 DEF DropLabel
  <2> QED
    BY <2>2, <2>3
<1>10. CASE KeepCharacter
  <2>1. answer' \in Text
    BY <1>10 DEF KeepCharacter, Text
  <2>2. pos' \in Nat \ {0}
    BY <1>10 DEF KeepCharacter
  <2>3. UNCHANGED <<phase, request, attempt, search, chats, reply, cited, status, citations>>
    BY <1>10 DEF KeepCharacter
  <2> QED
    BY <2>1, <2>2, <2>3
<1>11. CASE Respond
  <2>0. answer' \in Text
    BY <1>11, TrimmedFacts DEF Respond
  <2>1. context # <<>> => context[1] \in Chunks
    OBVIOUS
  <2>2. \A i \in DOMAIN cited : context[cited[i]] \in Chunks
    BY DEF CitedInv
  <2>3. CASE cited = <<>>
    <3>1. Sources = <<context[1]>>
      BY <2>3 DEF Sources
    <3>2. context[1] \in Chunks
      BY <1>11, <2>1 DEF Respond, PhaseInv
    <3> QED
      BY <1>11, <2>0, <3>1, <3>2 DEF Respond
  <2>4. CASE cited # <<>>
    <3>1. Sources = [i \in 1 .. Len(cited) |-> context[cited[i]]]
      BY <2>4 DEF Sources
    <3>2. Sources \in Seq(Chunks)
      BY <2>2, <3>1
    <3> QED
      BY <1>11, <2>0, <3>2 DEF Respond
  <2> QED
    BY <2>3, <2>4
<1>12. CASE Discard
  BY <1>12 DEF Discard, Text
<1>13. CASE UNCHANGED <<configured, retrievalVars>>
  BY <1>13 DEF retrievalVars
<1> QED
  BY <1>1, <1>2, <1>3, <1>4, <1>5, <1>6, <1>7, <1>8, <1>9, <1>10, <1>11, <1>12, <1>13
     DEF RetrievalNext, RetrievalStep

-----------------------------------------------------------------------------
(***************************************************************************)
(* The steps.                                                              *)
(***************************************************************************)

\* A process that has begun no request has no hits, no context and no labels.
LEMMA InitRetrieval ==
  ASSUME RetrievalInit
  PROVE  RetrievalInv
<1> USE DEF RetrievalInit, Fresh
<1>1. RetrievalTypeOK
  BY RequestAssumption DEF RetrievalTypeOK, Phases, Text
<1>2. HitsInv /\ ContextInv /\ CitedInv /\ PhaseInv /\ CitationsInv
  BY RequestAssumption DEF HitsInv, ContextInv, CitedInv, PhaseInv, CitationsInv, Distinct
<1> QED
  BY <1>1, <1>2 DEF RetrievalInv

\* The steps before the answer: the search and the choice of the context.
LEMMA ContextStep ==
  ASSUME RetrievalInv,
         Receive \/ EmbedQuery \/ Search \/ SkipHit \/ TakeHit \/ EndSelection \/ AskModel
  PROVE  HitsInv' /\ ContextInv' /\ CitedInv' /\ PhaseInv' /\ CitationsInv'
<1> USE RequestAssumption
    DEF RetrievalInv, HitsInv, ContextInv, CitedInv, PhaseInv, CitationsInv, request, search, result
<1>1. CASE Receive
  BY <1>1 DEF Receive, RetrievalTypeOK, Distinct
<1>2. CASE EmbedQuery
  BY <1>2 DEF EmbedQuery, Fail, Distinct
<1>3. CASE Search
  <2>1. CASE hits' \in Results
    <3>1. /\ hits' \in Seq(Chunks) /\ Len(hits') <= topK
          /\ Distinct(hits')
          /\ \A i \in DOMAIN hits' : NamespaceOf[hits'[i]] = namespace
      BY <2>1, ResultsFacts DEF RetrievalTypeOK
    <3>2. context = <<>> /\ place = 1
      BY <1>3 DEF Search, RetrievalTypeOK
    <3> QED
      BY <1>3, <2>1, <3>1, <3>2 DEF Search, Fail, Distinct
  <2>2. CASE Fail(500)
    BY <2>2 DEF Fail, Distinct
  <2> QED
    BY <1>3, <2>1, <2>2 DEF Search
<1>4. CASE SkipHit
  BY <1>4 DEF SkipHit, RetrievalTypeOK, Distinct
<1>5. CASE TakeHit
  <2> DEFINE c == hits[place]
  <2>1. /\ place \in DOMAIN hits /\ c \in Chunks /\ Score[c] >= MinScore
        /\ context' = Append(context, c) /\ place' = place + 1
        /\ total' = total + Size[c]
        /\ context = <<>> \/ total + Size[c] <= MaxContext
        /\ UNCHANGED <<phase, namespace, topK, hits, cited, citations>>
    BY <1>5 DEF TakeHit, Relevant, Fits, RetrievalTypeOK
  <2>2. \A n \in DOMAIN context : context[n] # c
    <3>1. /\ \A n \in DOMAIN context : \E k \in 1 .. place - 1 : context[n] = hits[k]
          /\ place \in Nat /\ DOMAIN hits = 1 .. Len(hits) /\ Len(hits) \in Nat
      BY DEF RetrievalTypeOK
    <3>2. \A k \in 1 .. place - 1 : k \in DOMAIN hits /\ k # place
      BY <2>1, <3>1
    <3>3. \A k \in 1 .. place - 1 : hits[k] # hits[place]
      BY <2>1, <3>2 DEF Distinct
    <3> QED
      BY <3>1, <3>3
  <2>3. context' \in Seq(Chunks) /\ Distinct(context')
    BY <2>1, <2>2, AppendDistinct DEF RetrievalTypeOK
  <2>4. /\ Len(context') = Len(context) + 1
        /\ \A n \in 1 .. Len(context) : context'[n] = context[n]
        /\ context'[Len(context) + 1] = c
    BY <2>1 DEF RetrievalTypeOK
  <2>5. ContextInv'
    <3>1. place' <= Len(hits') + 1 /\ Len(context') < place'
      BY <2>1, <2>4 DEF RetrievalTypeOK
    <3>2. ASSUME NEW n \in DOMAIN context'
          PROVE  Score[context'[n]] >= MinScore /\ \E k \in 1 .. place' - 1 : context'[n] = hits'[k]
      <4>1. CASE n \in 1 .. Len(context)
        <5>1. n \in DOMAIN context
          BY <4>1 DEF RetrievalTypeOK
        <5>2. PICK k \in 1 .. place - 1 : context[n] = hits[k]
          BY <5>1
        <5>3. k \in 1 .. place' - 1 /\ Score[context[n]] >= MinScore
          BY <2>1, <5>1 DEF RetrievalTypeOK
        <5> QED
          BY <2>1, <2>4, <4>1, <5>1, <5>2, <5>3
      <4>2. CASE n = Len(context) + 1
        <5>1. place \in 1 .. place' - 1
          BY <2>1 DEF RetrievalTypeOK
        <5> QED
          BY <2>1, <2>4, <4>2, <5>1
      <4> QED
        BY <2>3, <2>4, <3>2, <4>1, <4>2 DEF RetrievalTypeOK
    <3>3. Len(context') <= 1 \/ total' <= MaxContext
      BY <2>1, <2>4 DEF RetrievalTypeOK
    <3> QED
      BY <2>3, <3>1, <3>2, <3>3
  <2>6. HitsInv'
    BY <2>1
  <2>7. CitedInv' /\ PhaseInv' /\ CitationsInv'
    BY <1>5, <2>1 DEF TakeHit, Distinct
  <2> QED
    BY <2>5, <2>6, <2>7
<1>6. CASE EndSelection
  BY <1>6 DEF EndSelection, Distinct
<1>7. CASE AskModel
  BY <1>7 DEF AskModel, Distinct
<1> QED
  BY <1>1, <1>2, <1>3, <1>4, <1>5, <1>6, <1>7

\* The steps after it: the labels and the citations. The context stays.
LEMMA AnswerStep ==
  ASSUME RetrievalInv, KeepLabel \/ DropLabel \/ KeepCharacter \/ Respond
  PROVE  HitsInv' /\ ContextInv' /\ CitedInv' /\ PhaseInv' /\ CitationsInv'
<1>1. UNCHANGED <<namespace, topK, hits, place, context, total>>
  BY DEF KeepLabel, DropLabel, KeepCharacter, Respond, request, search
<1>2. HitsInv' /\ ContextInv'
  BY <1>1 DEF RetrievalInv, HitsInv, ContextInv, Distinct
<1>3. CASE KeepLabel
  <2> DEFINE n == Number(reply, pos)
  <2>1. n \in DOMAIN context /\ n \in Nat
    BY <1>3 DEF KeepLabel, IsSource, RetrievalInv, RetrievalTypeOK
  <2>2. cited' = Cite(n) /\ UNCHANGED <<phase, citations>> /\ phase = "validate"
    BY <1>3 DEF KeepLabel
  <2> HIDE DEF n
  <2>3. ASSUME n \in Cited
        PROVE  CitedInv'
    BY <1>1, <2>2, <2>3 DEF Cite, RetrievalInv, CitedInv, Distinct
  <2>4. ASSUME n \notin Cited
        PROVE  CitedInv'
    <3>1. cited \in Seq(Nat) /\ Distinct(cited) /\ \A i \in DOMAIN cited : cited[i] # n
      BY <2>4 DEF Cited, RetrievalInv, RetrievalTypeOK, CitedInv
    <3>2. cited' = Append(cited, n)
      BY <2>2, <2>4 DEF Cite
    <3>3. Distinct(cited')
      BY <2>1, <3>1, <3>2, AppendDistinct
    <3>4. \A i \in DOMAIN cited' : cited'[i] \in DOMAIN context
      BY <2>1, <3>1, <3>2 DEF RetrievalInv, CitedInv
    <3> QED
      BY <1>1, <3>3, <3>4 DEF CitedInv, Distinct
  <2>5. CitedInv'
    BY <2>3, <2>4
  <2>6. PhaseInv' /\ CitationsInv'
    BY <1>1, <2>2 DEF RetrievalInv, PhaseInv, CitationsInv, Distinct
  <2> QED
    BY <1>2, <2>5, <2>6
<1>4. CASE DropLabel \/ KeepCharacter
  <2>1. UNCHANGED <<phase, attempt, chats, cited, citations>>
    BY <1>4 DEF DropLabel, KeepCharacter
  <2> QED
    BY <1>1, <1>2, <2>1 DEF RetrievalInv, CitedInv, PhaseInv, CitationsInv, Distinct
<1>5. CASE Respond
  <2>1. UNCHANGED cited /\ citations' = Sources /\ context # <<>> /\ phase' = "done"
    BY <1>5 DEF Respond, result, RetrievalInv, PhaseInv
  <2>2. CitedInv' /\ PhaseInv'
    BY <1>1, <2>1 DEF RetrievalInv, CitedInv, PhaseInv, Distinct
  <2>3. CASE cited = <<>>
    <3>1. citations' = <<context[1]>> /\ 1 \in DOMAIN context
      BY <2>1, <2>3 DEF Sources, RetrievalInv, RetrievalTypeOK
    <3> QED
      BY <1>1, <1>2, <2>2, <3>1 DEF CitationsInv, Distinct
  <2>4. CASE cited # <<>>
    <3>1. citations' = [i \in DOMAIN cited |-> context[cited[i]]]
      BY <2>1, <2>4 DEF Sources
    <3>2. \A i \in DOMAIN cited : cited[i] \in DOMAIN context
      BY DEF RetrievalInv, CitedInv
    <3>3. \A i, j \in DOMAIN cited : context[cited[i]] = context[cited[j]] => i = j
      BY <3>2 DEF RetrievalInv, CitedInv, ContextInv, Distinct
    <3> QED
      BY <1>1, <1>2, <2>2, <3>1, <3>2, <3>3 DEF CitationsInv, Distinct
  <2> QED
    BY <2>3, <2>4
<1> QED
  BY <1>3, <1>4, <1>5

\* Every step keeps the invariant.
LEMMA RetrievalKeeps ==
  ASSUME RetrievalInv, [RetrievalNext]_<<configured, retrievalVars>>
  PROVE  RetrievalInv'
<1>1. RetrievalTypeOK'
  BY RetrievalTypeStep DEF RetrievalInv
<1>2. CASE Receive \/ EmbedQuery \/ Search \/ SkipHit \/ TakeHit \/ EndSelection \/ AskModel
  BY <1>1, <1>2, ContextStep DEF RetrievalInv
<1>3. CASE KeepLabel \/ DropLabel \/ KeepCharacter \/ Respond
  BY <1>1, <1>3, AnswerStep DEF RetrievalInv
<1>4. CASE Discard
  <2>1. HitsInv' /\ ContextInv' /\ CitedInv' /\ PhaseInv' /\ CitationsInv'
    BY <1>1, <1>4, RequestAssumption
       DEF Discard, request, RetrievalInv, RetrievalTypeOK, HitsInv, ContextInv, CitedInv,
           PhaseInv, CitationsInv, Distinct
  <2> QED
    BY <1>1, <2>1 DEF RetrievalInv
<1>5. CASE UNCHANGED <<configured, retrievalVars>>
  BY <1>1, <1>5
     DEF retrievalVars, request, search, result, RetrievalInv, HitsInv, ContextInv, CitedInv,
         PhaseInv, CitationsInv, Distinct
<1> QED
  BY <1>2, <1>3, <1>4, <1>5 DEF RetrievalNext, RetrievalStep

\* Citations come from the context, the context from the hits, and the hits
\* from the namespace.
LEMMA InvIsGrounded ==
  ASSUME RetrievalInv
  PROVE  CitationsAreGrounded
<1> SUFFICES ASSUME Answered
             PROVE  /\ \A i \in DOMAIN citations :
                         /\ NamespaceOf[citations[i]] = namespace
                         /\ Score[citations[i]] >= MinScore
                         /\ \E n \in DOMAIN context : context[n] = citations[i]
                    /\ \A i, j \in DOMAIN citations : citations[i] = citations[j] => i = j
                    /\ Len(context) <= topK
                    /\ Len(context) <= 1 \/ total <= MaxContext
  BY DEF CitationsAreGrounded
<1>1. /\ hits \in Seq(Chunks) /\ context \in Seq(Chunks) /\ place \in Nat /\ topK \in Nat
      /\ Len(hits) \in Nat /\ Len(context) \in Nat
  BY RequestAssumption DEF RetrievalInv, RetrievalTypeOK
<1>2. \A k \in 1 .. place - 1 : NamespaceOf[hits[k]] = namespace
  BY <1>1 DEF RetrievalInv, HitsInv, ContextInv
<1>3. \A n \in DOMAIN context : NamespaceOf[context[n]] = namespace /\ Score[context[n]] >= MinScore
  BY <1>2 DEF RetrievalInv, ContextInv
<1>4. Len(context) <= topK
  BY <1>1 DEF RetrievalInv, HitsInv, ContextInv
<1> QED
  BY <1>3, <1>4 DEF RetrievalInv, ContextInv, CitationsInv, Distinct

-----------------------------------------------------------------------------
(***************************************************************************)
(* What the choice of the context amounts to.                              *)
(***************************************************************************)

\* The best hits come first, each of the namespace.
Sorted(s) == \A i, j \in DOMAIN s : i < j => Score[s[i]] >= Score[s[j]]

\* The context is where the hits begin; what the loop has passed beyond it is
\* not relevant.
PrefixInv ==
  /\ \A n \in DOMAIN context : context[n] = hits[n]
  /\ \A k \in Len(context) + 1 .. place - 1 : ~ Relevant(hits[k])
  /\ total = Length(hits, Len(context))

\* The loop ended at the end of the hits or at one that does not fit.
EndInv ==
  /\ phase \in {"answer", "validate"} \/ Answered =>
       (place <= Len(hits) => Relevant(hits[place]) /\ ~ Fits(hits[place]))
  /\ phase = "validate" => chats > 0
  /\ Answered => (context = <<>> <=> chats = 0)
  /\ Answered /\ chats = 0 => citations = <<>>

\* The length of the first n chunks, chunk by chunk.
LEMMA LengthFacts ==
  ASSUME NEW s \in Seq(Chunks)
  PROVE  /\ Length(s, 0) = 0
         /\ \A n \in 0 .. Len(s) : Length(s, n) \in Nat
         /\ \A n \in 1 .. Len(s) : Length(s, n) = Length(s, n - 1) + Size[s[n]]
<1> DEFINE Sums(n, f) == f = [k \in 0 .. n |-> IF k = 0 THEN 0 ELSE f[k - 1] + Size[s[k]]]
           sum(n) == CHOOSE f : Sums(n, f)
<1>1. \A n : Length(s, n) = sum(n)[n]
  BY DEF Length
<1> HIDE DEF sum
<1>2. ASSUME NEW n \in 0 .. Len(s)
      PROVE  /\ \A k \in 0 .. n : sum(n)[k] = IF k = 0 THEN 0 ELSE sum(n)[k - 1] + Size[s[k]]
             /\ \A k \in 0 .. n : sum(n)[k] \in Nat
  <2> DEFINE step == [k \in Int |-> [v \in Nat |-> IF k \in 1 .. n THEN v + Size[s[k]] ELSE v]]
  <2>1. \A k \in 1 .. n : Size[s[k]] \in Nat
    BY PointsAssumption
  <2>2. step \in [Int -> [Nat -> Nat]]
    BY <2>1
  <2>3. \A k \in 1 .. n, v \in Nat : step[k][v] = v + Size[s[k]]
    OBVIOUS
  <2>4. n \in Int /\ 0 \in Int /\ 0 <= n /\ 0 \in Nat
    OBVIOUS
  <2> HIDE DEF step
  <2>5. PICK f \in [0 .. n -> Nat] : Follows(f, 0, n, 0, step)
    BY <2>2, <2>4, RecursionExists
  <2>6. \A k \in 0 .. n : k = 0 \/ (k \in 1 .. n /\ k - 1 \in 0 .. n)
    OBVIOUS
  <2>7. \A k \in 0 .. n : f[k] = IF k = 0 THEN 0 ELSE f[k - 1] + Size[s[k]]
    BY <2>3, <2>5, <2>6 DEF Follows
  <2>8. Sums(n, f)
    BY <2>7
  <2>9. Sums(n, sum(n))
    BY <2>8 DEF sum
  <2>10. \A k \in 0 .. n : sum(n)[k] = IF k = 0 THEN 0 ELSE sum(n)[k - 1] + Size[s[k]]
    BY <2>9
  <2>11. Parallel(sum(n), f, 0, n)
    BY <2>7, <2>10 DEF Parallel
  <2>12. Agree(sum(n), f, 0, n)
    BY <2>4, <2>11, RecursionUnique
  <2> QED
    BY <2>10, <2>12 DEF Agree
<1> HIDE DEF Sums
<1>3. Length(s, 0) = 0
  BY <1>1, <1>2
<1>4. \A n \in 0 .. Len(s) : Length(s, n) \in Nat
  BY <1>1, <1>2
<1>5. ASSUME NEW n \in 1 .. Len(s)
      PROVE  Length(s, n) = Length(s, n - 1) + Size[s[n]]
  <2> DEFINE m == n - 1
             f == sum(n)
             g == sum(m)
  <2>1. n \in 0 .. Len(s) /\ m \in 0 .. Len(s) /\ m \in Int /\ 0 \in Int /\ n # 0
    OBVIOUS
  <2>2. \A k \in 0 .. m : k \in 0 .. n
    OBVIOUS
  <2>3. /\ \A k \in 0 .. n : f[k] = IF k = 0 THEN 0 ELSE f[k - 1] + Size[s[k]]
        /\ \A k \in 0 .. m : g[k] = IF k = 0 THEN 0 ELSE g[k - 1] + Size[s[k]]
    BY <1>2, <2>1
  <2>4. Length(s, n) = f[n] /\ Length(s, m) = g[m] /\ m \in 0 .. m /\ n \in 0 .. n
    BY <1>1
  <2> HIDE DEF f, g
  <2>5. Parallel(f, g, 0, m)
    BY <2>2, <2>3 DEF Parallel
  <2>6. Agree(f, g, 0, m)
    BY <2>1, <2>5, RecursionUnique
  <2> QED
    BY <2>1, <2>3, <2>4, <2>6 DEF Agree
<1> QED
  BY <1>3, <1>4, <1>5

\* Qdrant returns the best hits first.
LEMMA ResultsSorted ==
  ASSUME topK \in Nat, NEW s \in Results
  PROVE  Sorted(s)
  BY DEF Results, Sorted

\* Before the first request nothing has been passed.
LEMMA InitContext ==
  ASSUME RetrievalInit
  PROVE  Sorted(hits) /\ PrefixInv /\ EndInv
<1>1. hits = <<>> /\ place = 1 /\ context = <<>> /\ total = 0 /\ phase = "idle"
  BY DEF RetrievalInit, Fresh
<1>2. <<>> \in Seq(Chunks)
  OBVIOUS
<1>3. Length(<<>>, 0) = 0
  BY <1>2, LengthFacts
<1> QED
  BY <1>1, <1>3 DEF Sorted, PrefixInv, EndInv, Answered

\* The loop passes one hit at a time, and `total` grows by what it adds.
LEMMA PrefixStep ==
  ASSUME RetrievalInv, Sorted(hits), PrefixInv, [RetrievalNext]_<<configured, retrievalVars>>
  PROVE  Sorted(hits)' /\ PrefixInv'
<1>0. /\ hits \in Seq(Chunks) /\ place \in Nat \ {0} /\ context \in Seq(Chunks)
      /\ place <= Len(hits) + 1 /\ Len(context) < place /\ topK \in Nat
      /\ Len(hits) \in Nat /\ Len(context) \in Nat
  BY RequestAssumption DEF RetrievalInv, RetrievalTypeOK, ContextInv
<1>1. ASSUME UNCHANGED <<hits, place, context, total>>
      PROVE  Sorted(hits)' /\ PrefixInv'
  BY <1>1 DEF Sorted, PrefixInv
<1>2. CASE Search
  <2>1. CASE hits' \in Results
    <3>1. hits' \in Seq(Chunks) /\ Sorted(hits')
      BY <1>0, <2>1, ResultsFacts, ResultsSorted
    <3>2. hits = <<>> /\ phase = "search"
      BY <1>2 DEF Search, RetrievalInv, PhaseInv
    <3>3. context = <<>> /\ place = 1
      BY <1>0, <3>2
    <3>4. total = 0
      BY <1>0, <3>3, LengthFacts DEF PrefixInv
    <3>5. CASE UNCHANGED <<place, context, total>>
      <4>1. Length(hits', 0) = 0
        BY <3>1, LengthFacts
      <4> QED
        BY <3>1, <3>3, <3>4, <3>5, <4>1 DEF PrefixInv, Sorted
    <3>6. CASE Fail(500)
      BY <1>1, <3>6 DEF Fail, search
    <3> QED
      BY <1>2, <3>5, <3>6 DEF Search
  <2>2. CASE Fail(500)
    BY <1>1, <2>2 DEF Fail, search
  <2> QED
    BY <1>2, <2>1, <2>2 DEF Search
<1>3. CASE SkipHit
  <2>1. /\ ~ Relevant(hits[place]) /\ place' = place + 1
        /\ UNCHANGED <<hits, context, total>>
    BY <1>3 DEF SkipHit
  <2>2. \A k \in Len(context) + 1 .. place' - 1 : k \in Len(context) + 1 .. place - 1 \/ k = place
    BY <1>0, <2>1
  <2>3. \A k \in Len(context) + 1 .. place' - 1 : ~ Relevant(hits[k])
    BY <2>1, <2>2 DEF PrefixInv
  <2> QED
    BY <2>1, <2>3 DEF PrefixInv, Sorted
<1>4. CASE TakeHit
  <2> DEFINE c == hits[place]
  <2>1. /\ place \in DOMAIN hits /\ Relevant(c)
        /\ context' = Append(context, c) /\ place' = place + 1 /\ total' = total + Size[c]
        /\ UNCHANGED hits
    BY <1>0, <1>4 DEF TakeHit
  <2>2. Len(context) + 1 = place
    <3> SUFFICES ASSUME Len(context) + 1 < place
                 PROVE  FALSE
      BY <1>0
    <3> DEFINE k == Len(context) + 1
    <3>1. k \in Len(context) + 1 .. place - 1 /\ k \in DOMAIN hits /\ k < place
      BY <1>0
    <3>2. ~ Relevant(hits[k])
      BY <3>1 DEF PrefixInv
    <3>3. Score[hits[k]] >= Score[c] /\ hits[k] \in Chunks /\ c \in Chunks
      BY <1>0, <2>1, <3>1 DEF Sorted
    <3> QED
      BY <2>1, <3>2, <3>3, PointsAssumption, RequestAssumption DEF Relevant
  <2>3. /\ Len(context') = place
        /\ \A n \in 1 .. Len(context) : context'[n] = context[n]
        /\ context'[place] = c
    BY <1>0, <2>1, <2>2
  <2>4. \A n \in DOMAIN context' : context'[n] = hits'[n]
    <3>1. DOMAIN context' = 1 .. place
      BY <1>0, <2>1, <2>3
    <3>2. \A n \in 1 .. place : n \in 1 .. Len(context) \/ n = place
      BY <1>0, <2>2
    <3>3. \A n \in 1 .. Len(context) : context[n] = hits[n]
      BY <1>0 DEF PrefixInv
    <3> QED
      BY <2>1, <2>3, <3>1, <3>2, <3>3
  <2>5. total' = Length(hits', Len(context'))
    <3>1. Length(hits, place) = Length(hits, place - 1) + Size[c] /\ place - 1 = Len(context)
      BY <1>0, <2>1, <2>2, LengthFacts
    <3> QED
      BY <2>1, <2>3, <3>1 DEF PrefixInv
  <2>6. \A k \in Len(context') + 1 .. place' - 1 : ~ Relevant(hits'[k])
    BY <1>0, <2>1, <2>3
  <2> QED
    BY <2>1, <2>4, <2>5, <2>6 DEF PrefixInv, Sorted
<1>5. CASE Discard
  <2>1. hits' = <<>> /\ place' = 1 /\ context' = <<>> /\ total' = 0
    BY <1>5 DEF Discard
  <2>2. <<>> \in Seq(Chunks)
    OBVIOUS
  <2>3. Length(<<>>, 0) = 0
    BY <2>2, LengthFacts
  <2> QED
    BY <2>1, <2>3 DEF PrefixInv, Sorted
<1>6. CASE EmbedQuery
  BY <1>1, <1>6 DEF EmbedQuery, Fail, search
<1>7. CASE AskModel
  BY <1>1, <1>7 DEF AskModel, search
<1>8. CASE Receive \/ EndSelection \/ KeepLabel \/ DropLabel \/ KeepCharacter \/ Respond
  BY <1>1, <1>8 DEF Receive, EndSelection, KeepLabel, DropLabel, KeepCharacter, Respond, search
<1>9. CASE UNCHANGED <<configured, retrievalVars>>
  BY <1>1, <1>9 DEF retrievalVars, search
<1> QED
  BY <1>2, <1>3, <1>4, <1>5, <1>6, <1>7, <1>8, <1>9 DEF RetrievalNext, RetrievalStep

\* Once the loop has ended, what ended it stays as it was.
LEMMA EndStep ==
  ASSUME RetrievalInv, EndInv, [RetrievalNext]_<<configured, retrievalVars>>
  PROVE  EndInv'
<1> USE DEF EndInv, Answered, Fits
<1>1. CASE Receive
  BY <1>1 DEF Receive, RetrievalInv, RetrievalTypeOK, PhaseInv
<1>2. CASE EmbedQuery
  BY <1>2 DEF EmbedQuery, Fail
<1>3. CASE Search
  BY <1>3 DEF Search, Fail
<1>4. CASE SkipHit
  BY <1>4 DEF SkipHit
<1>5. CASE TakeHit
  BY <1>5 DEF TakeHit
<1>6. CASE EndSelection
  <2>1. /\ place <= Len(hits) => Relevant(hits[place]) /\ ~ Fits(hits[place])
        /\ UNCHANGED <<hits, place, context, total, chats, citations>>
        /\ \/ context # <<>> /\ phase' = "answer"
           \/ context = <<>> /\ phase' = "done"
        /\ chats = 0 /\ citations = <<>>
    BY <1>6 DEF EndSelection, search, RetrievalInv, PhaseInv
  <2> QED
    BY <2>1
<1>7. CASE AskModel
  <2>1. /\ UNCHANGED <<hits, place, context, total, citations>>
        /\ phase = "answer" /\ chats' = chats + 1 /\ chats \in 0 .. 2
        /\ phase' = "done" => status' = 502
    BY <1>7 DEF AskModel, search, RetrievalInv, RetrievalTypeOK
  <2> QED
    BY <2>1
<1>8. CASE KeepLabel \/ DropLabel \/ KeepCharacter
  <2>1. UNCHANGED <<phase, hits, place, context, total, chats, status, citations>>
    BY <1>8 DEF KeepLabel, DropLabel, KeepCharacter, search
  <2> QED
    BY <2>1
<1>9. CASE Respond
  <2>1. /\ UNCHANGED <<hits, place, context, total, chats>>
        /\ phase = "validate" /\ phase' = "done" /\ context # <<>> /\ chats \in 0 .. 2
    BY <1>9 DEF Respond, search, RetrievalInv, PhaseInv, RetrievalTypeOK
  <2> QED
    BY <2>1
<1>10. CASE Discard
  BY <1>10 DEF Discard
<1>11. CASE UNCHANGED <<configured, retrievalVars>>
  BY <1>11 DEF retrievalVars, search
<1> QED
  BY <1>1, <1>2, <1>3, <1>4, <1>5, <1>6, <1>7, <1>8, <1>9, <1>10, <1>11
     DEF RetrievalNext, RetrievalStep

\* Where the loop ended, the context is the longest prefix that fits.
LEMMA InvIsLongest ==
  ASSUME RetrievalInv, Sorted(hits), PrefixInv, EndInv
  PROVE  ContextIsLongestPrefix
<1> DEFINE relevant == {i \in DOMAIN hits : Relevant(hits[i])}
           shown    == Len(context)
           fits(n)  == n = 1 \/ Length(hits, n) <= MaxContext
<1>1. /\ hits \in Seq(Chunks) /\ context \in Seq(Chunks) /\ place \in Nat
      /\ shown \in Nat /\ Len(hits) \in Nat /\ shown < place /\ place <= Len(hits) + 1
      /\ DOMAIN hits = 1 .. Len(hits) /\ DOMAIN context = 1 .. shown
  BY DEF RetrievalInv, RetrievalTypeOK, ContextInv
<1>2. \A i \in 1 .. shown : i \in relevant
  <2>1. \A i \in 1 .. shown : i \in DOMAIN hits /\ context[i] = hits[i] /\ Score[context[i]] >= MinScore
    BY <1>1 DEF PrefixInv, RetrievalInv, ContextInv
  <2> QED
    BY <2>1 DEF Relevant
<1>3. context = SubSeq(hits, 1, shown)
  <2>1. \A i \in 1 .. shown : context[i] = hits[i]
    BY <1>1 DEF PrefixInv
  <2> QED
    BY <1>1, <2>1
<1>4. ASSUME phase \in {"answer", "validate"} \/ Answered
      PROVE  relevant = 1 .. shown \/ (context # <<>> /\ shown + 1 \in relevant /\ ~ fits(shown + 1))
  <2>1. CASE place <= Len(hits)
    <3>1. place \in DOMAIN hits /\ Relevant(hits[place]) /\ ~ Fits(hits[place])
      BY <1>1, <1>4, <2>1 DEF EndInv
    <3>2. place = shown + 1
      <4> SUFFICES ASSUME shown + 1 < place
                   PROVE  FALSE
        BY <1>1
      <4> DEFINE k == shown + 1
      <4>1. k \in shown + 1 .. place - 1 /\ k \in DOMAIN hits /\ k < place
        BY <1>1
      <4>2. ~ Relevant(hits[k])
        BY <4>1 DEF PrefixInv
      <4>3. Score[hits[k]] >= Score[hits[place]] /\ hits[k] \in Chunks /\ hits[place] \in Chunks
        BY <1>1, <3>1, <4>1 DEF Sorted
      <4> QED
        BY <3>1, <4>2, <4>3, PointsAssumption, RequestAssumption DEF Relevant
    <3>3. context # <<>> /\ shown # 0
      BY <1>1, <3>1 DEF Fits
    <3>4. Length(hits, place) = Length(hits, place - 1) + Size[hits[place]] /\ place - 1 = shown
      BY <1>1, <3>1, <3>2, LengthFacts
    <3>5. total = Length(hits, shown) /\ ~ (total + Size[hits[place]] <= MaxContext)
      BY <3>1 DEF PrefixInv, Fits
    <3> QED
      BY <3>1, <3>2, <3>3, <3>4, <3>5, <1>1
  <2>2. CASE place > Len(hits)
    <3>1. \A i \in relevant : i \in 1 .. shown
      <4> SUFFICES ASSUME NEW i \in relevant, i > shown
                   PROVE  FALSE
        BY <1>1
      <4>1. i \in shown + 1 .. place - 1
        BY <1>1, <2>2
      <4> QED
        BY <4>1 DEF PrefixInv
    <3> QED
      BY <1>2, <3>1
  <2> QED
    BY <1>1, <2>1, <2>2
<1>5. phase \in {"answer", "validate"} => context # <<>>
  BY DEF RetrievalInv, PhaseInv
<1>6. context # <<>> => fits(shown) /\ shown # 0
  BY <1>1 DEF RetrievalInv, ContextInv, PrefixInv
<1>7. Answered => (relevant = {} <=> chats = 0)
  <2> SUFFICES ASSUME Answered
               PROVE  relevant = {} <=> chats = 0
    OBVIOUS
  <2>1. context = <<>> <=> chats = 0
    BY DEF EndInv
  <2>2. CASE context = <<>>
    <3>1. relevant = 1 .. 0
      BY <1>4, <2>2
    <3> QED
      BY <2>1, <2>2, <3>1
  <2>3. CASE context # <<>>
    <3>1. 1 \in relevant
      BY <1>1, <1>2, <1>6, <2>3
    <3> QED
      BY <2>1, <2>3, <3>1
  <2> QED
    BY <2>2, <2>3
<1>8. Answered /\ chats = 0 => citations = <<>>
  BY DEF EndInv
<1> QED
  <2> HIDE DEF fits, relevant
  <2>1. phase \in {"answer", "validate"} =>
           /\ context # <<>>
           /\ context = SubSeq(hits, 1, shown)
           /\ 1 .. shown \subseteq relevant
           /\ fits(shown)
           /\ relevant = 1 .. shown \/ (shown + 1 \in relevant /\ ~ fits(shown + 1))
    BY <1>2, <1>3, <1>4, <1>5, <1>6
  <2> QED
    BY <2>1, <1>7, <1>8 DEF ContextIsLongestPrefix, fits, relevant

-----------------------------------------------------------------------------
(***************************************************************************)
(* The theorems.                                                           *)
(***************************************************************************)

\* The inductive invariant holds in every reachable state.
THEOREM RetrievalInvariant == RetrievalSpec => []RetrievalInv
  BY InitRetrieval, RetrievalKeeps, PTL DEF RetrievalSpec

\* Every variable of the handler stays inside its type; in particular no label
\* makes it read past the end of the context.
THEOREM RetrievalTypeCorrect == RetrievalSpec => []RetrievalTypeOK
<1>1. RetrievalInv => RetrievalTypeOK
  BY DEF RetrievalInv
<1> QED
  BY <1>1, RetrievalInvariant, PTL

\* Whatever Qdrant holds and the model answers, a response cites only chunks of
\* the request's namespace that are relevant, distinct and were in the prompt.
THEOREM AnswersAreGrounded == RetrievalSpec => []CitationsAreGrounded
  BY RetrievalInvariant, InvIsGrounded, PTL
\* What the loop and its end establish holds in every reachable state.
THEOREM ContextInvariant == RetrievalSpec => [](Sorted(hits) /\ PrefixInv /\ EndInv)
  BY RetrievalInvariant, InitContext, PrefixStep, EndStep, PTL DEF RetrievalSpec

\* Whatever Qdrant returns and whatever the limit, the model is shown the
\* longest run of the best relevant chunks that fits, and is asked whenever
\* there is one.
THEOREM ContextIsBest == RetrievalSpec => []ContextIsLongestPrefix
  BY RetrievalInvariant, ContextInvariant, InvIsLongest, PTL
=============================================================================
