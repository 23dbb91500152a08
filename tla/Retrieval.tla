----------------------------- MODULE Retrieval -----------------------------
(***************************************************************************)
(* One POST /v1/retrievals: RetrievalService.retrieve and the route, from  *)
(* the embedding of the query to the answer with its citations.            *)
(*                                                                         *)
(* Each call to the provider or to Qdrant is a step; so is each iteration  *)
(* of the loop in _limit_context, and each match or other character that   *)
(* _CITATION.sub passes in the model's answer. Errors end in the response  *)
(* that the exception handlers of main.py give them.                       *)
(***************************************************************************)
EXTENDS ProviderClient, Integers, Sequences, FiniteSets

CONSTANTS
  Chunks,       \* points the collection may hold
  Namespaces,
  NamespaceOf,  \* the namespace in the payload of each point
  Score,        \* how similar each point is to the query
  Size,         \* len(chunk_text)
  TopK,         \* top_k of the requests
  MinScore,     \* min_retrieval_score
  MaxContext,   \* max_context_characters
  Answers       \* what the model may answer; a blank answer is an "odd" reply

\* An answer is a sequence of characters: digits, brackets, white space, others.
Digit == 0 .. 9
Open  == 10
Close == 11
Other == 12
White == 13

Text == Seq(Digit \cup {Open, Close, Other, White})

\* What is to be seen of a text.
Shows(t) == {i \in DOMAIN t : t[i] # White}

\* str.strip().
Trimmed(t) ==
  IF Shows(t) = {} THEN <<>>
  ELSE SubSeq(t, CHOOSE i \in Shows(t) : \A j \in Shows(t) : i <= j,
                 CHOOSE j \in Shows(t) : \A i \in Shows(t) : i <= j)

ASSUME PointsAssumption ==
  /\ NamespaceOf \in [Chunks -> Namespaces]
  /\ Score \in [Chunks -> Int]
  /\ Size \in [Chunks -> Nat]

ASSUME RequestAssumption ==
  /\ TopK \subseteq Nat \ {0}
  /\ MinScore \in Int
  /\ MaxContext \in Nat
  /\ Answers \subseteq {t \in Text : Shows(t) # {}}

VARIABLES
  phase,      \* what the handler does next
  namespace,  \* of the request
  topK,       \* of the request
  attempt,    \* `attempt` in _request
  hits,       \* what Qdrant returned, best first
  place,      \* the next of them
  context,    \* `selected` in _limit_context, then context_chunks
  total,      \* `total` in _limit_context
  chats,      \* requests to /chat/completions
  reply,      \* the model's answer, stripped
  pos,        \* how far _CITATION.sub has come in it
  answer,     \* the text without the labels that were removed, at the end stripped
  cited,      \* `cited` in _validated_citations
  status,     \* HTTP status of the response, 0 before
  citations   \* chunks cited in the response; citation_id is the place

request == <<namespace, topK>>
search  == <<hits, place, context, total>>
result  == <<reply, pos, answer, cited>>

retrievalVars == <<phase, request, attempt, search, chats, result, status, citations>>

-----------------------------------------------------------------------------

Phases == {"idle", "embed", "search", "select", "answer", "validate", "done"}

RetrievalTypeOK ==
  /\ phase \in Phases
  /\ namespace \in Namespaces
  /\ topK \in TopK
  /\ attempt \in 0 .. 1
  /\ hits \in Seq(Chunks)
  /\ place \in Nat \ {0}
  /\ context \in Seq(Chunks)
  /\ total \in Nat
  /\ chats \in 0 .. 2
  /\ reply \in Text
  /\ pos \in Nat \ {0}
  /\ answer \in Text
  /\ cited \in Seq(Nat)
  /\ status \in {0, 200, 500, 502, 503}
  /\ citations \in Seq(Chunks)

\* The locals of a handler that has not begun.
Fresh ==
  /\ attempt = 0 /\ chats = 0
  /\ hits = <<>> /\ place = 1 /\ context = <<>> /\ total = 0
  /\ reply = <<>> /\ pos = 1 /\ answer = <<>> /\ cited = <<>>
  /\ status = 0 /\ citations = <<>>

RetrievalInit ==
  /\ configured \in BOOLEAN
  /\ phase = "idle"
  /\ namespace \in Namespaces
  /\ topK \in TopK
  /\ Fresh

-----------------------------------------------------------------------------

\* The exception handlers: 502 for ProviderError, 503 for NotConfiguredError,
\* 500 for what is no AppError.
Fail(code) ==
  /\ phase' = "done"
  /\ status' = code
  /\ UNCHANGED <<request, attempt, search, chats, result, citations>>

\* A request that pydantic accepted. Without configuration embed() raises
\* before it sends anything.
Receive ==
  /\ phase = "idle"
  /\ namespace' \in Namespaces
  /\ topK' \in TopK
  /\ \/ configured /\ phase' = "embed" /\ UNCHANGED status
     \/ ~ configured /\ phase' = "done" /\ status' = 503
  /\ UNCHANGED <<configured, attempt, search, chats, result, citations>>

\* Mutant of EmbedQuery: after the second failure the call is made anew.
EmbedQueryAnew ==
  /\ phase = "embed"
  /\ \E r \in Reply :
       \/ r = "good" /\ phase' = "search" /\ attempt' = 0
       \/ Retries(attempt, r) /\ attempt' = attempt + 1 /\ UNCHANGED phase
       \/ Fails(attempt, r) /\ attempt' = 0 /\ UNCHANGED phase
  /\ UNCHANGED <<configured, request, search, chats, result, status, citations>>

EmbedQuery ==
  /\ phase = "embed"
  /\ \E r \in Reply :
       \/ r = "good" /\ phase' = "search" /\ attempt' = 0
          /\ UNCHANGED <<request, search, chats, result, status, citations>>
       \/ Retries(attempt, r) /\ attempt' = attempt + 1
          /\ UNCHANGED <<phase, request, search, chats, result, status, citations>>
       \/ Fails(attempt, r) /\ Fail(502)
       \/ r = "odd" /\ Fail(500)  \* float() of what is no number
  /\ UNCHANGED configured

\* Mutant of Results: the filter on the namespace is dropped.
ResultsOfAll ==
  {s \in UNION {[1 .. n -> Chunks] : n \in 0 .. topK} :
     \A i, j \in DOMAIN s : i < j => s[i] # s[j] /\ Score[s[i]] >= Score[s[j]]}

\* What query_points may return: the best topK of the points that the
\* namespace holds at the moment, best first.
Results ==
  {s \in UNION {[1 .. n -> Chunks] : n \in 0 .. topK} :
     /\ \A i \in DOMAIN s : NamespaceOf[s[i]] = namespace
     /\ \A i, j \in DOMAIN s : i < j => s[i] # s[j] /\ Score[s[i]] >= Score[s[j]]}

Search ==
  /\ phase = "search"
  /\ \/ /\ hits' \in Results
        /\ phase' = "select"
        /\ UNCHANGED <<request, attempt, place, context, total, chats, result, status, citations>>
     \/ Fail(500)
  /\ UNCHANGED configured

(***************************************************************************)
(* The filter on the score and _limit_context, in one pass.                *)
(***************************************************************************)

Relevant(c) == Score[c] >= MinScore

\* Mutant of Fits: the first chunk is held to the limit too.
FitsStrictly(c) == total + Size[c] <= MaxContext

\* The first chunk is taken whatever its length.
Fits(c) == context = <<>> \/ total + Size[c] <= MaxContext

SkipHit ==
  /\ phase = "select"
  /\ place <= Len(hits)
  /\ ~ Relevant(hits[place])
  /\ place' = place + 1
  /\ UNCHANGED <<configured, phase, request, attempt, hits, context, total, chats, result,
                 status, citations>>

TakeHit ==
  /\ phase = "select"
  /\ place <= Len(hits)
  /\ Relevant(hits[place])
  /\ Fits(hits[place])
  /\ context' = Append(context, hits[place])
  /\ total' = total + Size[hits[place]]
  /\ place' = place + 1
  /\ UNCHANGED <<configured, phase, request, attempt, hits, chats, result, status, citations>>

\* At the end of the list, or at the first chunk beyond the limit. Nothing
\* relevant: the answer is fixed, and the model is not asked.
EndSelection ==
  /\ phase = "select"
  /\ place <= Len(hits) => Relevant(hits[place]) /\ ~ Fits(hits[place])
  /\ \/ context # <<>> /\ phase' = "answer" /\ UNCHANGED status
     \/ context = <<>> /\ phase' = "done" /\ status' = 200
  /\ UNCHANGED <<configured, request, attempt, search, chats, result, citations>>

AskModel ==
  /\ phase = "answer"
  /\ chats' = chats + 1
  /\ \E r \in Reply :
       \/ r = "good" /\ phase' = "validate" /\ attempt' = 0
          /\ \E a \in Answers : reply' = Trimmed(a)
          /\ UNCHANGED <<request, search, pos, answer, cited, status, citations>>
       \/ Retries(attempt, r) /\ attempt' = attempt + 1
          /\ UNCHANGED <<phase, request, search, result, status, citations>>
       \/ /\ Fails(attempt, r)
          /\ phase' = "done"
          /\ status' = 502
          /\ UNCHANGED <<request, attempt, search, result, citations>>
  /\ UNCHANGED configured

(***************************************************************************)
(* _validated_citations.                                                   *)
(***************************************************************************)

\* t[i..j] is a match of the pattern: a number in brackets.
IsLabel(t, i, j) ==
  /\ i + 2 <= j /\ j <= Len(t)
  /\ t[i] = Open
  /\ t[j] = Close
  /\ \A k \in i + 1 .. j - 1 : t[k] \in Digit

LabelAt(t, i) == \E j \in DOMAIN t : IsLabel(t, i, j)

LabelEnd(t, i) == CHOOSE j \in DOMAIN t : IsLabel(t, i, j)

\* int() of the digits after position i.
Number(t, i) ==
  LET value[k \in i .. LabelEnd(t, i) - 1] == IF k = i THEN 0 ELSE 10 * value[k - 1] + t[k]
  IN  value[LabelEnd(t, i) - 1]

IsSource(n) == n \in 1 .. Len(context)

Cited == {cited[i] : i \in DOMAIN cited}

Cite(n) == IF n \in Cited THEN cited ELSE Append(cited, n)

\* Mutant of KeepLabel: a label that is there already is not repeated.
KeepNewLabel ==
  /\ phase = "validate"
  /\ pos <= Len(reply)
  /\ LabelAt(reply, pos)
  /\ IsSource(Number(reply, pos))
  /\ answer' = IF Number(reply, pos) \in Cited THEN answer
               ELSE answer \o SubSeq(reply, pos, LabelEnd(reply, pos))
  /\ cited' = Cite(Number(reply, pos))
  /\ pos' = LabelEnd(reply, pos) + 1
  /\ UNCHANGED <<configured, phase, request, attempt, search, chats, reply, status, citations>>

KeepLabel ==
  /\ phase = "validate"
  /\ pos <= Len(reply)
  /\ LabelAt(reply, pos)
  /\ IsSource(Number(reply, pos))
  /\ answer' = answer \o SubSeq(reply, pos, LabelEnd(reply, pos))
  /\ cited' = Cite(Number(reply, pos))
  /\ pos' = LabelEnd(reply, pos) + 1
  /\ UNCHANGED <<configured, phase, request, attempt, search, chats, reply, status, citations>>

\* Mutant of DropLabel: the label stays in the answer.
LeaveLabel ==
  /\ phase = "validate"
  /\ pos <= Len(reply)
  /\ LabelAt(reply, pos)
  /\ ~ IsSource(Number(reply, pos))
  /\ answer' = answer \o SubSeq(reply, pos, LabelEnd(reply, pos))
  /\ pos' = LabelEnd(reply, pos) + 1
  /\ UNCHANGED <<configured, phase, request, attempt, search, chats, reply, cited,
                 status, citations>>

DropLabel ==
  /\ phase = "validate"
  /\ pos <= Len(reply)
  /\ LabelAt(reply, pos)
  /\ ~ IsSource(Number(reply, pos))
  /\ pos' = LabelEnd(reply, pos) + 1
  /\ UNCHANGED <<configured, phase, request, attempt, search, chats, reply, answer, cited,
                 status, citations>>

KeepCharacter ==
  /\ phase = "validate"
  /\ pos <= Len(reply)
  /\ ~ LabelAt(reply, pos)
  /\ answer' = Append(answer, reply[pos])
  /\ pos' = pos + 1
  /\ UNCHANGED <<configured, phase, request, attempt, search, chats, reply, cited, status, citations>>

\* Mutant of Sources: the chunks in the order of the context.
SourcesAsRanked == SelectSeq(context, LAMBDA c : \E n \in Cited : context[n] = c)

\* The chunks behind the labels, in the order of the labels; the best chunk
\* when there is no label.
Sources ==
  IF cited = <<>> THEN <<context[1]>> ELSE [i \in DOMAIN cited |-> context[cited[i]]]

Respond ==
  /\ phase = "validate"
  /\ pos > Len(reply)
  /\ answer' = Trimmed(answer)
  /\ citations' = Sources
  /\ phase' = "done"
  /\ status' = 200
  /\ UNCHANGED <<configured, request, attempt, search, chats, reply, pos, cited>>

-----------------------------------------------------------------------------

RetrievalStep ==
  \/ EmbedQuery \/ Search
  \/ SkipHit \/ TakeHit \/ EndSelection
  \/ AskModel
  \/ KeepLabel \/ DropLabel \/ KeepCharacter \/ Respond

\* The response is out, or the process is gone: the handler's locals are too.
Discard ==
  /\ phase' = "idle"
  /\ attempt' = 0 /\ chats' = 0
  /\ hits' = <<>> /\ place' = 1 /\ context' = <<>> /\ total' = 0
  /\ reply' = <<>> /\ pos' = 1 /\ answer' = <<>> /\ cited' = <<>>
  /\ status' = 0 /\ citations' = <<>>
  /\ UNCHANGED <<configured, request>>

RetrievalNext == Receive \/ RetrievalStep \/ Discard

RetrievalSpec == RetrievalInit /\ [][RetrievalNext]_<<configured, retrievalVars>>

-----------------------------------------------------------------------------
(***************************************************************************)
(* Properties.                                                             *)
(***************************************************************************)

Answered == phase = "done" /\ status = 200

\* A response cites only chunks of the request's namespace that pass the
\* threshold and that the model was shown, none twice, and the context it
\* was shown is within the limit unless it is a single chunk.
CitationsAreGrounded ==
  Answered =>
    /\ \A i \in DOMAIN citations :
         /\ NamespaceOf[citations[i]] = namespace
         /\ Score[citations[i]] >= MinScore
         /\ \E n \in DOMAIN context : context[n] = citations[i]
    /\ \A i, j \in DOMAIN citations : citations[i] = citations[j] => i = j
    /\ Len(context) <= topK
    /\ Len(context) <= 1 \/ total <= MaxContext

\* What the first n of the chunks in s add up to.
Length(s, n) ==
  LET sum[k \in 0 .. n] == IF k = 0 THEN 0 ELSE sum[k - 1] + Size[s[k]]
  IN  sum[n]

\* The model is shown the longest run of the best relevant chunks that fits,
\* and never nothing; it is asked whenever there is a relevant chunk.
ContextIsLongestPrefix ==
  LET relevant == {i \in DOMAIN hits : Relevant(hits[i])}
      shown    == Len(context)
      fits(n)  == n = 1 \/ Length(hits, n) <= MaxContext
  IN  /\ phase \in {"answer", "validate"} =>
           /\ context # <<>>
           /\ context = SubSeq(hits, 1, shown)
           /\ 1 .. shown \subseteq relevant
           /\ fits(shown)
           /\ relevant = 1 .. shown \/ (shown + 1 \in relevant /\ ~ fits(shown + 1))
      /\ Answered => (relevant = {} <=> chats = 0)
      /\ Answered /\ chats = 0 => citations = <<>>

Labels(t) == {i \in DOMAIN t : LabelAt(t, i)}

\* The sources the model named, and where it named each first.
Named == {n \in {Number(reply, i) : i \in Labels(reply)} : IsSource(n)}

FirstAt(n) ==
  CHOOSE i \in Labels(reply) :
    /\ Number(reply, i) = n
    /\ \A j \in Labels(reply) : Number(reply, j) = n => i <= j

\* citation_id n is the n-th source that the answer names, not the source with
\* the label [n]; an answer that names none cites the best chunk.
CitationsFollowLabels ==
  Answered /\ context # <<>> =>
    \/ Named = {} /\ citations = <<context[1]>>
    \/ /\ Named # {}
       /\ Len(citations) = Cardinality(Named)
       /\ \A n \in Named :
            citations[Cardinality({m \in Named : FirstAt(m) <= FirstAt(n)})] = context[n]

\* The characters of the labels that name no source, and the other ones.
Gone == UNION {i .. LabelEnd(reply, i) : i \in {l \in Labels(reply) : ~ IsSource(Number(reply, l))}}
Left == DOMAIN reply \ Gone

\* Without the white space that begins or ends what is left.
Sent ==
  {k \in Left : \E i, j \in Left \cap Shows(reply) : i <= k /\ k <= j}

\* Validation removes the labels that name no source, and the white space that
\* is then outermost, and nothing else.
OnlyFalseLabelsRemoved ==
  Answered =>
    /\ Len(answer) = Cardinality(Sent)
    /\ \A k \in Sent : answer[Cardinality({l \in Sent : l <= k})] = reply[k]

\* A label inside the brackets of what looks like another: "[[9]1]".
Enclosed(t) ==
  \E i, j \in DOMAIN t :
    /\ i < j
    /\ t[i] = Open
    /\ LabelAt(t, j)
    /\ \A k \in i + 1 .. j - 1 : t[k] \in Digit

\* The labels in the response name sources. The labels are removed in one
\* pass, which may leave a label that was not there before, but only where
\* the model put one label inside another.
LabelsNameSources ==
  Answered /\ ~ Enclosed(reply) =>
    \A i \in Labels(answer) : IsSource(Number(answer, i))

=============================================================================
