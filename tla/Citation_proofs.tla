--------------------------- MODULE Citation_proofs ---------------------------
(***************************************************************************)
(* Theorems about _validated_citations and the citations of the response,  *)
(* for every answer of the model: what the one pass over the answer copies *)
(* and lists.                                                              *)
(***************************************************************************)
EXTENDS Retrieval_proofs, FiniteSetTheorems

-----------------------------------------------------------------------------
(***************************************************************************)
(* The invariant of the pass.                                              *)
(***************************************************************************)

\* g says which character of the reply each one of the answer is: those that
\* are left of what has been passed, in their order.
Copies(g) ==
  /\ \A i \in DOMAIN answer : g[i] < pos /\ answer[i] = reply[g[i]]
  /\ \A i, j \in DOMAIN answer : i < j => g[i] < g[j]
  /\ \A k \in Left : k < pos => \E i \in DOMAIN answer : g[i] = k

\* The pass stands behind whole labels only, and `answer` is what it copied.
PassInv ==
  /\ pos <= Len(reply) + 1
  /\ \A l \in Labels(reply) : l < pos => LabelEnd(reply, l) < pos
  /\ ~ Answered => \E g \in [DOMAIN answer -> Left] : Copies(g)

\* g says which character of the reply each one of the answer that is sent is.
Sends(g) ==
  /\ \A i \in DOMAIN answer : answer[i] = reply[g[i]]
  /\ \A i, j \in DOMAIN answer : i < j => g[i] < g[j]
  /\ \A k \in Sent : \E i \in DOMAIN answer : g[i] = k

\* f says where the reply names each cited source first.
Firsts(f) ==
  /\ \A i \in DOMAIN cited :
       /\ f[i] < pos
       /\ Number(reply, f[i]) = cited[i]
       /\ \A l \in Labels(reply) : l < f[i] => Number(reply, l) # cited[i]
  /\ \A i, j \in DOMAIN cited : i < j => f[i] < f[j]

\* The sources named so far are cited, in the order of their first labels.
FirstsInv ==
  /\ \E f \in [DOMAIN cited -> Labels(reply)] : Firsts(f)
  /\ \A l \in Labels(reply) :
       l < pos /\ IsSource(Number(reply, l)) => \E i \in DOMAIN cited : cited[i] = Number(reply, l)

\* There is no reply before the model is asked, and an answer is sent when the
\* reply has been passed.
ResultInv ==
  /\ phase \notin {"validate", "done"} => reply = <<>> /\ pos = 1 /\ answer = <<>> /\ cited = <<>>
  /\ Answered => pos > Len(reply) /\ \E g \in [DOMAIN answer -> Sent] : Sends(g)
  /\ Answered /\ context # <<>> => citations = Sources

-----------------------------------------------------------------------------
(***************************************************************************)
(* Labels and numbers.                                                     *)
(***************************************************************************)

\* No label begins inside another.
LEMMA LabelsApart ==
  ASSUME NEW t \in Text, NEW i \in Nat \ {0}, LabelAt(t, i), NEW k \in i + 1 .. LabelEnd(t, i)
  PROVE  ~ LabelAt(t, k)
<1>1. LabelEnd(t, i) \in Nat /\ IsLabel(t, i, LabelEnd(t, i))
  BY LabelEndIsEnd DEF Text
<1>2. t[k] \in Digit \/ t[k] = Close
  BY <1>1 DEF IsLabel
<1>3. t[k] # Open
  BY <1>2 DEF Digit, Open, Close
<1> QED
  BY <1>3 DEF LabelAt, IsLabel

\* A number is read digit by digit.
LEMMA NumberFacts ==
  ASSUME NEW t \in Text, NEW i \in Nat \ {0}, LabelAt(t, i)
  PROVE  \E v \in [i .. LabelEnd(t, i) - 1 -> Nat] :
           /\ Number(t, i) = v[LabelEnd(t, i) - 1]
           /\ \A k \in i .. LabelEnd(t, i) - 1 : v[k] = IF k = i THEN 0 ELSE 10 * v[k - 1] + t[k]
<1> DEFINE e == LabelEnd(t, i) - 1
           Values(f) == f = [k \in i .. e |-> IF k = i THEN 0 ELSE 10 * f[k - 1] + t[k]]
           value == CHOOSE f : Values(f)
           step == [k \in Int |-> [v \in Nat |-> IF k \in i + 1 .. e THEN 10 * v + t[k] ELSE v]]
<1>1. Number(t, i) = value[e]
  BY DEF Number
<1>2. e \in Int /\ i \in Int /\ i <= e /\ 0 \in Nat /\ LabelEnd(t, i) = e + 1
  BY LabelEndIsEnd DEF Text
<1> HIDE DEF e
<1>3. \A k \in i + 1 .. e : t[k] \in Nat
  <2>1. IsLabel(t, i, LabelEnd(t, i)) /\ (LabelEnd(t, i) - 1 = e)
    BY <1>2, LabelEndIsEnd
  <2>2. \A k \in i + 1 .. e : t[k] \in Digit
    BY <2>1 DEF IsLabel
  <2> QED
    BY <2>2 DEF Digit
<1>4. step \in [Int -> [Nat -> Nat]]
  BY <1>3
<1>5. \A k \in i + 1 .. e, v \in Nat : step[k][v] = 10 * v + t[k]
  OBVIOUS
<1> HIDE DEF step, value
<1>6. PICK f \in [i .. e -> Nat] : Follows(f, i, e, 0, step)
  BY <1>2, <1>4, RecursionExists
<1>7. \A k \in i .. e : k = i \/ (k \in i + 1 .. e /\ k - 1 \in i .. e)
  <2>1. i \in Int /\ e \in Int
    BY <1>2
  <2> QED
    BY <2>1
<1>8. \A k \in i .. e : f[k] = IF k = i THEN 0 ELSE 10 * f[k - 1] + t[k]
  BY <1>5, <1>6, <1>7 DEF Follows
<1>9. Values(f)
  BY <1>8
<1>10. Values(value)
  BY <1>9 DEF value
<1>11. \A k \in i .. e : value[k] = IF k = i THEN 0 ELSE 10 * value[k - 1] + t[k]
  BY <1>10
<1>12. Parallel(value, f, i, e)
  BY <1>8, <1>11 DEF Parallel
<1>13. Agree(value, f, i, e)
  BY <1>2, <1>12, RecursionUnique
<1>14. Number(t, i) = f[e]
  BY <1>1, <1>2, <1>13 DEF Agree
<1> QED
  BY <1>8, <1>14 DEF e

\* The same label in another text, or at another place, is the same number.
LEMMA NumberMoved ==
  ASSUME NEW s \in Text, NEW t \in Text, NEW i \in Nat \ {0}, NEW j \in DOMAIN s, NEW d \in Int,
         i + d \in Nat \ {0}, j + d \in DOMAIN t, IsLabel(s, i, j), IsLabel(t, i + d, j + d),
         \A k \in i .. j : s[k] = t[k + d]
  PROVE  Number(s, i) = Number(t, i + d)
<1> DEFINE a == i + d
<1>1. LabelAt(s, i) /\ LabelEnd(s, i) = j /\ j \in Int /\ i + 2 <= j
  <2>1. LabelAt(s, i)
    BY DEF LabelAt
  <2>2. LabelEnd(s, i) = j
    BY <2>1, LabelEndIsEnd
  <2>3. j \in Int
    BY DEF Text
  <2>4. i + 2 <= j
    BY DEF IsLabel
  <2> QED
    BY <2>1, <2>2, <2>3, <2>4
<1>2. LabelAt(t, a) /\ LabelEnd(t, a) = j + d
  <2>1. LabelAt(t, a)
    BY DEF LabelAt
  <2> QED
    BY <2>1, LabelEndIsEnd
<1>3. PICK v \in [i .. j - 1 -> Nat] :
        /\ Number(s, i) = v[j - 1]
        /\ \A k \in i .. j - 1 : v[k] = IF k = i THEN 0 ELSE 10 * v[k - 1] + s[k]
  BY <1>1, NumberFacts
<1>4. PICK w \in [a .. (j + d) - 1 -> Nat] :
        /\ Number(t, a) = w[(j + d) - 1]
        /\ \A k \in a .. (j + d) - 1 : w[k] = IF k = a THEN 0 ELSE 10 * w[k - 1] + t[k]
  <2> HIDE DEF a
  <2>1. a \in Nat \ {0}
    BY DEF a
  <2> QED
    BY <2>1, <1>2, NumberFacts
<1> DEFINE u == [k \in i .. j - 1 |-> w[k + d]]
           b == j - 1
<1>5. \A k \in i .. b : k + d \in a .. (j + d) - 1 /\ (k = i <=> k + d = a)
                        /\ (k # i => k - 1 \in i .. b /\ (k - 1) + d = (k + d) - 1) /\ s[k] = t[k + d]
  BY <1>1
<1>6. \A k \in i .. b : u[k] = IF k = i THEN 0 ELSE 10 * u[k - 1] + s[k]
  BY <1>4, <1>5
<1>7. b \in Int /\ b \in i .. b /\ b + d = (j + d) - 1 /\ i \in Int
  BY <1>1
<1>8. u[b] = Number(t, a)
  BY <1>4, <1>7
<1> HIDE DEF u, b, a
<1>9. Parallel(v, u, i, b)
  BY <1>3, <1>6 DEF Parallel, b
<1>10. Agree(v, u, i, b)
  BY <1>7, <1>9, RecursionUnique
<1> QED
  BY <1>3, <1>7, <1>8, <1>10 DEF Agree, b, a

\* The first i values of c.
Beginning(c, i) == {c[j] : j \in 1 .. i}

\* The first i values of a list without repetitions are i values.
LEMMA BeginningCounts ==
  ASSUME NEW n \in Nat, NEW c, DOMAIN c = 1 .. n, Distinct(c), NEW i \in 0 .. n
  PROVE  Cardinality(Beginning(c, i)) = i
<1> DEFINE T == Beginning(c, i)
           h == [j \in 1 .. i |-> c[j]]
<1>1. h \in Bijection(1 .. i, T)
  BY DEF Bijection, Injection, Surjection, IsInjective, Distinct, Beginning
<1> HIDE DEF T, h
<1>2. ExistsBijection(1 .. i, T) /\ i \in Nat
  BY <1>1 DEF ExistsBijection
<1>3. Cardinality(T) = i
  BY <1>2, FS_CountingElements
<1> QED
  BY <1>3 DEF T

-----------------------------------------------------------------------------
(***************************************************************************)
(* The steps.                                                              *)
(***************************************************************************)

\* What there is to know of the reply while it is passed.
LEMMA PassTypes ==
  ASSUME RetrievalTypeOK
  PROVE  /\ reply \in Text /\ Len(reply) \in Nat /\ DOMAIN reply = 1 .. Len(reply)
         /\ answer \in Text /\ Len(answer) \in Nat /\ DOMAIN answer = 1 .. Len(answer)
         /\ cited \in Seq(Nat) /\ Len(cited) \in Nat /\ DOMAIN cited = 1 .. Len(cited)
         /\ pos \in Nat \ {0}
         /\ \A l \in Labels(reply) : l \in Nat \ {0} /\ l \in DOMAIN reply /\ LabelAt(reply, l)
  BY DEF RetrievalTypeOK, Text, Labels

\* A label that reaches beyond pos begins there.
LEMMA GoneAhead ==
  ASSUME RetrievalTypeOK, PassInv, NEW k \in Gone, k >= pos
  PROVE  \E l \in Labels(reply) :
           l \in pos .. k /\ k <= LabelEnd(reply, l) /\ ~ IsSource(Number(reply, l))
<1>1. PICK l \in Labels(reply) : ~ IsSource(Number(reply, l)) /\ k \in l .. LabelEnd(reply, l)
  BY DEF Gone
<1>2. l \in Nat \ {0} /\ LabelEnd(reply, l) \in Nat
  BY PassTypes, LabelEndIsEnd
<1>3. ~ (l < pos)
  BY <1>1, <1>2, PassTypes DEF PassInv
<1> QED
  BY <1>1, <1>2, <1>3, PassTypes

\* The pass begins with nothing.
LEMMA PassBegins ==
  ASSUME reply' \in Text, pos' = 1, answer' = <<>>, cited' = <<>>
  PROVE  PassInv' /\ FirstsInv'
<1>1. Len(reply') \in Nat /\ \A l \in Labels(reply') : ~ (l < 1)
  BY DEF Text, Labels
<1>2. DOMAIN answer' = {} /\ DOMAIN cited' = {}
  OBVIOUS
<1>3. PassInv'
  <2> DEFINE g == [i \in {} |-> i]
  <2>1. g \in [DOMAIN answer' -> Left'] /\ Copies(g)'
    <3>1. \A k \in Left' : ~ (k < 1)
      BY DEF Left, Text
    <3> QED
      BY <1>2, <3>1 DEF Copies
  <2> HIDE DEF g
  <2>2. (\E h \in [DOMAIN answer -> Left] : Copies(h))'
    BY <2>1
  <2>3. pos' <= Len(reply') + 1 /\ \A l \in Labels(reply') : l < pos' => LabelEnd(reply', l) < pos'
    BY <1>1
  <2> QED
    BY <2>2, <2>3 DEF PassInv
<1>4. FirstsInv'
  <2> DEFINE f == [i \in {} |-> i]
  <2>1. f \in [DOMAIN cited' -> Labels(reply')] /\ Firsts(f)'
    BY <1>2 DEF Firsts
  <2> HIDE DEF f
  <2> QED
    BY <1>1, <2>1 DEF FirstsInv
<1> QED
  BY <1>3, <1>4

\* When the model is not asked nothing of it is sent.
LEMMA NothingSent ==
  ASSUME reply' = <<>>, answer' = <<>>
  PROVE  (\E g \in [DOMAIN answer -> Sent] : Sends(g))'
<1> DEFINE g == [i \in {} |-> i]
<1>1. DOMAIN answer' = {} /\ DOMAIN reply' = {} /\ Sent' = {}
  BY DEF Sent, Left
<1>2. g \in [DOMAIN answer' -> Sent'] /\ Sends(g)'
  BY <1>1 DEF Sends
<1> HIDE DEF g
<1> QED
  BY <1>2

\* What strip() leaves of the copy.
LEMMA TrimmedIsSent ==
  ASSUME RetrievalTypeOK, PassInv, Respond
  PROVE  (\E g \in [DOMAIN answer -> Sent] : Sends(g))'
<1>1. /\ UNCHANGED <<reply, context>> /\ answer' = Trimmed(answer)
      /\ pos > Len(reply) /\ ~ Answered
  BY DEF Respond, Answered, search
<1>2. Sent' = Sent
  BY <1>1 DEF Sent, Left, Gone, IsSource
<1>3. PICK g \in [DOMAIN answer -> Left] : Copies(g)
  BY <1>1 DEF PassInv
<1>4. /\ Left \subseteq Int /\ DOMAIN answer = 1 .. Len(answer) /\ Len(answer) \in Nat
      /\ \A k \in Left : \E i \in DOMAIN answer : g[i] = k
  <2>1. \A k \in Left : k < pos /\ k \in Int
    BY <1>1, PassTypes DEF Left
  <2> QED
    BY <1>3, <2>1, PassTypes DEF Copies
<1>5. /\ \A i \in DOMAIN answer : g[i] \in Left /\ g[i] \in Int /\ answer[i] = reply[g[i]]
      /\ \A i, j \in DOMAIN answer : i < j => g[i] < g[j]
  BY <1>3, <1>4 DEF Copies
<1>6. \A i \in DOMAIN answer : g[i] \in Shows(reply) <=> i \in Shows(answer)
  BY <1>5, PassTypes DEF Shows, Left
<1>7. \A i, j \in DOMAIN answer : g[i] <= g[j] => i <= j
  BY <1>4, <1>5
<1>8. \A k \in Sent : \E u, v \in Shows(answer), i \in DOMAIN answer : g[i] = k /\ u <= i /\ i <= v
  <2> SUFFICES ASSUME NEW k \in Sent
               PROVE  \E u, v \in Shows(answer), i \in DOMAIN answer :
                        g[i] = k /\ u <= i /\ i <= v
    OBVIOUS
  <2>1. PICK x \in Left \cap Shows(reply), y \in Left \cap Shows(reply) : x <= k /\ k <= y
    BY DEF Sent
  <2>2. PICK u \in DOMAIN answer, v \in DOMAIN answer, i \in DOMAIN answer :
          g[u] = x /\ g[v] = y /\ g[i] = k
    BY <1>4, <2>1 DEF Sent
  <2>3. u \in Shows(answer) /\ v \in Shows(answer) /\ u <= i /\ i <= v
    BY <1>6, <1>7, <2>1, <2>2
  <2> QED
    BY <2>2, <2>3
<1>9. CASE Shows(answer) = {} /\ Trimmed(answer) = <<>>
  <2> DEFINE h == [i \in {} |-> i]
  <2>1. Sent' = {} /\ DOMAIN answer' = {}
    BY <1>1, <1>2, <1>8, <1>9
  <2>2. h \in [DOMAIN answer' -> Sent'] /\ Sends(h)'
    BY <2>1 DEF Sends
  <2> HIDE DEF h
  <2> QED
    BY <2>2
<1>10. ASSUME NEW a \in Shows(answer), NEW b \in Shows(answer), a <= b,
              Trimmed(answer) = SubSeq(answer, a, b),
              \A k \in Shows(answer) : a <= k /\ k <= b
       PROVE  (\E h \in [DOMAIN answer -> Sent] : Sends(h))'
  <2> DEFINE n == b - a + 1
             h == [i \in 1 .. n |-> g[i + a - 1]]
  <2>1. a \in 1 .. Len(answer) /\ b \in 1 .. Len(answer) /\ n \in Nat
    BY <1>4, <1>10 DEF Shows
  <2>2. /\ DOMAIN answer' = 1 .. n
        /\ \A i \in 1 .. n : i + a - 1 \in a .. b /\ i + a - 1 \in DOMAIN answer
                             /\ answer'[i] = answer[i + a - 1]
    <3>1. answer \in Seq(Digit \cup {Open, Close, Other, White})
      BY PassTypes DEF Text
    <3>2. answer' = SubSeq(answer, a, b)
      BY <1>1, <1>10
    <3> QED
      BY <1>4, <2>1, <3>1, <3>2
  <2>3. \A i \in a .. b : i \in DOMAIN answer /\ g[i] \in Sent
    <3> TAKE i \in a .. b
    <3>1. i \in DOMAIN answer /\ a \in DOMAIN answer /\ b \in DOMAIN answer
      BY <1>4, <2>1
    <3>2. /\ g[a] \in Left \cap Shows(reply) /\ g[b] \in Left \cap Shows(reply)
          /\ g[a] <= g[i] /\ g[i] <= g[b] /\ g[i] \in Left
      BY <1>4, <1>5, <1>6, <3>1
    <3> QED
      BY <3>1, <3>2 DEF Sent
  <2>4. \A i \in 1 .. n : h[i] = g[i + a - 1] /\ h[i] \in Sent /\ answer'[i] = reply[h[i]]
    BY <1>5, <2>2, <2>3
  <2>5. \A i, j \in 1 .. n : i < j => h[i] < h[j]
    <3> TAKE i \in 1 .. n, j \in 1 .. n
    <3>1. i + a - 1 \in DOMAIN answer /\ j + a - 1 \in DOMAIN answer
      BY <2>2
    <3>2. i < j => i + a - 1 < j + a - 1
      BY <2>1
    <3> QED
      BY <1>5, <3>1, <3>2
  <2>6. \A k \in Sent : \E i \in 1 .. n : h[i] = k
    <3> TAKE k \in Sent
    <3>1. PICK u \in Shows(answer), v \in Shows(answer), i \in DOMAIN answer :
            g[i] = k /\ u <= i /\ i <= v
      BY <1>8
    <3>2. i \in a .. b /\ i - a + 1 \in 1 .. n /\ (i - a + 1) + a - 1 = i
      <4>1. a <= u /\ v <= b /\ u \in Int /\ v \in Int /\ i \in Int
        BY <1>4, <1>10 DEF Shows
      <4> QED
        BY <2>1, <3>1, <4>1
    <3>3. h[i - a + 1] = g[i]
      BY <3>2
    <3> QED
      BY <3>1, <3>2, <3>3
  <2>7. h \in [1 .. n -> Sent]
    BY <2>4
  <2> HIDE DEF h, n
  <2>8. h \in [DOMAIN answer' -> Sent'] /\ Sends(h)'
    BY <1>1, <1>2, <2>2, <2>4, <2>5, <2>6, <2>7 DEF Sends
  <2> QED
    BY <2>8
<1> QED
  BY <1>9, <1>10, PassTypes, TrimmedFacts

\* Before the first request there is no reply to pass.
LEMMA InitAnswer ==
  ASSUME RetrievalInit
  PROVE  PassInv /\ FirstsInv /\ ResultInv
<1> USE DEF RetrievalInit, Fresh
<1>1. Labels(reply) = {} /\ Left = {} /\ DOMAIN answer = {} /\ DOMAIN cited = {}
  BY DEF Labels, Left
<1>2. PassInv
  <2> DEFINE g == [i \in {} |-> i]
  <2>1. g \in [DOMAIN answer -> Left] /\ Copies(g)
    BY <1>1 DEF Copies
  <2> HIDE DEF g
  <2>2. \E h \in [DOMAIN answer -> Left] : Copies(h)
    BY <2>1
  <2>3. pos <= Len(reply) + 1 /\ \A l \in Labels(reply) : l < pos => LabelEnd(reply, l) < pos
    BY <1>1
  <2> QED
    BY <2>2, <2>3 DEF PassInv
<1>3. FirstsInv
  <2> DEFINE f == [i \in {} |-> i]
  <2>1. f \in [DOMAIN cited -> Labels(reply)] /\ Firsts(f)
    BY <1>1 DEF Firsts
  <2> HIDE DEF f
  <2> QED
    BY <1>1, <2>1 DEF FirstsInv
<1>4. ResultInv
  BY DEF ResultInv, Answered
<1> QED
  BY <1>2, <1>3, <1>4

\* No label begins inside the one at pos, so the pass goes on behind its end.
LEMMA PassesLabel ==
  ASSUME RetrievalTypeOK, PassInv, pos <= Len(reply), LabelAt(reply, pos)
  PROVE  /\ pos \in Labels(reply) /\ LabelEnd(reply, pos) \in pos + 2 .. Len(reply)
         /\ \A l \in Labels(reply) : l < LabelEnd(reply, pos) + 1 =>
              l = pos \/ (l < pos /\ LabelEnd(reply, l) < pos)
<1>1. pos \in Labels(reply) /\ LabelEnd(reply, pos) \in pos + 2 .. Len(reply)
  BY PassTypes, LabelEndIsEnd DEF Labels
<1>2. ASSUME NEW l \in Labels(reply), l < LabelEnd(reply, pos) + 1
      PROVE  l = pos \/ (l < pos /\ LabelEnd(reply, l) < pos)
  <2>1. l \in Nat \ {0} /\ LabelAt(reply, l) /\ LabelEnd(reply, pos) \in Nat
    BY <1>1, PassTypes
  <2>2. l \notin pos + 1 .. LabelEnd(reply, pos)
    BY <2>1, PassTypes, LabelsApart
  <2>3. l <= pos
    BY <1>1, <1>2, <2>1, <2>2, PassTypes
  <2> QED
    BY <2>1, <2>3, PassTypes DEF PassInv
<1> QED
  BY <1>1, <1>2

\* Copying the characters from pos to e extends the copy by them.
LEMMA PassCopies ==
  ASSUME RetrievalTypeOK, PassInv, ~ Answered, NEW e \in pos .. Len(reply),
         UNCHANGED <<reply, context>>, pos' = e + 1,
         answer' = answer \o SubSeq(reply, pos, e),
         \A k \in pos .. e : k \notin Gone,
         \A l \in Labels(reply) : l < e + 1 => LabelEnd(reply, l) < e + 1
  PROVE  PassInv'
<1> DEFINE L == Len(answer)
           m == e - pos + 1
<1>1. PICK g \in [DOMAIN answer -> Left] : Copies(g)
  BY DEF PassInv
<1> DEFINE h == [i \in 1 .. L + m |-> IF i <= L THEN g[i] ELSE pos + (i - L) - 1]
<1>2. /\ answer \in Text /\ L \in Nat /\ DOMAIN answer = 1 .. L /\ pos \in Nat \ {0} /\ e \in Nat
      /\ reply \in Text /\ Len(reply) \in Nat /\ DOMAIN reply = 1 .. Len(reply) /\ m \in Nat
  BY PassTypes
<1>3. Left' = Left /\ Labels(reply)' = Labels(reply)
  BY DEF Left, Gone, IsSource
<1>4. /\ SubSeq(reply, pos, e) \in Text /\ Len(SubSeq(reply, pos, e)) = m
      /\ \A i \in 1 .. m : SubSeq(reply, pos, e)[i] = reply[pos + i - 1]
  BY <1>2 DEF Text
<1>5. /\ Len(answer') = L + m /\ DOMAIN answer' = 1 .. L + m
      /\ \A i \in 1 .. L : answer'[i] = answer[i]
      /\ \A i \in L + 1 .. L + m : answer'[i] = reply[pos + (i - L) - 1]
  BY <1>2, <1>4 DEF Text
<1>6. \A i \in 1 .. L + m : i \in 1 .. L \/ (i \in L + 1 .. L + m /\ pos + (i - L) - 1 \in pos .. e)
  BY <1>2
<1>7. \A k \in pos .. e : k \in Left
  BY <1>2 DEF Left
<1>8. \A i \in 1 .. L : g[i] \in Left /\ g[i] \in Int /\ g[i] < pos
  <2>1. Left \subseteq Int
    BY <1>2 DEF Left
  <2>2. \A i \in 1 .. L : g[i] \in Left
    BY <1>1, <1>2
  <2>3. \A i \in 1 .. L : g[i] < pos
    BY <1>1, <1>2 DEF Copies
  <2> QED
    BY <2>1, <2>2, <2>3
<1>9. /\ \A i \in 1 .. L : h[i] = g[i]
      /\ \A i \in L + 1 .. L + m : h[i] = pos + (i - L) - 1
  BY <1>2
<1>10. h \in [DOMAIN answer' -> Left']
  BY <1>2, <1>3, <1>5, <1>6, <1>7, <1>8, <1>9
<1> HIDE DEF h
<1>11. \A i \in DOMAIN answer' : h[i] < pos' /\ answer'[i] = reply'[h[i]]
  <2> TAKE i \in DOMAIN answer'
  <2>1. CASE i \in 1 .. L
    BY <1>1, <1>2, <1>5, <1>8, <1>9, <2>1 DEF Copies
  <2>2. CASE i \in L + 1 .. L + m
    <3> DEFINE k == pos + (i - L) - 1
    <3>1. h[i] = k /\ answer'[i] = reply[k]
      BY <1>5, <1>9, <2>2
    <3>2. k \in pos .. e
      BY <1>2, <2>2
    <3> HIDE DEF k
    <3>3. k < e + 1
      BY <1>2, <3>2
    <3> QED
      BY <3>1, <3>3
  <2> QED
    BY <1>5, <1>6, <2>1, <2>2
<1>12. \A i, j \in DOMAIN answer' : i < j => h[i] < h[j]
  <2> SUFFICES ASSUME NEW i \in 1 .. L + m, NEW j \in 1 .. L + m, i < j
               PROVE  h[i] < h[j]
    BY <1>5
  <2>1. CASE j \in 1 .. L
    <3>1. i \in 1 .. L
      BY <1>2, <2>1
    <3>2. g[i] < g[j]
      BY <1>1, <1>2, <2>1, <3>1 DEF Copies
    <3> QED
      BY <1>9, <2>1, <3>1, <3>2
  <2>2. CASE i \in 1 .. L /\ j \in L + 1 .. L + m
    BY <1>2, <1>6, <1>8, <1>9, <2>2
  <2>3. CASE i \in L + 1 .. L + m
    BY <1>2, <1>9, <2>3
  <2> QED
    BY <1>2, <1>6, <2>1, <2>2, <2>3
<1>13. \A k \in Left' : k < pos' => \E i \in DOMAIN answer' : h[i] = k
  <2> SUFFICES ASSUME NEW k \in Left, k < e + 1
               PROVE  \E i \in 1 .. L + m : h[i] = k
    BY <1>3, <1>5
  <2>1. k \in Int
    BY <1>2 DEF Left
  <2>2. CASE k < pos
    <3>1. PICK i \in 1 .. L : g[i] = k
      BY <1>1, <1>2, <2>2 DEF Copies
    <3> QED
      BY <1>2, <1>9, <3>1
  <2>3. CASE k >= pos
    <3> DEFINE i == L + (k - pos) + 1
    <3>1. i \in L + 1 .. L + m /\ i \in 1 .. L + m /\ pos + (i - L) - 1 = k
      BY <1>2, <2>1, <2>3
    <3> QED
      BY <1>9, <3>1
  <2> QED
    BY <1>2, <2>1, <2>2, <2>3
<1>14. PICK c \in [DOMAIN answer' -> Left'] :
         /\ \A i \in DOMAIN answer' : c[i] < pos' /\ answer'[i] = reply'[c[i]]
         /\ \A i, j \in DOMAIN answer' : i < j => c[i] < c[j]
         /\ \A k \in Left' : k < pos' => \E i \in DOMAIN answer' : c[i] = k
  BY <1>10, <1>11, <1>12, <1>13
<1>15. (\E g1 \in [DOMAIN answer -> Left] : Copies(g1))'
  BY <1>14 DEF Copies
<1>16. pos' <= Len(reply') + 1 /\ \A l \in Labels(reply') : l < pos' => LabelEnd(reply', l) < pos'
  BY <1>2, <1>3
<1> QED
  BY <1>15, <1>16 DEF PassInv

\* The three steps of the pass copy a label, drop one or copy a character.
LEMMA PassStep ==
  ASSUME RetrievalTypeOK, PassInv, KeepLabel \/ DropLabel \/ KeepCharacter
  PROVE  PassInv'
<1>1. UNCHANGED <<reply, context>> /\ pos <= Len(reply) /\ pos \in pos .. Len(reply)
  BY PassTypes DEF KeepLabel, DropLabel, KeepCharacter, search
<1>2. ~ Answered
  BY DEF KeepLabel, DropLabel, KeepCharacter, Answered
<1>3. CASE KeepCharacter
  <2>1. answer' = Append(answer, reply[pos]) /\ pos' = pos + 1 /\ ~ LabelAt(reply, pos)
    BY <1>3 DEF KeepCharacter
  <2>2. answer' = answer \o SubSeq(reply, pos, pos)
    BY <1>1, <2>1, PassTypes DEF Text
  <2>3. pos \notin Labels(reply)
    BY <2>1 DEF Labels
  <2>4. pos \notin Gone
    <3> SUFFICES ASSUME pos \in Gone
                 PROVE  FALSE
      OBVIOUS
    <3>1. PICK l \in Labels(reply) : l \in pos .. pos
      BY PassTypes, GoneAhead
    <3> QED
      BY <2>3, <3>1, PassTypes
  <2>5. \A l \in Labels(reply) : l < pos + 1 => LabelEnd(reply, l) < pos + 1
    <3> TAKE l \in Labels(reply)
    <3>1. LabelEnd(reply, l) \in Int /\ l \in Int
      BY PassTypes, LabelEndIsEnd
    <3> QED
      BY <2>3, <3>1, PassTypes DEF PassInv
  <2>6. \A k \in pos .. pos : k \notin Gone
    BY <2>4, PassTypes
  <2> QED
    BY <1>1, <1>2, <2>1, <2>2, <2>5, <2>6, PassCopies
<1>4. CASE KeepLabel
  <2> DEFINE e == LabelEnd(reply, pos)
  <2>1. /\ answer' = answer \o SubSeq(reply, pos, e) /\ pos' = e + 1
        /\ LabelAt(reply, pos) /\ IsSource(Number(reply, pos))
    BY <1>4 DEF KeepLabel
  <2>2. /\ e \in pos .. Len(reply)
        /\ \A l \in Labels(reply) : l < e + 1 => l = pos \/ (l < pos /\ LabelEnd(reply, l) < pos)
    BY <1>1, <2>1, PassesLabel, PassTypes
  <2>3. \A l \in Labels(reply) : l < e + 1 => LabelEnd(reply, l) < e + 1
    <3> TAKE l \in Labels(reply)
    <3>1. LabelEnd(reply, l) \in Int /\ l \in Int /\ e \in Int /\ pos \in Int
      BY <2>2, PassTypes, LabelEndIsEnd
    <3> QED
      BY <2>2, <3>1
  <2>4. ASSUME NEW k \in pos .. e, k \in Gone
        PROVE  FALSE
    <3>1. PICK l \in Labels(reply) : l \in pos .. k /\ ~ IsSource(Number(reply, l))
      BY <2>4, PassTypes, GoneAhead
    <3>2. pos \in Nat /\ e \in Int
      BY <2>2, PassTypes
    <3> HIDE DEF e
    <3>3. l < e + 1 /\ ~ (l < pos)
      BY <2>4, <3>1, <3>2
    <3>4. l = pos
      BY <2>2, <3>3
    <3> QED
      BY <2>1, <3>1, <3>4
  <2> HIDE DEF e
  <2> QED
    BY <1>1, <1>2, <2>1, <2>2, <2>3, <2>4, PassCopies
<1>5. CASE DropLabel
  <2> DEFINE e == LabelEnd(reply, pos)
  <2>1. /\ answer' = answer /\ pos' = e + 1
        /\ LabelAt(reply, pos) /\ ~ IsSource(Number(reply, pos))
    BY <1>5 DEF DropLabel
  <2>2. /\ e \in pos .. Len(reply) /\ pos \in Labels(reply)
        /\ \A l \in Labels(reply) : l < e + 1 => l = pos \/ (l < pos /\ LabelEnd(reply, l) < pos)
    BY <1>1, <2>1, PassesLabel, PassTypes
  <2>3. Left' = Left /\ Labels(reply') = Labels(reply)
    BY <1>1 DEF Left, Gone, IsSource
  <2>4. PICK g \in [DOMAIN answer -> Left] : Copies(g)
    BY <1>2 DEF PassInv
  <2>5. \A k \in pos .. e : k \notin Left
    BY <2>1, <2>2 DEF Left, Gone
  <2>6. \A i \in DOMAIN answer : g[i] < e + 1
    <3> TAKE i \in DOMAIN answer
    <3>1. g[i] < pos /\ g[i] \in Int /\ pos \in Int /\ e \in Int
      BY <2>2, <2>4, PassTypes DEF Copies, Left
    <3> QED
      BY <2>2, <3>1
  <2>7. \A k \in Left : k < e + 1 => k < pos
    BY <2>2, <2>5, PassTypes DEF Left
  <2>8. Copies(g)'
    BY <1>1, <2>1, <2>3, <2>4, <2>6, <2>7 DEF Copies
  <2>9. (\E g1 \in [DOMAIN answer -> Left] : Copies(g1))'
    BY <2>1, <2>3, <2>8
  <2>10. pos' <= Len(reply') + 1
    BY <1>1, <2>1, <2>2, PassTypes
  <2>11. \A l \in Labels(reply') : l < pos' => LabelEnd(reply', l) < pos'
    <3> SUFFICES ASSUME NEW l \in Labels(reply), l < e + 1
                 PROVE  LabelEnd(reply, l) < e + 1
      BY <1>1, <2>1, <2>3
    <3>1. LabelEnd(reply, l) \in Int /\ l \in Int /\ e \in Int /\ pos \in Int
      BY <2>2, PassTypes, LabelEndIsEnd
    <3> QED
      BY <2>2, <3>1
  <2> QED
    BY <2>9, <2>10, <2>11 DEF PassInv
<1> QED
  BY <1>3, <1>4, <1>5

\* A label is cited when it is the first that names its source.
LEMMA FirstsStep ==
  ASSUME RetrievalTypeOK, PassInv, FirstsInv, KeepLabel \/ DropLabel \/ KeepCharacter
  PROVE  FirstsInv'
<1>1. UNCHANGED <<reply, context>> /\ pos <= Len(reply)
  BY DEF KeepLabel, DropLabel, KeepCharacter, search
<1>2. Labels(reply)' = Labels(reply) /\ \A n : IsSource(n)' <=> IsSource(n)
  BY <1>1 DEF IsSource
<1>3. PICK f \in [DOMAIN cited -> Labels(reply)] : Firsts(f)
  BY DEF FirstsInv
<1>4. ASSUME UNCHANGED cited, pos' \in Int, pos <= pos',
             \A l \in Labels(reply) : l < pos' /\ IsSource(Number(reply, l)) => l < pos
      PROVE  FirstsInv'
  <2>1. \A i \in DOMAIN cited : f[i] < pos'
    <3> TAKE i \in DOMAIN cited
    <3>1. f[i] \in Int /\ f[i] < pos /\ pos \in Int
      BY <1>3, PassTypes DEF Firsts
    <3> QED
      BY <1>4, <3>1
  <2>2. Firsts(f)'
    BY <1>1, <1>2, <1>3, <1>4, <2>1 DEF Firsts
  <2>3. (\E g \in [DOMAIN cited -> Labels(reply)] : Firsts(g))'
    BY <1>1, <1>4, <2>2
  <2> QED
    BY <1>1, <1>2, <1>4, <2>3 DEF FirstsInv
<1>5. CASE KeepCharacter
  <2>1. UNCHANGED cited /\ pos' = pos + 1 /\ pos \notin Labels(reply)
    BY <1>5 DEF KeepCharacter, Labels
  <2>2. pos' \in Int /\ pos <= pos' /\ \A l \in Labels(reply) : l < pos' => l < pos
    BY <2>1, PassTypes
  <2> QED
    BY <1>4, <2>1, <2>2
<1>6. CASE DropLabel
  <2>1. /\ UNCHANGED cited /\ pos' = LabelEnd(reply, pos) + 1 /\ ~ IsSource(Number(reply, pos))
        /\ LabelAt(reply, pos)
    BY <1>6 DEF DropLabel
  <2>2. /\ LabelEnd(reply, pos) \in pos + 2 .. Len(reply)
        /\ \A l \in Labels(reply) : l < LabelEnd(reply, pos) + 1 => l = pos \/ l < pos
    BY <1>1, <2>1, PassesLabel
  <2>3. pos' \in Int /\ pos <= pos'
    BY <2>1, <2>2, PassTypes
  <2> QED
    BY <1>4, <2>1, <2>2, <2>3
<1>7. CASE KeepLabel
  <2> DEFINE n == Number(reply, pos)
  <2>1. /\ cited' = Cite(n) /\ pos' = LabelEnd(reply, pos) + 1 /\ IsSource(n)
        /\ LabelAt(reply, pos)
    BY <1>7 DEF KeepLabel
  <2>2. /\ LabelEnd(reply, pos) \in pos + 2 .. Len(reply) /\ pos \in Labels(reply)
        /\ \A l \in Labels(reply) : l < LabelEnd(reply, pos) + 1 => l = pos \/ l < pos
    BY <1>1, <2>1, PassesLabel
  <2>3. pos' \in Int /\ pos < pos' /\ n \in Nat /\ pos \in Int
    BY <2>1, <2>2, PassTypes DEF IsSource
  <2>4. \A i \in DOMAIN cited : f[i] \in Labels(reply) /\ f[i] \in Int /\ f[i] < pos
    BY <1>3, PassTypes DEF Firsts
  <2>5. \A i \in DOMAIN cited : f[i] < pos'
    BY <2>3, <2>4
  <2> HIDE DEF n
  <2>6. CASE n \in Cited
    <3>1. cited' = cited /\ \E i \in DOMAIN cited : cited[i] = n
      BY <2>1, <2>6 DEF Cite, Cited
    <3>2. Firsts(f)'
      BY <1>1, <1>2, <1>3, <2>5, <3>1 DEF Firsts
    <3>3. (\E g \in [DOMAIN cited -> Labels(reply)] : Firsts(g))'
      BY <1>1, <3>1, <3>2
    <3>4. \A l \in Labels(reply) :
            l < pos' /\ IsSource(Number(reply, l)) => \E i \in DOMAIN cited : cited[i] = Number(reply, l)
      BY <2>1, <2>2, <3>1 DEF FirstsInv, n
    <3> QED
      BY <1>1, <1>2, <3>1, <3>3, <3>4 DEF FirstsInv
  <2>7. CASE n \notin Cited
    <3> DEFINE L == Len(cited)
               h == [i \in 1 .. L + 1 |-> IF i = L + 1 THEN pos ELSE f[i]]
    <3>1. \A i \in DOMAIN cited : cited[i] # n
      BY <2>7 DEF Cited
    <3>2. L \in Nat /\ DOMAIN cited = 1 .. L /\ cited \in Seq(Nat)
      BY PassTypes
    <3>3. cited' = Append(cited, n)
      BY <2>1, <2>7 DEF Cite
    <3>4. /\ DOMAIN cited' = 1 .. L + 1 /\ cited'[L + 1] = n
          /\ \A i \in 1 .. L : cited'[i] = cited[i]
      BY <2>3, <3>2, <3>3
    <3>5. /\ h \in [DOMAIN cited' -> Labels(reply')]
          /\ h[L + 1] = pos /\ \A i \in 1 .. L : h[i] = f[i]
      BY <1>1, <2>2, <2>4, <3>2, <3>4
    <3>6. PICK c \in [DOMAIN cited' -> Labels(reply')] : c[L + 1] = pos /\ \A i \in 1 .. L : c[i] = f[i]
      BY <3>5
    <3> HIDE DEF h, L
    <3>7. \A i \in 1 .. L + 1 : i \in 1 .. L \/ i = L + 1
      BY <3>2
    <3>8. \A l \in Labels(reply) : l < pos => Number(reply, l) # n
      BY <2>1, <3>1 DEF FirstsInv
    <3>9. \A i \in 1 .. L + 1 :
            /\ c[i] < pos'
            /\ Number(reply, c[i]) = cited'[i]
            /\ \A l \in Labels(reply) : l < c[i] => Number(reply, l) # cited'[i]
      <4>1. \A i \in 1 .. L :
              /\ Number(reply, f[i]) = cited[i]
              /\ \A l \in Labels(reply) : l < f[i] => Number(reply, l) # cited[i]
        BY <1>3, <3>2 DEF Firsts
      <4>2. Number(reply, pos) = n
        BY DEF n
      <4> QED
        BY <2>3, <2>5, <3>2, <3>4, <3>6, <3>7, <3>8, <4>1, <4>2
    <3>10. \A i, j \in 1 .. L + 1 : i < j => c[i] < c[j]
      <4> TAKE i, j \in 1 .. L + 1
      <4>1. CASE j \in 1 .. L
        BY <1>3, <3>2, <3>6, <3>7, <4>1 DEF Firsts
      <4>2. CASE i \in 1 .. L /\ j = L + 1
        BY <2>4, <3>2, <3>6, <4>2
      <4>3. CASE i = L + 1
        BY <3>2, <4>3
      <4> QED
        BY <3>7, <4>1, <4>2, <4>3
    <3>11. Firsts(c)'
      BY <1>1, <3>4, <3>9, <3>10 DEF Firsts
    <3>12. (\E g \in [DOMAIN cited -> Labels(reply)] : Firsts(g))'
      BY <3>6, <3>11
    <3>13. \A l \in Labels(reply) :
             l < pos' /\ IsSource(Number(reply, l)) => \E i \in DOMAIN cited' : cited'[i] = Number(reply, l)
      <4> SUFFICES ASSUME NEW l \in Labels(reply), l < pos', IsSource(Number(reply, l))
                   PROVE  \E i \in 1 .. L + 1 : cited'[i] = Number(reply, l)
        BY <3>4
      <4>1. CASE l < pos
        <5>1. PICK i \in 1 .. L : cited[i] = Number(reply, l)
          BY <3>2, <4>1 DEF FirstsInv
        <5> QED
          BY <3>2, <3>4, <5>1
      <4>2. CASE l = pos
        BY <3>2, <3>4, <4>2 DEF n
      <4> QED
        BY <2>1, <2>2, <4>1, <4>2
    <3> QED
      BY <1>1, <1>2, <3>12, <3>13 DEF FirstsInv
  <2> QED
    BY <2>6, <2>7
<1> QED
  BY <1>5, <1>6, <1>7

\* The pass over the answer, whatever the handler does.
LEMMA AnswerKeeps ==
  ASSUME RetrievalInv, RetrievalInv', PassInv, FirstsInv, ResultInv,
         [RetrievalNext]_<<configured, retrievalVars>>
  PROVE  PassInv' /\ FirstsInv' /\ ResultInv'
<1>1. reply' \in Text /\ RetrievalTypeOK
  BY DEF RetrievalInv, RetrievalTypeOK
<1>2. CASE Receive \/ EmbedQuery \/ Search \/ SkipHit \/ TakeHit \/ EndSelection
  <2>1. /\ phase \notin {"validate", "done"}
        /\ UNCHANGED <<reply, pos, answer, cited>>
        /\ phase' # "validate"
    BY <1>2 DEF Receive, EmbedQuery, Search, SkipHit, TakeHit, EndSelection, Fail, result
  <2>2. reply' = <<>> /\ pos' = 1 /\ answer' = <<>> /\ cited' = <<>>
    BY <2>1 DEF ResultInv
  <2>3. PassInv' /\ FirstsInv'
    BY <1>1, <2>2, PassBegins
  <2>4. Answered' => context' = <<>>
    BY <1>2 DEF Receive, EmbedQuery, Search, SkipHit, TakeHit, EndSelection, Fail, Answered, search
  <2>5. (\E g \in [DOMAIN answer -> Sent] : Sends(g))'
    BY <2>2, NothingSent
  <2>6. pos' > Len(reply')
    BY <2>2
  <2> QED
    BY <2>2, <2>3, <2>4, <2>5, <2>6 DEF ResultInv
<1>3. CASE AskModel
  <2>1. pos' = 1 /\ answer' = <<>> /\ cited' = <<>>
    BY <1>3 DEF AskModel, result, ResultInv
  <2>2. phase' = "answer" => reply' = <<>>
    BY <1>3 DEF AskModel, result, ResultInv
  <2>3. phase' \in {"answer", "validate", "done"} /\ ~ Answered'
    BY <1>3 DEF AskModel, Answered
  <2>4. PassInv' /\ FirstsInv'
    BY <1>1, <2>1, PassBegins
  <2> QED
    BY <2>1, <2>2, <2>3, <2>4 DEF ResultInv
<1>4. CASE KeepLabel \/ DropLabel \/ KeepCharacter
  <2>1. phase' = "validate"
    BY <1>4 DEF KeepLabel, DropLabel, KeepCharacter
  <2> QED
    BY <1>1, <1>4, <2>1, PassStep, FirstsStep DEF ResultInv, Answered
<1>5. ASSUME UNCHANGED <<reply, pos, cited, context>>
      PROVE  /\ pos' <= Len(reply') + 1
             /\ \A l \in Labels(reply') : l < pos' => LabelEnd(reply', l) < pos'
             /\ FirstsInv' /\ Left' = Left /\ Sent' = Sent
  BY <1>5 DEF PassInv, FirstsInv, Firsts, Left, Sent, Gone, IsSource
<1>6. CASE Respond
  <2>1. /\ UNCHANGED <<reply, pos, cited, context>> /\ pos > Len(reply)
        /\ citations' = Sources /\ phase' = "done" /\ Answered'
    BY <1>6 DEF Respond, search, Answered
  <2>2. Sources' = Sources
    BY <2>1 DEF Sources
  <2>3. PassInv' /\ FirstsInv'
    BY <1>5, <2>1 DEF PassInv
  <2>4. (\E g \in [DOMAIN answer -> Sent] : Sends(g))'
    BY <1>1, <1>6, TrimmedIsSent
  <2> QED
    BY <2>1, <2>2, <2>3, <2>4 DEF ResultInv
<1>7. CASE Discard
  <2>1. /\ reply' = <<>> /\ pos' = 1 /\ answer' = <<>> /\ cited' = <<>> /\ phase' = "idle"
    BY <1>7 DEF Discard
  <2> QED
    BY <1>1, <2>1, PassBegins DEF ResultInv, Answered
<1>8. CASE UNCHANGED <<configured, retrievalVars>>
  <2>1. UNCHANGED <<phase, status, citations, reply, pos, answer, cited, context>>
    BY <1>8 DEF retrievalVars, search, result
  <2>2. Answered' <=> Answered
    BY <2>1 DEF Answered
  <2>3. PassInv' /\ FirstsInv'
    BY <1>5, <2>1, <2>2 DEF PassInv, Copies
  <2>4. ResultInv'
    BY <1>5, <2>1, <2>2 DEF ResultInv, Sources, Sends
  <2> QED
    BY <2>3, <2>4
<1> QED
  BY <1>2, <1>3, <1>4, <1>6, <1>7, <1>8 DEF RetrievalNext, RetrievalStep

-----------------------------------------------------------------------------
(***************************************************************************)
(* What the invariant says of the response.                                *)
(***************************************************************************)

\* Places in the answer count the characters that are sent.
LEMMA CopyCounts ==
  ASSUME RetrievalTypeOK, NEW g \in [DOMAIN answer -> Sent], Sends(g)
  PROVE  /\ Cardinality(Sent) = Len(answer)
         /\ \A i \in DOMAIN answer : Cardinality({l \in Sent : l <= g[i]}) = i
<1> DEFINE n == Len(answer)
<1>1. n \in Nat /\ DOMAIN answer = 1 .. n /\ Sent \subseteq Int
  BY PassTypes DEF Sent, Left
<1>2. /\ \A i \in 1 .. n : g[i] \in Sent /\ g[i] \in Int
      /\ \A i, j \in 1 .. n : i < j => g[i] < g[j]
      /\ \A k \in Sent : \E i \in 1 .. n : g[i] = k
  BY <1>1 DEF Sends
<1> HIDE DEF n
<1>3. Distinct(g) /\ DOMAIN g = 1 .. n
  BY <1>1, <1>2 DEF Distinct
<1>4. \A i \in 0 .. n : Cardinality(Beginning(g, i)) = i
  BY <1>1, <1>3, BeginningCounts
<1>5. Sent = Beginning(g, n)
  BY <1>2 DEF Beginning
<1>6. n \in 0 .. n
  BY <1>1
<1>7. Cardinality(Sent) = n
  BY <1>4, <1>5, <1>6
<1>8. ASSUME NEW i \in 1 .. n
      PROVE  Cardinality({l \in Sent : l <= g[i]}) = i
  <2>1. \A j \in 1 .. n : g[j] <= g[i] <=> j \in 1 .. i
    BY <1>1, <1>2
  <2>2. \A j \in 1 .. i : j \in 1 .. n
    BY <1>1
  <2>3. {l \in Sent : l <= g[i]} = Beginning(g, i)
    BY <1>2, <2>1, <2>2 DEF Beginning
  <2> QED
    BY <1>1, <1>4, <2>3
<1> QED
  BY <1>1, <1>7, <1>8 DEF n

\* Once the reply is passed, character k of the answer is the k-th that is sent.
LEMMA InvRemovesFalseLabels ==
  ASSUME RetrievalInv, ResultInv
  PROVE  OnlyFalseLabelsRemoved
<1> SUFFICES ASSUME Answered
             PROVE  /\ Len(answer) = Cardinality(Sent)
                    /\ \A k \in Sent : answer[Cardinality({l \in Sent : l <= k})] = reply[k]
  BY DEF OnlyFalseLabelsRemoved
<1>1. RetrievalTypeOK
  BY DEF RetrievalInv
<1>2. PICK g \in [DOMAIN answer -> Sent] : Sends(g)
  BY DEF ResultInv
<1>3. /\ Cardinality(Sent) = Len(answer)
      /\ \A i \in DOMAIN answer : Cardinality({l \in Sent : l <= g[i]}) = i
  BY <1>1, <1>2, CopyCounts
<1>4. ASSUME NEW k \in Sent
      PROVE  answer[Cardinality({l \in Sent : l <= k})] = reply[k]
  <2>1. PICK i \in DOMAIN answer : g[i] = k
    BY <1>2 DEF Sends
  <2> QED
    BY <1>2, <1>3, <2>1 DEF Sends
<1> QED
  BY <1>3, <1>4

\* Where the reply names a cited source first.
LEMMA FirstsAreFirst ==
  ASSUME RetrievalTypeOK, NEW f \in [DOMAIN cited -> Labels(reply)], Firsts(f), NEW i \in DOMAIN cited
  PROVE  FirstAt(cited[i]) = f[i]
<1>1. /\ f[i] \in Labels(reply) /\ Number(reply, f[i]) = cited[i]
      /\ \A l \in Labels(reply) : l < f[i] => Number(reply, l) # cited[i]
  BY DEF Firsts
<1>2. Labels(reply) \subseteq Nat
  BY PassTypes
<1>3. \A l \in Labels(reply) : Number(reply, l) = cited[i] => f[i] <= l
  BY <1>1, <1>2
<1>4. \A l \in Labels(reply) :
        Number(reply, l) = cited[i] /\ (\A j \in Labels(reply) : Number(reply, j) = cited[i] => l <= j)
        => l = f[i]
  BY <1>1, <1>2, <1>3
<1> QED
  BY <1>1, <1>3, <1>4 DEF FirstAt

\* Once the reply is passed, the sources are listed by their first labels.
LEMMA InvCitesInOrder ==
  ASSUME RetrievalInv, FirstsInv, ResultInv
  PROVE  CitationsFollowLabels
<1> SUFFICES ASSUME Answered, context # <<>>
             PROVE  \/ Named = {} /\ citations = <<context[1]>>
                    \/ /\ Named # {}
                       /\ Len(citations) = Cardinality(Named)
                       /\ \A n \in Named :
                            citations[Cardinality({m \in Named : FirstAt(m) <= FirstAt(n)})] = context[n]
  BY DEF CitationsFollowLabels
<1> DEFINE L == Len(cited)
<1>1. RetrievalTypeOK /\ pos > Len(reply) /\ citations = Sources
  BY DEF RetrievalInv, ResultInv
<1>2. PICK f \in [DOMAIN cited -> Labels(reply)] : Firsts(f)
  BY DEF FirstsInv
<1>3. L \in Nat /\ DOMAIN cited = 1 .. L /\ \A l \in Labels(reply) : l < pos /\ l \in Int
  BY <1>1, PassTypes
<1>4. \A i \in 1 .. L : IsSource(cited[i])
  <2>1. DOMAIN context = 1 .. Len(context)
    BY <1>1 DEF RetrievalTypeOK
  <2> QED
    BY <1>3, <2>1 DEF RetrievalInv, CitedInv, IsSource
<1>6. Named = Beginning(cited, L)
  <2>1. ASSUME NEW i \in 1 .. L
        PROVE  cited[i] \in Named
    <3>1. f[i] \in Labels(reply) /\ Number(reply, f[i]) = cited[i]
      BY <1>2, <1>3 DEF Firsts
    <3> QED
      BY <1>4, <3>1 DEF Named
  <2>2. ASSUME NEW n \in Named
        PROVE  \E i \in 1 .. L : cited[i] = n
    <3>1. PICK l \in Labels(reply) : Number(reply, l) = n /\ IsSource(n)
      BY DEF Named
    <3> QED
      BY <1>3, <3>1 DEF FirstsInv
  <2> QED
    BY <2>1, <2>2 DEF Beginning
<1> HIDE DEF L
<1>7. \A i \in 0 .. L : Cardinality(Beginning(cited, i)) = i
  BY <1>3, BeginningCounts DEF RetrievalInv, CitedInv
<1>8. CASE cited = <<>>
  <2>1. L = 0
    BY <1>8 DEF L
  <2>2. Named = {}
    BY <1>6, <2>1 DEF Beginning
  <2> QED
    BY <1>1, <1>8, <2>2 DEF Sources
<1>9. CASE cited # <<>>
  <2>1. citations = [i \in 1 .. L |-> context[cited[i]]] /\ L # 0
    BY <1>1, <1>3, <1>9, PassTypes DEF Sources, L
  <2>2. Named # {} /\ Len(citations) = L /\ L \in 0 .. L
    BY <1>3, <1>6, <2>1 DEF Beginning
  <2>3. Cardinality(Named) = L
    BY <1>6, <1>7, <2>2
  <2>4. ASSUME NEW n \in Named
        PROVE  citations[Cardinality({m \in Named : FirstAt(m) <= FirstAt(n)})] = context[n]
    <3>1. PICK i \in 1 .. L : cited[i] = n
      BY <1>6 DEF Beginning
    <3>2. \A j \in 1 .. L : FirstAt(cited[j]) = f[j]
      BY <1>1, <1>2, <1>3, FirstsAreFirst
    <3>3. \A j \in 1 .. L : f[j] <= f[i] <=> j \in 1 .. i
      <4>1. \A j, k \in 1 .. L : (j < k => f[j] < f[k]) /\ f[j] \in Int
        BY <1>2, <1>3 DEF Firsts
      <4> QED
        BY <1>3, <4>1
    <3>4. {m \in Named : FirstAt(m) <= FirstAt(n)} = Beginning(cited, i)
      <4>1. \A j \in 1 .. L : FirstAt(cited[j]) <= FirstAt(n) <=> j \in 1 .. i
        BY <3>1, <3>2, <3>3
      <4>2. \A j \in 1 .. i : j \in 1 .. L
        BY <1>3
      <4> QED
        BY <1>6, <4>1, <4>2 DEF Beginning
    <3>5. Cardinality({m \in Named : FirstAt(m) <= FirstAt(n)}) = i
      <4>1. i \in 0 .. L
        BY <1>3
      <4> QED
        BY <1>7, <3>4, <4>1
    <3> QED
      BY <2>1, <3>1, <3>5
  <2> QED
    BY <2>2, <2>3, <2>4
<1> QED
  BY <1>8, <1>9

\* Characters between two that follow each other in the answer were in a label
\* that was removed; it begins right behind the first.
LEMMA GapIsLabel ==
  ASSUME RetrievalTypeOK, NEW g \in [DOMAIN answer -> Sent], Sends(g),
         NEW i \in Nat, i \in DOMAIN answer, i + 1 \in DOMAIN answer, g[i + 1] # g[i] + 1
  PROVE  g[i] + 1 \in DOMAIN reply /\ LabelAt(reply, g[i] + 1)
<1> DEFINE k == g[i] + 1
<1>1. /\ g[i] \in Sent /\ g[i + 1] \in Sent /\ g[i] \in Left /\ g[i + 1] \in Left
      /\ Left \subseteq Int /\ g[i] < g[i + 1]
      /\ \A m \in Sent : \E j \in DOMAIN answer : g[j] = m
  <2>1. Left \subseteq Int
    BY PassTypes DEF Left
  <2>2. i < i + 1
    OBVIOUS
  <2> QED
    BY <2>1, <2>2 DEF Sends, Sent
<1>2. k \in Int /\ g[i] < k /\ k < g[i + 1] /\ k \in DOMAIN reply
  <2>1. g[i] \in DOMAIN reply /\ g[i + 1] \in DOMAIN reply
    BY <1>1 DEF Left
  <2> QED
    BY <1>1, <2>1, PassTypes
<1> HIDE DEF k
<1>3. k \notin Left
  <2>0. k \in Left => k \in Sent
    <3>1. PICK a \in Left \cap Shows(reply) : a <= g[i]
      BY <1>1 DEF Sent
    <3>2. PICK b \in Left \cap Shows(reply) : g[i + 1] <= b
      BY <1>1 DEF Sent
    <3>3. a \in Int /\ b \in Int /\ g[i] \in Int /\ g[i + 1] \in Int
      BY <1>1
    <3>4. a <= k /\ k <= b
      BY <1>2, <3>1, <3>2, <3>3
    <3> QED
      BY <3>1, <3>2, <3>4 DEF Sent
  <2> SUFFICES ASSUME NEW j \in DOMAIN answer, g[j] = k
               PROVE  FALSE
    BY <1>1, <2>0
  <2>1. j \in Int /\ (j < i \/ j = i \/ j = i + 1 \/ j > i + 1)
    BY PassTypes
  <2>2. /\ j < i => g[j] < g[i]
        /\ j > i + 1 => g[i + 1] < g[j]
    BY DEF Sends
  <2>3. g[i] < k /\ k < g[i + 1] /\ k \in Int /\ g[i] \in Int /\ g[i + 1] \in Int
    BY <1>1, <1>2
  <2> QED
    BY <2>1, <2>2, <2>3
<1>4. PICK l \in Labels(reply) : ~ IsSource(Number(reply, l)) /\ k \in l .. LabelEnd(reply, l)
  BY <1>2, <1>3 DEF Left, Gone
<1>5. l \in Int /\ LabelEnd(reply, l) \in Int
  BY PassTypes, LabelEndIsEnd
<1>6. g[i] \notin l .. LabelEnd(reply, l)
  BY <1>1, <1>4 DEF Left, Gone
<1>7. l = k
  <2>1. g[i] \in Int /\ k = g[i] + 1
    BY <1>1 DEF k
  <2> QED
    BY <2>1, <1>4, <1>5, <1>6
<1> QED
  BY <1>2, <1>4, <1>7, PassTypes DEF k

\* A label of the answer is a label of the reply that was kept: where characters
\* are neighbours only in the answer, no label can reach across.
LEMMA InvKeepsTrueLabels ==
  ASSUME RetrievalInv, ResultInv
  PROVE  LabelsNameSources
<1> SUFFICES ASSUME Answered, ~ Enclosed(reply), NEW i \in Labels(answer)
             PROVE  IsSource(Number(answer, i))
  BY DEF LabelsNameSources
<1>1. RetrievalTypeOK
  BY DEF RetrievalInv
<1>2. PICK g \in [DOMAIN answer -> Sent] : Sends(g)
  BY DEF ResultInv
<1>3. PICK e \in DOMAIN answer : IsLabel(answer, i, e)
  BY DEF Labels, LabelAt
<1>4. /\ i \in Nat \ {0} /\ i \in DOMAIN answer /\ e \in Nat /\ i + 2 <= e
      /\ \A k \in i .. e : k \in DOMAIN answer
  BY <1>1, <1>3, PassTypes DEF Labels, IsLabel
<1>5. \A k \in DOMAIN answer : g[k] \in Left /\ g[k] \in DOMAIN reply /\ g[k] \in Int /\ reply[g[k]] = answer[k]
  BY <1>1, <1>2, PassTypes DEF Sends, Sent, Left
<1> DEFINE d == g[i] - i
           T == {k \in i .. e : g[k] # k + d}
<1>6. T = {}
  <2> SUFFICES ASSUME T # {}
               PROVE  FALSE
    OBVIOUS
  <2>1. T \in SUBSET Nat
    BY <1>4
  <2> HIDE DEF T
  <2>2. PICK k \in T : \A m \in T : k <= m
    BY <2>1, LeastNumber
  <2> DEFINE b == k - 1
  <2>3. k \in i .. e /\ g[k] # k + d /\ k \in Nat
    BY <2>1, <2>2 DEF T
  <2>4. k # i
    BY <1>4, <1>5, <2>3
  <2>5. b \in Nat /\ b \in i .. e /\ k = b + 1
    BY <1>4, <2>3, <2>4
  <2>6. \A m \in i .. b : g[m] = m + d
    <3> TAKE m \in i .. b
    <3>1. m \in i .. e /\ m \notin T
      BY <1>4, <2>2, <2>3, <2>5
    <3> QED
      BY <3>1 DEF T
  <2>7. g[b + 1] # g[b] + 1
    BY <1>4, <1>5, <2>3, <2>5, <2>6
  <2>8. b \in DOMAIN answer /\ b + 1 \in DOMAIN answer
    BY <1>4, <2>3, <2>5
  <2>9. g[b] + 1 \in DOMAIN reply /\ LabelAt(reply, g[b] + 1)
    BY <1>1, <1>2, <2>5, <2>7, <2>8, GapIsLabel
  <2>10. ASSUME NEW m \in g[i] + 1 .. (g[b] + 1) - 1
         PROVE  reply[m] \in Digit
    <3>1. g[i] = i + d /\ g[b] = b + d /\ g[i] \in Int /\ d \in Int
      BY <1>4, <1>5, <2>5, <2>6
    <3>2. m - d \in i + 1 .. b /\ m \in Int
      BY <1>4, <2>5, <3>1
    <3>3. m - d \in i .. b /\ m - d \in i + 1 .. e - 1 /\ m - d \in DOMAIN answer
      BY <1>4, <2>3, <2>5, <3>2
    <3>4. g[m - d] = m
      BY <2>6, <3>1, <3>2, <3>3
    <3> QED
      BY <1>3, <1>5, <3>3, <3>4 DEF IsLabel
  <2>11. g[i] \in DOMAIN reply /\ reply[g[i]] = Open /\ g[i] < g[b] + 1
    <3>1. g[i] = i + d /\ g[b] = b + d /\ g[i] \in Int /\ g[b] \in Int
      BY <1>4, <1>5, <2>5, <2>6, <2>8
    <3> QED
      BY <1>3, <1>4, <1>5, <2>5, <3>1 DEF IsLabel
  <2> QED
    BY <2>9, <2>10, <2>11 DEF Enclosed
<1>7. \A k \in i .. e : g[k] = k + d
  BY <1>6
<1>8. /\ d \in Int /\ g[i] = i + d /\ g[e] = e + d /\ i + d \in Nat \ {0} /\ e + d \in DOMAIN reply
      /\ i + d \in DOMAIN reply
  <2>1. g[i] = i + d /\ g[e] = e + d /\ d \in Int
    BY <1>4, <1>5, <1>7
  <2>2. g[i] \in DOMAIN reply /\ g[e] \in DOMAIN reply
    BY <1>4, <1>5
  <2>3. DOMAIN reply \subseteq Nat \ {0}
    BY <1>1, PassTypes
  <2> QED
    BY <2>1, <2>2, <2>3
<1> HIDE DEF d, T
<1>9. \A k \in i .. e : answer[k] = reply[k + d]
  BY <1>4, <1>5, <1>7
<1>10. IsLabel(reply, i + d, e + d)
  <2>1. ASSUME NEW k \in (i + d) + 1 .. (e + d) - 1
        PROVE  reply[k] \in Digit
    <3>1. k - d \in i + 1 .. e - 1 /\ k - d \in i .. e /\ (k - d) + d = k
      BY <1>4, <1>8
    <3> QED
      BY <1>3, <1>9, <3>1 DEF IsLabel
  <2>2. reply[i + d] = Open /\ reply[e + d] = Close
    BY <1>3, <1>4, <1>9 DEF IsLabel
  <2> QED
    BY <1>1, <1>4, <1>8, <2>1, <2>2, PassTypes DEF IsLabel
<1>11. Number(answer, i) = Number(reply, i + d)
  <2>1. reply \in Text /\ answer \in Text /\ e \in DOMAIN answer
    BY <1>1, <1>3, PassTypes
  <2> QED
    BY <1>3, <1>4, <1>8, <1>9, <1>10, <2>1, NumberMoved
<1>12. i + d \in Labels(reply) /\ LabelAt(reply, i + d)
  BY <1>8, <1>10 DEF Labels, LabelAt
<1>13. i + d \notin Gone /\ i + d \in (i + d) .. LabelEnd(reply, i + d)
  <2>1. i + d \in Left
    BY <1>4, <1>5, <1>8
  <2>2. LabelEnd(reply, i + d) \in Int /\ (i + d) + 2 <= LabelEnd(reply, i + d)
    BY <1>1, <1>8, <1>12, PassTypes, LabelEndIsEnd
  <2> QED
    BY <1>8, <2>1, <2>2 DEF Left
<1>14. IsSource(Number(reply, i + d))
  BY <1>12, <1>13 DEF Gone
<1> QED
  BY <1>11, <1>14

-----------------------------------------------------------------------------
(***************************************************************************)
(* The theorems.                                                           *)
(***************************************************************************)

\* The invariant of the pass holds in every reachable state.
THEOREM PassInvariant == RetrievalSpec => [](PassInv /\ FirstsInv /\ ResultInv)
<1>1. RetrievalInit => PassInv /\ FirstsInv /\ ResultInv
  BY InitAnswer
<1>2. /\ RetrievalInv /\ RetrievalInv' /\ PassInv /\ FirstsInv /\ ResultInv
      /\ [RetrievalNext]_<<configured, retrievalVars>>
      => PassInv' /\ FirstsInv' /\ ResultInv'
  BY AnswerKeeps
<1> QED
  BY <1>1, <1>2, RetrievalInvariant, PTL DEF RetrievalSpec

\* Whatever the model writes, the answer that is sent is what it wrote without
\* the labels that name no source and then without outermost white space,
\* character by character.
THEOREM OnlyFalseLabelsGo == RetrievalSpec => []OnlyFalseLabelsRemoved
  BY RetrievalInvariant, PassInvariant, InvRemovesFalseLabels, PTL

\* Whatever the model writes, citation n is the n-th source that it names.
THEOREM CitationsInOrderOfLabels == RetrievalSpec => []CitationsFollowLabels
  BY RetrievalInvariant, PassInvariant, InvCitesInOrder, PTL

\* Unless the model puts one label inside another, every label of the answer
\* that is sent names a source: removing labels makes no new ones.
THEOREM SentLabelsNameSources == RetrievalSpec => []LabelsNameSources
  BY RetrievalInvariant, PassInvariant, InvKeepsTrueLabels, PTL

-----------------------------------------------------------------------------
(***************************************************************************)
(* A query runs out of steps. This is the safety half of QueryIsAnswered.  *)
(***************************************************************************)

\* The stages of the handler that are still ahead, ...
StagesLeft ==
  CASE phase = "embed"    -> 5
    [] phase = "search"   -> 4
    [] phase = "select"   -> 3
    [] phase = "answer"   -> 2
    [] phase = "validate" -> 1
    [] OTHER              -> 0

\* ... and what is left of the stage: requests, hits or characters.
StageLeft ==
  CASE phase \in {"embed", "answer"} -> 1 - attempt
    [] phase = "select"              -> Len(hits) + 1 - place
    [] phase = "validate"            -> Len(reply) + 1 - pos
    [] OTHER                         -> 0

\* Both are counted in natural numbers, and every step of a request lowers them.
QueryAdvances ==
  /\ StagesLeft \in Nat /\ StageLeft \in Nat
  /\ RetrievalStep =>
       \/ StagesLeft' < StagesLeft
       \/ StagesLeft' = StagesLeft /\ StageLeft' < StageLeft

\* A match of the pattern, or another character, is behind the pass for good.
LEMMA StepAdvances ==
  ASSUME RetrievalInv, PassInv
  PROVE  QueryAdvances
<1> USE RequestAssumption
<1>1. /\ hits \in Seq(Chunks) /\ place \in Nat \ {0} /\ place <= Len(hits) + 1 /\ Len(hits) \in Nat
      /\ reply \in Text /\ Len(reply) \in Nat /\ pos \in Nat \ {0} /\ pos <= Len(reply) + 1
      /\ attempt \in 0 .. 1 /\ phase \in Phases
  BY PassTypes DEF RetrievalInv, RetrievalTypeOK, ContextInv, PassInv, Text
<1>2. StagesLeft \in Nat
  BY DEF StagesLeft
<1>3. StageLeft \in Nat
  BY <1>1 DEF StageLeft
<1>4. ASSUME EmbedQuery
      PROVE  StagesLeft' < StagesLeft \/ (StagesLeft' = StagesLeft /\ StageLeft' < StageLeft)
  BY <1>1, <1>4 DEF EmbedQuery, Fail, Retries, StagesLeft, StageLeft
<1>5. ASSUME Search \/ EndSelection \/ Respond
      PROVE  StagesLeft' < StagesLeft
  BY <1>5 DEF Search, Fail, EndSelection, Respond, StagesLeft
<1>6. ASSUME SkipHit \/ TakeHit
      PROVE  StagesLeft' = StagesLeft /\ StageLeft' < StageLeft
  <2>1. phase = "select" /\ phase' = phase /\ hits' = hits /\ place' = place + 1
    BY <1>6 DEF SkipHit, TakeHit
  <2> QED
    BY <1>1, <2>1 DEF StagesLeft, StageLeft
<1>7. ASSUME AskModel
      PROVE  StagesLeft' < StagesLeft \/ (StagesLeft' = StagesLeft /\ StageLeft' < StageLeft)
  <2>1. /\ phase = "answer"
        /\ phase' \in {"validate", "done"} \/ (phase' = phase /\ attempt' = attempt + 1)
    BY <1>7 DEF AskModel, Retries
  <2> QED
    BY <1>1, <2>1 DEF StagesLeft, StageLeft
<1>8. ASSUME KeepLabel \/ DropLabel \/ KeepCharacter
      PROVE  StagesLeft' = StagesLeft /\ StageLeft' < StageLeft
  <2>1. phase = "validate" /\ phase' = phase /\ reply' = reply
    BY <1>8 DEF KeepLabel, DropLabel, KeepCharacter
  <2>2. LabelAt(reply, pos) => LabelEnd(reply, pos) \in Nat /\ pos < LabelEnd(reply, pos)
    BY <1>1, LabelEndIsEnd DEF Text
  <2>3. pos' \in Nat /\ pos < pos'
    BY <1>1, <1>8, <2>2 DEF KeepLabel, DropLabel, KeepCharacter
  <2> QED
    BY <1>1, <2>1, <2>3 DEF StagesLeft, StageLeft
<1> QED
  BY <1>2, <1>3, <1>4, <1>5, <1>6, <1>7, <1>8 DEF QueryAdvances, RetrievalStep

\* Whatever provider, store and model do, a request ends after finitely many
\* steps: each lowers a pair of natural numbers.
THEOREM QueriesRunOut == RetrievalSpec => [][QueryAdvances]_<<configured, retrievalVars>>
<1>1. RetrievalInv /\ PassInv => QueryAdvances
  BY StepAdvances
<1> QED
  BY <1>1, RetrievalInvariant, PassInvariant, PTL
=============================================================================
