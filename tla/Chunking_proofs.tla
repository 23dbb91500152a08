-------------------------- MODULE Chunking_proofs --------------------------
(***************************************************************************)
(* Theorems about Chunking, for texts of any length, provided the overlap  *)
(* is at most half a chunk. Without that they fail (run chunking_overlap). *)
(***************************************************************************)
EXTENDS Chunking, Recursion

ModerateOverlap == \A s \in Settings : s.overlap <= s.size \div 2

-----------------------------------------------------------------------------
(***************************************************************************)
(* The windows.                                                            *)
(***************************************************************************)

\* Every position the windows of this segment have passed, and those of the
\* segments before it, is in a chunk if it shows anything.
Covered(p) == \E i \in DOMAIN chunks : p \in chunks[i].from .. chunks[i].to - 1

\* Where the chunks reach. Every window after the first begins `overlap`
\* before the end of the chunk it follows.
Reached == IF start = 0 THEN 0 ELSE start + setting.overlap

Geometry ==
  /\ at \in 0 .. length
  /\ 0 <= lo /\ lo <= hi /\ hi <= at
  /\ start \in Nat
  /\ pc = "window" => start < hi - lo /\ Reached < hi - lo

ChunksInv ==
  /\ \A i \in DOMAIN chunks : chunks[i].to <= IF pc = "window" THEN lo + Reached ELSE at
  /\ ChunksProgress

CoverInv ==
  /\ \A p \in 0 .. at - 1 : Visible(p) => Covered(p) \/ (pc = "window" /\ p \in lo .. hi - 1)
  /\ pc = "window" => \A p \in lo .. lo + start - 1 : Visible(p) => Covered(p)
  /\ pc = "done" => at = length

IInv == TypeOK /\ Geometry /\ ChunksInv /\ CoverInv

\* What a cut looks like: it ends inside the segment, at most `size` after its
\* start and more than `overlap` after it unless the segment ends first.
LEMMA CutFacts ==
  ASSUME ModerateOverlap, TypeOK, Geometry, pc = "window",
         NEW b \in -1 .. WindowEnd - 1
  PROVE  /\ CutAt(b) \in Nat
         /\ start < CutAt(b) /\ CutAt(b) <= Span /\ CutAt(b) <= start + setting.size
         /\ CutAt(b) < Span => start + setting.overlap < CutAt(b)
         /\ Reached < CutAt(b)
         /\ Offset(start) = start
<1> DEFINE k == setting.size \div 2
<1>1. /\ setting.size \in Nat \ {0} /\ setting.overlap \in Nat
      /\ setting.overlap < setting.size /\ setting.overlap <= k
      /\ k \in Nat
  BY SettingsAssumption DEF ModerateOverlap, TypeOK
<1>2. Span \in Nat /\ start \in Nat /\ start < Span /\ Reached < Span /\ b \in Int
  BY DEF Geometry, Span, TypeOK, WindowEnd
<1>3. /\ WindowEnd \in Nat /\ start < WindowEnd
      /\ WindowEnd <= Span /\ WindowEnd <= start + setting.size
      /\ WindowEnd < Span => WindowEnd = start + setting.size
  BY <1>1, <1>2 DEF WindowEnd
<1>4. Preferred(b) => start + k < b
  BY DEF Preferred
<1>5. b < WindowEnd
  BY <1>2, <1>3
<1> HIDE DEF k
<1>6. (CutAt(b) = b /\ start + k < b) \/ CutAt(b) = WindowEnd
  BY <1>4 DEF CutAt
<1>7. /\ CutAt(b) \in Nat
      /\ start < CutAt(b) /\ CutAt(b) <= Span /\ CutAt(b) <= start + setting.size
      /\ CutAt(b) < Span => start + setting.overlap < CutAt(b)
  BY <1>1, <1>2, <1>3, <1>5, <1>6
<1>8. Reached < CutAt(b)
  BY <1>1, <1>2, <1>7 DEF Reached
<1>9. Offset(start) = start
  BY <1>2 DEF Offset
<1> QED
  BY <1>7, <1>8, <1>9

\* The first of some offsets is one of them.
LEMMA FirstOfType ==
  ASSUME NEW ms \in SUBSET Nat
  PROVE  FirstOf(ms) \in Nat \cup {NoPage}
<1>1. CASE ms = {}
  BY <1>1 DEF FirstOf
<1>2. CASE ms # {}
  <2>1. \E p \in ms : \A q \in ms : p <= q
    BY <1>2, LeastNumber
  <2> QED
    BY <1>2, <2>1 DEF FirstOf
<1> QED
  BY <1>1, <1>2

\* The slices are made of offsets.
LEMMA SliceType ==
  ASSUME TypeOK
  PROVE  \A i \in DOMAIN chunks : chunks[i].from \in Nat /\ chunks[i].to \in Nat
<1>1. chunks \in Seq(Slice)
  BY DEF TypeOK
<1>2. \A i \in DOMAIN chunks : chunks[i] \in Slice
  BY <1>1
<1> QED
  BY <1>2 DEF Slice

-----------------------------------------------------------------------------
(***************************************************************************)
(* The steps.                                                              *)
(***************************************************************************)

LEMMA InitIInv ==
  ASSUME Init
  PROVE  IInv
<1>1. TypeOK
  BY SettingsAssumption DEF Init, TypeOK, Text
<1>2. Geometry
  BY DEF Init, Geometry
<1>3. ChunksInv /\ CoverInv
  BY DEF Init, ChunksInv, CoverInv, ChunksProgress
<1> QED
  BY <1>1, <1>2, <1>3 DEF IInv

\* A new segment leaves out nothing visible of the text up to its end.
LEMMA SegmentKeeps ==
  ASSUME IInv, NextSegment
  PROVE  IInv'
<1> USE DEF IInv, TypeOK, input
<1>1. UNCHANGED <<text, length, setting, chunks>>
  BY DEF NextSegment
<1>2. \A p \in 0 .. at - 1 : Visible(p) => Covered(p)
  BY DEF NextSegment, CoverInv
<1>3. \A i \in DOMAIN chunks : chunks[i].to <= at
  BY DEF NextSegment, ChunksInv
<1>4. /\ \A p : Visible(p)' <=> Visible(p)
      /\ \A p : Covered(p)' <=> Covered(p)
  BY <1>1 DEF Visible, Covered
<1>5. PICK e \in at + 1 .. length :
        /\ at' = e
        /\ \/ /\ \A p \in at .. e - 1 : ~ Visible(p)
              /\ UNCHANGED <<lo, hi, start, pc>>
           \/ \E l \in at .. e - 1, h \in at + 1 .. e :
                /\ IF Marked THEN Stripped(l, h, e) ELSE l = at /\ h = e
                /\ \E p \in at .. e - 1 : Visible(p)
                /\ lo' = l
                /\ hi' = h
                /\ start' = 0
                /\ pc' = "window"
  BY DEF NextSegment
<1>6. CASE (\A p \in at .. e - 1 : ~ Visible(p)) /\ UNCHANGED <<lo, hi, start, pc>>
  <2>1. pc = "segment" /\ pc' = "segment"
    BY <1>6 DEF NextSegment
  <2>2. TypeOK'
    BY <1>1, <1>5, <1>6, <2>1
  <2>3. Geometry'
    BY <1>1, <1>5, <1>6, <2>1 DEF Geometry
  <2>4. ChunksInv'
    <3>1. \A i \in DOMAIN chunks : chunks[i].to <= at'
      BY <1>3, <1>5, SliceType
    <3> QED
      BY <1>1, <2>1, <3>1 DEF ChunksInv, ChunksProgress
  <2>5. CoverInv'
    BY <1>2, <1>4, <1>5, <1>6, <2>1 DEF CoverInv
  <2> QED
    BY <2>2, <2>3, <2>4, <2>5
<1>7. ASSUME NEW l \in at .. e - 1, NEW h \in at + 1 .. e,
             IF Marked THEN Stripped(l, h, e) ELSE l = at /\ h = e,
             lo' = l, hi' = h, start' = 0, pc' = "window"
      PROVE  IInv'
  <2>1. l < h /\ \A p \in at .. e - 1 : Visible(p) => p \in l .. h - 1
    BY <1>7 DEF Stripped
  <2>2. at \in Nat /\ e \in Nat /\ e <= length
    BY <1>5
  <2>3. TypeOK'
    BY <1>1, <1>5, <1>7, <2>1, <2>2
  <2>4. Geometry' /\ Reached' = 0
    BY <1>1, <1>5, <1>7, <2>1, <2>2 DEF Geometry, Reached
  <2>5. ChunksInv'
    <3>1. \A i \in DOMAIN chunks : chunks[i].to <= lo' + Reached'
      BY <1>3, <1>7, <2>2, <2>4, SliceType
    <3> QED
      BY <1>1, <1>7, <3>1 DEF ChunksInv, ChunksProgress
  <2>6. CoverInv'
    BY <1>2, <1>4, <1>5, <1>7, <2>1, <2>2 DEF CoverInv
  <2> QED
    BY <2>3, <2>4, <2>5, <2>6
<1> QED
  BY <1>5, <1>6, <1>7

\* A window covers on from where the one before it began to cover.
LEMMA WindowKeeps ==
  ASSUME ModerateOverlap, IInv, Window
  PROVE  IInv' /\ (pc' = "window" => start' > start)
<1> USE DEF IInv, input
<1>1. UNCHANGED <<text, length, setting, at, lo, hi>> /\ pc = "window"
  BY DEF Window
<1>2. PICK b \in -1 .. WindowEnd - 1 :
        /\ chunks' = IF HasText(Cut(CutAt(b))) THEN Append(chunks, Cut(CutAt(b))) ELSE chunks
        /\ \/ CutAt(b) >= Span /\ pc' = "segment" /\ UNCHANGED start
           \/ CutAt(b) < Span /\ start' = Advance(CutAt(b)) /\ UNCHANGED pc
  BY DEF Window
<1> DEFINE c == CutAt(b)
           slice == Cut(c)
<1>3. /\ c \in Nat /\ start < c /\ c <= Span /\ c <= start + setting.size
      /\ c < Span => start + setting.overlap < c
      /\ Reached < c
      /\ Offset(start) = start
  BY <1>1, CutFacts
<1>4. /\ Span = hi - lo /\ lo \in Nat /\ hi \in Nat /\ start \in Nat /\ hi <= at /\ at \in Nat
      /\ setting.overlap \in Nat /\ setting.size \in Nat
      /\ at <= length /\ length \in Nat
  BY SettingsAssumption DEF Geometry, Span, TypeOK
<1>5. slice.from = lo + start /\ slice.to = lo + c /\ slice \in Slice
  <2>1. Markers(lo, lo + c) \subseteq Nat
    BY <1>3, <1>4 DEF Markers
  <2>2. FirstOf(Markers(lo, lo + c)) \in Nat \cup {NoPage}
    BY <2>1, FirstOfType
  <2> QED
    BY <1>3, <1>4, <2>2 DEF Cut, Slice
<1>6. chunks \in Seq(Slice)
  BY DEF TypeOK
<1>7. /\ chunks' \in Seq(Slice)
      /\ \A i \in DOMAIN chunks : i \in DOMAIN chunks' /\ chunks'[i] = chunks[i]
      /\ \A i \in DOMAIN chunks' : i \in DOMAIN chunks \/ (chunks'[i] = slice /\ i = Len(chunks) + 1)
      /\ HasText(slice) => Len(chunks) + 1 \in DOMAIN chunks' /\ chunks'[Len(chunks) + 1] = slice
      /\ \A i \in DOMAIN chunks : i <= Len(chunks)
  BY <1>2, <1>5, <1>6
<1> HIDE DEF c, slice
<1>8. /\ \A p : Visible(p)' <=> Visible(p)
      /\ \A p : Covered(p) => Covered(p)'
  BY <1>1, <1>7 DEF Visible, Covered
<1>9. \A p \in lo .. lo + c - 1 : Visible(p) => Covered(p)'
  <2>1. ASSUME NEW p \in lo .. lo + c - 1, Visible(p)
        PROVE  Covered(p)'
    <3>1. CASE p < lo + start
      BY <1>1, <1>3, <1>4, <1>8, <2>1, <3>1 DEF CoverInv
    <3>2. CASE lo + start <= p
      <4>1. p \in slice.from .. slice.to - 1
        BY <1>3, <1>4, <1>5, <3>2
      <4>2. HasText(slice)
        BY <2>1, <4>1 DEF HasText
      <4> QED
        BY <1>7, <4>1, <4>2 DEF Covered
    <3> QED
      BY <1>3, <1>4, <3>1, <3>2
  <2> QED
    BY <2>1
<1>10. \A i \in DOMAIN chunks' : chunks'[i].to <= lo + c
  <2>1. \A i \in DOMAIN chunks : chunks[i].to <= lo + Reached /\ chunks[i].to \in Nat
    BY <1>1, SliceType DEF ChunksInv
  <2>2. Reached \in Nat
    BY <1>4 DEF Reached
  <2>3. slice.to = lo + c
    BY <1>5
  <2>4. \A i \in DOMAIN chunks : chunks[i].to <= lo + c
    BY <1>3, <1>4, <2>1, <2>2
  <2> QED
    BY <1>3, <1>4, <1>7, <2>3, <2>4
<1>11. ChunksProgress'
  <2>1. \A i \in DOMAIN chunks : chunks[i].to < lo + c /\ chunks[i].to \in Nat
    <3>1. \A i \in DOMAIN chunks : chunks[i].to <= lo + Reached /\ chunks[i].to \in Nat
      BY <1>1, SliceType DEF ChunksInv
    <3>2. Reached \in Nat
      BY <1>4 DEF Reached
    <3> QED
      BY <1>3, <1>4, <3>1, <3>2
  <2>2. slice.to = lo + c /\ slice.to - slice.from \in 1 .. setting.size
    BY <1>3, <1>4, <1>5
  <2>3. \A i \in DOMAIN chunks' : chunks'[i].to - chunks'[i].from \in 1 .. setting'.size
    BY <1>1, <1>7, <2>2 DEF ChunksInv, ChunksProgress
  <2>4. \A i, j \in DOMAIN chunks' : i < j => chunks'[i].to < chunks'[j].to
    BY <1>6, <1>7, <2>1, <2>2 DEF ChunksInv, ChunksProgress
  <2> QED
    BY <2>3, <2>4 DEF ChunksProgress
<1>12. CASE c >= Span /\ pc' = "segment" /\ UNCHANGED start
  <2>1. c = hi - lo
    BY <1>3, <1>4, <1>12
  <2>2. TypeOK' /\ Geometry'
    BY <1>1, <1>4, <1>7, <1>12 DEF TypeOK, Geometry
  <2>3. ChunksInv'
    <3>1. \A i \in DOMAIN chunks' : chunks'[i].to <= hi
      BY <1>4, <1>10, <2>1
    <3>2. \A i \in DOMAIN chunks' : chunks'[i] \in Slice
      BY <1>7
    <3>3. \A i \in DOMAIN chunks' : chunks'[i].to <= at'
      BY <1>1, <1>4, <3>1, <3>2 DEF Slice
    <3> QED
      BY <1>11, <1>12, <3>3 DEF ChunksInv
  <2>4. CoverInv'
    BY <1>1, <1>4, <1>8, <1>9, <1>12, <2>1 DEF CoverInv
  <2> QED
    BY <1>12, <2>2, <2>3, <2>4
<1>13. CASE c < Span /\ start' = Advance(c) /\ UNCHANGED pc
  <2>1. start' = c - setting.overlap /\ start' \in Nat /\ start < start' /\ start' < hi - lo
    BY <1>3, <1>4, <1>13 DEF Advance
  <2>2. Reached' = c
    BY <1>1, <1>3, <1>4, <2>1 DEF Reached
  <2>3. TypeOK'
    BY <1>1, <1>4, <1>7, <1>13, <2>1 DEF TypeOK
  <2>4. Geometry'
    BY <1>1, <1>3, <1>4, <1>13, <2>1, <2>2 DEF Geometry
  <2>5. ChunksInv'
    BY <1>1, <1>10, <1>11, <1>13, <2>2 DEF ChunksInv
  <2>6. CoverInv'
    <3>1. \A p \in lo' .. lo' + start' - 1 : p \in lo .. lo + c - 1
      BY <1>1, <1>3, <1>4, <2>1
    <3> QED
      BY <1>1, <1>8, <1>9, <1>13, <3>1 DEF CoverInv
  <2> QED
    BY <2>1, <2>3, <2>4, <2>5, <2>6
<1> QED
  BY <1>2, <1>12, <1>13 DEF c

LEMMA NextIInv ==
  ASSUME ModerateOverlap, IInv, [Next]_vars
  PROVE  IInv' /\ (pc = "window" /\ pc' = "window" => start' > start \/ UNCHANGED vars)
<1>1. CASE NextSegment
  BY <1>1, SegmentKeeps DEF NextSegment
<1>2. CASE NoMoreSegments
  <2>1. pc = "segment" /\ pc' = "done" /\ at = length
    BY <1>2 DEF NoMoreSegments
  <2>2. UNCHANGED <<text, length, setting, at, lo, hi, start, chunks>>
    BY <1>2 DEF NoMoreSegments, input
  <2>3. TypeOK' /\ Geometry'
    BY <2>1, <2>2 DEF IInv, TypeOK, Geometry
  <2>4. ChunksInv' /\ CoverInv'
    BY <2>1, <2>2 DEF IInv, ChunksInv, ChunksProgress, CoverInv, Visible, Covered
  <2> QED
    BY <2>1, <2>3, <2>4 DEF IInv
<1>3. CASE Window
  BY <1>3, WindowKeeps
<1>4. CASE UNCHANGED vars
  BY <1>4 DEF vars, input, IInv, TypeOK, Geometry, ChunksInv, ChunksProgress, CoverInv, Visible,
              Covered, Reached
<1> QED
  BY <1>1, <1>2, <1>3, <1>4 DEF Next, Rest

-----------------------------------------------------------------------------
(***************************************************************************)
(* The theorems.                                                           *)
(***************************************************************************)

\* The inductive invariant holds in every reachable state.
THEOREM Invariant ==
  ASSUME ModerateOverlap
  PROVE  Spec => []IInv
BY InitIInv, NextIInv, PTL DEF Spec

\* Every variable stays inside its type: offsets of slices are never negative
\* and a window always begins before the end of its segment.
THEOREM TypeCorrect ==
  ASSUME ModerateOverlap
  PROVE  Spec => []TypeOK
<1>1. IInv => TypeOK
  BY DEF IInv
<1> QED
  BY <1>1, Invariant, PTL

\* Every character that is not white space ends up in a chunk.
THEOREM NothingIsLost ==
  ASSUME ModerateOverlap
  PROVE  Spec => []Coverage
<1>1. IInv => Coverage
  BY DEF IInv, TypeOK, Coverage, CoverInv, Covered
<1> QED
  BY <1>1, Invariant, PTL

\* Chunks respect the size limit and never repeat one another.
THEOREM ChunksNeverRepeat ==
  ASSUME ModerateOverlap
  PROVE  Spec => []ChunksProgress
<1>1. IInv => ChunksProgress
  BY DEF IInv, ChunksInv
<1> QED
  BY <1>1, Invariant, PTL

\* The while loop of every segment advances: it terminates.
THEOREM LoopAdvances ==
  ASSUME ModerateOverlap
  PROVE  Spec => StartAdvances
<1>1. IInv /\ [Next]_vars => [pc = "window" /\ pc' = "window" => start' > start]_vars
  BY NextIInv
<1> QED
  BY <1>1, Invariant, PTL DEF Spec, StartAdvances

-----------------------------------------------------------------------------
(***************************************************************************)
(* Pages. A segment has at most one mark, and that at its beginning; only  *)
(* the first segment may have none, or an indented marker that strip()     *)
(* brings to its beginning. So the marker in segment[:end] is the last one *)
(* of the text before it.                                                  *)
(***************************************************************************)

SegmentInv ==
  /\ \A p \in lo + 1 .. hi - 1 : text[p] \notin Marks /\ ~ IsPage(p)
  /\ text[lo] = "indented" => Marked
  /\ IsPage(lo) \/ text[lo] = "heading" \/ \A p \in 0 .. lo : ~ IsPage(p)

PageInv ==
  /\ text \in Text(length)
  /\ PageOfLastMarker
  /\ at > 0 /\ at < length => text[at] \in Marks
  /\ pc = "window" => SegmentInv

\* A segment begins with its mark, which strip() does not remove, or with what is
\* first to be seen of the text.
LEMMA SegmentPages ==
  ASSUME IInv, PageInv, NextSegment
  PROVE  PageInv'
<1> USE DEF IInv, TypeOK
<1>1. UNCHANGED <<text, length, chunks>> /\ pc = "segment" /\ at \in Nat /\ length \in Nat
  BY DEF NextSegment, input
<1>2. text' \in Text(length') /\ PageOfLastMarker' /\ Marked' = Marked
  BY <1>1 DEF PageInv, PageOfLastMarker, IsPage, Marked
<1>3. PICK e \in at + 1 .. length :
        /\ RawEnd(e)
        /\ at' = e
        /\ \/ /\ \A p \in at .. e - 1 : ~ Visible(p)
              /\ UNCHANGED <<lo, hi, start, pc>>
           \/ \E l \in at .. e - 1, h \in at + 1 .. e :
                /\ IF Marked THEN Stripped(l, h, e) ELSE l = at /\ h = e
                /\ lo' = l
                /\ hi' = h
                /\ pc' = "window"
  BY DEF NextSegment
<1>4. /\ e < length => text[e] \in Marks
      /\ \A p \in at + 1 .. e - 1 : text[p] \notin Marks
  BY <1>1, <1>3 DEF RawEnd, IsBoundary
<1>5. CASE UNCHANGED pc
  BY <1>1, <1>2, <1>3, <1>4, <1>5 DEF PageInv
<1>6. ASSUME NEW l \in at .. e - 1, NEW h \in at + 1 .. e,
             IF Marked THEN Stripped(l, h, e) ELSE l = at /\ h = e,
             lo' = l, hi' = h, pc' = "window"
      PROVE  PageInv'
  <2>1. at \in Nat /\ e \in Nat /\ e <= length /\ l \in Nat /\ h \in Nat
    BY <1>1, <1>3
  <2>2. \A p \in 0 .. length - 1 : text[p] = "indented" => p > 0 /\ \A q \in 0 .. p - 1 : ~ Visible(q)
    BY DEF PageInv, Text, Visible
  <2>3. \A p \in l + 1 .. h - 1 : text[p] \notin Marks
    BY <1>4, <2>1
  <2>4. at = 0 \/ text[at] \in Marks
    BY <1>3, <2>1 DEF PageInv
  <2>5. ASSUME ~ Marked
        PROVE  /\ \A p \in 0 .. length - 1 : ~ IsPage(p)
               /\ text[l] # "indented"
    <3>1. \A p \in 0 .. length - 1 : text[p] \notin Marks
      BY <2>5 DEF Marked
    <3>2. l = at /\ at = 0
      BY <1>3, <1>6, <2>1, <2>4, <2>5, <3>1
    <3>3. 0 \in 0 .. length - 1
      BY <1>1, <1>3, <2>1
    <3> QED
      BY <2>2, <2>5, <3>1, <3>2, <3>3 DEF IsPage, Marks
  <2>6. ASSUME Marked
        PROVE  /\ \A p \in l + 1 .. h - 1 : text[p] # "indented"
               /\ text[at] \in Marks => l = at
               /\ \A p \in at .. l - 1 : ~ Visible(p)
    <3>1. /\ Visible(l)
          /\ \A p \in at .. e - 1 : Visible(p) => p \in l .. h - 1
      BY <1>6, <2>6 DEF Stripped
    <3>2. \A p \in l + 1 .. h - 1 : text[p] # "indented"
      BY <2>1, <2>2, <3>1
    <3>3. \A p \in at .. l - 1 : ~ Visible(p)
      BY <2>1, <3>1
    <3>4. text[at] \in Marks => Visible(at)
      BY DEF Visible, Marks, White
    <3> QED
      BY <1>6, <2>1, <3>2, <3>3, <3>4
  <2>7. \A p \in l + 1 .. h - 1 : text[p] \notin Marks /\ ~ IsPage(p)
    <3>1. \A p \in l + 1 .. h - 1 : p \in 0 .. length - 1
      BY <2>1
    <3> QED
      BY <2>3, <2>5, <2>6, <3>1 DEF IsPage, Marks
  <2>8. IsPage(l) \/ text[l] = "heading" \/ \A p \in 0 .. l : ~ IsPage(p)
    <3>1. CASE ~ Marked
      <4>1. \A p \in 0 .. l : p \in 0 .. length - 1
        BY <2>1
      <4> QED
        BY <2>5, <3>1, <4>1
    <3>2. CASE Marked /\ text[at] \in Marks
      BY <2>6, <3>2 DEF IsPage, Marks
    <3>3. CASE Marked /\ text[at] \notin Marks
      <4>1. \A p \in 0 .. l : p = l \/ p \in at .. l - 1
        BY <2>1, <2>4, <3>3
      <4>2. \A p \in at .. l - 1 : ~ IsPage(p)
        BY <2>6, <3>3 DEF IsPage, Visible, White
      <4> QED
        BY <4>1, <4>2
    <3> QED
      BY <3>1, <3>2, <3>3
  <2>9. SegmentInv'
    <3>1. \A p : IsPage(p)' <=> IsPage(p)
      BY <1>1, <1>2 DEF IsPage
    <3> QED
      BY <1>1, <1>2, <1>6, <2>5, <2>7, <2>8, <3>1 DEF SegmentInv
  <2> QED
    BY <1>1, <1>2, <1>3, <1>4, <2>9 DEF PageInv
<1> QED
  BY <1>3, <1>5, <1>6

\* The page of a window is that of the marker its segment begins with.
LEMMA WindowPages ==
  ASSUME ModerateOverlap, IInv, PageInv, Window
  PROVE  PageInv'
<1> USE DEF IInv
<1>1. UNCHANGED <<text, length, at, lo, hi>> /\ pc = "window" /\ SegmentInv
  BY DEF Window, input, PageInv
<1>2. PICK b \in -1 .. WindowEnd - 1 :
        chunks' = IF HasText(Cut(CutAt(b))) THEN Append(chunks, Cut(CutAt(b))) ELSE chunks
  BY DEF Window
<1> DEFINE c == CutAt(b)
           slice == Cut(c)
<1>3. c \in Nat /\ start < c /\ c <= Span /\ Offset(start) = start
  BY <1>1, CutFacts
<1>4. /\ Span = hi - lo /\ lo \in Nat /\ hi \in Nat /\ start \in Nat
      /\ hi <= length /\ length \in Nat
  BY DEF Geometry, Span, TypeOK
<1> HIDE DEF c
<1>5. Markers(lo, lo + c) = IF IsPage(lo) THEN {lo} ELSE {}
  <2>1. \A p \in lo .. lo + c - 1 : p = lo \/ p \in lo + 1 .. hi - 1
    BY <1>3, <1>4
  <2>2. \A p \in lo .. lo + c - 1 : p # lo => text[p] # "page"
    BY <1>1, <2>1 DEF SegmentInv, Marks
  <2>3. lo \in lo .. lo + c - 1
    BY <1>3, <1>4
  <2>4. IsPage(lo) <=> text[lo] \in {"page", "indented"}
    BY <1>1 DEF SegmentInv, IsPage
  <2>5. Markers(lo, lo + c) \subseteq {lo}
    BY <1>3, <1>4, <2>2 DEF Markers
  <2>6. lo \in Markers(lo, lo + c) <=> text[lo] \in {"page", "indented"}
    BY <1>3, <1>4, <2>3 DEF Markers
  <2> QED
    BY <2>4, <2>5, <2>6
<1>6. slice = [from |-> lo + start, to |-> lo + c, page |-> IF IsPage(lo) THEN lo ELSE NoPage]
  <2>1. FirstOf({lo}) = lo /\ FirstOf({}) = NoPage
    BY <1>4 DEF FirstOf
  <2> QED
    BY <1>3, <1>5, <2>1 DEF Cut
<1>7. chunks \in Seq(Slice) /\ slice \in Slice
  BY <1>3, <1>4, <1>6 DEF TypeOK, Slice
<1>8. \A i \in DOMAIN chunks' : \/ i \in DOMAIN chunks /\ chunks'[i] = chunks[i]
                                \/ chunks'[i] = slice
  BY <1>2, <1>7 DEF c
<1> DEFINE Right(q) ==
      /\ q.page # NoPage => /\ q.page \in 0 .. q.from /\ IsPage(q.page)
                            /\ \A r \in q.page + 1 .. q.from : ~ IsPage(r)
      /\ q.page = NoPage =>
           \A p \in 0 .. q.from : IsPage(p) => \E r \in p + 1 .. q.from : text[r] = "heading"
<1>9. slice.from = lo + start /\ slice.page = IF IsPage(lo) THEN lo ELSE NoPage
  BY <1>6
<1> HIDE DEF slice
<1>10. \A p \in lo + 1 .. lo + start : ~ IsPage(p)
  <2>1. \A p \in lo + 1 .. lo + start : p \in lo + 1 .. hi - 1
    BY <1>3, <1>4
  <2> QED
    BY <1>1, <2>1 DEF SegmentInv
<1>11. Right(slice)
  <2>1. CASE IsPage(lo)
    BY <1>4, <1>9, <1>10, <2>1 DEF NoPage
  <2>2. CASE ~ IsPage(lo)
    <3>1. slice.page = NoPage
      BY <1>9, <2>2
    <3>2. ASSUME NEW p \in 0 .. slice.from, IsPage(p)
          PROVE  \E r \in p + 1 .. slice.from : text[r] = "heading"
      <4>1. p < lo
        BY <1>4, <1>9, <1>10, <2>2, <3>2
      <4>2. lo \in p + 1 .. slice.from /\ p \in 0 .. lo
        BY <1>4, <1>9, <4>1
      <4>3. text[lo] = "heading"
        BY <1>1, <2>2, <3>2, <4>2 DEF SegmentInv
      <4> QED
        BY <4>2, <4>3
    <3> QED
      BY <3>1, <3>2
  <2> QED
    BY <2>1, <2>2
<1>12. PageOfLastMarker'
  <2>1. \A i \in DOMAIN chunks' : Right(chunks'[i])
    BY <1>8, <1>11 DEF PageInv, PageOfLastMarker
  <2>2. \A p : IsPage(p)' <=> IsPage(p)
    BY <1>1 DEF IsPage, Marked
  <2> QED
    BY <1>1, <2>1, <2>2 DEF PageOfLastMarker
<1> QED
  BY <1>1, <1>12 DEF PageInv, SegmentInv, IsPage, Marked

\* The page of a chunk is that of the last marker at or before its beginning,
\* for texts of any length.
THEOREM PagesFollowMarks ==
  ASSUME ModerateOverlap
  PROVE  Spec => []PageOfLastMarker
<1>1. Init => PageInv
  BY DEF Init, PageInv, PageOfLastMarker
<1>2. IInv /\ PageInv /\ [Next]_vars => PageInv'
  <2> SUFFICES ASSUME IInv, PageInv, [Next]_vars
               PROVE  PageInv'
    OBVIOUS
  <2>1. CASE NextSegment
    BY <2>1, SegmentPages
  <2>2. CASE Window
    BY <2>2, WindowPages
  <2>3. CASE NoMoreSegments \/ UNCHANGED vars
    BY <2>3 DEF NoMoreSegments, vars, input, PageInv, PageOfLastMarker, SegmentInv, IsPage, Marked
  <2> QED
    BY <2>1, <2>2, <2>3 DEF Next, Rest
<1>3. PageInv => PageOfLastMarker
  BY DEF PageInv
<1> QED
  BY <1>1, <1>2, <1>3, Invariant, PTL DEF Spec

=============================================================================
