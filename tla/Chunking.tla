----------------------------- MODULE Chunking -----------------------------
(***************************************************************************)
(* chunk_text and _segments: the text of one document is cut at headings   *)
(* and page markers, and each stripped segment is covered by overlapping   *)
(* windows that prefer to end at white space.                              *)
(*                                                                         *)
(* A text is a function from offsets to kinds of character; a "page" and   *)
(* an "indented" one stand for a whole [Page n] marker, which is shorter   *)
(* than any window, and which the place of the marker names. Offsets count *)
(* from 0, as in Python. Chunks are kept as the absolute slices [from, to) *)
(* before piece.strip().                                                   *)
(***************************************************************************)
EXTENDS Integers, Sequences

CONSTANTS
  Settings,  \* chunk_size_chars and chunk_overlap_chars
  MaxLength  \* bound: length of the text

ASSUME SettingsAssumption ==
  /\ Settings \subseteq [size : Nat \ {0}, overlap : Nat]
  /\ \A s \in Settings : s.overlap < s.size
  /\ MaxLength \in Nat

VARIABLES
  text,     \* parsed.text
  length,   \* len(text)
  setting,  \* size and overlap
  at,       \* where the next segment begins, before strip()
  lo, hi,   \* the current segment is text[lo:hi]
  start,    \* `start`, relative to lo
  chunks,   \* the slices cut so far; their index is their place
  pc

input == <<text, length, setting>>

vars == <<input, at, lo, hi, start, chunks, pc>>

-----------------------------------------------------------------------------

\* A "line" is a newline, or a space, which differs from a newline only in
\* that no heading follows it; "blank" is white space rfind is not asked for.
White == {"line", "blank"}

Marks == {"heading", "page"}

Char == White \cup Marks \cup {"word", "indented"}

\* A mark begins a line. An "indented" marker does not, but has only white space
\* before it; any other marker within a line is a "word", as no `^` ever
\* matches there.
Text(n) ==
  {t \in [0 .. n - 1 -> Char] :
     /\ \A p \in 0 .. n - 1 :
          /\ t[p] \in Marks => p = 0 \/ t[p - 1] = "line"
          /\ t[p] = "indented" => p > 0 /\ \A q \in 0 .. p - 1 : t[q] \in White
     /\ \E p \in 0 .. n - 1 : t[p] \notin White}

\* metadata["page"] of a chunk: where its marker is, or NoPage.
NoPage == -1

Slice == [from : Nat, to : Nat, page : Nat \cup {NoPage}]

TypeOK ==
  /\ length \in 1 .. MaxLength
  /\ text \in [0 .. length - 1 -> Char]
  /\ setting \in Settings
  /\ at \in 0 .. length
  /\ lo \in 0 .. length
  /\ hi \in lo .. length
  /\ start \in Int
  /\ chunks \in Seq(Slice)
  /\ pc \in {"segment", "window", "done"}
  /\ pc = "window" => start < hi - lo

\* What parse_document can return.
Init ==
  /\ length \in 1 .. MaxLength
  /\ text \in Text(length)
  /\ setting \in Settings
  /\ at = 0
  /\ lo = 0
  /\ hi = 0
  /\ start = 0
  /\ chunks = <<>>
  /\ pc = "segment"

-----------------------------------------------------------------------------
(***************************************************************************)
(* _segments.                                                              *)
(***************************************************************************)

Visible(p) == text[p] \notin White

Marked == \E p \in 0 .. length - 1 : text[p] \in Marks

\* A match of _BOUNDARY, or the end of the text.
IsBoundary(p) == p < length => text[p] \in Marks

\* text[at:e] is the next segment before strip(): up to the next boundary.
RawEnd(e) ==
  /\ e \in at + 1 .. length
  /\ IsBoundary(e)
  /\ \A p \in at + 1 .. e - 1 : ~ IsBoundary(p)

\* text[l:h] is text[at:e].strip().
Stripped(l, h, e) ==
  /\ at <= l /\ l < h /\ h <= e
  /\ Visible(l) /\ Visible(h - 1)
  /\ \A p \in at .. e - 1 : Visible(p) => p \in l .. h - 1

NextSegment ==
  /\ pc = "segment"
  /\ at < length
  /\ \E e \in at + 1 .. length :
       /\ RawEnd(e)
       /\ at' = e
       /\ \/ /\ \A p \in at .. e - 1 : ~ Visible(p)
             /\ UNCHANGED <<lo, hi, start, pc>>
          \/ \E l \in at .. e - 1, h \in at + 1 .. e :
               /\ IF Marked THEN Stripped(l, h, e) ELSE l = at /\ h = e
               /\ \E p \in at .. e - 1 : Visible(p)
               /\ lo' = l
               /\ hi' = h
               /\ start' = 0
               /\ pc' = "window"
  /\ UNCHANGED <<input, chunks>>

NoMoreSegments ==
  /\ pc = "segment"
  /\ at = length
  /\ pc' = "done"
  /\ UNCHANGED <<input, at, lo, hi, start, chunks>>

-----------------------------------------------------------------------------
(***************************************************************************)
(* The windows of one segment.                                             *)
(***************************************************************************)

Span == hi - lo

\* A negative slice bound counts from the end.
Offset(i) == IF i >= 0 THEN i ELSE IF Span + i > 0 THEN Span + i ELSE 0

WindowEnd == IF start + setting.size < Span THEN start + setting.size ELSE Span

\* b is the last newline or space rfind finds in segment[start:end], or -1.
IsLastLine(b) ==
  /\ b # -1 => b \in Offset(start) .. WindowEnd - 1 /\ text[lo + b] = "line"
  /\ \A p \in Offset(start) .. WindowEnd - 1 : text[lo + p] = "line" => p <= b

\* Mutant of Preferred: any boundary will do.
AnyBoundary(b) == b > start

\* A boundary is taken when it leaves more than half of the window.
Preferred(b) == b > start + setting.size \div 2

CutAt(b) == IF WindowEnd < Span /\ Preferred(b) THEN b ELSE WindowEnd

\* Mutant of Advance: continues after the boundary, without the overlap.
AdvancePast(end) == end + 1

Advance(end) == end - setting.overlap

\* Where _PAGE matches in text[l:h]: `^` matches at the beginning of a line, and
\* at l, wherever that is in its line.
Markers(l, h) == {p \in l .. h - 1 : text[p] = "page" \/ (p = l /\ text[p] = "indented")}

\* search() finds the first one.
FirstOf(ms) == IF ms = {} THEN NoPage ELSE CHOOSE p \in ms : \A q \in ms : p <= q

\* Mutant of Cut: looks for the page marker in the piece.
CutPiece(end) ==
  [from |-> lo + Offset(start), to |-> lo + end,
   page |-> FirstOf(Markers(lo + Offset(start), lo + end))]

\* segment[start:end], with the first page marker of segment[:end].
Cut(end) ==
  [from |-> lo + Offset(start), to |-> lo + end, page |-> FirstOf(Markers(lo, lo + end))]

HasText(slice) == \E p \in slice.from .. slice.to - 1 : Visible(p)

\* One round of the while loop, whose condition always holds (TypeOK). A slice
\* of white space only is not recorded.
Window ==
  /\ pc = "window"
  /\ \E b \in -1 .. WindowEnd - 1 :
       /\ IsLastLine(b)
       /\ chunks' = IF HasText(Cut(CutAt(b))) THEN Append(chunks, Cut(CutAt(b))) ELSE chunks
       /\ \/ CutAt(b) >= Span /\ pc' = "segment" /\ UNCHANGED start
          \/ CutAt(b) < Span /\ start' = Advance(CutAt(b)) /\ UNCHANGED pc
  /\ UNCHANGED <<input, at, lo, hi>>

Rest == pc = "done" /\ UNCHANGED vars

Next == NextSegment \/ NoMoreSegments \/ Window \/ Rest

Spec == Init /\ [][Next]_vars

-----------------------------------------------------------------------------
(***************************************************************************)
(* Properties.                                                             *)
(***************************************************************************)

\* No text is lost: every character that is not white space ends up in a
\* chunk, although segments are stripped, windows end at white space and
\* blank pieces are dropped.
Coverage ==
  pc = "done" =>
    \A p \in 0 .. length - 1 : Visible(p) =>
      \E i \in DOMAIN chunks : p \in chunks[i].from .. chunks[i].to - 1

\* No chunk is longer than chunk_size_chars, and every chunk reaches further
\* than all the chunks before it, so that none repeats another.
ChunksProgress ==
  /\ \A i \in DOMAIN chunks : chunks[i].to - chunks[i].from \in 1 .. setting.size
  /\ \A i, j \in DOMAIN chunks : i < j => chunks[i].to < chunks[j].to

\* The while loop terminates because each window of a segment begins further
\* on than the one before.
StartAdvances ==
  [][pc = "window" /\ pc' = "window" => start' > start]_vars

\* A page marker, for a reader of the text. The white space before an indented
\* one is stripped when the text is cut at all, and then it counts.
IsPage(p) == text[p] = "page" \/ (Marked /\ text[p] = "indented")

\* A citation never names the wrong page: the page of a chunk is that of the last
\* marker at or before its beginning, however many windows ago that was. And
\* every window of a page has it, unless a heading was passed since.
PageOfLastMarker ==
  \A c \in {chunks[i] : i \in DOMAIN chunks} :
    /\ c.page # NoPage => /\ c.page \in 0 .. c.from /\ IsPage(c.page)
                          /\ \A q \in c.page + 1 .. c.from : ~ IsPage(q)
    /\ c.page = NoPage =>
         \A p \in 0 .. c.from : IsPage(p) => \E q \in p + 1 .. c.from : text[q] = "heading"

=============================================================================
