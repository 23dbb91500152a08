---------------------------- MODULE MCRetrieval ----------------------------
(* Model values and small data for the TLC run of Retrieval. *)
EXTENDS Retrieval

CONSTANTS c1, c2, c3, c4, c5, n1, n2

FiveChunks    == {c1, c2, c3, c4, c5}
TwoNamespaces == {n1, n2}

\* c1 and c2, equally similar, fit together; c3 exceeds the limit alone; c4 is
\* below the threshold; c5 is in the other namespace.
Home       == [c \in FiveChunks |-> IF c = c5 THEN n2 ELSE n1]
Similarity == [c \in FiveChunks |-> CASE c \in {c1, c2} -> 3 [] c \in {c3, c5} -> 2 [] c = c4 -> 1]
Characters == [c \in FiveChunks |-> IF c = c3 THEN 5 ELSE 2]

\* Every answer of up to six characters: two labels in any order, a label of
\* two digits, one within another, brackets that do not match; and every one of up
\* to five characters with white space within and without.
ShortAnswers ==
  UNION {[1 .. n -> {1, 2, Open, Close}] : n \in 1 .. 6}
    \cup {a \in UNION {[1 .. n -> {2, Open, Close, White}] : n \in 1 .. 5} : Shows(a) # {}}

=============================================================================
