-------------------------- MODULE MCJobProcessing --------------------------
(* Model values for the TLC runs of JobProcessing. *)
EXTENDS JobProcessing

CONSTANTS d1, d2, m1, m2

OneDocument  == {d1}
TwoDocuments == {d1, d2}
OneCopy      == {m1}
TwoCopies    == {m1, m2}
Nothing      == {}
=============================================================================
