-------------------------- MODULE MCEventStreaming --------------------------
(* Model values for the TLC runs of EventStreaming. *)
EXTENDS EventStreaming

CONSTANTS d1, d2, m1, c1

OneDocument  == {d1}
TwoDocuments == {d1, d2}
OneCopy      == {m1}
OneClient    == {c1}
Nothing      == {}
=============================================================================
