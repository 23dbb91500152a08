----------------------------- MODULE MCServing -----------------------------
(* Model values and small data for the TLC run of Serving. *)
EXTENDS Serving

CONSTANTS api, worker, probe, c1, n1

OneApi    == {api}
OneWorker == {worker}
OneProbe  == {probe}
TheServer == [p \in OneProbe |-> api]

\* What is retrieved and answered matters to no other part of the system; one
\* chunk and one answer give every step but those that drop something, which
\* the run of Retrieval has.
OneChunk     == {c1}
OneNamespace == {n1}
Home         == [c \in OneChunk |-> n1]
Similarity   == [c \in OneChunk |-> 3]
Characters   == [c \in OneChunk |-> 2]
OneAnswer    == {<<Open, 1, Close>>}
=============================================================================
