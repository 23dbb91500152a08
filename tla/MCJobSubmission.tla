-------------------------- MODULE MCJobSubmission --------------------------
(* Model values for the TLC runs of JobSubmission. *)
EXTENDS JobSubmission

CONSTANTS r1, r2, here, there

TwoRequests == {r1, r2}

One(name, content) == <<[name |-> name, content |-> content]>>

Body(scope, documents) == [scope |-> scope, documents |-> documents]

\* The same bytes as two documents and as one, ...
Pair   == Body(here, One(<<1>>, <<3>>) \o One(<<2>>, <<4>>))
Single == Body(here, One(<<1, 3>>, <<2, 4>>))

\* ... and as one whose content has the separators in it, for another namespace.
Merged == Body(there, One(<<1>>, <<3, Nul, 2, Nul, 4>>))

OneBody       == {Single}
SeveralBodies == {Pair, Single, Merged}
=============================================================================
