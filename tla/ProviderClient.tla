--------------------------- MODULE ProviderClient ---------------------------
(***************************************************************************)
(* OpenRouterClient: what one call of embed() or answer() makes of what    *)
(* the provider replies to its requests. Retrieval and Embedding send the  *)
(* requests, each from the client of its own container.                    *)
(***************************************************************************)
EXTENDS Naturals

VARIABLE configured  \* Settings.provider_is_configured(), the same everywhere

\* What a POST comes to.
\*   good    a JSON object with what was asked for
\*   odd     a JSON object without it: embeddings too few, too many or of
\*           another dimension, no choices, an empty answer
\*   busy    429, 500, 502, 503, 504
\*   broken  another HTTP error, a timeout, a body that is no JSON object;
\*           the provider may have done the work
Reply == {"good", "odd", "busy", "broken"}

\* Mutant of Retries: a request is repeated until it succeeds.
RetriesForEver(attempt, reply) == reply \in {"busy", "broken"}

\* _request sends the request a second time, whatever was wrong with the
\* first reply, as long as that was not a JSON object.
Retries(attempt, reply) == attempt = 0 /\ reply \in {"busy", "broken"}

\* ProviderError, from _request after the second attempt or from the checks
\* that embed and answer make of the object, which are not retried.
Fails(attempt, reply) ==
  reply = "odd" \/ (attempt = 1 /\ reply \in {"busy", "broken"})
=============================================================================
