----------------------------- MODULE RestClient -----------------------------
(***************************************************************************)
(* GmoRestClient: a request is sent, and sent again after a rate limit, at *)
(* most MaxRetries times.                                                  *)
(*                                                                         *)
(* Throttle, backoff and fetch are one wait here, of any length, and what  *)
(* GMO does with a request is done at its end.  What the caller does with  *)
(* an outcome happens in the turn of the answer, so the answers are        *)
(* actions of the module that extends this one.                            *)
(***************************************************************************)
EXTENDS Integers

CONSTANTS
  Calls,      \* callers that have at most one request at a time
  MaxRetries  \* RATE_LIMIT_MAX_RETRIES

ASSUME RetryAssumption == MaxRetries \in Nat

VARIABLE
  attempt  \* of withRateLimitRetry, by call; NoRequest while none is under way

NoRequest == -1

RestTypeOK == attempt \in [Calls -> 0 .. MaxRetries \cup {NoRequest}]

RestInit == attempt = [c \in Calls |-> NoRequest]

\* "refused" is any other answer that is an error, be it of HTTP, of the body or
\* of GMO; "lost" is a fetch that throws, by its time limit for instance.
Outcomes == {"ok", "limited", "auth", "refused", "lost"}
ApiErrors == {"limited", "auth", "refused"}

\* get, post or publicGet.
Issue(c) == attempt' = [attempt EXCEPT ![c] = 0]

Awaited(c) == attempt[c] # NoRequest

(* A plausible slip: what was lost is sent again as well. *)
RetriesLost(c, outcome) == outcome \in {"limited", "lost"} /\ attempt[c] < MaxRetries

Retries(c, outcome) == outcome = "limited" /\ attempt[c] < MaxRetries

SendsAgain(c) == attempt' = [attempt EXCEPT ![c] = @ + 1]

Settles(c) == attempt' = [attempt EXCEPT ![c] = NoRequest]
=============================================================================
