---------------------------- MODULE SizingInputs ----------------------------
(***************************************************************************)
(* What an entry is sized on, and how old it is: the newest tick           *)
(* MarketDataRateAdapter holds, and the balance GmoBalanceAdapter caches.  *)
(*                                                                         *)
(* Time is an age, in units the limits are multiples of, and an age beyond *)
(* every limit is Old.  A tick bears the time GMO gave it and may arrive   *)
(* late; a balance is as old as GMO's answer, but stamped when it arrives. *)
(***************************************************************************)
EXTENDS Integers

CONSTANTS
  MaxAge,          \* RATE_MAX_AGE_MS
  BalanceTtl,      \* BALANCE_CACHE_TTL_MS
  RequestTimeout,  \* time limit of one request of GmoRestClient
  MaxDelay         \* bound: the age of a tick when it arrives

ASSUME AgeAssumption ==
  MaxAge \in Nat /\ BalanceTtl \in Nat /\ RequestTimeout \in Nat /\ MaxDelay \in Nat

VARIABLES
  captured,  \* age of MarketDataRateAdapter.latest by its capturedAt, or Missing
  quoted,    \* history: how long ago GMO quoted it
  cached,    \* age of GmoBalanceAdapter.cache by fetchedAtMillis, or Missing
  answered,  \* history: how long ago GMO told it
  fetch      \* inflightFetch: NoFetch, Asked, or the age of the answer on its way

inputVars == <<captured, quoted, cached, answered, fetch>>
balanceVars == <<cached, answered, fetch>>

Missing == -1
NoFetch == -2
Asked == -1
Longer(a, b) == IF a < b THEN b ELSE a
Old == Longer(MaxDelay, Longer(MaxAge, BalanceTtl + RequestTimeout)) + 1
Ages == 0 .. Old

InputsTypeOK ==
  /\ captured \in Ages \cup {Missing} /\ quoted \in Ages \cup {Missing}
  /\ cached \in Ages \cup {Missing} /\ answered \in Ages \cup {Missing}
  /\ fetch \in {NoFetch, Asked} \cup 0 .. RequestTimeout

InputsInit ==
  /\ captured = Missing /\ quoted = Missing
  /\ cached = Missing /\ answered = Missing
  /\ fetch = NoFetch

Older(age) == IF age = Missing \/ age = Old THEN age ELSE age + 1

\* An answer on its way arrives, or the request is given up, in time.
TimePasses ==
  /\ fetch < RequestTimeout
  /\ captured' = Older(captured) /\ quoted' = Older(quoted)
  /\ cached' = Older(cached) /\ answered' = Older(answered)
  /\ fetch' = IF fetch \in {NoFetch, Asked} THEN fetch ELSE fetch + 1

(* A plausible slip: the rate is stamped when it arrives. *)
KeepsRateAsNew(age) == captured' = 0 /\ quoted' = age

\* The listener of start: Rate.of with the timestamp of the tick.
KeepsRate(age) == captured' = age /\ quoted' = age

\* currentFresh: Rate.isFreshEnough.
RateFresh == captured # Missing /\ captured <= MaxAge

\* isFresh: the limit itself still counts.
BalanceFresh == cached # Missing /\ cached <= BalanceTtl

\* fetchAndCache.  Only the session asks, one await after the other, so nobody
\* ever finds a fetch in flight.
AsksBalance == fetch = NoFetch /\ fetch' = Asked /\ UNCHANGED <<cached, answered>>

GmoAnswers ==
  /\ fetch = Asked /\ fetch' = 0
  /\ UNCHANGED <<captured, quoted, cached, answered>>

BalanceArrives ==
  /\ fetch >= 0
  /\ fetch' = NoFetch /\ cached' = 0 /\ answered' = fetch

\* An error, a time limit, or an answer that is no balance: the cache stays.
BalanceFails == fetch # NoFetch /\ fetch' = NoFetch /\ UNCHANGED <<cached, answered>>
=============================================================================
