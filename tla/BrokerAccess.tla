---------------------------- MODULE BrokerAccess ----------------------------
(***************************************************************************)
(* GmoBrokerAdapter over GmoRestClient: placing an order and waiting for   *)
(* its execution, and listing the account page by page, with what the      *)
(* synchronisation reports of it to the authentication breaker.            *)
(*                                                                         *)
(* A step ends where the code awaits.  Positions have the numbers GMO      *)
(* gives them, in the order they are opened; an exit is the number of the  *)
(* position it closes.  GMO and the network may do whatever they do:       *)
(* outcomes are chosen freely, and an order may be executed late.          *)
(***************************************************************************)
EXTENDS RestClient, FiniteSets, FiniteSetsExt

CONSTANTS
  Entries, Exits, \* calls of placeEntry and of placeExit
  MaxPolls,       \* EXECUTION_POLL_MAX_ATTEMPTS
  PageSize,       \* OPEN_POSITIONS_PAGE_SIZE
  MaxPages,       \* OPEN_POSITIONS_MAX_PAGES
  Threshold,      \* of AuthFailureCircuitBreaker
  MaxId           \* bound: positions ever opened

Orders == Entries \cup Exits
Runs == Calls \ Orders  \* runs of SyncPositionsUseCase
Ids == 1 .. MaxId

ASSUME AccessAssumption ==
  /\ Orders \subseteq Calls /\ Entries \cap Exits = {} /\ Exits \subseteq Ids
  /\ MaxPolls \in Nat \ {0} /\ PageSize \in Nat \ {0} /\ MaxPages \in Nat
  /\ Threshold \in Nat \ {0} /\ MaxId \in Nat

VARIABLES
  account,    \* positions open at GMO
  lastId,     \* number of the latest
  working,    \* orders GMO has taken and not executed, by caller
  executed,   \* orders GMO has executed, by caller
  place,      \* where placeEntry or placeExit is: a member of Places
  polls,      \* attempt of waitForExecution
  listing,    \* where fetchOpenPositionIds is: a member of Listings
  got,        \* its ids
  cursor,     \* its prevId, or NoCursor
  page,       \* its page
  held,       \* history: positions open ever since the listing began
  failures,   \* consecutive failures the breaker has counted, up to Threshold
  rejections  \* history: consecutive listings rejected for their keys, likewise

gmoVars == <<account, lastId, working, executed>>
orderVars == <<place, polls>>
listVars == <<listing, got, cursor, page>>
authVars == <<failures, rejections>>
vars == <<attempt, gmoVars, orderVars, listVars, held, authVars>>

Places == {"none", "ordering", "polling", "finding", "confirmed", "failed"}
Listings == {"off", "listing", "listed", "overrun", "failed"}
NoCursor == MaxId + 1

TypeOK ==
  /\ RestTypeOK
  /\ account \subseteq 1 .. lastId /\ lastId \in 0 .. MaxId
  /\ working \in [Orders -> Nat] /\ executed \in [Orders -> Nat]
  /\ place \in [Orders -> Places] /\ polls \in [Orders -> 0 .. MaxPolls - 1]
  /\ listing \in [Runs -> Listings] /\ got \in [Runs -> SUBSET Ids]
  /\ cursor \in [Runs -> 0 .. NoCursor] /\ page \in [Runs -> 0 .. MaxPages]
  /\ held \in [Runs -> SUBSET Ids]
  /\ failures \in 0 .. Threshold /\ rejections \in 0 .. Threshold

Init ==
  /\ RestInit
  /\ lastId = 0 /\ account = {}
  /\ working = [o \in Orders |-> 0] /\ executed = [o \in Orders |-> 0]
  /\ place = [o \in Orders |-> "none"] /\ polls = [o \in Orders |-> 0]
  /\ listing = [s \in Runs |-> "off"] /\ got = [s \in Runs |-> {}]
  /\ cursor = [s \in Runs |-> NoCursor] /\ page = [s \in Runs |-> 0]
  /\ held = [s \in Runs |-> {}]
  /\ failures = 0 /\ rejections = 0

-----------------------------------------------------------------------------
(* GMO. *)

Opened(p) == account' = account \cup {p} /\ lastId' = p /\ UNCHANGED held

Closed(p) ==
  /\ account' = account \ {p}
  /\ held' = [s \in Runs |-> held[s] \ {p}]
  /\ UNCHANGED lastId

\* By its owner, or by GMO.
OpensOutside ==
  /\ lastId < MaxId /\ Opened(lastId + 1)
  /\ UNCHANGED <<attempt, working, executed, orderVars, listVars, authVars>>

ClosesOutside(p) ==
  /\ p \in account /\ Closed(p)
  /\ UNCHANGED <<attempt, working, executed, orderVars, listVars, authVars>>

GmoExecutes(o) ==
  /\ working[o] > 0
  /\ \/ o \in Entries /\ lastId < MaxId /\ Opened(lastId + 1)
     \/ o \in Exits /\ o \in account /\ Closed(o)
  /\ working' = [working EXCEPT ![o] = @ - 1]
  /\ executed' = [executed EXCEPT ![o] = @ + 1]
  /\ UNCHANGED <<attempt, orderVars, listVars, authVars>>

\* A position that is being closed is locked.
GmoTakes(o) ==
  /\ o \in Exits => o \in account /\ working[o] = 0
  /\ working' = [working EXCEPT ![o] = @ + 1]

\* GMO takes an order it answers with "ok", none it answers with a rate limit or
\* for the keys, and may or may not have taken one whose answer is broken or lost.
GmoAnswersOrder(o, outcome) ==
  \/ outcome \in {"ok", "refused", "lost"} /\ GmoTakes(o)
  \/ outcome # "ok" /\ UNCHANGED working

-----------------------------------------------------------------------------
(* placeEntry and placeExit. *)

PlaceAt(o, where) == place' = [place EXCEPT ![o] = where]

\* The loop of waitForExecution is left, or the whole call.
PollsEnd(o) == polls' = [polls EXCEPT ![o] = 0]

PlaceEnds(o, how) == Settles(o) /\ PlaceAt(o, how) /\ PollsEnd(o)

\* An exit is for a position that has been opened.
Asks(o) ==
  /\ o \in Exits => o <= lastId
  /\ place[o] = "none" /\ PlaceAt(o, "ordering")
  /\ Issue(o)
  /\ UNCHANGED <<gmoVars, polls, listVars, held, authVars>>

OrderAnswered(o, outcome) ==
  /\ Awaited(o) /\ place[o] = "ordering"
  /\ GmoAnswersOrder(o, outcome)
  /\ \/ Retries(o, outcome) /\ SendsAgain(o) /\ UNCHANGED orderVars
     \/ outcome = "ok" /\ Issue(o) /\ PlaceAt(o, "polling") /\ UNCHANGED polls
     \/ outcome # "ok" /\ ~Retries(o, outcome) /\ PlaceEnds(o, "failed")
  /\ UNCHANGED <<account, lastId, executed, listVars, held, authVars>>

\* An entry goes on to look for its position, an exit is done.
Found(o) ==
  IF o \in Entries THEN Issue(o) /\ PlaceAt(o, "finding") /\ PollsEnd(o)
                   ELSE PlaceEnds(o, "confirmed")

PollAgain(o) ==
  IF polls[o] + 1 < MaxPolls
    THEN Issue(o) /\ polls' = [polls EXCEPT ![o] = @ + 1] /\ UNCHANGED place
    ELSE PlaceEnds(o, "failed")

\* The list of executions of the order, in which a new one may not yet be.
ListShows(o) == executed[o] > 0

Polled(o, outcome) ==
  /\ Awaited(o) /\ place[o] = "polling"
  /\ \/ Retries(o, outcome) /\ SendsAgain(o) /\ UNCHANGED orderVars
     \/ outcome = "ok" /\ ListShows(o) /\ Found(o)
     \/ outcome \in {"ok", "lost"} /\ ~Retries(o, outcome) /\ PollAgain(o)
     \/ outcome \in ApiErrors /\ ~Retries(o, outcome) /\ PlaceEnds(o, "failed")
  /\ UNCHANGED <<gmoVars, listVars, held, authVars>>

\* findOpenPosition takes the newest position that fits, or else the newest.
PositionSought(o, outcome) ==
  /\ Awaited(o) /\ place[o] = "finding"
  /\ \/ Retries(o, outcome) /\ SendsAgain(o) /\ UNCHANGED orderVars
     \/ outcome = "ok" /\ account # {} /\ PlaceEnds(o, "confirmed")
     \/ outcome = "ok" /\ account = {} /\ PlaceEnds(o, "failed")
     \/ outcome # "ok" /\ ~Retries(o, outcome) /\ PlaceEnds(o, "failed")
  /\ UNCHANGED <<gmoVars, listVars, held, authVars>>

-----------------------------------------------------------------------------
(* fetchOpenPositionIds, and what the synchronisation makes of it. *)

StartsListing(s) ==
  /\ listing[s] # "listing"
  /\ listing' = [listing EXCEPT ![s] = "listing"]
  /\ got' = [got EXCEPT ![s] = {}]
  /\ cursor' = [cursor EXCEPT ![s] = NoCursor]
  /\ page' = [page EXCEPT ![s] = 0]
  /\ held' = [held EXCEPT ![s] = account]
  /\ Issue(s)
  /\ UNCHANGED <<gmoVars, orderVars, authVars>>

\* The newest positions of a set, and all of them if they do not fill a page.
Pages ==
  [below \in SUBSET Ids |->
     {list \in SUBSET below :
        /\ Cardinality(list) <= PageSize
        /\ \A p \in list, q \in below \ list : q < p
        /\ Cardinality(list) < PageSize => list = below}]

GmoPages(s) == Pages[{p \in account : p < cursor[s]}]

FullPage(list) == Cardinality(list) >= PageSize

(* A plausible slip: the cursor skips a position. *)
NextCursorSkips(list) == Min(list) - 1

NextCursor(list) == Min(list)

\* Always true while GMO honours the cursor.
CursorAdvances(s, list) == cursor[s] = NoCursor \/ NextCursor(list) < cursor[s]

TooManyPages(n) == n > MaxPages

\* BrokerError.isAuthenticationFailure.
CountsAsAuthFailure(error) == error = "AUTHENTICATION_FAILED"

\* The catch of fetchOpenPositionIds.
ListingError(outcome) == IF outcome \in ApiErrors THEN "UNEXPECTED" ELSE "NETWORK_ERROR"

UpToThreshold(n) == IF n < Threshold THEN n ELSE Threshold

\* The breaker's report: called for a failure of the keys, and for a success.
ReportError(error) ==
  failures' = IF CountsAsAuthFailure(error) THEN UpToThreshold(failures + 1) ELSE failures

ReportSuccess == failures' = 0 /\ rejections' = 0

\* admitEntry, the gate of the position manager.
AdmitsEntry == failures < Threshold

\* The locals of the call are gone.  Kept for comparison are the ids it returns, with
\* the history, and the ids it gives up for their number.
ListingEnds(s, how, ids) ==
  /\ Settles(s)
  /\ listing' = [listing EXCEPT ![s] = how]
  /\ got' = [got EXCEPT ![s] = ids]
  /\ cursor' = [cursor EXCEPT ![s] = NoCursor]
  /\ page' = [page EXCEPT ![s] = 0]
  /\ held' = IF how = "listed" THEN held ELSE [held EXCEPT ![s] = {}]

GuardThrows(s, how, ids) ==
  ListingEnds(s, how, ids) /\ ReportError("UNEXPECTED") /\ UNCHANGED rejections

NextPage(s, list, ids) ==
  /\ Issue(s)
  /\ got' = [got EXCEPT ![s] = ids]
  /\ cursor' = [cursor EXCEPT ![s] = NextCursor(list)]
  /\ page' = [page EXCEPT ![s] = @ + 1]
  /\ UNCHANGED <<listing, held, authVars>>

PageAnswered(s) ==
  /\ Awaited(s)
  /\ \E list \in GmoPages(s) : LET ids == got[s] \cup list IN
       \/ ~FullPage(list) /\ ListingEnds(s, "listed", ids) /\ ReportSuccess
       \/ FullPage(list) /\ ~CursorAdvances(s, list) /\ GuardThrows(s, "failed", {})
       \/ /\ FullPage(list) /\ CursorAdvances(s, list)
          /\ IF TooManyPages(page[s] + 1) THEN GuardThrows(s, "overrun", ids)
                                          ELSE NextPage(s, list, ids)
  /\ UNCHANGED <<gmoVars, orderVars>>

(* A plausible slip: a page that fails starts the list again. *)
ListingStartsOver(s, outcome) ==
  /\ Issue(s)
  /\ got' = [got EXCEPT ![s] = {}]
  /\ cursor' = [cursor EXCEPT ![s] = NoCursor]
  /\ page' = [page EXCEPT ![s] = 0]
  /\ UNCHANGED <<listing, held, authVars>>

ListingFails(s, outcome) ==
  /\ ListingEnds(s, "failed", {})
  /\ ReportError(ListingError(outcome))
  /\ rejections' = IF outcome = "auth" THEN UpToThreshold(rejections + 1) ELSE rejections

PageFails(s, outcome) ==
  /\ Awaited(s) /\ outcome # "ok"
  /\ \/ Retries(s, outcome) /\ SendsAgain(s) /\ UNCHANGED <<listVars, held, authVars>>
     \/ ~Retries(s, outcome) /\ ListingFails(s, outcome)
  /\ UNCHANGED <<gmoVars, orderVars>>

-----------------------------------------------------------------------------
Outside == OpensOutside \/ \E p \in Ids : ClosesOutside(p)

OrderStep(o) ==
  \E outcome \in Outcomes :
    OrderAnswered(o, outcome) \/ Polled(o, outcome) \/ PositionSought(o, outcome)

ListingStep(s) ==
  \/ PageAnswered(s)
  \/ \E outcome \in Outcomes : PageFails(s, outcome)

Next ==
  \/ Outside
  \/ \E o \in Orders : Asks(o) \/ OrderStep(o) \/ GmoExecutes(o)
  \/ \E s \in Runs : StartsListing(s) \/ ListingStep(s)

SafeSpec == Init /\ [][Next]_vars

\* Throttle, backoff and fetch all end: they are timers, or have a time limit.
Spec ==
  /\ SafeSpec
  /\ \A o \in Orders : WF_vars(OrderStep(o))
  /\ \A s \in Runs : WF_vars(ListingStep(s))

-----------------------------------------------------------------------------
(* Properties. *)

\* What synchronisation relies on when it takes a position that is not listed for
\* closed: a list that took several requests, between which positions were opened
\* and closed, has every position that was open all the time.
ListsAllHeld == \A s \in Runs : listing[s] = "listed" => held[s] \subseteq got[s]

\* The guard against endless paging refuses no account it should list: MaxPages
\* full pages may be followed by the page that shows the end.
OverrunJustified ==
  \A s \in Runs : listing[s] = "overrun" => Cardinality(got[s]) > MaxPages * PageSize

\* A listing ends, whatever GMO answers: a run of the synchronisation that hung
\* would be the last the breaker and the table hear of the account.
ListingsEnd == \A s \in Runs : listing[s] = "listing" ~> listing[s] # "listing"

\* "When consecutive failures reach the threshold, new entries are refused": after
\* Threshold listings in a row that GMO has rejected for the keys.
RejectedKeysStopEntries == rejections = Threshold => ~AdmitsEntry

CallOf(o) ==
  IF place[o] \in {"ordering", "polling", "finding"} THEN "asked" ELSE place[o]

OrderOf(o) ==
  IF working[o] + executed[o] > 1 THEN "twice"
  ELSE IF executed[o] = 1 THEN "executed"
  ELSE IF working[o] = 1 THEN "working" ELSE "none"

Abstract == INSTANCE OrderPromise WITH
  call <- [o \in Orders |-> CallOf(o)],
  order <- [o \in Orders |-> OrderOf(o)]

\* placeEntry and placeExit keep the promise the entry and the exit side rely on:
\* retries never place an order twice, a confirmed order is executed, and every
\* call is answered.
KeepsOrderPromise == Abstract!Promise
=============================================================================
