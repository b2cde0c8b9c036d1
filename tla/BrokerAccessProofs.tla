------------------------- MODULE BrokerAccessProofs -------------------------
(***************************************************************************)
(* Proofs about BrokerAccess, for any number of callers, attempts, pages   *)
(* and positions: types, complete lists, the limit of pages, and the       *)
(* safety part of the promise of orders.                                   *)
(***************************************************************************)
EXTENDS BrokerAccess, TLAPS, FiniteSetTheorems, WellFoundedInduction

USE DEF Orders, Runs, Ids, NoRequest, NoCursor

\* A set of numbers that is not empty has a least member, which Min names.
LEMMA LeastExists ==
  ASSUME NEW S \in SUBSET Nat, S # {}
  PROVE  Min(S) \in S /\ \A p \in S : Min(S) <= p
<1>. DEFINE R == {ss \in Nat \X Nat : ss[1] < ss[2]}
<1>1. IsWellFoundedOn(R, Nat)
  BY NatLessThanWellFounded DEF OpToRel
<1>2. PICK x \in S : \A y \in S : ~(<<y, x>> \in R)
  <2>. HIDE DEF R
  <2>. QED BY <1>1, WFMin, Zenon
<1>3. ASSUME NEW y \in S
      PROVE  x <= y
  <2>1. <<y, x>> \in Nat \X Nat /\ <<y, x>>[1] = y /\ <<y, x>>[2] = x
    OBVIOUS
  <2>2. ~(y < x)
    BY <1>2, <2>1
  <2>. QED
    BY <2>2
<1>. QED
  BY <1>3 DEF Min

\* What GMO puts on a page, and where a full one moves the cursor.
LEMMA PageOf ==
  ASSUME TypeOK, NEW s \in Runs, NEW list \in GmoPages(s)
  PROVE  /\ list \in SUBSET Ids /\ IsFiniteSet(list) /\ Cardinality(list) \in Nat
         /\ \A p \in list : p \in account /\ p < cursor[s]
         /\ \A p \in list, q \in account : q < cursor[s] /\ q \notin list => q < p
         /\ ~FullPage(list) => \A q \in account : q < cursor[s] => q \in list
         /\ FullPage(list) => /\ NextCursor(list) \in list
                              /\ \A p \in list : NextCursor(list) <= p
<1>. DEFINE below == {p \in account : p < cursor[s]}
<1>. USE AccessAssumption
<1>0. account \subseteq Ids
  BY DEF TypeOK
<1>1. below \in SUBSET Ids /\ account \subseteq Ids
  BY <1>0
<1>2. /\ list \in SUBSET below
      /\ \A p \in list, q \in below \ list : q < p
      /\ Cardinality(list) < PageSize => list = below
  BY <1>1 DEF GmoPages, Pages
<1>3. IsFiniteSet(list) /\ Cardinality(list) \in Nat
  <2>1. IsFiniteSet(Ids) /\ list \in SUBSET Ids
    BY <1>1, <1>2, FS_Interval
  <2>. QED
    BY <2>1, FS_Subset, FS_CardinalityType
<1>4. FullPage(list) => list # {}
  BY FS_EmptySet DEF FullPage
<1>5. FullPage(list) => NextCursor(list) \in list /\ \A p \in list : NextCursor(list) <= p
  BY <1>1, <1>2, <1>4, LeastExists DEF NextCursor
<1>6. ~FullPage(list) => list = below
  BY <1>2, <1>3 DEF FullPage
<1>. QED
  BY <1>1, <1>2, <1>3, <1>5, <1>6

-----------------------------------------------------------------------------
(* Types. *)

LEMMA RequestTypes ==
  ASSUME RestTypeOK, NEW c \in Calls,
         Issue(c) \/ Settles(c) \/ UNCHANGED attempt \/
           (SendsAgain(c) /\ Awaited(c) /\ \E outcome \in Outcomes : Retries(c, outcome))
  PROVE  RestTypeOK'
BY RetryAssumption DEF RestTypeOK, Issue, Settles, SendsAgain, Retries, Awaited

LEMMA GmoTypes ==
  ASSUME TypeOK, Outside \/ \E o \in Orders : GmoExecutes(o)
  PROVE  TypeOK'
<1>. USE AccessAssumption DEF TypeOK, RestTypeOK, orderVars, listVars, authVars, Opened, Closed
<1>1. CASE OpensOutside
  BY <1>1 DEF OpensOutside
<1>2. ASSUME NEW p \in Ids, ClosesOutside(p)
      PROVE  TypeOK'
  BY <1>2 DEF ClosesOutside
<1>3. ASSUME NEW o \in Orders, GmoExecutes(o)
      PROVE  TypeOK'
  <2>1. working' \in [Orders -> Nat] /\ executed' \in [Orders -> Nat]
    BY <1>3 DEF GmoExecutes
  <2>2. CASE lastId < MaxId /\ Opened(lastId + 1)
    BY <1>3, <2>1, <2>2 DEF GmoExecutes
  <2>3. CASE Closed(o)
    BY <1>3, <2>1, <2>3 DEF GmoExecutes
  <2>. QED
    BY <1>3, <2>2, <2>3 DEF GmoExecutes
<1>. QED
  BY <1>1, <1>2, <1>3 DEF Outside

LEMMA OrderTypes ==
  ASSUME TypeOK, NEW o \in Orders, Asks(o) \/ OrderStep(o)
  PROVE  TypeOK'
<1>. USE AccessAssumption DEF TypeOK, gmoVars, orderVars, listVars, authVars
<1>1. RestTypeOK'
  <2>. o \in Calls
    OBVIOUS
  <2>. QED
    BY RequestTypes
    DEF Asks, OrderStep, OrderAnswered, Polled, PositionSought, PlaceEnds, Found, PollAgain
<1>2. working' \in [Orders -> Nat]
  BY DEF Asks, OrderStep, OrderAnswered, Polled, PositionSought, GmoAnswersOrder, GmoTakes
<1>3. place' \in [Orders -> Places]
  BY DEF Asks, OrderStep, OrderAnswered, Polled, PositionSought, PlaceEnds, Found, PollAgain,
         PlaceAt, Places
<1>4. polls' \in [Orders -> 0 .. MaxPolls - 1]
  BY DEF Asks, OrderStep, OrderAnswered, Polled, PositionSought, PlaceEnds, Found, PollAgain,
         PollsEnd
<1>5. UNCHANGED <<account, lastId, executed, listVars, held, authVars>>
  BY DEF Asks, OrderStep, OrderAnswered, Polled, PositionSought
<1>. QED
  BY <1>1, <1>2, <1>3, <1>4, <1>5

LEMMA ListingTypes ==
  ASSUME TypeOK, NEW s \in Runs, StartsListing(s) \/ ListingStep(s)
  PROVE  TypeOK'
<1>. USE AccessAssumption DEF TypeOK, gmoVars, orderVars, listVars, authVars
<1>1. CASE StartsListing(s)
  <2>1. RestTypeOK'
    BY <1>1, RequestTypes DEF StartsListing
  <2>. QED
    BY <1>1, <2>1 DEF StartsListing, Listings
<1>2. ASSUME NEW list \in GmoPages(s), Awaited(s),
             UNCHANGED <<gmoVars, orderVars>>,
             NEW ids, ids = got[s] \cup list,
             \/ ~FullPage(list) /\ ListingEnds(s, "listed", ids) /\ ReportSuccess
             \/ FullPage(list) /\ GuardThrows(s, "failed", {})
             \/ FullPage(list) /\ GuardThrows(s, "overrun", ids)
             \/ FullPage(list) /\ ~TooManyPages(page[s] + 1) /\ NextPage(s, list, ids)
      PROVE  TypeOK'
  <2>1. RestTypeOK'
    BY <1>2, RequestTypes DEF ListingEnds, GuardThrows, NextPage
  <2>2. got' \in [Runs -> SUBSET Ids]
    <3>1. ids \in SUBSET Ids
      BY <1>2, PageOf
    <3>2. got' \in {got, [got EXCEPT ![s] = {}], [got EXCEPT ![s] = ids]}
      BY <1>2 DEF ListingEnds, GuardThrows, NextPage
    <3>. QED
      BY <3>1, <3>2
  <2>3. cursor' \in [Runs -> 0 .. NoCursor]
    BY <1>2, PageOf DEF ListingEnds, GuardThrows, NextPage
  <2>4. page' \in [Runs -> 0 .. MaxPages]
    BY <1>2 DEF ListingEnds, GuardThrows, NextPage, TooManyPages
  <2>5. listing' \in [Runs -> Listings] /\ held' \in [Runs -> SUBSET Ids]
    BY <1>2 DEF ListingEnds, GuardThrows, NextPage, Listings
  <2>6. failures' \in 0 .. Threshold /\ rejections' \in 0 .. Threshold
    BY <1>2 DEF GuardThrows, NextPage, ReportSuccess, ReportError, UpToThreshold
  <2>. QED
    BY <1>2, <2>1, <2>2, <2>3, <2>4, <2>5, <2>6
<1>3. CASE PageAnswered(s)
  BY <1>2, <1>3 DEF PageAnswered
<1>4. ASSUME NEW outcome \in Outcomes, PageFails(s, outcome)
      PROVE  TypeOK'
  <2>1. RestTypeOK'
    BY <1>4, RequestTypes DEF PageFails, ListingFails, ListingEnds
  <2>2. /\ got' \in [Runs -> SUBSET Ids] /\ cursor' \in [Runs -> 0 .. NoCursor]
        /\ page' \in [Runs -> 0 .. MaxPages] /\ held' \in [Runs -> SUBSET Ids]
        /\ listing' \in [Runs -> Listings]
    BY <1>4 DEF PageFails, ListingFails, ListingEnds, Listings
  <2>3. failures' \in 0 .. Threshold /\ rejections' \in 0 .. Threshold
    BY <1>4 DEF PageFails, ListingFails, ReportError, UpToThreshold
  <2>. QED
    BY <1>4, <2>1, <2>2, <2>3 DEF PageFails
<1>. QED
  BY <1>1, <1>3, <1>4 DEF ListingStep

\* No attempt, poll, page or counter leaves its range.
THEOREM AccessTypeCorrect == SafeSpec => []TypeOK
<1>1. Init => TypeOK
  BY RetryAssumption, AccessAssumption
  DEF Init, RestInit, TypeOK, RestTypeOK, Places, Listings
<1>2. TypeOK /\ [Next]_vars => TypeOK'
  <2>1. TypeOK /\ UNCHANGED vars => TypeOK'
    BY DEF TypeOK, RestTypeOK, vars, gmoVars, orderVars, listVars, authVars
  <2>. QED
    BY <2>1, GmoTypes, OrderTypes, ListingTypes DEF Next
<1>. QED
  BY <1>1, <1>2, PTL DEF SafeSpec

-----------------------------------------------------------------------------
(* Listings. *)

\* What a run of several pages may rely on: what has been held all the time and is
\* not below the cursor has been listed, and every full page has added new ids.
PagingSound(s) ==
  /\ held[s] \subseteq account
  /\ \A p \in held[s] : p >= cursor[s] => p \in got[s]
  /\ \A p \in got[s] : p >= cursor[s]
  /\ Cardinality(got[s]) >= page[s] * PageSize

RunSound(s) ==
  /\ Awaited(s) <=> listing[s] = "listing"
  /\ listing[s] = "listing" => PagingSound(s)
  /\ listing[s] = "listed" => held[s] \subseteq got[s]
  /\ listing[s] = "overrun" => Cardinality(got[s]) >= (MaxPages + 1) * PageSize

ListInv == \A s \in Runs : RunSound(s)

\* A step that leaves the run of s alone, and at most closes positions for it.
LEMMA OtherRuns ==
  ASSUME TypeOK, NEW s \in Runs, RunSound(s),
         attempt'[s] = attempt[s] \/ (Awaited(s) /\ Awaited(s)'),
         listing'[s] = listing[s], got'[s] = got[s], cursor'[s] = cursor[s],
         page'[s] = page[s], held'[s] \subseteq held[s],
         \A p \in held'[s] : p \in account => p \in account'
  PROVE  RunSound(s)'
BY DEF RunSound, PagingSound, Awaited

LEMMA FullPageAdds ==
  ASSUME TypeOK, NEW s \in Runs, PagingSound(s), NEW list \in GmoPages(s), FullPage(list)
  PROVE  Cardinality(got[s] \cup list) >= (page[s] + 1) * PageSize
<1>. USE AccessAssumption
<1>1. IsFiniteSet(got[s]) /\ Cardinality(got[s]) \in Nat
  <2>1. got[s] \in SUBSET Ids
    BY DEF TypeOK
  <2>2. IsFiniteSet(Ids)
    BY FS_Interval
  <2>. QED
    BY <2>1, <2>2, FS_Subset, FS_CardinalityType
<1>2. got[s] \cap list = {}
  <2>1. ASSUME NEW p \in got[s], p \in list
        PROVE  FALSE
    <3>1. p \in Nat /\ cursor[s] \in Nat
      BY DEF TypeOK
    <3>2. p >= cursor[s] /\ p < cursor[s]
      BY <2>1, PageOf DEF PagingSound
    <3>. QED
      BY <3>1, <3>2
  <2>. QED
    BY <2>1
<1>3. Cardinality(got[s] \cup list) = Cardinality(got[s]) + Cardinality(list)
  <2>1. IsFiniteSet(list) /\ Cardinality(list) \in Nat
    BY PageOf
  <2>2. Cardinality(got[s] \cap list) = 0
    BY <1>2, FS_EmptySet
  <2>3. Cardinality(got[s] \cup list)
          = Cardinality(got[s]) + Cardinality(list) - Cardinality(got[s] \cap list)
    BY <1>1, <2>1, FS_Union, Zenon
  <2>. QED
    BY <1>1, <2>1, <2>2, <2>3, SMT
<1>4. page[s] \in Nat /\ page[s] * PageSize \in Nat
  BY DEF TypeOK
<1>5. (page[s] + 1) * PageSize = page[s] * PageSize + PageSize
  BY <1>4
<1>6. Cardinality(list) \in Nat /\ Cardinality(list) >= PageSize
  BY PageOf DEF FullPage
<1>. QED
  BY <1>1, <1>3, <1>4, <1>5, <1>6 DEF PagingSound

\* Steps of the account and of orders leave the runs alone.
LEMMA OutsideKeepsListings ==
  ASSUME TypeOK, ListInv, Outside \/ \E o \in Orders : Asks(o) \/ OrderStep(o) \/ GmoExecutes(o)
  PROVE  ListInv'
<1>. SUFFICES ASSUME NEW s \in Runs
              PROVE  RunSound(s)'
  BY DEF ListInv
<1>. USE DEF TypeOK, RestTypeOK, gmoVars, orderVars, listVars, authVars
<1>0. RunSound(s)
  BY DEF ListInv
<1>1. CASE Outside
  <2>1. /\ UNCHANGED <<attempt, listVars>> /\ held'[s] \subseteq held[s]
        /\ \A p \in held'[s] : p \in account => p \in account'
    BY <1>1 DEF Outside, OpensOutside, ClosesOutside, Opened, Closed
  <2>. QED
    BY <1>0, <2>1, OtherRuns
<1>2. ASSUME NEW o \in Orders, GmoExecutes(o)
      PROVE  RunSound(s)'
  <2>1. /\ UNCHANGED <<attempt, listVars>> /\ held'[s] \subseteq held[s]
        /\ \A p \in held'[s] : p \in account => p \in account'
    BY <1>2 DEF GmoExecutes, Opened, Closed
  <2>. QED
    BY <1>0, <2>1, OtherRuns
<1>3. ASSUME NEW o \in Orders, Asks(o) \/ OrderStep(o)
      PROVE  RunSound(s)'
  <2>1. attempt'[s] = attempt[s]
    BY <1>3
    DEF Asks, OrderStep, OrderAnswered, Polled, PositionSought, PlaceEnds, Found, PollAgain,
        Issue, Settles, SendsAgain
  <2>2. UNCHANGED <<account, listVars, held>>
    BY <1>3 DEF Asks, OrderStep, OrderAnswered, Polled, PositionSought
  <2>. QED
    BY <1>0, <2>1, <2>2, OtherRuns
<1>. QED
  BY <1>1, <1>2, <1>3

\* The end of a listing leaves the other runs alone.
LEMMA ListingEndsAt ==
  ASSUME TypeOK, NEW s \in Runs, NEW how, NEW ids, ListingEnds(s, how, ids)
  PROVE  /\ ~Awaited(s)' /\ listing'[s] = how /\ got'[s] = ids
         /\ how = "listed" => held'[s] = held[s]
         /\ \A r \in Runs \ {s} :
              /\ attempt'[r] = attempt[r] /\ listing'[r] = listing[r] /\ got'[r] = got[r]
              /\ cursor'[r] = cursor[r] /\ page'[r] = page[r] /\ held'[r] = held[r]
BY DEF ListingEnds, Settles, Awaited, TypeOK, RestTypeOK

\* The last page closes the list, a full one moves the cursor down to its end.
LEMMA PageKeepsSound ==
  ASSUME TypeOK, ListInv, NEW s \in Runs, PageAnswered(s)
  PROVE  ListInv'
<1>. USE AccessAssumption
<1>. UNCHANGED <<account, orderVars>>
  BY DEF PageAnswered, gmoVars
<1>1. RunSound(s) /\ listing[s] = "listing" /\ PagingSound(s)
  BY DEF ListInv, RunSound, PageAnswered
<1>2. PICK list \in GmoPages(s) :
        \/ ~FullPage(list) /\ ListingEnds(s, "listed", got[s] \cup list)
        \/ ListingEnds(s, "failed", {})
        \/ /\ FullPage(list) /\ TooManyPages(page[s] + 1)
           /\ ListingEnds(s, "overrun", got[s] \cup list)
        \/ FullPage(list) /\ NextPage(s, list, got[s] \cup list)
  BY DEF PageAnswered, GuardThrows
<1>3. ASSUME NEW r \in Runs \ {s}
      PROVE  RunSound(r)'
  <2>1. RunSound(r)
    BY DEF ListInv
  <2>2. /\ attempt'[r] = attempt[r] /\ listing'[r] = listing[r] /\ got'[r] = got[r]
        /\ cursor'[r] = cursor[r] /\ page'[r] = page[r] /\ held'[r] = held[r]
    <3>1. CASE NextPage(s, list, got[s] \cup list)
      BY <3>1 DEF NextPage, Issue, TypeOK, RestTypeOK
    <3>. QED
      BY <1>2, <3>1, ListingEndsAt
  <2>. QED
    BY <2>1, <2>2, OtherRuns
<1>4. held[s] \subseteq Ids /\ got[s] \subseteq Ids /\ cursor[s] \in Nat /\ page[s] \in Nat
  BY DEF TypeOK
<1>5. CASE ~FullPage(list) /\ ListingEnds(s, "listed", got[s] \cup list)
  <2>1. held[s] \subseteq got[s] \cup list
    BY <1>1, <1>4, <1>5, PageOf DEF PagingSound
  <2>. QED
    BY <1>3, <1>5, <2>1, ListingEndsAt DEF ListInv, RunSound
<1>6. CASE ListingEnds(s, "failed", {})
  BY <1>3, <1>6, ListingEndsAt DEF ListInv, RunSound
<1>7. ASSUME FullPage(list)
      PROVE  Cardinality(got[s] \cup list) >= (page[s] + 1) * PageSize
  BY <1>1, <1>7, FullPageAdds
<1>8. CASE /\ FullPage(list) /\ TooManyPages(page[s] + 1)
           /\ ListingEnds(s, "overrun", got[s] \cup list)
  <2>1. page[s] + 1 = MaxPages + 1
    BY <1>8 DEF TypeOK, TooManyPages
  <2>2. Cardinality(got[s] \cup list) >= (MaxPages + 1) * PageSize
    BY <1>7, <1>8, <2>1
  <2>. QED
    BY <1>3, <1>8, <2>2, ListingEndsAt DEF ListInv, RunSound
<1>9. CASE FullPage(list) /\ NextPage(s, list, got[s] \cup list)
  <2>1. /\ attempt'[s] = 0 /\ listing'[s] = listing[s] /\ held'[s] = held[s]
        /\ got'[s] = got[s] \cup list /\ cursor'[s] = NextCursor(list)
        /\ page'[s] = page[s] + 1
    BY <1>9 DEF NextPage, Issue, TypeOK, RestTypeOK
  <2>2. /\ NextCursor(list) \in list /\ list \subseteq Ids
        /\ \A p \in list : NextCursor(list) <= p /\ p < cursor[s]
    BY <1>9, PageOf
  <2>0. NextCursor(list) \in Nat /\ NextCursor(list) < cursor[s]
    <3>1. PICK n \in list : n = NextCursor(list)
      BY <2>2
    <3>2. n \in Ids /\ n < cursor[s]
      BY <2>2
    <3>. QED
      BY <3>1, <3>2
  <2>3. ASSUME NEW p \in held[s], p >= NextCursor(list)
        PROVE  p \in got[s] \cup list
    <3>1. p \in account /\ p \in Nat /\ (p >= cursor[s] => p \in got[s])
      BY <1>1, <1>4 DEF PagingSound
    <3>2. ASSUME p < cursor[s], p \notin list
          PROVE  FALSE
      <4>1. p < NextCursor(list)
        BY <2>2, <3>1, <3>2, PageOf
      <4>. QED
        BY <2>0, <2>3, <3>1, <4>1
    <3>. QED
      BY <1>4, <3>1, <3>2
  <2>4. ASSUME NEW p \in got[s] \cup list
        PROVE  p >= NextCursor(list)
    <3>1. CASE p \in got[s]
      <4>1. p >= cursor[s] /\ p \in Nat
        BY <1>1, <1>4, <3>1 DEF PagingSound
      <4>. QED
        BY <1>4, <2>0, <4>1
    <3>. QED
      BY <2>0, <2>2, <3>1
  <2>5. PagingSound(s)'
    <3>1. held[s] \subseteq account
      BY <1>1 DEF PagingSound
    <3>2. Cardinality(got[s] \cup list) >= (page[s] + 1) * PageSize
      BY <1>7, <1>9
    <3>. QED
      BY <2>1, <2>3, <2>4, <3>1, <3>2 DEF PagingSound
  <2>. QED
    BY <1>1, <1>3, <2>1, <2>5 DEF ListInv, RunSound, Awaited
<1>. QED
  BY <1>2, <1>5, <1>6, <1>8, <1>9

LEMMA ListingKeepsSound ==
  ASSUME TypeOK, ListInv, NEW s \in Runs, StartsListing(s) \/ ListingStep(s)
  PROVE  ListInv'
<1>. USE AccessAssumption
<1>0. account \subseteq Ids
  BY DEF TypeOK
<1>1. CASE StartsListing(s)
  <2>1. /\ attempt'[s] = 0 /\ listing'[s] = "listing" /\ held'[s] = account
        /\ got'[s] = {} /\ cursor'[s] = NoCursor /\ page'[s] = 0 /\ account' = account
    BY <1>1 DEF StartsListing, Issue, TypeOK, RestTypeOK, gmoVars
  <2>2. PagingSound(s)'
    <3>1. Cardinality({}) >= 0 * PageSize
      BY FS_EmptySet
    <3>2. \A p \in account : ~(p >= NoCursor)
      BY <1>0
    <3>. QED
      BY <2>1, <3>1, <3>2 DEF PagingSound
  <2>3. ASSUME NEW r \in Runs \ {s}
        PROVE  RunSound(r)'
    <3>1. /\ attempt'[r] = attempt[r] /\ listing'[r] = listing[r] /\ got'[r] = got[r]
          /\ cursor'[r] = cursor[r] /\ page'[r] = page[r] /\ held'[r] = held[r]
      BY <1>1 DEF StartsListing, Issue, TypeOK, RestTypeOK
    <3>. QED
      BY <2>1, <3>1, OtherRuns DEF ListInv
  <2>. QED
    BY <2>1, <2>2, <2>3 DEF ListInv, RunSound, Awaited
<1>2. ASSUME NEW outcome \in Outcomes, PageFails(s, outcome)
      PROVE  ListInv'
  <2>. UNCHANGED account
    BY <1>2 DEF PageFails, gmoVars
  <2>1. CASE ListingEnds(s, "failed", {})
    <3>1. ASSUME NEW r \in Runs \ {s}
          PROVE  RunSound(r)'
      BY <2>1, ListingEndsAt, OtherRuns DEF ListInv
    <3>. QED
      BY <2>1, <3>1, ListingEndsAt DEF ListInv, RunSound
  <2>2. CASE SendsAgain(s) /\ UNCHANGED <<listVars, held>>
    <3>1. ASSUME NEW r \in Runs
          PROVE  RunSound(r)'
      <4>1. attempt'[r] = attempt[r] \/ (Awaited(r) /\ Awaited(r)')
        BY <1>2, <2>2 DEF PageFails, SendsAgain, Awaited, TypeOK, RestTypeOK
      <4>. QED
        BY <2>2, <4>1, OtherRuns DEF ListInv, listVars
    <3>. QED
      BY <3>1 DEF ListInv
  <2>. QED
    BY <1>2, <2>1, <2>2 DEF PageFails, ListingFails
<1>3. CASE PageAnswered(s)
  BY <1>3, PageKeepsSound
<1>. QED
  BY <1>1, <1>2, <1>3 DEF ListingStep

\* Between two requests of fetchOpenPositionIds the list holds what it must: every
\* position held all the time and not below the cursor, and nothing below it.
THEOREM ListingsSound == SafeSpec => []ListInv
<1>1. Init => ListInv
  <2>1. SUFFICES ASSUME Init, NEW s \in Runs
                 PROVE  ~Awaited(s) /\ listing[s] = "off"
    BY DEF ListInv, RunSound
  <2>2. s \in Calls
    BY DEF Runs
  <2>. QED
    BY <2>1, <2>2 DEF Init, RestInit, Awaited, NoRequest
<1>2. TypeOK /\ ListInv /\ [Next]_vars => ListInv'
  <2>1. ASSUME TypeOK, ListInv, UNCHANGED vars
        PROVE  ListInv'
    BY <2>1, OtherRuns DEF ListInv, vars, gmoVars, listVars
  <2>. QED
    BY <2>1, OutsideKeepsListings, ListingKeepsSound DEF Next
<1>. QED
  BY <1>1, <1>2, AccessTypeCorrect, PTL DEF SafeSpec

\* A list has every position that was open all the time it was made: none is taken
\* for closed that is not.
THEOREM ListsComplete == SafeSpec => []ListsAllHeld
<1>1. ListInv => ListsAllHeld
  BY DEF ListInv, RunSound, ListsAllHeld
<1>. QED
  BY <1>1, ListingsSound, PTL

\* Only an account with more than MaxPages full pages is given up for its size.
THEOREM OverrunOnlyWhenFull == SafeSpec => []OverrunJustified
<1>. USE AccessAssumption
<1>1. TypeOK /\ ListInv => OverrunJustified
  <2>. SUFFICES ASSUME TypeOK, ListInv, NEW s \in Runs, listing[s] = "overrun"
                PROVE  Cardinality(got[s]) > MaxPages * PageSize
    BY DEF OverrunJustified
  <2>1. Cardinality(got[s]) >= (MaxPages + 1) * PageSize
    BY DEF ListInv, RunSound
  <2>2. (MaxPages + 1) * PageSize = MaxPages * PageSize + PageSize
    OBVIOUS
  <2>3. MaxPages * PageSize \in Nat
    OBVIOUS
  <2>4. Cardinality(got[s]) \in Nat
    <3>1. got[s] \in SUBSET Ids
      BY DEF TypeOK
    <3>2. IsFiniteSet(Ids)
      BY FS_Interval
    <3>. QED
      BY <3>1, <3>2, FS_Subset, FS_CardinalityType
  <2>. QED
    BY <2>1, <2>2, <2>3, <2>4
<1>. QED
  BY <1>1, AccessTypeCorrect, ListingsSound, PTL

-----------------------------------------------------------------------------
(* Orders. *)

\* Nothing is at GMO before the order is answered, never more than one order is, and
\* a call that has seen its execution is right.
OrderSound(o) ==
  /\ working[o] + executed[o] <= 1
  /\ place[o] \in {"none", "ordering"} => working[o] = 0 /\ executed[o] = 0
  /\ place[o] \in {"finding", "confirmed"} => executed[o] = 1

OrderInv == \A o \in Orders : OrderSound(o)

\* What a step of o leaves alone of the other orders.
OthersKept(o) ==
  \A r \in Orders \ {o} :
    place'[r] = place[r] /\ working'[r] = working[r] /\ executed'[r] = executed[r]

\* What a step does to one order: nothing the promise speaks of, or one of its steps.
PromiseMove(o) ==
  \/ CallOf(o)' = CallOf(o) /\ OrderOf(o)' = OrderOf(o)
  \/ CallOf(o) = "none" /\ CallOf(o)' = "asked" /\ OrderOf(o)' = OrderOf(o)
  \/ /\ CallOf(o) = "asked" /\ CallOf(o)' \in {"asked", "failed"}
     /\ OrderOf(o) = "none" /\ OrderOf(o)' = "working"
  \/ CallOf(o)' = CallOf(o) /\ OrderOf(o) = "working" /\ OrderOf(o)' = "executed"
  \/ /\ CallOf(o) = "asked" /\ CallOf(o)' = "confirmed"
     /\ OrderOf(o) = "executed" /\ OrderOf(o)' = "executed"
  \/ CallOf(o) = "asked" /\ CallOf(o)' = "failed" /\ OrderOf(o)' = OrderOf(o)

LEMMA MoveIsPromised ==
  ASSUME NEW o \in Orders, OthersKept(o), PromiseMove(o)
  PROVE  [Abstract!Next]_Abstract!vars
<1>. DEFINE call == [r \in Orders |-> CallOf(r)]
            order == [r \in Orders |-> OrderOf(r)]
<1>1. \A r \in Orders \ {o} : CallOf(r)' = CallOf(r) /\ OrderOf(r)' = OrderOf(r)
  BY DEF OthersKept, CallOf, OrderOf
<1>2. /\ call' = [call EXCEPT ![o] = CallOf(o)']
      /\ order' = [order EXCEPT ![o] = OrderOf(o)']
      /\ call[o] = CallOf(o) /\ order[o] = OrderOf(o)
  BY <1>1
<1>3. /\ CallOf(o)' = CallOf(o) => call' = call
      /\ OrderOf(o)' = OrderOf(o) => order' = order
  BY <1>1
<1>. HIDE DEF call, order
<1>4. \/ call' = call /\ order' = order
      \/ call[o] = "none" /\ call' = [call EXCEPT ![o] = "asked"] /\ order' = order
      \/ /\ call[o] = "asked" /\ order[o] = "none"
         /\ call' \in {call, [call EXCEPT ![o] = "failed"]}
         /\ order' = [order EXCEPT ![o] = "working"]
      \/ order[o] = "working" /\ order' = [order EXCEPT ![o] = "executed"] /\ call' = call
      \/ /\ call[o] = "asked" /\ order[o] = "executed"
         /\ call' = [call EXCEPT ![o] = "confirmed"] /\ order' = order
      \/ call[o] = "asked" /\ call' = [call EXCEPT ![o] = "failed"] /\ order' = order
  BY <1>2, <1>3 DEF PromiseMove
<1>. QED
  BY <1>4
  DEF call, order, Abstract!Next, Abstract!vars, Abstract!Asks, Abstract!Accepted,
      Abstract!Executes, Abstract!Confirmed, Abstract!Fails

\* A step of one order keeps its part of the invariant, and is promised.
OrderMove(o) == OthersKept(o) /\ OrderSound(o)' /\ PromiseMove(o)

LEMMA AnswerMoves ==
  ASSUME TypeOK, OrderInv, NEW o \in Orders, NEW outcome \in Outcomes, OrderAnswered(o, outcome)
  PROVE  OrderMove(o)
<1>. USE DEF TypeOK, CallOf, OrderOf
<1>1. /\ OrderSound(o) /\ place[o] = "ordering" /\ working[o] = 0 /\ executed[o] = 0
      /\ executed' = executed
  BY DEF OrderInv, OrderSound, OrderAnswered
<1>2. /\ place' \in {place, [place EXCEPT ![o] = "polling"], [place EXCEPT ![o] = "failed"]}
      /\ place' = [place EXCEPT ![o] = "polling"] => GmoTakes(o)
      /\ place' = place => UNCHANGED working
  BY <1>1 DEF OrderAnswered, GmoAnswersOrder, PlaceEnds, PlaceAt, orderVars, Retries, Outcomes
<1>3. \/ working' = working
      \/ working' = [working EXCEPT ![o] = 1]
  BY <1>1 DEF OrderAnswered, GmoAnswersOrder, GmoTakes
<1>4. OthersKept(o)
  BY <1>1, <1>2, <1>3 DEF OthersKept
<1>5. /\ working'[o] \in {0, 1} /\ executed'[o] = 0
      /\ place'[o] \in {"ordering", "polling", "failed"}
      /\ place'[o] = "ordering" => working'[o] = 0
      /\ place'[o] = "polling" => working'[o] = 1
  BY <1>1, <1>2, <1>3 DEF GmoTakes
<1>. QED
  BY <1>1, <1>4, <1>5 DEF OrderMove, OrderSound, PromiseMove

LEMMA PollMoves ==
  ASSUME TypeOK, OrderInv, NEW o \in Orders, NEW outcome \in Outcomes,
         Polled(o, outcome) \/ PositionSought(o, outcome)
  PROVE  OrderMove(o)
<1>. USE DEF TypeOK, CallOf, OrderOf
<1>1. /\ OrderSound(o) /\ working' = working /\ executed' = executed
      /\ place[o] \in {"polling", "finding"}
  BY DEF OrderInv, Polled, PositionSought, gmoVars
<1>2. \/ place' = place
      \/ place' = [place EXCEPT ![o] = "failed"]
      \/ /\ place' \in {[place EXCEPT ![o] = "finding"], [place EXCEPT ![o] = "confirmed"]}
         /\ executed[o] > 0
  BY <1>1
  DEF Polled, PositionSought, PlaceEnds, PlaceAt, orderVars, Found, PollAgain, ListShows,
      OrderSound
<1>3. OthersKept(o)
  BY <1>1, <1>2 DEF OthersKept
<1>4. \/ place'[o] \in {place[o], "failed"}
      \/ place'[o] \in {"finding", "confirmed"} /\ executed[o] = 1 /\ working[o] = 0
  BY <1>1, <1>2 DEF OrderSound
<1>5. PromiseMove(o)
  BY <1>1, <1>4 DEF PromiseMove
<1>. QED
  BY <1>1, <1>3, <1>4, <1>5 DEF OrderMove, OrderSound

LEMMA ExecutionMoves ==
  ASSUME TypeOK, OrderInv, NEW o \in Orders, GmoExecutes(o)
  PROVE  OrderMove(o)
<1>. USE DEF TypeOK, CallOf, OrderOf
<1>1. OrderSound(o) /\ working[o] = 1 /\ executed[o] = 0 /\ place' = place
  BY DEF OrderInv, OrderSound, GmoExecutes, orderVars
<1>2. OthersKept(o) /\ working'[o] = 0 /\ executed'[o] = 1
  BY <1>1 DEF OthersKept, GmoExecutes
<1>. QED
  BY <1>1, <1>2 DEF OrderMove, OrderSound, PromiseMove

LEMMA AskMoves ==
  ASSUME TypeOK, OrderInv, NEW o \in Orders, Asks(o)
  PROVE  OrderMove(o)
<1>. USE DEF TypeOK, CallOf, OrderOf
<1>1. /\ OrderSound(o) /\ place[o] = "none" /\ place' = [place EXCEPT ![o] = "ordering"]
      /\ working' = working /\ executed' = executed
  BY DEF OrderInv, Asks, PlaceAt, gmoVars
<1>. QED
  BY <1>1 DEF OthersKept, OrderMove, OrderSound, PromiseMove

\* Every step keeps the invariant and is a step of the promise, or none.
LEMMA StepsKeepPromise ==
  ASSUME TypeOK, OrderInv, [Next]_vars
  PROVE  OrderInv' /\ [Abstract!Next]_Abstract!vars
<1>1. ASSUME NEW o \in Orders, OrderMove(o)
      PROVE  OrderInv' /\ [Abstract!Next]_Abstract!vars
  <2>1. ASSUME NEW r \in Orders \ {o}
        PROVE  OrderSound(r)'
    BY <1>1 DEF OrderInv, OrderMove, OthersKept, OrderSound
  <2>. QED
    BY <1>1, <2>1, MoveIsPromised DEF OrderInv, OrderMove
<1>2. CASE UNCHANGED <<working, executed, place>>
  BY <1>2 DEF OrderInv, OrderSound, Abstract!vars, CallOf, OrderOf
<1>3. CASE Outside
  BY <1>2, <1>3 DEF Outside, OpensOutside, ClosesOutside, orderVars
<1>4. ASSUME NEW s \in Runs, StartsListing(s) \/ ListingStep(s)
      PROVE  UNCHANGED <<working, executed, place>>
  BY <1>4 DEF StartsListing, ListingStep, PageAnswered, PageFails, gmoVars, orderVars
<1>5. ASSUME NEW o \in Orders, Asks(o) \/ OrderStep(o) \/ GmoExecutes(o)
      PROVE  OrderMove(o)
  BY <1>5, AskMoves, AnswerMoves, PollMoves, ExecutionMoves DEF OrderStep
<1>6. CASE UNCHANGED vars
  BY <1>2, <1>6 DEF vars, gmoVars, orderVars
<1>. QED
  BY <1>1, <1>2, <1>3, <1>4, <1>5, <1>6 DEF Next

\* Retries, polls and lost answers never make GMO execute an order twice, nor a caller
\* believe in an execution that has not been.
THEOREM OrdersKeepPromise == SafeSpec => Abstract!SafePromise
<1>1. Init => OrderInv /\ Abstract!Init
  BY DEF Init, OrderInv, OrderSound, Abstract!Init, CallOf, OrderOf
<1>2. TypeOK /\ OrderInv /\ [Next]_vars => OrderInv' /\ [Abstract!Next]_Abstract!vars
  BY StepsKeepPromise
<1>. QED
  BY <1>1, <1>2, AccessTypeCorrect, PTL DEF SafeSpec, Abstract!SafePromise
=============================================================================
