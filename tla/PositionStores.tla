--------------------------- MODULE PositionStores ---------------------------
(***************************************************************************)
(* The two records of a position: the account at the broker (the truth)    *)
(* and the row of table "positions" (what the program believes), with the  *)
(* statements PostgresPositionRepository issues on the row and the fate of *)
(* a close order sent through GmoBrokerAdapter.placeExit.                  *)
(*                                                                         *)
(* A position is identified by its place in the order of opening, so that  *)
(* sortedByOpenedAtAsc is the order of the numbers.  Prices and P/L are    *)
(* abstracted to whether the row carries them: "settled" is CLOSED with an *)
(* exit_price, "marked" is CLOSED with none.                               *)
(***************************************************************************)
EXTENDS Integers

CONSTANT Positions

\* Positions are numbered by openedAt.
ASSUME PositionsAssumption == Positions \subseteq Nat

VARIABLES
  broker,    \* the account at GMO: position -> "none", "open" or "closed"
  row,       \* table positions: position -> "absent", "open", "settled", "marked"
  stray      \* close orders GMO accepted whose sender no longer waits for them

storeVars == <<broker, row, stray>>

BrokerState == {"none", "open", "closed"}
RowState == {"absent", "open", "settled", "marked"}
ClosedRow == {"settled", "marked"}

StoresTypeOK ==
  /\ broker \in [Positions -> BrokerState]
  /\ row \in [Positions -> RowState]
  /\ stray \subseteq Positions

StoresInit ==
  /\ broker = [p \in Positions |-> "none"]
  /\ row = [p \in Positions |-> "absent"]
  /\ stray = {}

-----------------------------------------------------------------------------
(* The queries and statements of PostgresPositionRepository. *)

\* openPositions: WHERE status = 'OPEN'.
OpenRows == {p \in Positions : row[p] = "open"}

\* register inserts an OPEN row.
InsertRow(p) ==
  /\ row[p] = "absent"
  /\ row' = [row EXCEPT ![p] = "open"]

\* update writes the closed aggregate (status, exit price, P/L) WHERE id = p,
\* whatever the status of the row is.
UpdateRow(p) ==
  row' = [row EXCEPT ![p] = IF @ = "absent" THEN @ ELSE "settled"]

\* A plausible slip: the status condition of markClosed is forgotten.
MarkClosedUnconditionally(p) == row' = [row EXCEPT ![p] = "marked"]

\* A plausible slip: the condition selects the rows that are CLOSED already.
MarkClosedMisses(p) == UNCHANGED row

\* markClosed: WHERE id = p AND status = 'OPEN', no exit price.
MarkRowClosed(p) ==
  row' = [row EXCEPT ![p] = IF @ = "open" THEN "marked" ELSE @]

-----------------------------------------------------------------------------
(* The broker's side. *)

\* A plausible slip: only the first page of the listing, newest first, is read.
HeldOnFirstPage ==
  {p \in Positions : /\ broker[p] = "open"
                     /\ \A q \in Positions : broker[q] = "open" => q <= p}

\* fetchOpenPositionIds: every page of /private/v1/openPositions.
HeldAtBroker == {p \in Positions : broker[p] = "open"}

\* GMO closes the position; a leftover order for it is void.
CloseAtBroker(p) ==
  /\ broker[p] = "open"
  /\ broker' = [broker EXCEPT ![p] = "closed"]
  /\ stray' = stray \ {p}

\* placeExit throws although GMO has the order: the answer to closeOrder was
\* lost, or twenty polls of /executions found nothing (EXECUTION_TIMEOUT).
AbandonOrder(p) ==
  /\ broker[p] = "open"
  /\ stray' = stray \cup {p}
  /\ UNCHANGED broker

\* An order nobody waits for is executed after all.
StrayOrderExecutes(p) ==
  /\ p \in stray
  /\ CloseAtBroker(p)
  /\ UNCHANGED row

\* The position is closed on GMO's own screen, or by a forced liquidation.
ClosedOutside(p) ==
  /\ CloseAtBroker(p)
  /\ UNCHANGED row

\* An entry order is executed; positions are numbered in that order.
EntryExecutes(p) ==
  /\ broker[p] = "none"
  /\ \A q \in Positions : q < p => broker[q] # "none"
  /\ broker' = [broker EXCEPT ![p] = "open"]
  /\ UNCHANGED <<row, stray>>
=============================================================================
