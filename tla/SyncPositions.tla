--------------------------- MODULE SyncPositions ----------------------------
(***************************************************************************)
(* application/SyncPositionsUseCase: rows that are OPEN although the       *)
(* broker no longer holds the position are marked CLOSED.  The use case    *)
(* has no guard of its own, so runs overlap: the startup reconciliation,   *)
(* the one-minute interval of main.ts and POST /api/sync.                  *)
(***************************************************************************)
EXTENDS PositionStores

CONSTANT SyncRuns

VARIABLES
  syncPc,    \* run -> "idle", "asking" the broker, "marking" rows
  syncSet    \* run -> rows read as OPEN, then those missing at the broker

syncVars == <<syncPc, syncSet>>

SyncTypeOK ==
  /\ syncPc \in [SyncRuns -> {"idle", "asking", "marking"}]
  /\ syncSet \in [SyncRuns -> SUBSET Positions]

SyncInit ==
  /\ syncPc = [r \in SyncRuns |-> "idle"]
  /\ syncSet = [r \in SyncRuns |-> {}]

SyncGoesTo(r, pc, set) ==
  /\ syncPc' = [syncPc EXCEPT ![r] = pc]
  /\ syncSet' = [syncSet EXCEPT ![r] = set]

\* The DB is read first: openPositions().forPair(pair).
SyncReadsRows(r) ==
  /\ syncPc[r] = "idle"
  /\ SyncGoesTo(r, "asking", OpenRows)
  /\ UNCHANGED storeVars

\* A plausible slip: a broker that holds anything is taken to hold everything.
SyncAsksBrokerLazily(r) ==
  /\ syncPc[r] = "asking"
  /\ LET externallyClosed == IF HeldAtBroker = {} THEN syncSet[r] ELSE {}
     IN  SyncGoesTo(r, IF externallyClosed = {} THEN "idle" ELSE "marking",
                    externallyClosed)
  /\ UNCHANGED storeVars

\* Then the broker: dbPositions.missingFrom(brokerIds).
SyncAsksBroker(r) ==
  /\ syncPc[r] = "asking"
  /\ LET externallyClosed == syncSet[r] \ HeldAtBroker
     IN  SyncGoesTo(r, IF externallyClosed = {} THEN "idle" ELSE "marking",
                    externallyClosed)
  /\ UNCHANGED storeVars

\* One row is marked; the rows come in no particular order.
SyncMarks(r, p) ==
  /\ syncPc[r] = "marking"
  /\ p \in syncSet[r]
  /\ MarkRowClosed(p)
  /\ SyncGoesTo(r, IF syncSet[r] = {p} THEN "idle" ELSE "marking",
                syncSet[r] \ {p})
  /\ UNCHANGED <<broker, stray>>

\* The broker does not answer, or a write throws (applied or not): the run
\* ends there, its remaining rows wait for the next run.
SyncFails(r) ==
  /\ syncPc[r] # "idle"
  /\ SyncGoesTo(r, "idle", {})
  /\ \/ UNCHANGED row
     \/ syncPc[r] = "marking" /\ \E p \in syncSet[r] : MarkRowClosed(p)
  /\ UNCHANGED <<broker, stray>>
=============================================================================
