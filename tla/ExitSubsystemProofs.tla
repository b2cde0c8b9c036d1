------------------------ MODULE ExitSubsystemProofs -------------------------
(***************************************************************************)
(* What ExitSubsystem guarantees for any number of positions, of           *)
(* synchronisation runs and of process ends, any threshold and cooldown:   *)
(* its types, that rows only move forward, the inductive invariant of the  *)
(* stores, and from it: no confirmed exit is lost, the shield and the      *)
(* kill-switch count exactly what they should, and every step of the exit  *)
(* side is a step of PositionLife or leaves it as it is.                   *)
(***************************************************************************)
EXTENDS ExitSubsystem, TLAPS

-----------------------------------------------------------------------------
(* The inductive invariant: what each component may rely on at the step it *)
(* is about to take.                                                       *)

\* Whoever holds a position's number holds one the broker has opened.
RowsHavePositions ==
  /\ \A p \in Positions : row[p] # "absent" => broker[p] # "none"
  /\ \A p \in entering : broker[p] # "none"

\* A synchronisation remembers rows it read as OPEN, and after the broker's
\* answer only positions that are closed for good.
SyncSetSound ==
  \A r \in SyncRuns : \A p \in syncSet[r] :
    /\ broker[p] # "none"
    /\ syncPc[r] = "marking" => broker[p] = "closed"

\* An emergency task that got past its order works on a closed position.
EmTasksSound ==
  \A p \in Positions :
    /\ emTask[p] # "none" => row[p] # "absent"
    /\ emTask[p] \in {"filled", "saving", "closed"} => broker[p] = "closed"
    /\ emTask[p] = "closed" => row[p] = "settled"

\* The dispatcher's position, by where it waits.
DispatchSound ==
  /\ \A p \in dTodo : row[p] # "absent"
  /\ \A p \in Positions : Current(p) =>
       /\ dPc \in {"filled", "saving", "notifying"} => broker[p] = "closed"
       /\ dPc = "sent" /\ dEntity = "CLOSED" => broker[p] = "closed"
       /\ dPc = "filled" => dEntity = "OPEN"

\* The queue only owes price-bearing writes, for closed positions.
QueueSound ==
  /\ \A p \in Positions :
       owed[p] # "none" =>
         owed[p] = "update" /\ broker[p] = "closed" /\ row[p] # "absent"
  /\ \A p \in drain : owed[p] # "none"

StoreInv ==
  /\ RowsHavePositions /\ NoPhantomClose
  /\ SyncSetSound /\ EmTasksSound /\ DispatchSound /\ QueueSound
-----------------------------------------------------------------------------
(* Types, one component at a time: a step either belongs to an action that *)
(* writes the component's variables or leaves them alone.                  *)

LEMMA StoresTyped ==
  ASSUME StoresTypeOK, [Next]_vars
  PROVE  StoresTypeOK'
<1> USE DEF StoresTypeOK, BrokerState, RowState, storeVars
<1>1. CASE UNCHANGED storeVars
  BY <1>1
<1>2. ASSUME NEW p \in Positions,
             StrayOrderExecutes(p) \/ ClosedOutside(p) \/ EntryFills(p)
               \/ EntryRegisters(p)
      PROVE  StoresTypeOK'
  BY <1>2 DEF StrayOrderExecutes, ClosedOutside, CloseAtBroker, EntryFills,
              EntryRegisters, EntryExecutes, InsertRow
<1>3. ASSUME NEW p \in Positions, DispatchStep(p)
      PROVE  StoresTypeOK'
  BY <1>3 DEF DispatchStep, Skips, RuleThrows, Fires, Sends, FindingFails,
              OrderExecutes, OrderFails, AnswerLost, Answered, Saves, SavingFails,
              Notified, CloseAtBroker, AbandonOrder, UpdateRow
<1>4. ASSUME NEW p \in Positions, RetrySucceeds(p) \/ RetryFails(p)
      PROVE  StoresTypeOK'
  BY <1>4 DEF RetrySucceeds, RetryFails, WriteEntry, UpdateRow, MarkRowClosed
<1>5. ASSUME NEW r \in SyncRuns, SyncMarksRow(r) \/ SyncBreaksOff(r)
      PROVE  StoresTypeOK'
  BY <1>5 DEF SyncMarksRow, SyncBreaksOff, SyncMarks, SyncFails, MarkRowClosed
<1>6. ASSUME NEW p \in Positions, EmTaskStep(p)
      PROVE  StoresTypeOK'
  BY <1>6 DEF EmTaskStep, EmOrderExecutes, EmOrderFails, EmAnswerLost, EmAnswered,
              EmSaves, EmSavingFails, CloseAtBroker, AbandonOrder, UpdateRow
<1>7. CASE MemoryLost
  BY <1>7 DEF MemoryLost, OrdersInFlight, HeldAtBroker
<1> QED
  BY <1>1, <1>2, <1>3, <1>4, <1>5, <1>6, <1>7
  DEF Next, Outside, Dispatching, TickArrives, DispatchLists, DispatchListFails,
      DispatchEnds, CompensationBegins, DrainStarts, CompensationSucceeds,
      CompensationFails, SyncReads, SyncReadsRows, SyncAsks, SyncAsksBroker,
      EmergencyBegins, EmRequested, EmergencyProceeds, EmLists, EmListingFails,
      EmTimesOut, EmSettled, EmergencyCloses, ProcessEnds, ProcessStarts, StartupSyncs,
      StartupFails, SessionStarts, vars

LEMMA BreakerTyped ==
  ASSUME BreakerTypeOK, [Next]_vars
  PROVE  BreakerTypeOK'
<1> USE BreakerAssumption DEF BreakerTypeOK, breakerVars
<1>1. CASE UNCHANGED breakerVars
  BY <1>1
<1>2. CASE DispatchLists
  BY <1>2 DEF DispatchLists, BeginTick
<1>3. ASSUME NEW p \in Positions, RecordFailure(p) \/ RecordSuccess(p)
      PROVE  BreakerTypeOK'
  BY <1>3 DEF RecordFailure, RecordSuccess
<1>4. CASE MemoryLost
  BY <1>4 DEF MemoryLost
<1>5. ASSUME NEW p \in Positions, DispatchStep(p)
      PROVE  BreakerTypeOK'
  BY <1>1, <1>3, <1>5
  DEF DispatchStep, Skips, RuleThrows, Fires, Sends, FindingFails, OrderExecutes,
      OrderFails, AnswerLost, Answered, Saves, SavingFails, Notified, FailsAt
<1> QED
  BY <1>1, <1>2, <1>4, <1>5
  DEF Next, Outside, EntryFills, EntryRegisters, Dispatching, TickArrives,
      DispatchListFails, DispatchEnds, CompensationBegins, CompensationSucceeds,
      CompensationFails, SyncReads, SyncAsks, SyncMarksRow, SyncBreaksOff,
      EmergencyBegins, EmergencyProceeds, EmergencyCloses, ProcessEnds,
      ProcessStarts, StartupSyncs, StartupFails, SessionStarts, vars

LEMMA QueueTyped ==
  ASSUME QueueTypeOK, [Next]_vars
  PROVE  QueueTypeOK'
<1> USE DEF QueueTypeOK, EntryKind, queueVars
<1>1. CASE UNCHANGED queueVars
  BY <1>1
<1>2. ASSUME NEW p \in Positions, DispatchStep(p)
      PROVE  QueueTypeOK'
  BY <1>2 DEF DispatchStep, Skips, RuleThrows, Fires, Sends, FindingFails,
              OrderExecutes, OrderFails, AnswerLost, Answered, Saves, SavingFails,
              Notified, FailsAt, EnqueueUpdate, EnqueueMarkClosed
<1>3. CASE DrainStarts
  BY <1>3 DEF DrainStarts
<1>4. ASSUME NEW p \in Positions, RetrySucceeds(p) \/ RetryFails(p)
      PROVE  QueueTypeOK'
  BY <1>4 DEF RetrySucceeds, RetryFails
<1>5. CASE MemoryLost
  BY <1>5 DEF MemoryLost
<1> QED
  BY <1>1, <1>2, <1>3, <1>4, <1>5
  DEF Next, Outside, EntryFills, EntryRegisters, Dispatching, TickArrives,
      DispatchLists, DispatchListFails, DispatchEnds, CompensationBegins,
      CompensationSucceeds, CompensationFails, SyncReads, SyncAsks, SyncMarksRow,
      SyncBreaksOff, EmergencyBegins, EmergencyProceeds, EmergencyCloses,
      ProcessEnds, ProcessStarts, StartupSyncs, StartupFails, SessionStarts, vars

LEMMA DispatchTyped ==
  ASSUME DispatchTypeOK, [Next]_vars
  PROVE  DispatchTypeOK'
<1> USE DEF DispatchTypeOK, DispatchPc, dispatchVars
<1>1. CASE UNCHANGED dispatchVars
  BY <1>1
<1>2. CASE TickArrives \/ DispatchLists \/ DispatchListFails \/ DispatchEnds
  BY <1>2 DEF TickArrives, DispatchLists, DispatchListFails, DispatchEnds, OpenRows
<1>3. ASSUME NEW p \in Positions, DispatchStep(p)
      PROVE  DispatchTypeOK'
  BY <1>3 DEF DispatchStep, Skips, RuleThrows, Fires, Sends, FindingFails,
              OrderExecutes, OrderFails, AnswerLost, Answered, Saves, SavingFails,
              Notified, FailsAt, Leave
<1>4. CASE MemoryLost
  BY <1>4 DEF MemoryLost
<1> QED
  BY <1>1, <1>2, <1>3, <1>4
  DEF Next, Outside, EntryFills, EntryRegisters, Dispatching, CompensationBegins,
      CompensationSucceeds, CompensationFails, SyncReads, SyncAsks, SyncMarksRow,
      SyncBreaksOff, EmergencyBegins, EmergencyProceeds, EmergencyCloses,
      ProcessEnds, ProcessStarts, StartupSyncs, StartupFails, SessionStarts, vars

LEMMA SyncTyped ==
  ASSUME SyncTypeOK, [Next]_vars
  PROVE  SyncTypeOK'
<1> USE SubsystemAssumption DEF SyncTypeOK, syncVars
<1>1. CASE UNCHANGED syncVars
  BY <1>1
<1>2. ASSUME NEW r \in SyncRuns,
             SyncReads(r) \/ SyncAsks(r) \/ SyncMarksRow(r) \/ SyncBreaksOff(r)
      PROVE  SyncTypeOK'
  BY <1>2 DEF SyncReads, SyncAsks, SyncMarksRow, SyncBreaksOff, SyncReadsRows,
              SyncAsksBroker, SyncMarks, SyncFails, SyncGoesTo, OpenRows
<1>3. CASE StartupSyncs
  BY <1>3 DEF StartupSyncs, SyncReadsRows, SyncGoesTo, OpenRows
<1>4. CASE MemoryLost
  BY <1>4 DEF MemoryLost
<1> QED
  BY <1>1, <1>2, <1>3, <1>4
  DEF Next, Outside, EntryFills, EntryRegisters, Dispatching, CompensationBegins,
      CompensationSucceeds, CompensationFails, EmergencyBegins, EmergencyProceeds,
      EmergencyCloses, ProcessEnds, ProcessStarts,
      StartupFails, SessionStarts, vars

LEMMA EmTyped ==
  ASSUME EmTypeOK, [Next]_vars
  PROVE  EmTypeOK'
<1> USE DEF EmTypeOK, EmTask, emVars
<1>1. CASE UNCHANGED emVars
  BY <1>1
<1>2. CASE EmergencyBegins \/ EmergencyProceeds
  BY <1>2 DEF EmergencyBegins, EmergencyProceeds, EmRequested, EmLists,
              EmListingFails, EmTimesOut, EmSettled, OpenRows
<1>3. ASSUME NEW p \in Positions, EmTaskStep(p)
      PROVE  EmTypeOK'
  BY <1>3 DEF EmTaskStep, EmOrderExecutes, EmOrderFails, EmAnswerLost, EmAnswered,
              EmSaves, EmSavingFails, EmGoesTo
<1>4. CASE MemoryLost
  BY <1>4 DEF MemoryLost
<1> QED
  BY <1>1, <1>2, <1>3, <1>4
  DEF Next, Outside, EntryFills, EntryRegisters, Dispatching, CompensationBegins,
      CompensationSucceeds, CompensationFails, SyncReads, SyncAsks, SyncMarksRow,
      SyncBreaksOff, EmergencyCloses, ProcessEnds, ProcessStarts, StartupSyncs, StartupFails,
      SessionStarts, vars

\* The variables of the process itself.
LifeTypeOK ==
  /\ phase \in Phase
  /\ entering \subseteq Positions
  /\ ends \in 0 .. MaxEnds

LEMMA LifeTyped ==
  ASSUME LifeTypeOK, [Next]_vars
  PROVE  LifeTypeOK'
<1> USE SubsystemAssumption DEF LifeTypeOK, Phase, lifeVars
<1>1. CASE UNCHANGED lifeVars
  BY <1>1
<1>2. ASSUME NEW p \in Positions, EntryFills(p) \/ EntryRegisters(p)
      PROVE  LifeTypeOK'
  BY <1>2 DEF EntryFills, EntryRegisters
<1>3. CASE ProcessEnds \/ StartupFails
  BY <1>3 DEF ProcessEnds, StartupFails, MemoryLost
<1>4. CASE ProcessStarts \/ StartupSyncs \/ SessionStarts
  BY <1>4 DEF ProcessStarts, StartupSyncs, SessionStarts
<1> QED
  BY <1>1, <1>2, <1>3, <1>4
  DEF Next, Outside, Dispatching, CompensationBegins, CompensationSucceeds,
      CompensationFails, SyncReads, SyncAsks, SyncMarksRow, SyncBreaksOff,
      EmergencyBegins, EmergencyProceeds, EmergencyCloses, vars

\* Every variable of the exit side keeps its type, whatever the components do
\* at the same time and wherever the process ends.
THEOREM TypeCorrect == SafeSpec => []TypeOK
<1>1. Init => TypeOK
  <2> SUFFICES ASSUME Init PROVE TypeOK
    OBVIOUS
  <2> USE DEF Init
  <2>1. StoresTypeOK
    BY DEF StoresInit, StoresTypeOK, BrokerState, RowState
  <2>2. BreakerTypeOK /\ QueueTypeOK
    BY DEF BreakerInit, BreakerTypeOK, QueueInit, QueueTypeOK, EntryKind
  <2>3. DispatchTypeOK
    BY DEF DispatchInit, DispatchTypeOK, DispatchPc
  <2>4. SyncTypeOK /\ EmTypeOK
    BY DEF SyncInit, SyncTypeOK, EmInit, EmTypeOK, EmTask
  <2>5. LifeTypeOK
    BY SubsystemAssumption DEF LifeTypeOK, Phase
  <2> QED
    BY <2>1, <2>2, <2>3, <2>4, <2>5 DEF TypeOK, LifeTypeOK
<1>2. TypeOK /\ [Next]_vars => TypeOK'
  BY StoresTyped, BreakerTyped, QueueTyped, DispatchTyped, SyncTyped, EmTyped,
     LifeTyped
  DEF TypeOK, LifeTypeOK
<1> QED
  BY <1>1, <1>2, PTL DEF SafeSpec

-----------------------------------------------------------------------------
(* The stores only move forward. *)

\* What one step may do to the account and to the row of a position.
Forward(p) ==
  /\ broker[p] # "none" => broker'[p] # "none"
  /\ broker[p] = "closed" => broker'[p] = "closed"
  /\ row[p] # "absent" => row'[p] # "absent"
  /\ row[p] \in ClosedRow => row'[p] \in ClosedRow
  /\ row[p] = "settled" => row'[p] = "settled"

LEMMA StoresForward ==
  ASSUME StoresTypeOK, [Next]_vars, NEW q \in Positions
  PROVE  Forward(q)
<1> USE DEF StoresTypeOK, BrokerState, RowState, ClosedRow, storeVars, Forward
<1>1. CASE UNCHANGED storeVars
  BY <1>1
<1>2. ASSUME NEW p \in Positions,
             StrayOrderExecutes(p) \/ ClosedOutside(p) \/ EntryFills(p)
               \/ EntryRegisters(p)
      PROVE  Forward(q)
  BY <1>2 DEF StrayOrderExecutes, ClosedOutside, CloseAtBroker, EntryFills,
              EntryRegisters, EntryExecutes, InsertRow
<1>3. ASSUME NEW p \in Positions, DispatchStep(p)
      PROVE  Forward(q)
  BY <1>3 DEF DispatchStep, Skips, RuleThrows, Fires, Sends, FindingFails,
              OrderExecutes, OrderFails, AnswerLost, Answered, Saves, SavingFails,
              Notified, CloseAtBroker, AbandonOrder, UpdateRow
<1>4. ASSUME NEW p \in Positions, RetrySucceeds(p) \/ RetryFails(p)
      PROVE  Forward(q)
  BY <1>4 DEF RetrySucceeds, RetryFails, WriteEntry, UpdateRow, MarkRowClosed
<1>5. ASSUME NEW r \in SyncRuns, SyncMarksRow(r) \/ SyncBreaksOff(r)
      PROVE  Forward(q)
  BY <1>5 DEF SyncMarksRow, SyncBreaksOff, SyncMarks, SyncFails, MarkRowClosed
<1>6. ASSUME NEW p \in Positions, EmTaskStep(p)
      PROVE  Forward(q)
  BY <1>6 DEF EmTaskStep, EmOrderExecutes, EmOrderFails, EmAnswerLost, EmAnswered,
              EmSaves, EmSavingFails, CloseAtBroker, AbandonOrder, UpdateRow
<1>7. CASE MemoryLost
  BY <1>7 DEF MemoryLost
<1> QED
  BY <1>1, <1>2, <1>3, <1>4, <1>5, <1>6, <1>7
  DEF Next, Outside, Dispatching, TickArrives, DispatchLists, DispatchListFails,
      DispatchEnds, CompensationBegins, DrainStarts, CompensationSucceeds,
      CompensationFails, SyncReads, SyncReadsRows, SyncAsks, SyncAsksBroker,
      EmergencyBegins, EmRequested, EmergencyProceeds, EmLists, EmListingFails,
      EmTimesOut, EmSettled, EmergencyCloses, ProcessEnds, ProcessStarts, StartupSyncs,
      StartupFails, SessionStarts, vars

\* A CLOSED row stays CLOSED and an exit price, once written, stays: no late
\* writer of any component undoes an earlier one.
THEOREM ClosedRowsStayClosed == SafeSpec => ClosedRowsFinal
<1>1. TypeOK /\ [Next]_vars =>
        [\A p \in Positions :
           /\ row[p] \in ClosedRow => row'[p] \in ClosedRow
           /\ row[p] = "settled" => row'[p] = "settled"]_vars
  BY StoresForward DEF Forward, TypeOK
<1> QED
  BY <1>1, TypeCorrect, PTL DEF SafeSpec, ClosedRowsFinal

-----------------------------------------------------------------------------
(* StoreInv is inductive. *)

\* A row becomes CLOSED only in a step of a component that knows the broker
\* has closed the position.
LEMMA RowClosesLate ==
  ASSUME TypeOK, StoreInv, [Next]_vars, NEW q \in Positions,
         row[q] \notin ClosedRow, row'[q] \in ClosedRow
  PROVE  broker[q] = "closed"
<1> USE DEF TypeOK, StoresTypeOK, RowState, ClosedRow, storeVars
<1>1. ~UNCHANGED row
  OBVIOUS
<1>2. ASSUME NEW p \in Positions, DispatchStep(p)
      PROVE  broker[q] = "closed"
  BY <1>1, <1>2
  DEF DispatchStep, Skips, RuleThrows, Fires, Sends, FindingFails, OrderExecutes,
      OrderFails, AnswerLost, Answered, Saves, SavingFails, Notified, UpdateRow,
      StoreInv, DispatchSound
<1>3. ASSUME NEW p \in Positions, RetrySucceeds(p) \/ RetryFails(p)
      PROVE  broker[q] = "closed"
  BY <1>1, <1>3
  DEF RetrySucceeds, RetryFails, WriteEntry, UpdateRow, MarkRowClosed, StoreInv,
      QueueSound
<1>4. ASSUME NEW r \in SyncRuns, SyncMarksRow(r) \/ SyncBreaksOff(r)
      PROVE  broker[q] = "closed"
  BY <1>1, <1>4
  DEF SyncMarksRow, SyncBreaksOff, SyncMarks, SyncFails, MarkRowClosed, StoreInv,
      SyncSetSound
<1>5. ASSUME NEW p \in Positions, EmTaskStep(p)
      PROVE  broker[q] = "closed"
  BY <1>1, <1>5
  DEF EmTaskStep, EmOrderExecutes, EmOrderFails, EmAnswerLost, EmAnswered, EmSaves,
      EmSavingFails, UpdateRow, StoreInv, EmTasksSound
<1>6. ASSUME NEW p \in Positions, EntryRegisters(p)
      PROVE  broker[q] = "closed"
  BY <1>1, <1>6 DEF EntryRegisters, InsertRow
<1> QED
  BY <1>1, <1>2, <1>3, <1>4, <1>5, <1>6
  DEF Next, Outside, StrayOrderExecutes, ClosedOutside, EntryFills, EntryExecutes,
      Dispatching, TickArrives, DispatchLists, DispatchListFails, DispatchEnds,
      CompensationBegins, DrainStarts, CompensationSucceeds, CompensationFails,
      SyncReads, SyncReadsRows, SyncAsks, SyncAsksBroker, EmergencyBegins,
      EmRequested, EmergencyProceeds, EmLists, EmListingFails, EmTimesOut,
      EmSettled, EmergencyCloses, ProcessEnds, ProcessStarts, StartupSyncs, StartupFails,
      SessionStarts, MemoryLost, vars

LEMMA NoPhantomCloseStep ==
  ASSUME TypeOK, StoreInv, [Next]_vars
  PROVE  NoPhantomClose'
BY RowClosesLate, StoresForward
DEF NoPhantomClose, StoreInv, Forward, TypeOK

\* A row appears only when an entry is registered, as an OPEN one.
LEMMA RowAppears ==
  ASSUME TypeOK, [Next]_vars, NEW q \in Positions,
         row[q] = "absent", row'[q] # "absent"
  PROVE  q \in entering /\ row'[q] = "open"
<1> USE DEF TypeOK, StoresTypeOK, RowState, storeVars
<1>1. ~UNCHANGED row
  OBVIOUS
<1>2. ASSUME NEW p \in Positions, EntryRegisters(p)
      PROVE  q \in entering /\ row'[q] = "open"
  BY <1>1, <1>2 DEF EntryRegisters, InsertRow
<1>3. ASSUME NEW p \in Positions, UpdateRow(p) \/ MarkRowClosed(p) PROVE FALSE
  BY <1>3 DEF UpdateRow, MarkRowClosed
<1>4. ASSUME NEW p \in Positions,
             DispatchStep(p) \/ RetrySucceeds(p) \/ RetryFails(p) \/ EmTaskStep(p)
      PROVE  FALSE
  BY <1>1, <1>3, <1>4
  DEF DispatchStep, Skips, RuleThrows, Fires, Sends, FindingFails, OrderExecutes,
      OrderFails, AnswerLost, Answered, Saves, SavingFails, Notified,
      RetrySucceeds, RetryFails, WriteEntry, EmTaskStep, EmOrderExecutes,
      EmOrderFails, EmAnswerLost, EmAnswered, EmSaves, EmSavingFails
<1>5. ASSUME NEW r \in SyncRuns, SyncMarksRow(r) \/ SyncBreaksOff(r)
      PROVE  FALSE
  <2>1. \A p \in syncSet[r] : p \in Positions
    BY DEF SyncTypeOK
  <2> QED
    BY <1>1, <1>3, <1>5, <2>1 DEF SyncMarksRow, SyncBreaksOff, SyncMarks, SyncFails
<1> QED
  BY <1>1, <1>2, <1>4, <1>5
  DEF Next, Outside, StrayOrderExecutes, ClosedOutside, EntryFills, EntryExecutes,
      Dispatching, TickArrives, DispatchLists, DispatchListFails, DispatchEnds,
      CompensationBegins, DrainStarts, CompensationSucceeds, CompensationFails,
      SyncReads, SyncReadsRows, SyncAsks, SyncAsksBroker, EmergencyBegins,
      EmRequested, EmergencyProceeds, EmLists, EmListingFails, EmTimesOut,
      EmSettled, EmergencyCloses, ProcessEnds, ProcessStarts, StartupSyncs, StartupFails,
      SessionStarts, MemoryLost, vars

LEMMA RowsHavePositionsStep ==
  ASSUME TypeOK, StoreInv, [Next]_vars
  PROVE  RowsHavePositions'
<1> USE DEF RowsHavePositions
<1>1. \A p \in Positions : Forward(p)
  BY StoresForward DEF TypeOK
<1>2. \A q \in Positions : row[q] = "absent" /\ row'[q] # "absent" => q \in entering
  BY RowAppears
<1>3. ASSUME NEW q \in Positions, q \in entering', q \notin entering
      PROVE  broker'[q] # "none"
  BY <1>3
  DEF TypeOK, StoresTypeOK, BrokerState, Next, Outside, EntryFills, EntryRegisters,
      EntryExecutes, Dispatching, CompensationBegins, CompensationSucceeds,
      CompensationFails, SyncReads, SyncAsks, SyncMarksRow, SyncBreaksOff,
      EmergencyBegins, EmergencyProceeds, EmergencyCloses, ProcessEnds,
      ProcessStarts, StartupSyncs, StartupFails, SessionStarts, MemoryLost, vars, lifeVars
<1>4. entering' \subseteq Positions
  BY LifeTyped DEF TypeOK, LifeTypeOK
<1> QED
  BY <1>1, <1>2, <1>3, <1>4 DEF StoreInv, Forward, TypeOK

LEMMA SyncSetSoundStep ==
  ASSUME TypeOK, StoreInv, [Next]_vars
  PROVE  SyncSetSound'
<1> USE DEF SyncSetSound, syncVars
<1>1. \A p \in Positions : Forward(p)
  BY StoresForward DEF TypeOK
<1>2. \A r \in SyncRuns : syncSet[r] \subseteq Positions /\ syncSet'[r] \subseteq Positions
  BY SyncTyped DEF TypeOK, SyncTypeOK
<1>3. CASE UNCHANGED syncVars
  BY <1>1, <1>2, <1>3 DEF StoreInv, Forward
<1>4. ASSUME NEW s \in SyncRuns,
             SyncReads(s) \/ SyncAsks(s) \/ SyncMarksRow(s) \/ SyncBreaksOff(s)
      PROVE  SyncSetSound'
  <2> SUFFICES ASSUME NEW r \in SyncRuns, NEW p \in syncSet'[r]
               PROVE  /\ broker'[p] # "none"
                      /\ syncPc'[r] = "marking" => broker'[p] = "closed"
    OBVIOUS
  <2>1. p \in Positions /\ Forward(p)
    BY <1>1, <1>2
  <2>2. CASE SyncReads(s)
    BY <2>1, <2>2 DEF SyncReads, SyncReadsRows, SyncGoesTo, OpenRows, StoreInv,
       RowsHavePositions, Forward, TypeOK, SyncTypeOK, storeVars
  <2>3. CASE SyncAsks(s)
    BY <2>1, <2>3 DEF SyncAsks, SyncAsksBroker, SyncGoesTo, HeldAtBroker, StoreInv,
       Forward, TypeOK, SyncTypeOK, StoresTypeOK, BrokerState, storeVars
  <2>4. CASE SyncMarksRow(s) \/ SyncBreaksOff(s)
    BY <2>1, <2>4 DEF SyncMarksRow, SyncBreaksOff, SyncMarks, SyncFails, SyncGoesTo,
       StoreInv, Forward, TypeOK, SyncTypeOK
  <2> QED
    BY <1>4, <2>2, <2>3, <2>4
<1>5. CASE StartupSyncs
  BY <1>1, <1>2, <1>5 DEF StartupSyncs, SyncReadsRows, SyncGoesTo, OpenRows, StoreInv,
     RowsHavePositions, Forward, TypeOK, SyncTypeOK, storeVars
<1>6. CASE MemoryLost
  BY <1>6 DEF MemoryLost
<1> QED
  BY <1>3, <1>4, <1>5, <1>6
  DEF Next, Outside, EntryFills, EntryRegisters, Dispatching, CompensationBegins,
      CompensationSucceeds, CompensationFails, EmergencyBegins, EmergencyProceeds,
      EmergencyCloses, ProcessEnds, ProcessStarts,
      StartupFails, SessionStarts, vars

LEMMA EmTasksSoundStep ==
  ASSUME TypeOK, StoreInv, [Next]_vars
  PROVE  EmTasksSound'
<1> USE DEF EmTasksSound, emVars
<1>1. \A p \in Positions : Forward(p)
  BY StoresForward DEF TypeOK
<1>2. CASE UNCHANGED emVars
  BY <1>1, <1>2 DEF StoreInv, Forward
<1>3. CASE EmergencyBegins \/ EmergencyProceeds
  BY <1>1, <1>3
  DEF EmergencyBegins, EmergencyProceeds, EmRequested, EmLists, EmListingFails,
      EmTimesOut, EmSettled, OpenRows, StoreInv, Forward, storeVars
<1>4. ASSUME NEW q \in Positions, EmTaskStep(q)
      PROVE  EmTasksSound'
  <2> SUFFICES ASSUME NEW p \in Positions
               PROVE  /\ emTask'[p] # "none" => row'[p] # "absent"
                      /\ emTask'[p] \in {"filled", "saving", "closed"}
                           => broker'[p] = "closed"
                      /\ emTask'[p] = "closed" => row'[p] = "settled"
    OBVIOUS
  <2> USE <1>1 DEF Forward, StoreInv, TypeOK, StoresTypeOK, EmTypeOK, EmGoesTo,
                   storeVars
  <2>1. CASE p = q
    BY <1>4, <2>1
    DEF EmTaskStep, EmOrderExecutes, EmOrderFails, EmAnswerLost, EmAnswered,
        EmSaves, EmSavingFails, CloseAtBroker, UpdateRow
  <2>2. CASE p # q
    BY <1>4, <2>2
    DEF EmTaskStep, EmOrderExecutes, EmOrderFails, EmAnswerLost, EmAnswered,
        EmSaves, EmSavingFails
  <2> QED
    BY <2>1, <2>2
<1>5. CASE MemoryLost
  BY <1>5 DEF MemoryLost
<1> QED
  BY <1>2, <1>3, <1>4, <1>5
  DEF Next, Outside, EntryFills, EntryRegisters, Dispatching, CompensationBegins,
      CompensationSucceeds, CompensationFails, SyncReads, SyncAsks, SyncMarksRow,
      SyncBreaksOff, EmergencyCloses, ProcessEnds, ProcessStarts, StartupSyncs, StartupFails,
      SessionStarts, vars

\* The loop is at one position at a time.
LEMMA CurrentUnique ==
  ASSUME NEW p \in Positions, NEW q \in Positions, Current(p), Current(q)
  PROVE  p = q
BY PositionsAssumption DEF Current

LEMMA DispatchSoundStep ==
  ASSUME TypeOK, StoreInv, [Next]_vars
  PROVE  DispatchSound'
<1> USE DEF DispatchSound, dispatchVars, Current
<1>1. \A p \in Positions : Forward(p)
  BY StoresForward DEF TypeOK
<1>2. dTodo \subseteq Positions /\ dTodo' \subseteq Positions
  BY DispatchTyped DEF TypeOK, DispatchTypeOK
<1>3. CASE UNCHANGED dispatchVars
  BY <1>1, <1>2, <1>3 DEF StoreInv, Forward
<1>4. CASE TickArrives \/ DispatchLists \/ DispatchListFails \/ DispatchEnds
  BY <1>1, <1>2, <1>4
  DEF TickArrives, DispatchLists, DispatchListFails, DispatchEnds, OpenRows,
      StoreInv, Forward, storeVars
<1>5. ASSUME NEW q \in Positions, DispatchStep(q)
      PROVE  DispatchSound'
  <2>1. \A p \in dTodo' : row'[p] # "absent"
    <3>1. dTodo' \subseteq dTodo
      BY <1>5
      DEF DispatchStep, Skips, RuleThrows, Fires, Sends, FindingFails, OrderExecutes,
          OrderFails, AnswerLost, Answered, Saves, SavingFails, Notified, FailsAt,
          Leave
    <3> QED
      BY <1>1, <1>2, <3>1 DEF StoreInv, Forward
  <2>2. CASE dPc' = "scan"
    BY <2>1, <2>2
  <2>3. CASE dPc' # "scan"
    <3>1. /\ Current(q) /\ UNCHANGED dTodo
          /\ \A p \in Positions : Current(p)' => p = q
      BY <1>5, <2>3, CurrentUnique
      DEF DispatchStep, Skips, RuleThrows, Fires, Sends, FindingFails, OrderExecutes,
          OrderFails, AnswerLost, Answered, Saves, SavingFails, Notified, FailsAt,
          Leave
    <3>2. /\ dPc' \in {"filled", "saving", "notifying"} => broker'[q] = "closed"
          /\ dPc' = "sent" /\ dEntity' = "CLOSED" => broker'[q] = "closed"
          /\ dPc' = "filled" => dEntity' = "OPEN"
      <4> USE <1>1, <3>1 DEF StoreInv, Forward, TypeOK, storeVars
      <4>1. CASE Sends(q)
        BY <4>1
        DEF Sends, NoPhantomClose, ClosedRow, StoresTypeOK, RowState
      <4>2. CASE OrderExecutes(q)
        BY <4>2
        DEF OrderExecutes, CloseAtBroker, DispatchTypeOK, StoresTypeOK
      <4>3. CASE Fires(q) \/ Answered(q) \/ Saves(q) \/ SavingFails(q)
        BY <4>3 DEF Fires, Answered, Saves, SavingFails
      <4> QED
        BY <1>5, <2>3, <4>1, <4>2, <4>3
        DEF DispatchStep, Skips, RuleThrows, FindingFails, OrderFails, AnswerLost,
            Notified, FailsAt, Leave
    <3> QED
      BY <2>1, <3>1, <3>2
  <2> QED
    BY <2>2, <2>3
<1>6. CASE MemoryLost
  BY <1>6 DEF MemoryLost
<1> QED
  BY <1>3, <1>4, <1>5, <1>6
  DEF Next, Outside, EntryFills, EntryRegisters, Dispatching, CompensationBegins,
      CompensationSucceeds, CompensationFails, SyncReads, SyncAsks, SyncMarksRow,
      SyncBreaksOff, EmergencyBegins, EmergencyProceeds, EmergencyCloses,
      ProcessEnds, ProcessStarts, StartupSyncs, StartupFails, SessionStarts, vars

LEMMA QueueSoundStep ==
  ASSUME TypeOK, StoreInv, [Next]_vars
  PROVE  QueueSound'
<1> USE DEF QueueSound, queueVars, Has
<1>1. \A p \in Positions : Forward(p)
  BY StoresForward DEF TypeOK
<1>2. drain \subseteq Positions /\ owed \in [Positions -> EntryKind]
  BY DEF TypeOK, QueueTypeOK
<1>3. CASE UNCHANGED queueVars
  BY <1>1, <1>3 DEF StoreInv, Forward
<1>4. ASSUME NEW q \in Positions, DispatchStep(q)
      PROVE  QueueSound'
  <2>1. CASE Answered(q)
    <3>1. dEntity = "OPEN"
      BY <2>1 DEF Answered, StoreInv, DispatchSound
    <3> QED
      BY <1>1, <2>1, <3>1 DEF Answered, StoreInv, Forward
  <2>2. CASE SavingFails(q)
    <3>1. broker[q] = "closed" /\ row[q] # "absent"
      BY <2>2 DEF SavingFails, StoreInv, DispatchSound, Current
    <3> QED
      BY <1>1, <1>2, <2>2, <3>1 DEF SavingFails, EnqueueUpdate, StoreInv, Forward
  <2> QED
    BY <1>3, <1>4, <2>1, <2>2
    DEF DispatchStep, Skips, RuleThrows, Fires, Sends, FindingFails, OrderExecutes,
        OrderFails, AnswerLost, Saves, Notified, FailsAt
<1>5. CASE DrainStarts
  BY <1>1, <1>5 DEF DrainStarts, StoreInv, Forward
<1>6. ASSUME NEW q \in Positions, RetrySucceeds(q) \/ RetryFails(q)
      PROVE  QueueSound'
  BY <1>1, <1>2, <1>6 DEF RetrySucceeds, RetryFails, StoreInv, Forward
<1>7. CASE MemoryLost
  BY <1>7 DEF MemoryLost
<1> QED
  BY <1>3, <1>4, <1>5, <1>6, <1>7
  DEF Next, Outside, EntryFills, EntryRegisters, Dispatching, TickArrives,
      DispatchLists, DispatchListFails, DispatchEnds, CompensationBegins,
      CompensationSucceeds, CompensationFails, SyncReads, SyncAsks, SyncMarksRow,
      SyncBreaksOff, EmergencyBegins, EmergencyProceeds, EmergencyCloses,
      ProcessEnds, ProcessStarts, StartupSyncs, StartupFails, SessionStarts, vars

\* The components, however they interleave, keep what each relies on.
THEOREM StoresConsistent == SafeSpec => []StoreInv
<1>1. Init => StoreInv
  BY DEF Init, StoresInit, QueueInit, DispatchInit, SyncInit, EmInit, StoreInv,
         RowsHavePositions, NoPhantomClose, ClosedRow, SyncSetSound, EmTasksSound,
         DispatchSound, QueueSound, Current
<1>2. TypeOK /\ StoreInv /\ [Next]_vars => StoreInv'
  BY RowsHavePositionsStep, NoPhantomCloseStep, SyncSetSoundStep, EmTasksSoundStep,
     DispatchSoundStep, QueueSoundStep
  DEF StoreInv
<1> QED
  BY <1>1, <1>2, TypeCorrect, PTL DEF SafeSpec

\* No position the broker still holds is CLOSED in the table.
THEOREM RowsNeverCloseEarly == SafeSpec => []NoPhantomClose
<1>1. StoreInv => NoPhantomClose
  BY DEF StoreInv
<1> QED
  BY <1>1, StoresConsistent, PTL

\* ExitExecution never has to give up an exit price it received.
THEOREM DegradedPathUnused == SafeSpec => []NoDegradedEntry
<1>1. StoreInv => NoDegradedEntry
  BY DEF StoreInv, QueueSound, NoDegradedEntry
<1> QED
  BY <1>1, StoresConsistent, PTL

\* The report of the emergency close is true.
THEOREM EmergencyReportCorrect == SafeSpec => []EmergencyReportTrue
<1>1. StoreInv => EmergencyReportTrue
  BY DEF StoreInv, EmTasksSound, EmergencyReportTrue
<1> QED
  BY <1>1, StoresConsistent, PTL

-----------------------------------------------------------------------------
(* Confirmed exits. *)

LEMMA ConfirmedExitKeptStep ==
  ASSUME TypeOK, StoreInv, ConfirmedExitKept, [Next]_vars
  PROVE  ConfirmedExitKept'
<1> USE DEF ConfirmedExitKept
<1>1. \A p \in Positions : Forward(p)
  BY StoresForward DEF TypeOK
<1>2. confirmed \subseteq Positions /\ dTodo \subseteq Positions
  BY DEF TypeOK, DispatchTypeOK
<1>3. CASE UNCHANGED <<dispatchVars, owed>>
  BY <1>1, <1>2, <1>3 DEF Forward, dispatchVars, Current
<1>4. CASE TickArrives \/ DispatchLists \/ DispatchListFails \/ DispatchEnds
  BY <1>1, <1>2, <1>4
  DEF TickArrives, DispatchLists, DispatchListFails, DispatchEnds, Forward,
      queueVars
<1>5. ASSUME NEW q \in Positions, DispatchStep(q)
      PROVE  ConfirmedExitKept'
  <2>1. CASE Answered(q)
    <3>1. dEntity = "OPEN" /\ dPc = "filled"
      BY <2>1 DEF Answered, StoreInv, DispatchSound
    <3> QED
      BY <1>1, <1>2, <2>1, <3>1 DEF Answered, Forward, Current
  <2>2. CASE Saves(q) \/ SavingFails(q)
    <3>1. Current(q) /\ row[q] # "absent"
      BY <2>2 DEF Saves, SavingFails, Current, StoreInv, DispatchSound
    <3>2. row'[q] = "settled" \/ owed'[q] = "update"
      BY <2>2, <3>1
      DEF Saves, SavingFails, UpdateRow, EnqueueUpdate, StoreInv, QueueSound, TypeOK,
          StoresTypeOK, QueueTypeOK
    <3>3. \A p \in confirmed : Current(p) => p = q
      BY <1>2, <3>1, CurrentUnique
    <3>4. \A p \in Positions : owed[p] = "update" => owed'[p] = "update"
      BY <2>2 DEF Saves, SavingFails, EnqueueUpdate, queueVars, TypeOK, QueueTypeOK
    <3>5. confirmed' = confirmed
      BY <2>2 DEF Saves, SavingFails
    <3> QED
      BY <1>1, <1>2, <3>2, <3>3, <3>4, <3>5 DEF Forward
  <2>3. CASE dPc # "saving" /\ UNCHANGED <<owed, confirmed>>
    BY <1>1, <1>2, <2>3 DEF Forward
  <2> QED
    BY <1>5, <2>1, <2>2, <2>3
    DEF DispatchStep, Skips, RuleThrows, Fires, Sends, FindingFails, OrderExecutes,
        OrderFails, AnswerLost, Notified, FailsAt, queueVars
<1>6. ASSUME NEW q \in Positions, RetrySucceeds(q), UNCHANGED dispatchVars
      PROVE  ConfirmedExitKept'
  <2>1. owed[q] = "update" /\ row[q] # "absent"
    BY <1>6 DEF RetrySucceeds, StoreInv, QueueSound
  <2>2. row'[q] = "settled"
    BY <1>6, <2>1 DEF RetrySucceeds, WriteEntry, UpdateRow, TypeOK, StoresTypeOK
  <2> QED
    BY <1>1, <1>2, <1>6, <2>2
    DEF RetrySucceeds, Forward, dispatchVars, Current, TypeOK, QueueTypeOK
<1>7. CASE MemoryLost
  BY <1>7 DEF MemoryLost
<1> QED
  BY <1>3, <1>4, <1>5, <1>6, <1>7
  DEF Next, Outside, EntryFills, EntryRegisters, Dispatching, CompensationBegins,
      DrainStarts, CompensationSucceeds, CompensationFails, RetryFails, SyncReads,
      SyncAsks, SyncMarksRow, SyncBreaksOff, EmergencyBegins, EmergencyProceeds,
      EmergencyCloses, ProcessEnds, ProcessStarts, StartupSyncs, StartupFails, SessionStarts,
      vars, queueVars

\* While the process lives, the price of an exit that ExitExecution has seen
\* confirmed is in the row, owed to it, or being written for the first time.
THEOREM ConfirmedExitsKept == SafeSpec => []ConfirmedExitKept
<1>1. Init => ConfirmedExitKept
  BY DEF Init, DispatchInit, ConfirmedExitKept
<1>2. TypeOK /\ StoreInv /\ ConfirmedExitKept /\ [Next]_vars => ConfirmedExitKept'
  BY ConfirmedExitKeptStep
<1> QED
  BY <1>1, <1>2, TypeCorrect, StoresConsistent, PTL DEF SafeSpec

-----------------------------------------------------------------------------
(* The shield and the kill-switch. *)

\* The position an exit is under way for is not in the queue.
ShieldInv ==
  /\ ShieldedNeverCounts
  /\ \A p \in Positions :
       dPc \in {"finding", "sent", "filled", "saving"} /\ Current(p) => ~Has(p)

LEMMA ShieldInvStep ==
  ASSUME TypeOK, StoreInv, ShieldInv, [Next]_vars
  PROVE  ShieldInv'
<1> USE DEF ShieldInv, ShieldedNeverCounts, Has, Current, dispatchVars, breakerVars,
            queueVars
<1> dTodo \subseteq Positions /\ fails \in [Positions -> Nat]
      /\ owed \in [Positions -> EntryKind]
  BY DEF TypeOK, DispatchTypeOK, BreakerTypeOK, QueueTypeOK
<1>1. CASE UNCHANGED <<dispatchVars, breakerVars, owed>>
  BY <1>1
<1>2. CASE TickArrives \/ DispatchLists \/ DispatchListFails \/ DispatchEnds
  BY <1>2 DEF TickArrives, DispatchLists, DispatchListFails, DispatchEnds, BeginTick
<1>3. ASSUME NEW q \in Positions, DispatchStep(q)
      PROVE  ShieldInv'
  <2> \A p \in Positions : Current(p) /\ Current(q) => p = q
    BY CurrentUnique
  <2>1. CASE Skips(q) \/ Fires(q) \/ Sends(q) \/ OrderExecutes(q) \/ Saves(q)
    BY <2>1 DEF Skips, Fires, Sends, OrderExecutes, Saves, Leave
  <2>2. CASE RuleThrows(q) \/ FindingFails(q) \/ OrderFails(q) \/ AnswerLost(q)
    BY <2>2
    DEF RuleThrows, FindingFails, OrderFails, AnswerLost, FailsAt, Leave,
        RecordFailure
  <2>3. CASE Answered(q) \/ SavingFails(q)
    BY <2>3
    DEF Answered, SavingFails, EnqueueUpdate, EnqueueMarkClosed, StoreInv,
        DispatchSound
  <2>4. CASE Notified(q)
    BY <2>4 DEF Notified, Leave, RecordSuccess
  <2> QED
    BY <1>3, <2>1, <2>2, <2>3, <2>4 DEF DispatchStep
<1>4. ASSUME NEW q \in Positions, RetrySucceeds(q),
             UNCHANGED <<dispatchVars, breakerVars>>
      PROVE  ShieldInv'
  BY <1>4 DEF RetrySucceeds
<1>5. CASE MemoryLost
  BY <1>5 DEF MemoryLost
<1> QED
  BY <1>1, <1>2, <1>3, <1>4, <1>5
  DEF Next, Outside, EntryFills, EntryRegisters, Dispatching, CompensationBegins,
      DrainStarts, CompensationSucceeds, CompensationFails, RetryFails, SyncReads,
      SyncAsks, SyncMarksRow, SyncBreaksOff, EmergencyBegins, EmergencyProceeds,
      EmergencyCloses, ProcessEnds, ProcessStarts, StartupSyncs, StartupFails, SessionStarts, vars

\* A confirmed exit that waits for its write never moves the kill count.
THEOREM ShieldKeepsCount == SafeSpec => []ShieldedNeverCounts
<1>1. Init => ShieldInv
  BY DEF Init, BreakerInit, QueueInit, DispatchInit, ShieldInv, ShieldedNeverCounts,
         Has, Current
<1>2. TypeOK /\ StoreInv /\ ShieldInv /\ [Next]_vars => ShieldInv'
  BY ShieldInvStep
<1>3. ShieldInv => ShieldedNeverCounts
  BY DEF ShieldInv
<1> QED
  BY <1>1, <1>2, <1>3, TypeCorrect, StoresConsistent, PTL DEF SafeSpec

\* Within a dispatch the positions still to come are below the threshold, so
\* that each can reach it and none can pass it.
KillInv ==
  /\ \A p \in Positions : fails[p] <= FailureThreshold
  /\ dPc \in {"idle", "listing"} /\ ~halted =>
       \A p \in Positions : fails[p] < FailureThreshold
  /\ dPc \notin {"idle", "listing"} => \A p \in dTodo : fails[p] < FailureThreshold
  /\ halted => /\ dPc = "idle"
               /\ \E p \in Positions : fails[p] >= FailureThreshold

LEMMA KillInvStep ==
  ASSUME TypeOK, KillInv, [Next]_vars
  PROVE  KillInv'
<1> USE BreakerAssumption DEF KillInv, dispatchVars, breakerVars
<1> dTodo \subseteq Positions /\ fails \in [Positions -> Nat] /\ halted \in BOOLEAN
  BY DEF TypeOK, DispatchTypeOK, BreakerTypeOK
<1>1. CASE UNCHANGED <<dispatchVars, breakerVars>>
  BY <1>1
<1>2. CASE TickArrives \/ DispatchListFails
  BY <1>2 DEF TickArrives, DispatchListFails
<1>3. CASE DispatchLists
  BY <1>3 DEF DispatchLists, BeginTick, OpenRows
<1>4. CASE DispatchEnds
  <2>1. dPc = "scan" /\ dPc' = "idle" /\ UNCHANGED fails
    BY <1>4 DEF DispatchEnds
  <2>2. ~halted
    BY <2>1
  <2>3. halted' <=> KillDetail
    BY <1>4, <2>2, Zenon DEF DispatchEnds
  <2>4. CASE KillDetail
    BY <2>1, <2>3, <2>4 DEF KillDetail
  <2>5. CASE ~KillDetail
    BY <2>1, <2>3, <2>5 DEF KillDetail
  <2> QED
    BY <2>4, <2>5
<1>5. ASSUME NEW q \in Positions, DispatchStep(q)
      PROVE  KillInv'
  <2>1. CASE RuleThrows(q) \/ FindingFails(q) \/ OrderFails(q) \/ AnswerLost(q)
    BY <2>1
    DEF RuleThrows, FindingFails, OrderFails, AnswerLost, FailsAt, Leave,
        RecordFailure, Current
  <2>2. CASE Notified(q)
    BY <2>2 DEF Notified, Leave, RecordSuccess
  <2>3. CASE UNCHANGED <<breakerVars, halted>> /\ dTodo' \subseteq dTodo
               /\ dPc \notin {"idle", "listing"} /\ dPc' \notin {"idle", "listing"}
    BY <2>3
  <2> QED
    BY <1>5, <2>1, <2>2, <2>3
    DEF DispatchStep, Skips, Fires, Sends, OrderExecutes, Answered, Saves,
        SavingFails, Leave
<1>6. CASE MemoryLost
  BY <1>6 DEF MemoryLost
<1> QED
  BY <1>1, <1>2, <1>3, <1>4, <1>5, <1>6
  DEF Next, Outside, EntryFills, EntryRegisters, Dispatching, CompensationBegins,
      CompensationSucceeds, CompensationFails, SyncReads, SyncAsks, SyncMarksRow,
      SyncBreaksOff, EmergencyBegins, EmergencyProceeds, EmergencyCloses,
      ProcessEnds, ProcessStarts, StartupSyncs, StartupFails, SessionStarts, vars

\* The session stops at the threshold, neither earlier nor later.
THEOREM KillSwitchStopsExactly == SafeSpec => []KillSwitchExact
<1>1. Init => KillInv
  BY BreakerAssumption DEF Init, BreakerInit, DispatchInit, KillInv
<1>2. TypeOK /\ KillInv /\ [Next]_vars => KillInv'
  BY KillInvStep
<1>3. TypeOK /\ KillInv => KillSwitchExact
  BY BreakerAssumption DEF KillInv, KillSwitchExact, TypeOK, BreakerTypeOK
<1> QED
  BY <1>1, <1>2, <1>3, TypeCorrect, PTL DEF SafeSpec

-----------------------------------------------------------------------------
(* Refinement. *)

LEMMA OneMoves ==
  ASSUME TypeOK, [Next]_vars
  PROVE  \/ UNCHANGED <<broker, row>>
         \/ \E p \in Positions : \A q \in Positions \ {p} :
              broker'[q] = broker[q] /\ row'[q] = row[q]
<1> DEFINE Only(p) == \A q \in Positions \ {p} :
                        broker'[q] = broker[q] /\ row'[q] = row[q]
<1> USE DEF TypeOK, StoresTypeOK, storeVars
<1>1. ASSUME NEW p \in Positions,
             \/ CloseAtBroker(p) /\ UNCHANGED row
             \/ EntryExecutes(p)
             \/ (InsertRow(p) \/ UpdateRow(p) \/ MarkRowClosed(p)) /\ UNCHANGED broker
      PROVE  Only(p)
  BY <1>1 DEF CloseAtBroker, EntryExecutes, InsertRow, UpdateRow, MarkRowClosed
<1>2. ASSUME NEW p \in Positions,
             \/ StrayOrderExecutes(p) \/ ClosedOutside(p) \/ EntryFills(p)
             \/ EntryRegisters(p) \/ DispatchStep(p) \/ RetrySucceeds(p)
             \/ RetryFails(p) \/ EmTaskStep(p)
      PROVE  UNCHANGED <<broker, row>> \/ Only(p)
  BY <1>1, <1>2
  DEF StrayOrderExecutes, ClosedOutside, EntryFills, EntryRegisters, DispatchStep,
      Skips, RuleThrows, Fires, Sends, FindingFails, OrderExecutes, OrderFails,
      AnswerLost, Answered, Saves, SavingFails, Notified, AbandonOrder,
      RetrySucceeds, RetryFails, WriteEntry, EmTaskStep, EmOrderExecutes,
      EmOrderFails, EmAnswerLost, EmAnswered, EmSaves, EmSavingFails
<1>3. ASSUME NEW r \in SyncRuns, SyncMarksRow(r) \/ SyncBreaksOff(r)
      PROVE  UNCHANGED <<broker, row>> \/ \E p \in Positions : Only(p)
  <2>1. syncSet[r] \subseteq Positions
    BY DEF SyncTypeOK
  <2> QED
    BY <1>1, <1>3, <2>1 DEF SyncMarksRow, SyncBreaksOff, SyncMarks, SyncFails
<1> QED
  BY <1>2, <1>3
  DEF Next, Outside, Dispatching, TickArrives, DispatchLists, DispatchListFails,
      DispatchEnds, CompensationBegins, DrainStarts, CompensationSucceeds,
      CompensationFails, SyncReads, SyncReadsRows, SyncAsks, SyncAsksBroker,
      EmergencyBegins, EmRequested, EmergencyProceeds, EmLists, EmListingFails,
      EmTimesOut, EmSettled, EmergencyCloses, ProcessEnds, ProcessStarts, StartupSyncs,
      StartupFails, SessionStarts, MemoryLost, vars

\* The life of one position in terms of its account and its row.
LEMMA LifeCases ==
  ASSUME StoresTypeOK, NEW p \in Positions
  PROVE  /\ row[p] = "absent" =>
              lifeOf[p] = IF broker[p] = "none" THEN "unfilled" ELSE "unregistered"
         /\ row[p] = "open" =>
              lifeOf[p] = IF broker[p] = "open" THEN "held" ELSE "ghost"
         /\ row[p] \in ClosedRow => lifeOf[p] = "recorded"
BY DEF lifeOf, StoresTypeOK, RowState, ClosedRow

LEMMA LifeCasesNext ==
  ASSUME StoresTypeOK', NEW p \in Positions
  PROVE  /\ row'[p] = "absent" =>
              lifeOf'[p] = IF broker'[p] = "none" THEN "unfilled" ELSE "unregistered"
         /\ row'[p] = "open" =>
              lifeOf'[p] = IF broker'[p] = "open" THEN "held" ELSE "ghost"
         /\ row'[p] \in ClosedRow => lifeOf'[p] = "recorded"
BY DEF lifeOf, StoresTypeOK, RowState, ClosedRow

\* What a step does to the life of one position.
LEMMA LifeMoves ==
  ASSUME TypeOK, TypeOK', StoreInv, StoreInv', [Next]_vars, NEW p \in Positions
  PROVE  \/ lifeOf'[p] = lifeOf[p]
         \/ lifeOf[p] = "unfilled" /\ lifeOf'[p] = "unregistered"
         \/ lifeOf[p] = "unregistered" /\ lifeOf'[p] \in {"held", "ghost"}
         \/ lifeOf[p] = "held" /\ lifeOf'[p] = "ghost"
         \/ lifeOf[p] = "ghost" /\ lifeOf'[p] = "recorded"
<1> USE LifeCases, LifeCasesNext DEF TypeOK, StoresTypeOK, BrokerState, RowState,
    ClosedRow
<1>1. Forward(p)
  BY StoresForward
<1>2. CASE row[p] = "absent"
  <2>1. row'[p] # "absent" => row'[p] = "open" /\ broker[p] # "none"
    BY <1>2, RowAppears DEF StoreInv, RowsHavePositions
  <2> QED
    BY <1>1, <1>2, <2>1 DEF Forward
<1>3. CASE row[p] = "open"
  <2>1. broker[p] # "none" /\ (row'[p] \in ClosedRow => broker[p] = "closed")
    BY <1>3, RowClosesLate DEF StoreInv, RowsHavePositions
  <2> QED
    BY <1>1, <1>3, <2>1 DEF Forward
<1>4. CASE row[p] \in ClosedRow
  BY <1>1, <1>4 DEF Forward
<1> QED
  BY <1>2, <1>3, <1>4

\* Seen as a life, every step of the exit side is one that PositionLife allows:
\* accounts and rows only move forward, one position at a time, and a row is
\* CLOSED only after the position was a ghost.
THEOREM ExitSideImplementsLife == SafeSpec => Abstract!SafeLife
<1> DEFINE InvNow == TypeOK /\ StoreInv
<1>1. Init => Abstract!LifeInit
  BY DEF Init, StoresInit, lifeOf, Abstract!LifeInit
<1>2. InvNow /\ InvNow' /\ [Next]_vars => [Abstract!LifeNext]_lifeOf
  <2> SUFFICES ASSUME InvNow, InvNow', [Next]_vars, lifeOf' # lifeOf
               PROVE  Abstract!LifeNext
    OBVIOUS
  <2> lifeOf = [p \in Positions |-> lifeOf[p]] /\ lifeOf' = [p \in Positions |-> lifeOf'[p]]
    BY DEF lifeOf
  <2>1. ~UNCHANGED <<broker, row>>
    BY DEF lifeOf
  <2>2. PICK p \in Positions : \A q \in Positions \ {p} :
               broker'[q] = broker[q] /\ row'[q] = row[q]
    BY <2>1, OneMoves
  <2>3. \A q \in Positions \ {p} : lifeOf'[q] = lifeOf[q]
    BY <2>2 DEF lifeOf
  <2>4. lifeOf' = [lifeOf EXCEPT ![p] = lifeOf'[p]]
    BY <2>3
  <2>5. lifeOf'[p] # lifeOf[p]
    BY <2>3
  <2> QED
    BY <2>4, <2>5, LifeMoves
    DEF Abstract!LifeNext, Abstract!Fill, Abstract!Register, Abstract!Settle,
        Abstract!Record, Abstract!MovesFrom
<1> QED
  BY <1>1, <1>2, TypeCorrect, StoresConsistent, PTL DEF SafeSpec, Abstract!SafeLife

=============================================================================
