------------------------ MODULE EntryPipelineProofs -------------------------
(***************************************************************************)
(* What EntryPipeline guarantees for any number of commands, strategies    *)
(* and termination signals and any TTL: its types, that stop is final, and *)
(* that no position at GMO is taken for a success without a row.           *)
(***************************************************************************)
EXTENDS EntryPipeline, TLAPS

-----------------------------------------------------------------------------
(* Types. *)

LEMMA QueueTyped ==
  ASSUME EntryQueueTypeOK, [Next]_vars
  PROVE  EntryQueueTypeOK'
<1> USE EntryQueueAssumption
    DEF EntryQueueTypeOK, CommandState, OrderState, Becomes, Shift
<1>1. CASE UNCHANGED entryQueueVars
  BY <1>1 DEF entryQueueVars
<1>2. ASSUME NEW c \in Commands, Enqueue(c)
      PROVE  EntryQueueTypeOK'
  BY <1>2 DEF Enqueue, Accepts
<1>3. CASE TimePasses
  BY <1>3 DEF TimePasses
<1>4. ASSUME NEW c \in Commands, DrainExpires(c) \/ DrainSends(c)
      PROVE  EntryQueueTypeOK'
  BY <1>4 DEF DrainExpires, DrainSends
<1>5. ASSUME NEW c \in Commands,
             \/ OrderGivenUp(c) \/ OrderAnswered(c) \/ InsertsPosition(c)
             \/ InsertsSnapshot(c) \/ RegisterFails(c) \/ Dropped(c) \/ OrderRefused(c)
      PROVE  EntryQueueTypeOK'
  BY <1>5 DEF OrderGivenUp, OrderAnswered, InsertsPosition, InsertsSnapshot,
              RegisterFails, LeftByFailure, Dropped, OrderRefused
<1>6. CASE StopBegins \/ StopDrainDone \/ StopReturns
  BY <1>6 DEF StopBegins, StopDrainDone, StopReturns
<1>7. ASSUME NEW c \in Commands, DropsAtShutdown(c)
      PROVE  EntryQueueTypeOK'
  BY <1>7 DEF DropsAtShutdown
<1>8. ASSUME NEW c \in Commands, GmoExecutes(c) \/ PositionExits(c)
      PROVE  EntryQueueTypeOK'
  BY <1>8 DEF GmoExecutes, PositionExits
<1>9. QED
  BY <1>1, <1>2, <1>3, <1>4, <1>5, <1>6, <1>7, <1>8
  DEF Next, vars, PositionManagerStep, TickBegins, TickEnds, KillSwitch,
      KillSwitchDone, Detects, ReadsContext, Allocated, Sizes, EnqueuesCommand,
      EnqueueIgnored, LoopEnds, PreCheckClear, PreCheckSkips, DrainTimer,
      DrainProceeds, StopProceeds, ShutdownStep, ShutdownBegins,
      SessionStopped, ProcessExits, Outside

LEMMA PipelineTyped ==
  ASSUME TypeOK, [Next]_vars
  PROVE  TypeOK'
<1>1. EntryQueueTypeOK'
  BY QueueTyped DEF TypeOK
<1>2. ASSUME NEW c \in Commands, cmd[c] = "none", cmd'[c] # "none"
      PROVE  EnqueuesCommand /\ Enqueue(c)
  BY <1>2
  DEF Next, vars, entryQueueVars, TypeOK, EntryQueueTypeOK, Becomes, Shift,
      PositionManagerStep, TickBegins, TickEnds, KillSwitch,
      KillSwitchDone, Detects, ReadsContext, Allocated, Sizes, EnqueuesCommand, Enqueue,
      Accepts, EnqueueIgnored, LoopEnds, PreCheckClear, PreCheckSkips,
      DrainTimer, DrainExpires, DrainSends, QueueHead,
      DrainProceeds, OrderGivenUp, OrderAnswered, InsertsPosition, InsertsSnapshot,
      RegisterFails, Dropped, StopProceeds, StopBegins, StopDrainDone, StopReturns,
      DropsAtShutdown, ShutdownStep, ShutdownBegins, SessionStopped,
      ProcessExits, Outside, TimePasses, GmoExecutes, OrderRefused,
      PositionExits
<1> DEFINE PmTypeOK ==
      /\ strategy \in [Commands -> Strategies \cup {"none"}]
      /\ pmPc \in PmPc
      /\ pmTodo \subseteq Strategies
      /\ pmNow \in Strategies \cup {"none"}
      /\ pmPc = "checked" => pmNow \in Strategies
<1>3. PmTypeOK'
  <2> USE DEF TypeOK, PmPc
  <2>1. CASE UNCHANGED pmVars
    BY <2>1 DEF pmVars
  <2>2. CASE PositionManagerStep
    BY <2>2 DEF PositionManagerStep, TickBegins, TickEnds, KillSwitch,
                KillSwitchDone, Detects, ReadsContext, Allocated, Sizes, EnqueuesCommand,
                LoopEnds, PreCheckClear, PreCheckSkips
  <2>3. QED
    BY <2>1, <2>2 DEF Next, vars, pmVars, ShutdownStep, ShutdownBegins,
      SessionStopped, ProcessExits, DrainTimer, DrainProceeds, StopProceeds,
      Outside
<1>4. ASSUME NEW c \in Commands, cmd'[c] # "none"
      PROVE  strategy'[c] \in Strategies
  <2>1. CASE cmd[c] = "none"
    BY <1>2, <1>4, <2>1 DEF EnqueuesCommand, TypeOK, Enqueue, Accepts, Becomes,
                            EnqueueIgnored, EntryQueueTypeOK, entryQueueVars
  <2>2. CASE cmd[c] # "none"
    <3>1. strategy[c] \in Strategies
      BY <2>2 DEF TypeOK
    <3>2. CASE UNCHANGED strategy
      BY <3>1, <3>2
    <3>3. CASE EnqueuesCommand
      BY <3>1, <3>3 DEF EnqueuesCommand, TypeOK
    <3>4. QED
      BY <3>2, <3>3 DEF Next, vars, pmVars, PositionManagerStep, TickBegins,
        TickEnds, KillSwitch, KillSwitchDone, Detects, ReadsContext, Allocated, Sizes,
        LoopEnds, PreCheckClear, PreCheckSkips, ShutdownStep, ShutdownBegins,
        SessionStopped, ProcessExits, DrainTimer, DrainProceeds, StopProceeds,
        Outside
  <2>3. QED
    BY <2>1, <2>2
<1>5. stopped' \in BOOLEAN /\ alive' \in BOOLEAN
      /\ shut' \in [Signals -> {"none", "stopping", "closing"}]
  BY DEF TypeOK, Next, vars, pmVars, shutVars, PositionManagerStep, TickBegins,
    TickEnds, KillSwitch, KillSwitchDone, Detects, ReadsContext, Allocated, Sizes,
    EnqueuesCommand, LoopEnds, PreCheckClear, PreCheckSkips, ShutdownStep,
    ShutdownBegins, SessionStopped, ProcessExits, DrainTimer, DrainProceeds,
    StopProceeds, Outside
<1>6. QED
  BY <1>1, <1>3, <1>4, <1>5 DEF TypeOK

\* Every variable keeps its type, and every accepted command has a strategy.
THEOREM PipelineTypeCorrect == Spec => []TypeOK
<1>1. Init => TypeOK
  <2> SUFFICES ASSUME Init
               PROVE  TypeOK
    OBVIOUS
  <2>1. EntryQueueTypeOK
    BY EntryQueueAssumption
    DEF Init, EntryQueueInit, EntryQueueTypeOK, CommandState, OrderState
  <2>2. \A c \in Commands : cmd[c] = "none"
    BY DEF Init, EntryQueueInit
  <2>3. stopped \in BOOLEAN /\ alive \in BOOLEAN
    BY Zenon DEF Init
  <2>4. QED
    BY <2>1, <2>2, <2>3 DEF Init, TypeOK, PmPc
<1>2. QED
  BY <1>1, PipelineTyped, PTL DEF Spec

-----------------------------------------------------------------------------
(* The inductive invariant of queue, orders and rows. *)

\* From the moment stop has found no drain running, none runs again.
NoDrainBehindStop ==
  stopPc \in {"dropping", "done"} =>
    \A c \in Commands : cmd[c] \notin {"sending", "filled", "inserted"}

\* What openPosition knows of its order at each of its awaits.
OrdersMatchCommands ==
  \A c \in Commands :
    /\ cmd[c] \in {"none", "queued"} => order[c] = "none"
    /\ order[c] = "working" => cmd[c] \in {"sending", "dropping", "expired"}

EntryInv == NoDrainBehindStop /\ StopIsFinal /\ OrdersMatchCommands /\ HeldIsKnown

LEMMA EntryInvKept ==
  ASSUME TypeOK, EntryInv, [Next]_vars
  PROVE  EntryInv'
<1> USE DEF TypeOK, EntryQueueTypeOK, CommandState, OrderState, EntryInv,
            NoDrainBehindStop, StopIsFinal, OrdersMatchCommands, HeldIsKnown,
            InHand, Draining, Becomes, Shift
<1>1. CASE UNCHANGED entryQueueVars
  BY <1>1 DEF entryQueueVars
<1>2. ASSUME NEW c \in Commands, Enqueue(c)
      PROVE  EntryInv'
  BY <1>2 DEF Enqueue, Accepts
<1>3. CASE TimePasses
  BY <1>3 DEF TimePasses
<1>4. ASSUME NEW c \in Commands, DrainExpires(c) \/ DrainSends(c)
      PROVE  EntryInv'
  BY <1>4 DEF DrainExpires, DrainSends, QueueHead
<1>5. ASSUME NEW c \in Commands,
             \/ OrderGivenUp(c) \/ OrderAnswered(c) \/ InsertsPosition(c)
             \/ InsertsSnapshot(c) \/ RegisterFails(c) \/ Dropped(c) \/ OrderRefused(c)
      PROVE  EntryInv'
  BY <1>5 DEF OrderGivenUp, OrderAnswered, InsertsPosition, InsertsSnapshot,
              RegisterFails, LeftByFailure, Dropped, OrderRefused
<1>6. CASE StopBegins \/ StopDrainDone \/ StopReturns
  BY <1>6 DEF StopBegins, StopDrainDone, StopReturns
<1>7. ASSUME NEW c \in Commands, DropsAtShutdown(c)
      PROVE  EntryInv'
  BY <1>7 DEF DropsAtShutdown, QueueHead
<1>8. ASSUME NEW c \in Commands, GmoExecutes(c) \/ PositionExits(c)
      PROVE  EntryInv'
  BY <1>8 DEF GmoExecutes, PositionExits
<1>9. QED
  BY <1>1, <1>2, <1>3, <1>4, <1>5, <1>6, <1>7, <1>8
  DEF Next, vars, PositionManagerStep, TickBegins, TickEnds, KillSwitch,
      KillSwitchDone, Detects, ReadsContext, Allocated, Sizes, EnqueuesCommand,
      EnqueueIgnored, LoopEnds, PreCheckClear, PreCheckSkips, DrainTimer,
      DrainProceeds, StopProceeds, ShutdownStep, ShutdownBegins,
      SessionStopped, ProcessExits, Outside

LEMMA EntryInvHolds == Spec => []EntryInv
<1>1. Init => EntryInv
  BY DEF Init, EntryQueueInit, EntryInv, NoDrainBehindStop, StopIsFinal,
         OrdersMatchCommands, HeldIsKnown
<1>2. QED
  BY <1>1, EntryInvKept, PipelineTypeCorrect, PTL DEF Spec

\* After EntryQueue.stop has returned, nothing is queued or on its way again.
THEOREM StopFinal == Spec => []StopIsFinal
<1>1. EntryInv => StopIsFinal
  BY DEF EntryInv
<1>2. QED
  BY <1>1, EntryInvHolds, PTL

\* No position at GMO without a row passes for a placed entry, whichever await of
\* placeEntry and register fails and whatever the failed statement has written.
THEOREM HeldPositionsKnown == Spec => []HeldIsKnown
<1>1. EntryInv => HeldIsKnown
  BY DEF EntryInv
<1>2. QED
  BY <1>1, EntryInvHolds, PTL
=============================================================================
