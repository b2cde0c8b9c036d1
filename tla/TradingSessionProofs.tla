------------------------ MODULE TradingSessionProofs ------------------------
(***************************************************************************)
(* What MarketStream guarantees for any number of sockets, any time limit  *)
(* and any limit of the wait; what TradingSession guarantees for any       *)
(* limits of age, delays, balances, rates and number of strategies; and    *)
(* that the steps of the session are steps of the connection or leave it   *)
(* alone.                                                                  *)
(***************************************************************************)
EXTENDS TradingSession, FoldTheorems

-----------------------------------------------------------------------------
(* The connection by itself: MarketStream.                                 *)

\* Numbers stay within the limit of the wait.
LEMMA CappedTyped ==
  ASSUME NEW n \in Nat
  PROVE  Capped(n) \in 0 .. MaxLevel
BY StreamAssumption DEF Capped

\* One call of scheduleReconnect, or none.
LEMMA SchedulesOnce ==
  ASSUME TypeOK, NEW condition, Schedules(Times(condition))
  PROVE  /\ timer' \in 0 .. MaxLevel \cup {NoTimer} /\ attempts' \in 0 .. MaxLevel
         /\ condition => timer' \in 0 .. MaxLevel /\ attempts' = Capped(attempts + 1)
         /\ ~condition => UNCHANGED <<timer, attempts>>
<1>1. CASE condition
  <2>1. Times(condition) = 1
    BY <1>1 DEF Times
  <2>2. timer' = Capped(attempts + 1 - 1) /\ attempts' = Capped(attempts + 1)
    BY <2>1 DEF Schedules
  <2>3. attempts + 1 - 1 \in Nat /\ attempts + 1 \in Nat
    BY StreamAssumption DEF TypeOK
  <2> QED
    BY <1>1, <2>2, <2>3, CappedTyped
<1>2. CASE ~condition
  <2>1. Times(condition) = 0
    BY <1>2 DEF Times
  <2>2. UNCHANGED <<timer, attempts>>
    BY <2>1 DEF Schedules
  <2> QED
    BY <1>2, <2>2 DEF TypeOK
<1> QED
  BY <1>1, <1>2

\* The catch after a failed handshake always finds what the close event has set.
LEMMA HandshakeSchedulesOnce ==
  ASSUME NEW s \in Sockets, HandshakeFails(s)
  PROVE  Schedules(Times(CloseSchedules))
<1>1. ~CatchSchedules(CloseSchedules \/ timer # NoTimer)
  BY DEF CatchSchedules, CloseSchedules
<1>2. PICK rejects \in BOOLEAN :
        Schedules(Times(CloseSchedules) +
                  Times(/\ rejects /\ session # "starting"
                        /\ CatchSchedules(CloseSchedules \/ timer # NoTimer)))
  BY DEF HandshakeFails
<1>3. Times(/\ rejects /\ session # "starting"
            /\ CatchSchedules(CloseSchedules \/ timer # NoTimer)) = 0
  BY <1>1 DEF Times
<1>4. Times(CloseSchedules) \in {0, 1}
  BY DEF Times
<1>5. Times(CloseSchedules) + 0 = Times(CloseSchedules)
  BY <1>4
<1> QED
  BY <1>2, <1>3, <1>5

\* Closing and failing lengthen the history by one.
LEMMA EndedTyped ==
  ASSUME TypeOK
  PROVE  Capped(ended + 1) \in 0 .. MaxLevel
<1>1. ended + 1 \in Nat
  BY StreamAssumption DEF TypeOK
<1> QED
  BY <1>1, CappedTyped

LEMMA StreamTyped ==
  ASSUME TypeOK, [Next]_vars
  PROVE  TypeOK'
<1> USE StreamAssumption
<1> USE DEF TypeOK, chainVars, watchVars, Sessions, Running
<1>1. CASE UNCHANGED vars
  BY <1>1 DEF vars
<1>2. ASSUME NEW s \in Sockets, Starts(s)
      PROVE  TypeOK'
  BY <1>2 DEF Starts, NewSocket
<1>3. ASSUME NEW s \in Sockets, Reconnects(s)
      PROVE  TypeOK'
  BY <1>3 DEF Reconnects, NewSocket
<1>4. ASSUME NEW s \in Sockets, Opens(s)
      PROVE  TypeOK'
  BY <1>4 DEF Opens, StartPingWatch
<1>5. ASSUME NEW s \in Sockets, HandshakeFails(s)
      PROVE  TypeOK'
  <2>1. Schedules(Times(CloseSchedules))
    BY <1>5, HandshakeSchedulesOnce
  <2>2. session' \in Sessions
    BY <1>5 DEF HandshakeFails
  <2> QED
    <3>1. watch' \in BOOLEAN
      BY <1>5, Zenon DEF HandshakeFails, StopPingWatch
    <3>2. timer' \in 0 .. MaxLevel \cup {NoTimer} /\ attempts' \in 0 .. MaxLevel
      BY <2>1, SchedulesOnce
    <3>3. ended' \in 0 .. MaxLevel /\ silent' = 0
      BY <1>5, EndedTyped DEF HandshakeFails, StopPingWatch
    <3>4. sock' \in [Sockets -> {"idle", "connecting", "open", "closing"}]
      BY <1>5 DEF HandshakeFails
    <3> QED
      BY <1>5, <2>2, <3>1, <3>2, <3>3, <3>4 DEF HandshakeFails
<1>6. ASSUME NEW s \in Sockets, ServerPings(s) \/ LinkDies(s) \/ SocketErrs(s)
      PROVE  TypeOK'
  BY <1>6 DEF ServerPings, LinkDies, SocketErrs
<1>7. ASSUME NEW s \in Sockets, Closes(s)
      PROVE  TypeOK'
  <2>1. Schedules(Times(CloseSchedules))
    BY <1>7 DEF Closes
  <2> QED
    <3>1. watch' \in BOOLEAN
      BY <1>7, Zenon DEF Closes, StopPingWatch
    <3>2. timer' \in 0 .. MaxLevel \cup {NoTimer} /\ attempts' \in 0 .. MaxLevel
      BY <2>1, SchedulesOnce
    <3>3. ended' \in 0 .. MaxLevel /\ silent' = 0
      BY <1>7, EndedTyped DEF Closes, StopPingWatch
    <3> QED
      BY <1>7, <3>1, <3>2, <3>3 DEF Closes
<1>8. CASE StartThrows
  BY <1>8 DEF StartThrows
<1>9. CASE ReconnectThrows
  <2>1. Schedules(Times(CatchSchedules(FALSE)))
    BY <1>9 DEF ReconnectThrows
  <2> QED
    BY <1>9, <2>1, SchedulesOnce, EndedTyped DEF ReconnectThrows
<1>10. CASE WatchChecks \/ WatchTerminates
  BY <1>10 DEF WatchChecks, WatchTerminates, Watching, NoSocket
<1>11. CASE Disconnects
  <2>1. watch' \in BOOLEAN /\ intentional' \in BOOLEAN
    BY <1>11, Zenon DEF Disconnects, StopPingWatch
  <2>2. sock' \in [Sockets -> {"idle", "connecting", "open", "closing"}]
    BY <1>11 DEF Disconnects
  <2> QED
    BY <1>11, <2>1, <2>2 DEF Disconnects, StopPingWatch, ClearTimer
<1> QED
  BY <1>1, <1>2, <1>3, <1>4, <1>5, <1>6, <1>7, <1>8, <1>9, <1>10, <1>11 DEF Next, Events

\* TypeOK, for any limits: the wait before a reconnection stays limited.
THEOREM StreamTypeCorrect == SafeSpec => []TypeOK
<1>1. Init => TypeOK
  <2>1. Init => watch \in BOOLEAN /\ intentional \in BOOLEAN
    BY Zenon DEF Init
  <2> QED
    BY <2>1, StreamAssumption DEF Init, TypeOK, Sessions, NoTimer, NoSocket
<1> QED
  BY <1>1, StreamTyped, PTL DEF SafeSpec

-----------------------------------------------------------------------------
(* The chain. *)

\* What a handler may rely on: the client means to be connected from start until
\* it is stopped, has no socket before it starts, has only the first attempt
\* while start waits for it, and any socket is that of ws.
Meaning ==
  /\ session = "stopped" => intentional
  /\ intentional => session \in {"off", "stopped"}
  /\ session = "off" =>
       timer = NoTimer /\ ~watch /\ \A s \in Sockets : sock[s] = "idle"
  /\ \A s \in Sockets : sock[s] # "idle" /\ session # "stopped" => ws = s
  /\ session = "starting" =>
       timer = NoTimer /\ \A s \in Sockets : sock[s] \in {"idle", "connecting"}

ChainInv == Meaning /\ OneChain /\ WayBack /\ StaysDown /\ WatchFollowsSocket

LEMMA ChainInvStep ==
  ASSUME TypeOK, ChainInv, [Next]_vars
  PROVE  ChainInv'
<1> USE StreamAssumption
<1> USE DEF ChainInv, Meaning, OneChain, WayBack, StaysDown, WatchFollowsSocket,
            chainVars, watchVars, Running
<1>0. NoTimer \notin 0 .. MaxLevel
  BY DEF NoTimer
<1>1. CASE UNCHANGED vars
  BY <1>1 DEF vars
<1>2. ASSUME NEW s \in Sockets, Starts(s)
      PROVE  ChainInv'
  BY <1>2 DEF Starts, NewSocket, TypeOK
<1>3. ASSUME NEW s \in Sockets, Reconnects(s)
      PROVE  ChainInv'
  BY <1>3 DEF Reconnects, NewSocket, TypeOK
<1>4. ASSUME NEW s \in Sockets, Opens(s)
      PROVE  ChainInv'
  <2>1. /\ sock[s] = "connecting" /\ sock' = [sock EXCEPT ![s] = "open"]
        /\ watch' = TRUE /\ UNCHANGED <<ws, intentional, timer>>
        /\ session # "failed" /\ session' \in {session, "live"}
        /\ session # "starting" => session' = session
        /\ session = "starting" => session' = "live"
    BY <1>4 DEF Opens, StartPingWatch
  <2>2. timer = NoTimer /\ ws = s /\ session # "stopped" /\ session # "off"
        /\ \A t \in Sockets : sock[t] # "idle" => t = s
    BY <2>1
  <2>3. sock'[s] = "open" /\ \A t \in Sockets : t # s => sock'[t] = "idle"
    BY <2>1, <2>2 DEF TypeOK
  <2>4. Meaning' /\ OneChain'
    BY <2>1, <2>2, <2>3
  <2>5. WayBack' /\ StaysDown'
    BY <2>1, <2>2, <2>3
  <2>6. WatchFollowsSocket'
    BY <2>1, <2>2, <2>3 DEF NoSocket
  <2> QED
    BY <2>4, <2>5, <2>6
<1>5. ASSUME NEW s \in Sockets, HandshakeFails(s)
      PROVE  ChainInv'
  <2>1. Schedules(Times(CloseSchedules))
    BY <1>5, HandshakeSchedulesOnce
  <2>2. /\ timer' \in 0 .. MaxLevel \cup {NoTimer}
        /\ CloseSchedules => timer' # NoTimer
        /\ ~CloseSchedules => timer' = timer
    BY <1>0, <2>1, SchedulesOnce
  <2>3. /\ sock' = [sock EXCEPT ![s] = "idle"] /\ sock[s] = "connecting" /\ watch' = FALSE
        /\ UNCHANGED <<ws, intentional>> /\ session # "failed"
    BY <1>5 DEF HandshakeFails, StopPingWatch
  <2>4. /\ session # "starting" => session' = session
        /\ session = "starting" => session' \in {"failed", "unanswered"}
    BY <1>5 DEF HandshakeFails
  <2>5. /\ timer = NoTimer /\ session # "stopped" /\ session # "off"
        /\ \A t \in Sockets : sock[t] # "idle" => t = s
    BY <2>3
  <2>6. timer' # NoTimer
    BY <2>2, <2>5 DEF CloseSchedules
  <2>7. \A t \in Sockets : sock'[t] = "idle"
    BY <2>3, <2>5 DEF TypeOK
  <2>8. session' \notin {"off", "starting", "stopped"}
    BY <2>4, <2>5
  <2> QED
    BY <2>3, <2>5, <2>6, <2>7, <2>8
<1>6. ASSUME NEW s \in Sockets, ServerPings(s) \/ LinkDies(s)
      PROVE  ChainInv'
  BY <1>6 DEF ServerPings, LinkDies
<1>7. ASSUME NEW s \in Sockets, SocketErrs(s)
      PROVE  ChainInv'
  BY <1>7 DEF SocketErrs, TypeOK
<1>8. ASSUME NEW s \in Sockets, Closes(s)
      PROVE  ChainInv'
  <2>1. Schedules(Times(CloseSchedules))
    BY <1>8 DEF Closes
  <2>2. /\ timer' \in 0 .. MaxLevel \cup {NoTimer}
        /\ CloseSchedules => timer' # NoTimer
        /\ ~CloseSchedules => timer' = timer
    BY <1>0, <2>1, SchedulesOnce
  <2>3. /\ sock' = [sock EXCEPT ![s] = "idle"] /\ sock[s] \in {"closing", "open"}
        /\ watch' = FALSE /\ UNCHANGED <<ws, intentional, session>>
    BY <1>8 DEF Closes, StopPingWatch
  <2>4. timer = NoTimer /\ session \notin {"off", "starting"}
        /\ \A t \in Sockets : sock[t] # "idle" => t = s
    BY <2>3
  <2>5. (session = "stopped" => timer' = NoTimer) /\ (session # "stopped" => timer' # NoTimer)
    BY <2>2, <2>4 DEF CloseSchedules
  <2>6. \A t \in Sockets : sock'[t] = "idle"
    BY <2>3, <2>4 DEF TypeOK
  <2> QED
    BY <2>3, <2>4, <2>5, <2>6
<1>9. CASE StartThrows
  BY <1>9 DEF StartThrows
<1>10. CASE ReconnectThrows
  <2>1. Schedules(Times(CatchSchedules(FALSE)))
    BY <1>10 DEF ReconnectThrows
  <2>2. CatchSchedules(FALSE) => timer' # NoTimer
    BY <1>0, <2>1, SchedulesOnce
  <2>3. ~intentional => timer' # NoTimer
    BY <2>2 DEF CatchSchedules
  <2> QED
    BY <1>10, <2>3 DEF ReconnectThrows
<1>11. CASE WatchChecks
  BY <1>11 DEF WatchChecks
<1>12. CASE WatchTerminates
  BY <1>12 DEF WatchTerminates, Watching, TypeOK
<1>13. CASE Disconnects
  BY <1>13 DEF Disconnects, StopPingWatch, ClearTimer, TypeOK
<1> QED
  BY <1>1, <1>2, <1>3, <1>4, <1>5, <1>6, <1>7, <1>8, <1>9, <1>10, <1>11, <1>12, <1>13
  DEF Next, Events

LEMMA ChainInvHolds == SafeSpec => []ChainInv
<1>1. Init => ChainInv
  BY DEF Init, ChainInv, Meaning, OneChain, WayBack, StaysDown, WatchFollowsSocket
<1> QED
  BY <1>1, ChainInvStep, StreamTypeCorrect, PTL DEF SafeSpec

\* One connection, one attempt or one timer: no tick is ever processed twice.
THEOREM ChainIsSingle == SafeSpec => []OneChain
BY ChainInvHolds, PTL DEF ChainInv

\* Until disconnect the client is never without a connection, attempt or timer.
THEOREM AlwaysAWayBack == SafeSpec => []WayBack
BY ChainInvHolds, PTL DEF ChainInv

\* After disconnect no late event brings anything back.
THEOREM StoppedStaysDown == SafeSpec => []StaysDown
BY ChainInvHolds, PTL DEF ChainInv

\* The watch belongs to the socket that is open and is not left behind.
THEOREM WatchIsOfSocket == SafeSpec => []WatchFollowsSocket
BY ChainInvHolds, PTL DEF ChainInv

-----------------------------------------------------------------------------
(* The wait grows by one level for each failure. *)

LEMMA BackoffStep ==
  ASSUME TypeOK, ChainInv, BackoffCounts, [Next]_vars
  PROVE  BackoffCounts'
<1> USE DEF BackoffCounts, chainVars
<1>1. CASE UNCHANGED vars
  BY <1>1 DEF vars
<1>2. ASSUME NEW s \in Sockets, HandshakeFails(s)
      PROVE  BackoffCounts'
  <2>1. sock[s] = "connecting" /\ session # "failed" /\ ended' = Capped(ended + 1)
    BY <1>2 DEF HandshakeFails, Running
  <2>2. timer = NoTimer /\ ~intentional
    BY <2>1 DEF ChainInv, Meaning, OneChain, StaysDown
  <2>3. CloseSchedules
    BY <2>2 DEF CloseSchedules
  <2>4. Schedules(Times(CloseSchedules))
    BY <1>2, HandshakeSchedulesOnce
  <2> QED
    BY <2>1, <2>3, <2>4, SchedulesOnce
<1>3. ASSUME NEW s \in Sockets, Closes(s)
      PROVE  BackoffCounts'
  <2>1. Schedules(Times(CloseSchedules)) /\ sock[s] # "idle"
    BY <1>3 DEF Closes
  <2>2. timer = NoTimer
    BY <2>1 DEF ChainInv, OneChain
  <2>3. CASE intentional
    <3>1. ended' = ended /\ ~CloseSchedules
      BY <1>3, <2>3 DEF Closes, CloseSchedules
    <3> QED
      BY <2>1, <3>1, SchedulesOnce
  <2>4. CASE ~intentional
    <3>1. ended' = Capped(ended + 1) /\ CloseSchedules
      BY <1>3, <2>2, <2>4 DEF Closes, CloseSchedules
    <3> QED
      BY <2>1, <3>1, SchedulesOnce
  <2> QED
    BY <2>3, <2>4
<1>4. CASE ReconnectThrows
  <2>1. /\ timer # NoTimer /\ ended' = Capped(ended + 1)
        /\ Schedules(Times(CatchSchedules(FALSE)))
    BY <1>4 DEF ReconnectThrows
  <2>2. CatchSchedules(FALSE)
    BY <2>1 DEF ChainInv, Meaning, StaysDown, CatchSchedules
  <2> QED
    BY <2>1, <2>2, SchedulesOnce
<1>5. ASSUME NEW s \in Sockets,
             Starts(s) \/ Reconnects(s) \/ ServerPings(s) \/ LinkDies(s) \/ SocketErrs(s)
      PROVE  BackoffCounts'
  BY <1>5 DEF Starts, Reconnects, ServerPings, LinkDies, SocketErrs
<1>6. ASSUME NEW s \in Sockets, Opens(s)
      PROVE  BackoffCounts'
  BY <1>6 DEF Opens
<1>7. CASE StartThrows \/ WatchChecks \/ WatchTerminates \/ Disconnects
  BY <1>7 DEF StartThrows, WatchChecks, WatchTerminates, Disconnects
<1> QED
  BY <1>1, <1>2, <1>3, <1>4, <1>5, <1>6, <1>7 DEF Next, Events

\* "The counter does not advance twice for one failure", although error, close
\* and catch of one failed attempt may each schedule the next.
THEOREM BackoffCountsFailures == SafeSpec => []BackoffCounts
<1>1. Init => BackoffCounts
  BY DEF Init, BackoffCounts
<1> QED
  BY <1>1, BackoffStep, StreamTypeCorrect, ChainInvHolds, PTL DEF SafeSpec

-----------------------------------------------------------------------------
(* The session over the connection.                                        *)

USE SessionAssumption, AgeAssumption, RetryAssumption, StreamAssumption

\* Every step of process leaves the connection alone.
LEMMA ProcessLeavesStream ==
  ASSUME ProcessStep
  PROVE  UNCHANGED vars
BY DEF ProcessStep, Halted, NothingToEnter, Detects, ContextRead, NoBalance,
       SizesAtOnce, AsksAgain, SizesOnAnswer, Enqueued

LEMMA SessionStepIsStreamStep ==
  ASSUME [SessionNext]_sessionVars
  PROVE  [Next]_vars
<1>1. CASE UNCHANGED sessionVars
  BY <1>1 DEF sessionVars
<1>2. CASE TickIgnored \/ TickBegins \/ TickWaits
  BY <1>2 DEF TickIgnored, TickBegins, TickWaits, TickComes
<1>3. CASE ProcessStep
  BY <1>3, ProcessLeavesStream
<1>4. CASE KillSwitch \/ StopBySignal
  BY <1>4 DEF KillSwitch, StopBySignal, Next
<1>5. CASE BootStep \/ Outside
  BY <1>5 DEF BootStep, Outside
<1>6. CASE StreamStep
  BY <1>6 DEF StreamStep, Next
<1> QED
  BY <1>1, <1>2, <1>3, <1>4, <1>5, <1>6 DEF SessionNext

\* The session implements MarketStream: whatever main, process and the shutdown
\* handler do, the connection only takes the steps proved about there.
THEOREM SessionRefinesStream == SafeSession => SafeSpec
<1>1. SessionInit => Init
  BY DEF SessionInit
<1> QED
  BY <1>1, SessionStepIsStreamStep, PTL DEF SafeSession, SafeSpec

\* In a session, too, there is one chain at most, and nothing comes back after
\* disconnect: no tick is ever delivered twice, or by a socket given up.
THEOREM SessionHasOneChain == SafeSession => [](OneChain /\ StaysDown)
BY SessionRefinesStream, ChainIsSingle, StoppedStaysDown, PTL

-----------------------------------------------------------------------------
(* Types. *)

SessionTypes == LoopTypeOK /\ InputsTypeOK /\ BootTypeOK

LEMMA OldTyped == Old \in Nat /\ MaxDelay < Old /\ RequestTimeout < Old /\ 0 < Old
BY DEF Old, Longer

LEMMA OlderTyped ==
  ASSUME NEW age \in Ages \cup {Missing}
  PROVE  Older(age) \in Ages \cup {Missing}
BY OldTyped DEF Older, Ages, Missing

\* process returns: whatever it was about, the loop is left with its types.
LEMMA ProcessEndsTyped ==
  ASSUME LoopTypeOK, ProcessEnds, UNCHANGED stopped
  PROVE  LoopTypeOK'
<1>1. newestBegun' \in BOOLEAN
  <2>1. CASE pending # "none" /\ ~stopped
    BY <2>1, Zenon DEF ProcessEnds
  <2>2. CASE ~(pending # "none" /\ ~stopped)
    BY <2>2 DEF ProcessEnds, LoopTypeOK
  <2> QED
    BY <2>1, <2>2
<1>2. pc' \in Waits /\ pending' = "none" /\ work' = 0
  BY DEF ProcessEnds, Waits
<1> QED
  BY <1>1, <1>2 DEF LoopTypeOK

\* The lots are allocated, or process has ended without them.
LEMMA SizesTyped ==
  ASSUME LoopTypeOK, NEW n, Sizes(n), UNCHANGED stopped
  PROVE  LoopTypeOK'
<1>1. CASE ProcessEnds
  BY <1>1, ProcessEndsTyped
<1>2. CASE pc' = "scan" /\ work' = 0 /\ UNCHANGED <<pending, newestBegun>>
  BY <1>2 DEF LoopTypeOK, Waits
<1> QED
  BY <1>1, <1>2 DEF Sizes

LEMMA ProcessTyped ==
  ASSUME SessionTypes, ProcessStep
  PROVE  SessionTypes'
<1> USE DEF SessionTypes
<1>1. BootTypeOK'
  BY DEF ProcessStep, Halted, NothingToEnter, Detects, ContextRead, NoBalance,
         SizesAtOnce, AsksAgain, SizesOnAnswer, Enqueued, BootTypeOK, bootVars
<1>2. InputsTypeOK'
  <2> USE OldTyped DEF InputsTypeOK, inputVars, balanceVars, Ages
  <2>1. CASE Halted \/ NothingToEnter \/ SizesAtOnce \/ Enqueued
    BY <2>1 DEF Halted, NothingToEnter, SizesAtOnce, Enqueued
  <2>2. CASE Detects \/ AsksAgain
    BY <2>2 DEF Detects, AsksAgain, AsksBalance
  <2>3. CASE ContextRead \/ SizesOnAnswer
    BY <2>3 DEF ContextRead, SizesOnAnswer, BalanceArrives, NoFetch, Asked
  <2>4. CASE NoBalance
    BY <2>4 DEF NoBalance, BalanceFails
  <2> QED
    BY <2>1, <2>2, <2>3, <2>4 DEF ProcessStep
<1>3. LoopTypeOK'
  <2>1. CASE Halted \/ NothingToEnter \/ NoBalance \/ Enqueued
    BY <2>1, ProcessEndsTyped DEF Halted, NothingToEnter, NoBalance, Enqueued
  <2>2. CASE SizesAtOnce
    BY <2>2, SizesTyped DEF SizesAtOnce
  <2>3. CASE SizesOnAnswer
    BY <2>3, SizesTyped DEF SizesOnAnswer
  <2>4. CASE Detects \/ AsksAgain \/ ContextRead
    BY <2>4 DEF Detects, AsksAgain, ContextRead, LoopTypeOK, Waits, cycleVars
  <2> QED
    BY <2>1, <2>2, <2>3, <2>4 DEF ProcessStep
<1> QED
  BY <1>1, <1>2, <1>3

LEMMA SessionTypesStep ==
  ASSUME SessionTypes, [SessionNext]_sessionVars
  PROVE  SessionTypes'
<1> USE DEF SessionTypes
<1>1. CASE UNCHANGED sessionVars
  BY <1>1 DEF sessionVars, bootVars, inputVars, loopVars, cycleVars,
              LoopTypeOK, InputsTypeOK, BootTypeOK
<1>2. CASE TickIgnored \/ TickBegins \/ TickWaits
  <2>1. TickComes
    BY <1>2 DEF TickIgnored, TickBegins, TickWaits
  <2>2. BootTypeOK'
    BY <2>1 DEF TickComes, BootTypeOK, bootVars
  <2>3. InputsTypeOK'
    BY <2>1, OldTyped DEF TickComes, KeepsRate, InputsTypeOK, balanceVars, Ages
  <2>4. stopped' = stopped /\ work' = work
    BY <2>1 DEF TickComes, cycleVars
  <2>5. newestBegun' \in BOOLEAN
    <3>1. CASE TickIgnored
      BY <3>1 DEF TickIgnored, LoopTypeOK
    <3>2. CASE TickBegins
      BY <3>2, Zenon DEF TickBegins
    <3>3. CASE TickWaits
      BY <3>3, Zenon DEF TickWaits
    <3> QED
      BY <1>2, <3>1, <3>2, <3>3
  <2>6. pc' \in Waits /\ pending' \in {"none", "newest", "older"}
    BY <1>2 DEF TickIgnored, TickBegins, TickWaits, Coalesces, LoopTypeOK, Waits
  <2> QED
    BY <2>2, <2>3, <2>4, <2>5, <2>6 DEF LoopTypeOK
<1>3. CASE ProcessStep
  BY <1>3, ProcessTyped
<1>4. CASE KillSwitch \/ StopBySignal
  <2>1. stopped' \in BOOLEAN
    BY <1>4, Zenon DEF KillSwitch, StopBySignal
  <2>2. UNCHANGED <<bootVars, inputVars, pending, newestBegun, cycleVars>>
    BY <1>4 DEF KillSwitch, StopBySignal
  <2>3. pc' \in Waits
    BY <1>4 DEF KillSwitch, StopBySignal, LoopTypeOK, Waits
  <2> QED
    BY <2>1, <2>2, <2>3
    DEF bootVars, inputVars, cycleVars, LoopTypeOK, InputsTypeOK, BootTypeOK
<1>5. CASE BootStep
  <2>1. BootTypeOK'
    BY <1>5 DEF BootStep, PingAnswers, PingFails, PingsAgain, StartupProceeds,
                StartupFails, BootTypeOK, Boots, Awaits
  <2> QED
    BY <1>5, <2>1 DEF BootStep, inputVars, loopVars, cycleVars, LoopTypeOK, InputsTypeOK
<1>6. CASE StreamStep
  BY <1>6 DEF StreamStep, bootVars, inputVars, loopVars, cycleVars,
              LoopTypeOK, InputsTypeOK, BootTypeOK
<1>7. CASE Outside
  <2>1. BootTypeOK' /\ LoopTypeOK'
    BY <1>7 DEF Outside, bootVars, loopVars, cycleVars, BootTypeOK, LoopTypeOK
  <2>2. CASE TimePasses
    <3>1. /\ captured' \in Ages \cup {Missing} /\ quoted' \in Ages \cup {Missing}
          /\ cached' \in Ages \cup {Missing} /\ answered' \in Ages \cup {Missing}
      BY <2>2, OlderTyped DEF TimePasses, InputsTypeOK
    <3>2. fetch' \in {NoFetch, Asked} \cup 0 .. RequestTimeout
      BY <2>2 DEF TimePasses, InputsTypeOK
    <3> QED
      BY <2>1, <3>1, <3>2 DEF InputsTypeOK
  <2>3. CASE GmoAnswers
    BY <2>1, <2>3 DEF GmoAnswers, InputsTypeOK
  <2> QED
    BY <1>7, <2>2, <2>3 DEF Outside
<1> QED
  BY <1>1, <1>2, <1>3, <1>4, <1>5, <1>6, <1>7 DEF SessionNext

\* Types of the loop, the startup and the inputs of sizing: where process waits
\* is one of its awaits, and an age is known and at most Old, or missing.
THEOREM SessionTypeCorrect == SafeSession => []SessionTypes
<1>1. SessionInit => SessionTypes
  <2>1. SessionInit => newestBegun \in BOOLEAN /\ stopped \in BOOLEAN
    BY Zenon DEF SessionInit
  <2> QED
    BY <2>1 DEF SessionInit, BootInit, InputsInit, SessionTypes, LoopTypeOK,
                InputsTypeOK, BootTypeOK, Boots, Waits
<1> QED
  BY <1>1, SessionTypesStep, PTL DEF SafeSession

-----------------------------------------------------------------------------
(* The newest snapshot. *)

\* A snapshot waits only while one is processed.
LoopInv == PendingIsNews /\ (pc = "idle" => pending = "none")

LEMMA ProcessEndsInOrder ==
  ASSUME LoopTypeOK, LoopInv, ProcessEnds, UNCHANGED stopped
  PROVE  LoopInv'
<1> USE DEF LoopTypeOK, LoopInv, PendingIsNews, ProcessEnds
<1>1. CASE stopped
  BY <1>1
<1>2. CASE ~stopped /\ pending = "none"
  BY <1>2
<1>3. CASE ~stopped /\ pending = "newest"
  BY <1>3
<1> QED
  BY <1>1, <1>2, <1>3

LEMMA LoopInvStep ==
  ASSUME SessionTypes, LoopInv, [SessionNext]_sessionVars
  PROVE  LoopInv'
<1> USE DEF SessionTypes, LoopInv
<1>1. CASE UNCHANGED <<stopped, pending, newestBegun>> /\ (pc' = "idle" => pc = "idle")
  BY <1>1 DEF PendingIsNews
<1>2. CASE TickBegins
  BY <1>2 DEF TickBegins, TickComes, PendingIsNews
<1>3. CASE TickWaits
  BY <1>3 DEF TickWaits, TickComes, Coalesces, PendingIsNews
<1>4. ASSUME ProcessStep
      PROVE  LoopInv'
  <2>1. CASE ProcessEnds
    BY <1>4, <2>1, ProcessEndsInOrder
    DEF ProcessStep, Halted, NothingToEnter, Detects, ContextRead, NoBalance,
        SizesAtOnce, AsksAgain, SizesOnAnswer, Enqueued
  <2>2. CASE Detects \/ ContextRead \/ AsksAgain
    BY <1>1, <2>2 DEF Detects, ContextRead, AsksAgain
  <2>3. CASE SizesAtOnce \/ SizesOnAnswer
    BY <1>1, <2>1, <2>3 DEF SizesAtOnce, SizesOnAnswer, Sizes
  <2>4. CASE Halted \/ NothingToEnter \/ NoBalance \/ Enqueued
    BY <2>1, <2>4 DEF Halted, NothingToEnter, NoBalance, Enqueued
  <2> QED
    BY <1>4, <2>2, <2>3, <2>4 DEF ProcessStep
<1>5. CASE KillSwitch \/ StopBySignal
  BY <1>5 DEF KillSwitch, StopBySignal, PendingIsNews
<1>6. CASE TickIgnored \/ BootStep \/ StreamStep \/ Outside \/ UNCHANGED sessionVars
  BY <1>1, <1>6 DEF TickIgnored, TickComes, BootStep, StreamStep, Outside, sessionVars, loopVars
<1> QED
  BY <1>2, <1>3, <1>4, <1>5, <1>6 DEF SessionNext

\* The snapshot that waits is the newest, and the newest is never lost: what
\* the coalescing of onMarketData promises.
THEOREM NewestWaits == SafeSession => []PendingIsNews
<1>1. SessionInit => LoopInv
  BY DEF SessionInit, LoopInv, PendingIsNews
<1> QED
  BY <1>1, LoopInvStep, SessionTypeCorrect, PTL DEF SafeSession, LoopInv

-----------------------------------------------------------------------------
(* The age of what entries are sized on. *)

\* The rate bears the time of its quotation; the balance was told no longer
\* before its arrival than a request may take.
AgesTrue ==
  /\ captured = quoted
  /\ cached # Missing => answered # Missing /\ answered <= cached + RequestTimeout

LEMMA AgesTrueStep ==
  ASSUME SessionTypes, AgesTrue, [SessionNext]_sessionVars
  PROVE  AgesTrue'
<1> USE OldTyped DEF SessionTypes, AgesTrue, InputsTypeOK, Ages, Missing, NoFetch, Asked
<1>1. CASE UNCHANGED <<captured, quoted, cached, answered>>
  BY <1>1
<1>2. ASSUME TickComes
      PROVE  AgesTrue'
  BY <1>2 DEF TickComes, KeepsRate, balanceVars
<1>3. CASE ContextRead \/ SizesOnAnswer
  BY <1>3 DEF ContextRead, SizesOnAnswer, BalanceArrives
<1>4. CASE TimePasses
  BY <1>4 DEF TimePasses, Older
<1>5. CASE ProcessStep /\ ~(ContextRead \/ SizesOnAnswer)
  BY <1>1, <1>5 DEF ProcessStep, Halted, NothingToEnter, Detects, NoBalance, SizesAtOnce,
                    AsksAgain, Enqueued, AsksBalance, BalanceFails, inputVars, balanceVars
<1>6. CASE KillSwitch \/ StopBySignal \/ BootStep \/ StreamStep \/ UNCHANGED sessionVars
  BY <1>1, <1>6 DEF KillSwitch, StopBySignal, BootStep, StreamStep, sessionVars, inputVars
<1>7. CASE GmoAnswers
  BY <1>1, <1>7 DEF GmoAnswers
<1> QED
  BY <1>2, <1>3, <1>4, <1>5, <1>6, <1>7 DEF SessionNext, TickIgnored, TickBegins, TickWaits, Outside

\* Lots are only computed by Sizes, which no await separates from the look at
\* the age of the rate, nor from the balance or the look at its age.
LEMMA SizedFresh ==
  ASSUME SessionTypes, AgesTrue, [SessionNext]_sessionVars, pc # "scan", pc' = "scan"
  PROVE  quoted \in 0 .. MaxAge /\ answered' \in 0 .. BalanceTtl + RequestTimeout
<1> USE DEF SessionTypes, AgesTrue, InputsTypeOK, Ages, Missing, NoFetch, Asked
<1>1. ProcessStep
  BY DEF SessionNext, sessionVars, loopVars, TickIgnored, TickBegins, TickWaits, KillSwitch,
         StopBySignal, BootStep, StreamStep, Outside
<1>2. ~ProcessEnds
  BY DEF ProcessEnds
<1>3. SizesAtOnce \/ SizesOnAnswer
  BY <1>1, <1>2 DEF ProcessStep, Halted, NothingToEnter, Detects, ContextRead, NoBalance,
                    AsksAgain, Enqueued
<1>4. RateFresh
  BY <1>2, <1>3 DEF SizesAtOnce, SizesOnAnswer, Sizes
<1>5. quoted \in 0 .. MaxAge
  BY <1>4, OldTyped DEF RateFresh
<1>6. CASE SizesAtOnce
  <2>1. cached # Missing /\ cached <= BalanceTtl /\ answered' = answered
    BY <1>6 DEF SizesAtOnce, BalanceFresh, inputVars
  <2> QED
    BY <1>5, <2>1, OldTyped
<1>7. CASE SizesOnAnswer
  BY <1>5, <1>7 DEF SizesOnAnswer, BalanceArrives
<1> QED
  BY <1>3, <1>6, <1>7

\* The price an entry is sized on has been GMO's within MaxAge, the balance
\* within its time in the cache and one request, for all limits and delays.
THEOREM SizingIsFresh == SafeSession => SizedOnFreshData
<1>1. SessionInit => AgesTrue
  BY DEF SessionInit, InputsInit, AgesTrue
<1>2. SafeSession => [](SessionTypes /\ AgesTrue)
  BY <1>1, AgesTrueStep, SessionTypeCorrect, PTL DEF SafeSession
<1>3. SessionTypes /\ AgesTrue /\ [SessionNext]_sessionVars =>
        [pc # "scan" /\ pc' = "scan" =>
           /\ quoted \in 0 .. MaxAge
           /\ answered' \in 0 .. BalanceTtl + RequestTimeout]_sessionVars
  BY SizedFresh
<1> QED
  BY <1>2, <1>3, PTL DEF SafeSession, SizedOnFreshData

-----------------------------------------------------------------------------
(* Lots and margin. *)

LEMMA DivisionRoundsDown ==
  ASSUME NEW a \in Int, NEW d \in Nat \ {0}
  PROVE  a \div d \in Int /\ (a \div d) * d <= a
OBVIOUS

LEMMA ProductsOrdered ==
  ASSUME NEW a \in Int, NEW b \in Int, NEW k \in Nat, a <= b
  PROVE  k * a <= k * b
OBVIOUS

LEMMA FactorCancels ==
  ASSUME NEW a \in Int, NEW b \in Int, NEW k \in Nat \ {0}, a * k <= b * k
  PROVE  a <= b
OBVIOUS

LEMMA ProductRegroups ==
  ASSUME NEW a \in Int, NEW b \in Int, NEW c \in Int, NEW k \in Int
  PROVE  (a * b) * (c * k) = a * (k * c * b) /\ a * (c * k) = a * c * k
OBVIOUS

LEMMA SumScales ==
  ASSUME NEW m \in Int, NEW a \in Int, NEW b \in Int, NEW k \in Int
  PROVE  (m * a + b) * k = m * (a * k) + b * k
OBVIOUS

LEMMA SharesOfScale ==
  ASSUME NEW m \in Int, NEW part \in Int, NEW lot \in Int, NEW scale \in Int
  PROVE  m * (lot * part) + lot * (scale - m * part) = lot * scale
OBVIOUS

\* Clamping only makes a number of units smaller, unless it is the smallest lot.
LEMMA ClampedWithin ==
  ASSUME NEW units \in Int, NEW k \in Nat, NEW bound \in Int, units * k <= bound
  PROVE  /\ Clamped(units) \in MinLot .. MaxLot
         /\ Clamped(units) = MinLot \/ Clamped(units) * k <= bound
<1> USE LotAssumption DEF Clamped
<1>1. CASE units < MinLot
  BY <1>1
<1>2. CASE units >= MinLot /\ units > MaxLot
  <2>1. k * MaxLot <= k * units
    BY <1>2, ProductsOrdered
  <2>2. k * MaxLot = MaxLot * k /\ k * units = units * k /\ k * MaxLot \in Int
    OBVIOUS
  <2>3. MaxLot * k <= bound
    BY <2>1, <2>2
  <2>. QED
    BY <1>2, <2>3
<1>3. CASE units \in MinLot .. MaxLot
  BY <1>3
<1>. QED
  BY <1>1, <1>2, <1>3

\* MaintenanceRatioBasedLotPolicy: a lot within the limits of a single order, and
\* within the margin unless it is the smallest.
LEMMA LotWithinMargin ==
  ASSUME NEW capital \in Nat, NEW rate \in Nat \ {0}
  PROVE  /\ DecideLot(capital, rate) \in MinLot .. MaxLot
         /\ \/ DecideLot(capital, rate) = MinLot
            \/ DecideLot(capital, rate) * (rate * MarginNum) <= capital * MarginDen
<1> USE LotAssumption
<1> DEFINE d == MarginNum * rate * LotStep
           q == (capital * MarginDen) \div d
<1>1. d \in Nat \ {0} /\ capital * MarginDen \in Int /\ rate * MarginNum \in Nat
  <2>1. MarginNum * rate \in Nat \ {0}
    OBVIOUS
  <2> QED
    BY <2>1
<1>2. q \in Int /\ q * d <= capital * MarginDen
  BY <1>1, DivisionRoundsDown
<1> HIDE DEF q
<1>3. q * LotStep \in Int /\ (q * LotStep) * (rate * MarginNum) = q * d
  BY <1>2, ProductRegroups
<1>4. (q * LotStep) * (rate * MarginNum) <= capital * MarginDen
  BY <1>2, <1>3
<1>5. DecideLot(capital, rate) = Clamped(q * LotStep)
  BY DEF DecideLot, q
<1> QED
  BY <1>1, <1>3, <1>4, <1>5, ClampedWithin

LEMMA PartsTyped ==
  ASSUME NEW n \in Nat \ {0}
  PROVE  DivideOne(n) \in Int /\ ComplementOf(n) \in Int
BY ScaleAssumption DEF DivideOne, ComplementOf

\* The ratios of n strategies are exactly one together, whatever 1/n leaves when it
\* is cut to ten digits: LotAllocation.of never refuses equal weights.
THEOREM WeightsMakeOne ==
  ASSUME NEW n \in Nat \ {0}
  PROVE  SumFunction(EqualWeights(n)) = Scale
<1>1. SumFunction(EqualWeights(n)) = (n - 1) * DivideOne(n) + ComplementOf(n)
  BY PartsTyped, SumOfAlmostConstant DEF EqualWeights
<1> QED
  BY <1>1, PartsTyped, ScaleAssumption DEF ComplementOf

\* Cutting a share to whole steps only makes it smaller.
LEMMA ShareWithinRatio ==
  ASSUME NEW lot \in Nat, NEW ratio \in Int
  PROVE  ApplyTo(lot, ratio) \in Int /\ ApplyTo(lot, ratio) * Scale <= lot * ratio
<1> DEFINE q == (lot * ratio) \div (Scale * LotStep)
<1>1. Scale * LotStep \in Nat \ {0} /\ lot * ratio \in Int
  BY ScaleAssumption, LotAssumption
<1>2. q \in Int /\ q * (Scale * LotStep) <= lot * ratio
  BY <1>1, DivisionRoundsDown
<1> HIDE DEF q
<1>3. (q * LotStep) * Scale = q * (Scale * LotStep) /\ q * LotStep \in Int
  BY <1>2, ScaleAssumption, LotAssumption
<1> QED
  BY <1>2, <1>3 DEF ApplyTo, q

\* Together the shares are not more than the lot that was divided.
LEMMA SharesWithinLot ==
  ASSUME NEW lot \in Nat, NEW n \in Nat \ {0}
  PROVE  TotalUnits(StrategyLots(lot, n)) \in Int /\ TotalUnits(StrategyLots(lot, n)) <= lot
<1> DEFINE a == ApplyTo(lot, DivideOne(n))
           b == ApplyTo(lot, ComplementOf(n))
           total == (n - 1) * a + b
<1>1. /\ a \in Int /\ a * Scale <= lot * DivideOne(n)
      /\ b \in Int /\ b * Scale <= lot * ComplementOf(n)
  BY PartsTyped, ShareWithinRatio
<1>2. StrategyLots(lot, n) = [i \in 1 .. n |-> IF i = n THEN b ELSE a]
  BY DEF StrategyLots, EqualWeights
<1>3. n - 1 \in Nat /\ Scale \in Nat \ {0} /\ DivideOne(n) \in Int /\ ComplementOf(n) \in Int
  BY PartsTyped, ScaleAssumption
<1> HIDE DEF a, b
<1>4. TotalUnits(StrategyLots(lot, n)) = total
  <2>1. SumFunction([i \in 1 .. n |-> IF i = n THEN b ELSE a]) = (n - 1) * a + b
    <3>1. a \in Int /\ b \in Int
      BY <1>1
    <3> QED
      BY ONLY <3>1, n \in Nat \ {0}, SumOfAlmostConstant
  <2> QED
    BY <1>2, <2>1, Zenon DEF TotalUnits
<1>5. (n - 1) * (a * Scale) <= (n - 1) * (lot * DivideOne(n))
  <2> DEFINE x == a * Scale
             y == lot * DivideOne(n)
             k == n - 1
  <2>1. x \in Int /\ y \in Int /\ x <= y /\ k \in Nat
    BY <1>1, <1>3
  <2> HIDE DEF x, y, k
  <2>2. k * x <= k * y
    BY <2>1, ProductsOrdered
  <2> QED
    BY <2>2 DEF x, y, k
<1>6. total \in Int /\ total * Scale = (n - 1) * (a * Scale) + b * Scale
  BY <1>1, <1>3, SumScales
<1>7. (n - 1) * (lot * DivideOne(n)) + lot * ComplementOf(n) = lot * Scale
  BY <1>3, SharesOfScale DEF ComplementOf
<1> HIDE DEF total
<1>8. total * Scale <= lot * Scale
  <2>1. /\ (n - 1) * (a * Scale) \in Int /\ (n - 1) * (lot * DivideOne(n)) \in Int
        /\ b * Scale \in Int /\ lot * ComplementOf(n) \in Int
    BY <1>1, <1>3
  <2>. QED
    BY <1>1, <1>5, <1>6, <1>7, <2>1
<1>9. total <= lot
  BY <1>3, <1>6, <1>8, FactorCancels
<1> QED
  BY <1>4, <1>6, <1>9

\* Whatever has been divided keeps the margin.
LEMMA DividedLotKeepsMargin ==
  ASSUME NEW balance \in Nat, NEW rate \in Nat \ {0}, NEW n \in Nat \ {0}
  PROVE  LET units == TotalUnits(StrategyLots(DecideLot(balance, rate), n)) IN
         units * rate * MarginNum <= balance * MarginDen \/ units <= MinLot
<1> DEFINE lot == DecideLot(balance, rate)
           units == TotalUnits(StrategyLots(lot, n))
           k == rate * MarginNum
<1>1. /\ lot \in Nat /\ k \in Nat /\ balance * MarginDen \in Int
      /\ lot = MinLot \/ lot * k <= balance * MarginDen
  BY LotWithinMargin, LotAssumption
<1>2. units \in Int /\ units <= lot
  BY <1>1, SharesWithinLot
<1>3. units * rate * MarginNum = k * units
  BY <1>2, LotAssumption, ProductRegroups
<1>4. k * lot = lot * k
  BY <1>1
<1>5. MinLot \in Nat
  BY LotAssumption
<1> HIDE DEF lot, units, k
<1>6. k * units <= k * lot /\ k * units \in Int /\ k * lot \in Int
  BY <1>1, <1>2, ProductsOrdered
<1>7. units * rate * MarginNum <= balance * MarginDen \/ units <= MinLot
  BY <1>1, <1>2, <1>3, <1>4, <1>5, <1>6
<1> QED
  BY <1>7 DEF units, lot

\* Whatever awaits between the signals and the lots is about some strategy.
WorkAwaits == pc \in {"context", "rows", "sizing"} => work # 0

LEMMA WorkAwaitsStep ==
  ASSUME LoopTypeOK, WorkAwaits, [SessionNext]_sessionVars
  PROVE  WorkAwaits'
<1> USE DEF WorkAwaits
<1>1. CASE UNCHANGED <<pc, work>>
  BY <1>1
<1>2. CASE pc' \notin {"context", "rows", "sizing"}
  BY <1>2
<1>3. CASE ProcessEnds
  BY <1>2, <1>3 DEF ProcessEnds
<1>4. CASE ProcessStep
  <2>1. CASE Halted \/ NothingToEnter \/ NoBalance \/ Enqueued
    BY <1>3, <2>1 DEF Halted, NothingToEnter, NoBalance, Enqueued
  <2>2. CASE SizesAtOnce \/ SizesOnAnswer
    BY <1>2, <1>3, <2>2 DEF SizesAtOnce, SizesOnAnswer, Sizes
  <2>3. CASE Detects
    BY <2>3, SessionAssumption DEF Detects
  <2>4. CASE AsksAgain
    BY <2>4, SessionAssumption DEF AsksAgain, LoopTypeOK
  <2>5. CASE ContextRead
    BY <2>5 DEF ContextRead, cycleVars
  <2>. QED
    BY <1>4, <2>1, <2>2, <2>3, <2>4, <2>5 DEF ProcessStep
<1>5. CASE KillSwitch \/ TickBegins
  BY <1>2, <1>5 DEF KillSwitch, TickBegins
<1>6. CASE TickIgnored \/ TickWaits \/ StopBySignal \/ BootStep \/ StreamStep \/ Outside
           \/ UNCHANGED sessionVars
  BY <1>1, <1>6 DEF TickIgnored, TickWaits, TickComes, StopBySignal, BootStep, StreamStep,
                    Outside, sessionVars, loopVars, cycleVars
<1>. QED
  BY <1>4, <1>5, <1>6 DEF SessionNext

\* The entries of one cycle together leave the target ratio of capital to margin,
\* for any number of strategies, balance, rate, step and limits of a lot: neither
\* the rounding of the lot nor its division among the strategies exceeds it.
THEOREM EntriesKeepMargin == SafeSession => []MarginKept
<1>1. SessionInit => MarginKept
  BY DEF SessionInit, MarginKept
<1>2. ASSUME MarginKept, LoopTypeOK, WorkAwaits, [SessionNext]_sessionVars
      PROVE  MarginKept'
  <2>1. CASE UNCHANGED <<lots, basis>> /\ (pc' = "scan" => pc = "scan")
    BY <1>2, <2>1 DEF MarginKept
  <2>2. CASE ProcessEnds
    BY <2>2 DEF ProcessEnds, MarginKept
  <2>3. ASSUME NEW n \in 1 .. Strategies, Sizes(n)
        PROVE  MarginKept'
    <3>1. PICK balance \in Balances, rate \in Rates :
            \/ ProcessEnds
            \/ /\ lots' = StrategyLots(DecideLot(balance, rate), n)
               /\ basis' = [balance |-> balance, rate |-> rate]
      BY <2>3 DEF Sizes
    <3>2. balance \in Nat /\ rate \in Nat \ {0} /\ n \in Nat \ {0}
      BY SessionAssumption
    <3>. QED
      BY <2>2, <3>1, <3>2, DividedLotKeepsMargin DEF MarginKept
  <2>4. CASE ProcessStep
    <3>1. CASE Halted \/ NothingToEnter \/ NoBalance \/ Enqueued
      BY <2>2, <3>1 DEF Halted, NothingToEnter, NoBalance, Enqueued
    <3>2. CASE Detects \/ AsksAgain \/ ContextRead
      BY <2>1, <3>2 DEF Detects, AsksAgain, ContextRead, cycleVars
    <3>3. CASE SizesAtOnce \/ SizesOnAnswer
      <4>1. work \in 1 .. Strategies
        BY <1>2, <3>3, SessionAssumption DEF SizesAtOnce, SizesOnAnswer, LoopTypeOK, WorkAwaits
      <4>2. CASE SizesAtOnce
        BY <2>3, <4>1, <4>2, SessionAssumption DEF SizesAtOnce
      <4>3. CASE SizesOnAnswer
        BY <2>3, <4>1, <4>3 DEF SizesOnAnswer
      <4>. QED
        BY <3>3, <4>2, <4>3
    <3>. QED
      BY <2>4, <3>1, <3>2, <3>3 DEF ProcessStep
  <2>5. CASE KillSwitch \/ StopBySignal \/ BootStep \/ StreamStep \/ Outside
             \/ UNCHANGED sessionVars
    BY <2>1, <2>5 DEF KillSwitch, StopBySignal, BootStep, StreamStep, Outside, sessionVars,
                      loopVars, cycleVars
  <2>6. CASE TickIgnored \/ TickBegins \/ TickWaits
    BY <2>1, <2>6 DEF TickIgnored, TickBegins, TickWaits, TickComes, cycleVars
  <2>. QED
    BY <1>2, <2>4, <2>5, <2>6 DEF SessionNext
<1>3. SessionInit => WorkAwaits
  BY DEF SessionInit, WorkAwaits
<1>. QED
  BY <1>1, <1>2, <1>3, WorkAwaitsStep, SessionTypeCorrect, PTL DEF SafeSession, SessionTypes
=============================================================================
