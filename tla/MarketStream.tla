---------------------------- MODULE MarketStream ----------------------------
(***************************************************************************)
(* The connection ticks come through: GmoWebSocketClient with its          *)
(* reconnect chain and its watch over the server's pings, and              *)
(* MarketDataStream, which starts and stops it.                            *)
(*                                                                         *)
(* The handlers of a WebSocket act on the client, not on their own socket, *)
(* so a late event of an old one would act on its successor.  A step is    *)
(* one turn of the event loop, with the microtasks it leaves behind.  The  *)
(* wait before a reconnection is 2^timer seconds.                          *)
(***************************************************************************)
EXTENDS Integers

CONSTANTS
  Sockets,   \* the WebSocket objects; a closed one stands for a new one later
  Silence,   \* SERVER_PING_TIMEOUT_MS in checks of the watch
  MaxLevel   \* 2^MaxLevel seconds is MAX_BACKOFF_MS or more

ASSUME StreamAssumption ==
  Silence \in Nat \ {0} /\ MaxLevel \in Nat /\ -1 \notin Sockets

VARIABLES
  sock,        \* readyState by socket; "idle" before and after its life
  ws,          \* GmoWebSocketClient.ws
  dead,        \* open sockets whose other end has gone without a word
  intentional, \* intentionalClose
  timer,       \* reconnectTimer: NoTimer, or the level of its wait
  attempts,    \* reconnectAttempts, as far as it matters
  watch,       \* serverPingWatchTimer is set
  silent,      \* checks of the watch since lastServerPingAt
  session,     \* MarketDataStream.start and stop: a member of Sessions
  ended        \* history: connections and attempts ended since the last open

vars == <<sock, ws, dead, intentional, timer, attempts, watch, silent, session, ended>>
chainVars == <<timer, attempts, ended>>
watchVars == <<watch, silent>>

NoSocket == -1
NoTimer == -1
Sessions == {"off", "starting", "unanswered", "live", "failed", "stopped"}

TypeOK ==
  /\ sock \in [Sockets -> {"idle", "connecting", "open", "closing"}]
  /\ ws \in Sockets \cup {NoSocket}
  /\ dead \subseteq Sockets
  /\ intentional \in BOOLEAN /\ watch \in BOOLEAN
  /\ timer \in 0 .. MaxLevel \cup {NoTimer}
  /\ attempts \in 0 .. MaxLevel /\ ended \in 0 .. MaxLevel
  /\ silent \in 0 .. Silence
  /\ session \in Sessions

Init ==
  /\ sock = [s \in Sockets |-> "idle"] /\ ws = NoSocket /\ dead = {}
  /\ intentional = FALSE
  /\ timer = NoTimer /\ attempts = 0 /\ ended = 0
  /\ watch = FALSE /\ silent = 0
  /\ session = "off"

\* A process whose start has failed ends.
Running == session # "failed"

\* Math.min with MAX_BACKOFF_MS: beyond MaxLevel nothing changes.
Capped(n) == IF n < MaxLevel THEN n ELSE MaxLevel

-----------------------------------------------------------------------------
(* The chain. *)

\* scheduleReconnect, called n times in one turn.
Schedules(n) ==
  IF n = 0 THEN UNCHANGED <<timer, attempts>>
           ELSE /\ timer' = Capped(attempts + n - 1)
                /\ attempts' = Capped(attempts + n)

Times(condition) == IF condition THEN 1 ELSE 0

(* A plausible slip, and once the code: the chain gives up. *)
CloseGivesUp == ~intentional /\ timer = NoTimer /\ attempts < MaxLevel

CloseSchedules == ~intentional /\ timer = NoTimer

\* The catch of a reconnection runs after the close event of the same turn.
CatchSchedules(timerSet) == ~intentional /\ ~timerSet

(* A plausible slip: disconnect leaves the reconnect timer. *)
KeepTimer == UNCHANGED timer

ClearTimer == timer' = NoTimer

(* A plausible slip: the watch is not started for a socket. *)
NoPingWatch == UNCHANGED watchVars

StartPingWatch == watch' = TRUE /\ silent' = 0

StopPingWatch == watch' = FALSE /\ silent' = 0

\* connect: a new socket takes the place of the old one.
NewSocket(s) ==
  /\ sock[s] = "idle"
  /\ sock' = [sock EXCEPT ![s] = "connecting"]
  /\ ws' = s
  /\ intentional' = FALSE

Starts(s) ==
  /\ session = "off" /\ session' = "starting"
  /\ NewSocket(s)
  /\ UNCHANGED <<dead, chainVars, watchVars>>

\* new WebSocket throws, and start with it.
StartThrows ==
  /\ session = "off" /\ session' = "failed"
  /\ intentional' = FALSE
  /\ UNCHANGED <<sock, ws, dead, chainVars, watchVars>>

Reconnects(s) ==
  /\ Running /\ timer # NoTimer
  /\ timer' = NoTimer
  /\ NewSocket(s)
  /\ UNCHANGED <<dead, attempts, ended, watchVars, session>>

\* There is no close event; the catch is the only way on.
ReconnectThrows ==
  /\ Running /\ timer # NoTimer
  /\ Schedules(Times(CatchSchedules(FALSE)))
  /\ ended' = Capped(ended + 1)
  /\ UNCHANGED <<sock, ws, dead, intentional, watchVars, session>>

Opens(s) ==
  /\ Running /\ sock[s] = "connecting"
  /\ sock' = [sock EXCEPT ![s] = "open"]
  /\ attempts' = 0 /\ ended' = 0
  /\ StartPingWatch
  /\ session' = IF session = "starting" THEN "live" ELSE session
  /\ UNCHANGED <<ws, dead, intentional, timer>>

\* The error and close events of one failure.  The promise of connect is
\* rejected only if readyState still is CONNECTING when the error is reported;
\* for the promise of a reconnection the catch follows, start fails with its
\* own, and is never answered if it is not rejected.
HandshakeFails(s) ==
  /\ Running /\ sock[s] = "connecting"
  /\ sock' = [sock EXCEPT ![s] = "idle"]
  /\ StopPingWatch
  /\ ended' = Capped(ended + 1)
  /\ \E rejects \in BOOLEAN :
       /\ session' = IF session # "starting" THEN session
                     ELSE IF rejects THEN "failed" ELSE "unanswered"
       /\ Schedules(Times(CloseSchedules) +
                    Times(/\ rejects /\ session # "starting"
                          /\ CatchSchedules(CloseSchedules \/ timer # NoTimer)))
  /\ UNCHANGED <<ws, dead, intentional>>

-----------------------------------------------------------------------------
(* An open connection, and its end. *)

ServerPings(s) ==
  /\ Running /\ sock[s] = "open" /\ s \notin dead
  /\ silent' = 0
  /\ UNCHANGED <<sock, ws, dead, intentional, chainVars, watch, session>>

LinkDies(s) ==
  /\ Running /\ sock[s] = "open"
  /\ dead' = dead \cup {s}
  /\ UNCHANGED <<sock, ws, intentional, chainVars, watchVars, session>>

Watching == Running /\ watch /\ ws # NoSocket /\ sock[ws] = "open"

\* The last ping came between two checks, so the limit may be one check later.
WatchChecks ==
  /\ Watching /\ silent < Silence
  /\ silent' = silent + 1
  /\ UNCHANGED <<sock, ws, dead, intentional, chainVars, watch, session>>

WatchTerminates ==
  /\ Watching /\ silent + 1 >= Silence
  /\ sock' = [sock EXCEPT ![ws] = "closing"]
  /\ UNCHANGED <<ws, dead, intentional, chainVars, watchVars, session>>

(* A plausible slip: the error of an open connection starts the chain. *)
SocketErrsAndSchedules(s) ==
  /\ Running /\ sock[s] = "open" /\ s \notin dead
  /\ sock' = [sock EXCEPT ![s] = "closing"]
  /\ Schedules(Times(CloseSchedules))
  /\ UNCHANGED <<ws, dead, intentional, ended, watchVars, session>>

\* An error of an open connection is logged; its close event follows.
SocketErrs(s) ==
  /\ Running /\ sock[s] = "open" /\ s \notin dead
  /\ sock' = [sock EXCEPT ![s] = "closing"]
  /\ UNCHANGED <<ws, dead, intentional, chainVars, watchVars, session>>

\* The close event of a socket that is being closed, or closed by the server.
Closes(s) ==
  /\ Running
  /\ sock[s] = "closing" \/ (sock[s] = "open" /\ s \notin dead)
  /\ sock' = [sock EXCEPT ![s] = "idle"]
  /\ dead' = dead \ {s}
  /\ StopPingWatch
  /\ Schedules(Times(CloseSchedules))
  /\ ended' = IF intentional THEN ended ELSE Capped(ended + 1)
  /\ UNCHANGED <<ws, intentional, session>>

\* MarketDataStream.stop.  Before start has connected there is nothing to close,
\* and nothing keeps start from connecting afterwards.
Disconnects ==
  /\ session \in {"off", "starting", "unanswered", "live"}
  /\ session' = IF session = "off" THEN "off" ELSE "stopped"
  /\ intentional' = TRUE
  /\ StopPingWatch
  /\ ClearTimer
  /\ sock' = [s \in Sockets |-> IF s = ws /\ sock[s] \in {"connecting", "open"}
                                THEN "closing" ELSE sock[s]]
  /\ ws' = NoSocket
  /\ UNCHANGED <<dead, attempts, ended>>

\* Everything but the call of disconnect.
Events ==
  \/ \E s \in Sockets :
       \/ Starts(s) \/ Reconnects(s) \/ Opens(s) \/ HandshakeFails(s)
       \/ ServerPings(s) \/ LinkDies(s) \/ SocketErrs(s) \/ Closes(s)
  \/ StartThrows \/ ReconnectThrows
  \/ WatchChecks \/ WatchTerminates

Next == Events \/ Disconnects

SafeSpec == Init /\ [][Next]_vars

\* Timers fire and events follow.  A handshake succeeds or fails, and what is
\* tried for ever succeeds at some time: the market is not closed for ever.
Spec ==
  /\ SafeSpec
  /\ WF_vars(WatchChecks \/ WatchTerminates)
  /\ \A s \in Sockets :
       /\ WF_vars(Closes(s) /\ sock[s] = "closing")
       /\ WF_vars(Opens(s) \/ HandshakeFails(s))
  /\ WF_vars(ReconnectThrows \/ \E s \in Sockets : Reconnects(s))
  /\ SF_vars(\E s \in Sockets : Reconnects(s))
  /\ SF_vars(\E s \in Sockets : Opens(s))

-----------------------------------------------------------------------------
(* Properties. *)

\* "There is always one reconnect chain": one connection, one attempt or one
\* timer.  With two, every tick would be processed twice.
OneChain ==
  \A s \in Sockets : sock[s] # "idle" =>
    timer = NoTimer /\ \A t \in Sockets : sock[t] # "idle" => t = s

\* Until disconnect there is always a way back: a connection whose end will be
\* noticed, an attempt, or a timer.
WayBack ==
  session \in {"starting", "unanswered", "live"} =>
    timer # NoTimer \/ \E s \in Sockets : sock[s] # "idle"

\* After disconnect nothing comes to life again, although close events of the
\* socket are still to come.
StaysDown ==
  session = "stopped" =>
    timer = NoTimer /\ ~watch /\ \A s \in Sockets : sock[s] \in {"idle", "closing"}

\* The watch is the watch of the socket that is open, and is never left behind.
WatchFollowsSocket ==
  /\ \A s \in Sockets : sock[s] = "open" => watch /\ ws = s
  /\ watch => ws # NoSocket /\ sock[ws] \in {"open", "closing"}

\* "The counter does not advance twice for one failure": error, close and catch
\* of one failed attempt make the next wait one level longer, not two.
BackoffCounts == attempts = ended

\* A connection whose other end is gone is given up.
DeadLinkNoticed == \A s \in Sockets : s \in dead ~> s \notin dead

\* A live session that has lost its connection gets another.
Recovers == session = "live" ~> session = "stopped" \/ \E s \in Sockets : sock[s] = "open"
=============================================================================
