----------------------------- MODULE EntryQueue -----------------------------
(***************************************************************************)
(* The queue between an entry signal and its order (EntryQueue), with the  *)
(* order itself as drainOne awaits it (EntryExecution.openPosition:        *)
(* GmoBrokerAdapter.placeEntry, then register).  Commands are numbered in  *)
(* the order enqueue accepts them, so the head of the queue is the least   *)
(* queued command.  Every await is a step boundary.                        *)
(***************************************************************************)
EXTENDS Naturals

CONSTANTS
  MaxCommands,  \* bound: how many commands enqueue accepts
  Ttl           \* DEFAULT_TTL_MS, in steps of the clock

ASSUME EntryQueueAssumption == MaxCommands \in Nat /\ Ttl \in Nat

Commands == 1 .. MaxCommands

VARIABLES
  cmd,     \* what has become of each command
  age,     \* time since submittedAt, while queued
  order,   \* its order, then its position, at GMO
  row,     \* the row of its position
  stopPc   \* EntryQueue.stop: "none", "awaiting", "dropping", "done"

entryQueueVars == <<cmd, age, order, row, stopPc>>

\* "sending": placeEntry is awaited; "filled": register's first INSERT is awaited;
\* "inserted": its second; "dropping": notifyEntryExpired is awaited; "placed" and
\* "expired" are final.
CommandState ==
  {"none", "queued", "sending", "filled", "inserted", "dropping", "placed", "expired"}

OrderState == {"none", "working", "void", "held", "gone"}

EntryQueueTypeOK ==
  /\ cmd \in [Commands -> CommandState]
  /\ age \in [Commands -> 0 .. Ttl + 1]
  /\ order \in [Commands -> OrderState]
  /\ row \in [Commands -> {"none", "OPEN", "CLOSED"}]
  /\ stopPc \in {"none", "awaiting", "dropping", "done"}

EntryQueueInit ==
  /\ cmd = [c \in Commands |-> "none"]
  /\ age = [c \in Commands |-> 0]
  /\ order = [c \in Commands |-> "none"]
  /\ row = [c \in Commands |-> "none"]
  /\ stopPc = "none"

Becomes(c, s) == cmd' = [cmd EXCEPT ![c] = s]

\* queue.shift: the item leaves the queue, and its submittedAt with it.
Shift(c, s) ==
  /\ Becomes(c, s)
  /\ age' = [age EXCEPT ![c] = 0]

InHand(c) == cmd[c] \in {"sending", "filled", "inserted", "dropping"}

\* The flag draining, and currentDrainPromise, while stop has not begun to drop.
Draining == \E c \in Commands : InHand(c)

QueueHead(c) == cmd[c] = "queued" /\ \A d \in Commands : cmd[d] = "queued" => c <= d

-----------------------------------------------------------------------------
(* enqueue; after stop it is ignored. *)

Accepts(c) ==
  /\ cmd[c] = "none" /\ \A d \in Commands : d < c => cmd[d] # "none"
  /\ Becomes(c, "queued")
  /\ UNCHANGED <<age, order, row, stopPc>>

Enqueue(c) == stopPc = "none" /\ Accepts(c)

EnqueueIgnored == stopPc # "none" /\ UNCHANGED entryQueueVars

(* Time passes for what waits in the queue. *)
TimePasses ==
  /\ \E c \in Commands : cmd[c] = "queued" /\ age[c] <= Ttl
  /\ age' = [c \in Commands |->
               IF cmd[c] = "queued" /\ age[c] <= Ttl THEN age[c] + 1 ELSE age[c]]
  /\ UNCHANGED <<cmd, order, row, stopPc>>

-----------------------------------------------------------------------------
(* drain, by the timer, and drainOne. *)

DrainExpires(c) ==
  /\ stopPc = "none" /\ ~Draining /\ QueueHead(c)
  /\ age[c] > Ttl
  /\ Shift(c, "dropping")
  /\ UNCHANGED <<order, row, stopPc>>

DrainSends(c) ==
  /\ stopPc = "none" /\ ~Draining /\ QueueHead(c)
  /\ age[c] <= Ttl
  /\ Shift(c, "sending")
  /\ order' = [order EXCEPT ![c] = "working"]
  /\ UNCHANGED <<row, stopPc>>

\* The POST is refused: there will be no position.
OrderRefused(c) ==
  /\ cmd[c] = "sending" /\ order[c] = "working"
  /\ order' = [order EXCEPT ![c] = "void"]
  /\ Becomes(c, "dropping")
  /\ UNCHANGED <<age, row, stopPc>>

(* A plausible slip: polling without a limit while nothing is executed. *)
OrderAwaitedForEver(c) ==
  /\ cmd[c] = "sending" /\ order[c] = "held"
  /\ Becomes(c, "dropping")
  /\ UNCHANGED <<age, order, row, stopPc>>

\* The answer is lost, polling times out, or findOpenPosition throws: whether
\* and when the order is executed, nobody here will know.
OrderGivenUp(c) ==
  /\ cmd[c] = "sending"
  /\ Becomes(c, "dropping")
  /\ UNCHANGED <<age, order, row, stopPc>>

OrderAnswered(c) ==
  /\ cmd[c] = "sending" /\ order[c] = "held"
  /\ Becomes(c, "filled")
  /\ UNCHANGED <<age, order, row, stopPc>>

\* register writes the position and then its snapshot, without a transaction: the
\* row is there, for everybody to see, while the second INSERT is awaited.
InsertsPosition(c) ==
  /\ cmd[c] = "filled"
  /\ row' = [row EXCEPT ![c] = "OPEN"]
  /\ Becomes(c, "inserted")
  /\ UNCHANGED <<age, order, stopPc>>

InsertsSnapshot(c) ==
  /\ cmd[c] = "inserted"
  /\ Becomes(c, "placed")
  /\ UNCHANGED <<age, order, row, stopPc>>

\* What an INSERT that throws has done to the row: the first may have been
\* applied with its answer lost, the second leaves what the first has written.
LeftByFailure(c) ==
  \/ UNCHANGED row
  \/ cmd[c] = "filled" /\ row' = [row EXCEPT ![c] = "OPEN"]

(* A plausible slip: a failed register is logged and taken for a success. *)
RegisterFailsUnseen(c) ==
  /\ cmd[c] \in {"filled", "inserted"}
  /\ LeftByFailure(c)
  /\ Becomes(c, "placed")
  /\ UNCHANGED <<age, order, stopPc>>

\* Either INSERT throws, and openPosition with it.
RegisterFails(c) ==
  /\ cmd[c] \in {"filled", "inserted"}
  /\ LeftByFailure(c)
  /\ Becomes(c, "dropping")
  /\ UNCHANGED <<age, order, stopPc>>

(* A plausible slip: a notice that fails leaves draining set. *)
DroppedIfNoticed(c) ==
  /\ cmd[c] = "dropping" /\ stopPc = "dropping"
  /\ Becomes(c, "expired")
  /\ UNCHANGED <<age, order, row, stopPc>>

\* notifyEntryExpired returns or throws; either way the command is gone.
Dropped(c) ==
  /\ cmd[c] = "dropping"
  /\ Becomes(c, "expired")
  /\ UNCHANGED <<age, order, row, stopPc>>

-----------------------------------------------------------------------------
(* stop: no new drain, the running one is awaited, what is left is dropped. *)

StopBegins ==
  /\ stopPc = "none"
  /\ stopPc' = "awaiting"
  /\ UNCHANGED <<cmd, age, order, row>>

(* A plausible slip: stop does not wait for the order on its way. *)
StopDrainDoneAtOnce ==
  /\ stopPc = "awaiting"
  /\ stopPc' = "dropping"
  /\ UNCHANGED <<cmd, age, order, row>>

StopDrainDone ==
  /\ stopPc = "awaiting" /\ ~Draining
  /\ stopPc' = "dropping"
  /\ UNCHANGED <<cmd, age, order, row>>

DropsAtShutdown(c) ==
  /\ stopPc = "dropping" /\ ~Draining /\ QueueHead(c)
  /\ Shift(c, "dropping")
  /\ UNCHANGED <<order, row, stopPc>>

StopReturns ==
  /\ stopPc = "dropping"
  /\ \A c \in Commands : cmd[c] \notin {"queued", "dropping"}
  /\ stopPc' = "done"
  /\ UNCHANGED <<cmd, age, order, row>>

-----------------------------------------------------------------------------
(* GMO: the order is executed, at any time after it was accepted. *)
GmoExecutes(c) ==
  /\ order[c] = "working"
  /\ order' = [order EXCEPT ![c] = "held"]
  /\ UNCHANGED <<cmd, age, row, stopPc>>

(* The position leaves the account, closed by the exit side with its row. *)
PositionExits(c) ==
  /\ order[c] = "held" /\ row[c] = "OPEN"
  /\ order' = [order EXCEPT ![c] = "gone"]
  /\ row' = [row EXCEPT ![c] = "CLOSED"]
  /\ UNCHANGED <<cmd, age, stopPc>>
=============================================================================
