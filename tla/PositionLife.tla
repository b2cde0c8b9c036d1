---------------------------- MODULE PositionLife ----------------------------
(***************************************************************************)
(* What the exit side of the program promises for one position, seen from  *)
(* outside: the broker's account and the program's record of it only move  *)
(* forward, the record never runs ahead of the account, and a position the *)
(* broker has closed does not stay open in the record for ever.            *)
(*                                                                         *)
(*   unfilled -> unregistered -> held -> ghost -> recorded                 *)
(*                    \________________->/                                 *)
(***************************************************************************)
CONSTANT Positions

VARIABLE life

LifeState == {"unfilled", "unregistered", "held", "ghost", "recorded"}

LifeInit == life = [p \in Positions |-> "unfilled"]

MovesFrom(p, states, to) ==
  /\ life[p] \in states
  /\ life' = [life EXCEPT ![p] = to]

\* The broker executes the entry order.
Fill(p) == MovesFrom(p, {"unfilled"}, "unregistered")

\* The program writes the OPEN row, before or after the position is closed.
Register(p) ==
  MovesFrom(p, {"unregistered"}, "held") \/ MovesFrom(p, {"unregistered"}, "ghost")

\* The broker closes the position: the row is now wrong, a ghost.
Settle(p) == MovesFrom(p, {"held"}, "ghost")

\* The row is CLOSED.
Record(p) == MovesFrom(p, {"ghost"}, "recorded")

LifeNext ==
  \E p \in Positions : Fill(p) \/ Register(p) \/ Settle(p) \/ Record(p)

SafeLife == LifeInit /\ [][LifeNext]_life

\* The program need not open, register or close anything, but it records.
Life == SafeLife /\ \A p \in Positions : WF_life(Record(p))
=============================================================================
