---------------------------- MODULE OrderPromise ----------------------------
(***************************************************************************)
(* What placeEntry and placeExit promise, and what the entry and the exit  *)
(* side rely on: an order reaches GMO at most once, and only while its     *)
(* caller waits; an answer that confirms it is true.  An error promises    *)
(* nothing: the order may have been executed, or be executed later.        *)
(***************************************************************************)
CONSTANT Orders

VARIABLES
  call,  \* what the caller knows
  order  \* what GMO has

vars == <<call, order>>

Life == {"none", "working", "executed"}

Init ==
  /\ call = [o \in Orders |-> "none"]
  /\ order = [o \in Orders |-> "none"]

Asks(o) ==
  /\ call[o] = "none"
  /\ call' = [call EXCEPT ![o] = "asked"]
  /\ UNCHANGED order

\* GMO takes the order; its answer may be an error, or be lost.
Accepted(o) ==
  /\ call[o] = "asked" /\ order[o] = "none"
  /\ call' \in {call, [call EXCEPT ![o] = "failed"]}
  /\ order' = [order EXCEPT ![o] = "working"]

Executes(o) ==
  /\ order[o] = "working"
  /\ order' = [order EXCEPT ![o] = "executed"]
  /\ UNCHANGED call

Confirmed(o) ==
  /\ call[o] = "asked" /\ order[o] = "executed"
  /\ call' = [call EXCEPT ![o] = "confirmed"]
  /\ UNCHANGED order

Fails(o) ==
  /\ call[o] = "asked"
  /\ call' = [call EXCEPT ![o] = "failed"]
  /\ UNCHANGED order

Next == \E o \in Orders : Asks(o) \/ Accepted(o) \/ Executes(o) \/ Confirmed(o) \/ Fails(o)

SafePromise == Init /\ [][Next]_vars

Promise == SafePromise /\ \A o \in Orders : WF_vars(Confirmed(o) \/ Fails(o))
=============================================================================
