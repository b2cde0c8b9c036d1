----------------------- MODULE ExitCompensationQueue ------------------------
(***************************************************************************)
(* action/ExitCompensationQueue: exits the broker has confirmed and whose  *)
(* row is still to be written.  A timer drains the entries one by one      *)
(* until each write succeeds; has() shields them from being closed again.  *)
(* The number of attempts only chooses a log level and is left out.        *)
(***************************************************************************)
EXTENDS PositionStores

VARIABLES
  owed,      \* entries: position -> "none", "update" or "markClosed"
  drain      \* entries of the running drainAll still to retry; {} = not draining

queueVars == <<owed, drain>>

EntryKind == {"none", "update", "markClosed"}

QueueTypeOK ==
  /\ owed \in [Positions -> EntryKind]
  /\ drain \subseteq Positions

QueueInit ==
  /\ owed = [p \in Positions |-> "none"]
  /\ drain = {}

Has(p) == owed[p] # "none"

\* An entry already there is kept, whatever its kind.
EnqueueUpdate(p) ==
  owed' = [owed EXCEPT ![p] = IF @ = "none" THEN "update" ELSE @]

EnqueueMarkClosed(p) ==
  owed' = [owed EXCEPT ![p] = IF @ = "none" THEN "markClosed" ELSE @]

\* The timer fires: drainAll walks a copy of the entries; a second drain
\* during the first one only waits for it.
DrainStarts ==
  /\ drain = {}
  /\ \E p \in Positions : Has(p)
  /\ drain' = {p \in Positions : Has(p)}
  /\ UNCHANGED <<owed, storeVars>>

\* The write an entry asks for.
WriteEntry(p) ==
  IF owed[p] = "update" THEN UpdateRow(p) ELSE MarkRowClosed(p)

\* A plausible slip: the entry is kept after its write.
RetryForgetsDelete(p) ==
  /\ p \in drain
  /\ WriteEntry(p)
  /\ drain' = drain \ {p}
  /\ UNCHANGED <<owed, broker, stray>>

\* The write succeeds: the entry is deleted, and with it the shield.
RetrySucceeds(p) ==
  /\ p \in drain
  /\ WriteEntry(p)
  /\ owed' = [owed EXCEPT ![p] = "none"]
  /\ drain' = drain \ {p}
  /\ UNCHANGED <<broker, stray>>

\* A plausible slip: a failed entry is given up.
RetryGivesUp(p) ==
  /\ p \in drain
  /\ owed' = [owed EXCEPT ![p] = "none"]
  /\ drain' = drain \ {p}
  /\ UNCHANGED storeVars

\* The write throws (it may have been applied all the same): the entry stays
\* for the next drain, the others go on.
RetryFails(p) ==
  /\ p \in drain
  /\ WriteEntry(p) \/ UNCHANGED row
  /\ drain' = drain \ {p}
  /\ UNCHANGED <<owed, broker, stray>>
=============================================================================
