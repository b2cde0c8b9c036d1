--------------------------- MODULE MCExitRecovery ---------------------------
(***************************************************************************)
(* Two instances of ExitSubsystem in one run, for its liveness: two        *)
(* positions in one process, and one position in a process that may end at *)
(* any await and is restarted, while an emergency close and two            *)
(* overlapping synchronisations race for it.  Which of the two a behaviour *)
(* is about is fixed at its start: the process has used up its ends, or it *)
(* has not.                                                                *)
(***************************************************************************)
EXTENDS ExitSubsystem

CONSTANT Spare  \* the positions left out of the instance with restarts

SceneInit ==
  /\ StoresInit /\ BreakerInit /\ QueueInit /\ DispatchInit /\ SyncInit /\ EmInit
  /\ phase = "running" /\ entering = {}
  /\ ends \in {0, MaxEnds}

SceneSpec == SceneInit /\ [][Next]_vars /\ Fairness

Lasting == ends = MaxEnds

OneLifetime ==
  emPc' = "idle" /\ \A r \in SyncRuns \ {StartupSync} : syncPc'[r] = "idle"

NothingSpare == \A p \in Spare : broker'[p] = "none"

\* Bounds the run: with the last end left unused the two never meet.
WithinScene ==
  IF Lasting THEN OneLifetime ELSE NothingSpare /\ ends' < MaxEnds
=============================================================================
