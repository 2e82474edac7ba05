----------------------------- MODULE Lifecycle -----------------------------
(***************************************************************************)
(* What sync.Stoppable promises its clients (src/sync/stopper.go, the      *)
(* interfaces of lines 15-39), with no locks, flags or goroutines: a stop  *)
(* can be triggered once, begins once and, once begun, completes.          *)
(* Stopper.tla implements this specification.                              *)
(***************************************************************************)
VARIABLES
  triggered,  \* what StopTriggered() reports
  phase       \* what Stopping() and WaitStopped() report

vars == <<triggered, phase>>

Init ==
  /\ triggered = FALSE
  /\ phase = "running"

\* A stop is requested; asking again changes nothing.
Trigger ==
  /\ ~triggered
  /\ triggered' = TRUE
  /\ UNCHANGED phase

\* The stop starts.  Nothing in the code makes it wait for a trigger.
BeginStop ==
  /\ phase = "running"
  /\ phase' = "stopping"
  /\ UNCHANGED triggered

\* The stop is over, because the work ended or its time ran out.
CompleteStop ==
  /\ phase = "stopping"
  /\ phase' = "stopped"
  /\ UNCHANGED triggered

Next == Trigger \/ BeginStop \/ CompleteStop

SafeSpec == Init /\ [][Next]_vars

Spec == SafeSpec /\ WF_vars(CompleteStop)
=============================================================================
