----------------------------- MODULE BatchRun -----------------------------
(***************************************************************************)
(* What runExecutionBatch promises its caller: the results of all targets  *)
(* of the batch, each once, or a rejection while one is still missing.     *)
(* PlanExecution uses a batch as this module describes it.                 *)
(***************************************************************************)

VARIABLES
  targets,   \* the targets of the batch (never changes)
  arrived,   \* the targets whose results the main thread has
  state      \* "running", "resolved", "rejected"

vars == <<targets, arrived, state>>

Init == arrived = {} /\ state = "running"

Arrive(t) ==
  /\ t \notin arrived
  /\ arrived' = arrived \cup {t}
  /\ UNCHANGED <<targets, state>>

Resolve ==
  /\ state = "running"
  /\ arrived = targets
  /\ state' = "resolved"
  /\ UNCHANGED <<targets, arrived>>

Reject ==
  /\ state = "running"
  /\ arrived # targets
  /\ state' = "rejected"
  /\ UNCHANGED <<targets, arrived>>

Next == (\E t \in targets : Arrive(t)) \/ Resolve \/ Reject

Spec == Init /\ [][Next]_vars

=============================================================================
