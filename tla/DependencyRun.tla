--------------------------- MODULE DependencyRun ---------------------------
(***************************************************************************)
(* What start() promises about the execution of a dependency graph         *)
(* (docs/007, dependency policy), with nothing about stages, batches,      *)
(* workers or hints: a target starts when its prerequisites are behind it  *)
(* and none of them failed, and a failure blocks the direct dependents in  *)
(* the same step.  What else is blocked along with them (their dependents, *)
(* the rest of a bail scope) is left open.                                 *)
(***************************************************************************)

VARIABLES
  targets,   \* the runnable tests (never changes)
  edges,     \* <<a, b>>: a is a prerequisite of b (never changes)
  status     \* of each target

vars == <<targets, edges, status>>

Behind(t) == \A e \in edges : e[2] = t => status[e[1]] \in {"satisfied", "blocked"}

Init == status \in [targets -> {"waiting", "blocked"}]

\* A set of targets is dispatched together.
Start(S) ==
  /\ \A t \in S : status[t] = "waiting" /\ Behind(t)
  /\ status' = [t \in targets |-> IF t \in S THEN "running" ELSE status[t]]
  /\ UNCHANGED <<targets, edges>>

Succeed(t) ==
  /\ status[t] = "running"
  /\ status' = [status EXCEPT ![t] = "satisfied"]
  /\ UNCHANGED <<targets, edges>>

\* Target t fails and the waiting targets B are blocked.
Fail(t, B) ==
  /\ status[t] = "running"
  /\ \A u \in B : status[u] = "waiting"
  /\ \A e \in edges : e[1] = t => e[2] \in B \/ status[e[2]] = "blocked"
  /\ status' = [u \in targets |-> IF u \in B THEN "blocked"
                                  ELSE IF u = t THEN "unsatisfied" ELSE status[u]]
  /\ UNCHANGED <<targets, edges>>

Next ==
  \/ \E S \in SUBSET targets : Start(S)
  \/ \E t \in targets : Succeed(t)
  \/ \E t \in targets, B \in SUBSET targets : Fail(t, B)

Spec == Init /\ [][Next]_vars

=============================================================================
