-------------------------- MODULE MCGuestExecution --------------------------
(* A target below the root, with and without hooks, and one to skip. *)
EXTENDS GuestExecution

Hooks(all, each) ==
  [kind \in HookKinds |-> IF kind \in {"beforeAll", "afterAll"} THEN all ELSE each]

SomeTargets ==
  {[mode |-> "normal", plan |-> -1, hooks |-> <<Hooks(0, 1), Hooks(1, 1)>>],
   [mode |-> "normal", plan |-> 1, hooks |-> <<Hooks(0, 0), Hooks(0, 0)>>],
   [mode |-> "skip", plan |-> -1, hooks |-> <<Hooks(0, 0), Hooks(0, 0)>>]}

SomePlans == {-1, 1, 2}
=============================================================================
