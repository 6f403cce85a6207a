--------------------------- MODULE GuestExecution ---------------------------
(***************************************************************************)
(* One guest instance that executes targets: the executor, the state of an *)
(* attempt (assertion scope, failure state, hook phase, artifact frames)   *)
(* and what the callbacks of hooks and tests may do to it.  A trap unwinds *)
(* to the innermost didCallbackTrap, which an assertion such as throws has *)
(* opened, or the executor itself.                                         *)
(***************************************************************************)
EXTENDS Integers, Sequences, SequencesExt, FiniteSets

CONSTANTS
  Targets,    \* targets: [mode, plan, hooks]; hooks[i][kind] counts the hooks of
              \* the i-th node on the chain from the root to the target
  Plans,      \* the counts that plan() is called with
  MaxOps,     \* bound on what the callbacks of a run do
  MaxDepth,   \* bound on nested observers
  MaxRuns     \* bound on the runs in one instance

BeforeKinds == {"beforeAll", "beforeEach"}
AfterKinds  == {"afterEach", "afterAll"}
HookKinds   == BeforeKinds \cup AfterKinds

ASSUME TargetsAssumption ==
  /\ Targets \subseteq [mode : {"normal", "skip", "todo"}, plan : Int,
                        hooks : Seq([HookKinds -> Nat])]
  /\ Plans \subseteq Int
  /\ MaxOps \in Nat /\ MaxDepth \in Nat /\ MaxRuns \in Nat

VARIABLES
  mode,        \* "idle", "executor", "guest", "trapping"
  target,      \* the target of the present or last run
  pc,          \* the next step of its schedule
  scope,       \* active, planned, observed, passed, runOnly, name
  failure,     \* kind of the staged failure, and whether it has a record
  hookPhase, nodeIndex,  \* the active hook kind and node index, or "none"
  frames,      \* artifact frames, the active one first
  observers,   \* didCallbackTrap calls, the innermost first
  events,      \* events of the run
  verdict,     \* "none", "passed", "failed"
  ops, runs,   \* the bounded counters
  wanted,      \* history: the last assertion count asked for
  asserted,    \* history: the assertion calls of the attempt
  cause        \* history: what raised the trap that unwinds, or did last

attempt == <<scope, failure, hookPhase, nodeIndex, frames, observers>>
history == <<wanted, asserted, cause>>
vars == <<mode, target, pc, attempt, events, verdict, ops, runs, history>>

NoFailure == [kind |-> "none", record |-> FALSE]

FreshScope ==
  [active |-> FALSE, planned |-> -1, observed |-> 0, passed |-> FALSE,
   runOnly |-> FALSE, name |-> "none"]

-----------------------------------------------------------------------------
(* The order in which executeNode invokes callbacks. *)

\* executeHookKind: the hooks of a kind along the chain.
HooksAlong(chain, kind, hooks) ==
  FlattenSeq([j \in DOMAIN chain |->
    [k \in 1..hooks[chain[j]][kind] |-> [what |-> kind, owner |-> chain[j]]]])

\* Mutant of Schedule: the hooks after the body run from the root inwards.
ScheduleOutward(t) ==
  LET outward == [i \in DOMAIN t.hooks |-> i]
  IN  HooksAlong(outward, "beforeAll", t.hooks) \o HooksAlong(outward, "beforeEach", t.hooks)
      \o <<[what |-> "body", owner |-> Len(t.hooks)]>>
      \o HooksAlong(outward, "afterEach", t.hooks) \o HooksAlong(outward, "afterAll", t.hooks)

Schedule(t) ==
  LET inward  == [i \in DOMAIN t.hooks |-> i]
      outward == Reverse(inward)
  IN  HooksAlong(inward, "beforeAll", t.hooks) \o HooksAlong(inward, "beforeEach", t.hooks)
      \o <<[what |-> "body", owner |-> Len(t.hooks)]>>
      \o HooksAlong(outward, "afterEach", t.hooks) \o HooksAlong(outward, "afterAll", t.hooks)

Step == Schedule(target)[pc]

-----------------------------------------------------------------------------
(* Raising and recording a failure: each says what becomes of the failure  *)
(* state and of the callback that runs.                                    *)

\* failAssertion: setActiveErrorMessage drops the record.
FailAssertion ==
  /\ failure' = [kind |-> "assertion", record |-> FALSE]
  /\ mode' = "trapping" /\ cause' = "assertion"

\* failWithAssertion: the assertions of uvu stage a record as well.
FailWithRecord ==
  /\ failure' = [kind |-> "assertion", record |-> TRUE]
  /\ mode' = "trapping" /\ cause' = "assertion"

Overrun(s) == s.active /\ s.planned >= 0 /\ s.observed > s.planned

\* Mutant of Recorded: a call beyond the plan is refused before it is counted.
RecordedWithinPlan(s) ==
  IF s.active /\ ~ (s.planned >= 0 /\ s.observed = s.planned)
  THEN [s EXCEPT !.observed = @ + 1] ELSE s

\* recordAssertionCall, but for its failure.
Recorded(s) == IF s.active THEN [s EXCEPT !.observed = @ + 1] ELSE s

-----------------------------------------------------------------------------
Init ==
  /\ mode = "idle" /\ target \in Targets /\ pc = 1
  /\ scope = FreshScope /\ failure = NoFailure
  /\ hookPhase = "none" /\ nodeIndex = "none" /\ frames = <<>> /\ observers = <<>>
  /\ events = <<>> /\ verdict = "none" /\ ops = 0 /\ runs = 0
  /\ wanted = -1 /\ asserted = 0 /\ cause = "none"

\* resolveTraversalChildren: the bodies of the ancestors of the next target are
\* replayed outside any scope.  One may call runOnly, or trap.
ReplayAncestor ==
  /\ mode = "idle" /\ runs < MaxRuns
  /\ verdict' = "none"
  /\ \/ scope' = [scope EXCEPT !.runOnly = TRUE] /\ UNCHANGED failure
     \/ failure' = [kind |-> "assertion", record |-> FALSE] /\ UNCHANGED scope
  /\ UNCHANGED <<mode, target, pc, hookPhase, nodeIndex, frames, observers, events, ops, runs,
                 history>>

\* executeNode, up to its first hook.
Run(t) ==
  /\ mode = "idle" /\ runs < MaxRuns
  /\ runs' = runs + 1 /\ target' = t /\ pc' = 1 /\ ops' = 0
  /\ IF t.mode # "normal"
     THEN /\ verdict' = "passed" /\ events' = <<>>
          /\ UNCHANGED <<mode, scope, failure, history>>
     ELSE /\ mode' = "executor" /\ verdict' = "none"
          /\ events' = <<[type |-> "nodeStart"]>>
          /\ scope' = [FreshScope EXCEPT !.active = TRUE, !.planned = t.plan, !.name = "target"]
          /\ failure' = NoFailure
          /\ wanted' = t.plan /\ asserted' = 0 /\ cause' = "none"
  /\ UNCHANGED <<hookPhase, nodeIndex, frames, observers>>

\* executeHookRegistrations and executeNode, up to the callback.
EnterCallback ==
  /\ mode = "executor" /\ pc <= Len(Schedule(target))
  /\ mode' = "guest"
  /\ nodeIndex' = Step.owner
  /\ frames' = <<Step>> \o frames
  /\ observers' = <<[by |-> "executor", saved |-> failure, runOnly |-> scope.runOnly]>> \o observers
  /\ IF Step.what = "body"
     THEN hookPhase' = "none" /\ UNCHANGED events
     ELSE /\ hookPhase' = Step.what
          /\ events' = Append(events, [type |-> "callbackStart", hook |-> Step])
  /\ UNCHANGED <<target, pc, scope, failure, verdict, ops, runs, history>>

-----------------------------------------------------------------------------
(* What a running callback does. *)

Guest == mode = "guest" /\ ops < MaxOps /\ ops' = ops + 1

\* An assertion of the adapters that count (node:test, tap, tape, ava, QUnit).
CountedAssertion(holds) ==
  /\ Guest
  /\ asserted' = asserted + 1
  /\ scope' = Recorded(scope)
  /\ IF Overrun(scope') \/ ~ holds THEN FailAssertion ELSE UNCHANGED <<mode, failure, cause>>
  /\ UNCHANGED <<target, pc, hookPhase, nodeIndex, frames, observers, events, verdict, runs,
                 wanted>>

\* A failing assertion of node:assert (record = FALSE) or of uvu.
UncountedFailure(record) ==
  /\ Guest
  /\ IF record THEN FailWithRecord ELSE FailAssertion
  /\ UNCHANGED <<target, pc, scope, hookPhase, nodeIndex, frames, observers, events, verdict,
                 runs, wanted, asserted>>

\* plan, expect
SetPlanned(count) ==
  /\ Guest
  /\ wanted' = count
  /\ scope' = [scope EXCEPT !.planned = count]
  /\ IF Overrun(scope') THEN FailAssertion ELSE UNCHANGED <<mode, failure, cause>>
  /\ UNCHANGED <<target, pc, hookPhase, nodeIndex, frames, observers, events, verdict, runs,
                 asserted>>

\* end of tap and tape
EndPlan ==
  /\ Guest
  /\ wanted' = asserted
  /\ scope' = [scope EXCEPT !.planned = scope.observed]
  /\ UNCHANGED <<mode, target, pc, failure, hookPhase, nodeIndex, frames, observers, events,
                 verdict, runs, asserted, cause>>

RunOnly ==
  /\ Guest
  /\ scope' = [scope EXCEPT !.runOnly = TRUE]
  /\ UNCHANGED <<mode, target, pc, failure, hookPhase, nodeIndex, frames, observers, events,
                 verdict, runs, history>>

\* unreachable, an abort, a memory fault
Trap ==
  /\ Guest
  /\ mode' = "trapping" /\ cause' = "trap"
  /\ UNCHANGED <<target, pc, attempt, events, verdict, runs, wanted, asserted>>

\* throws and doesNotThrow of the counting adapters, throws of uvu: snapshot
\* the failure state, clear it, and run a callback under observation.
Observe(by) ==
  /\ Guest /\ Len(observers) <= MaxDepth
  /\ IF by = "uvuThrows" THEN UNCHANGED <<scope, asserted>>
     ELSE asserted' = asserted + 1 /\ scope' = Recorded(scope)
  /\ IF by # "uvuThrows" /\ Overrun(scope')
     THEN FailAssertion /\ UNCHANGED observers
     ELSE /\ observers' = <<[by |-> by, saved |-> failure, runOnly |-> FALSE]>> \o observers
          /\ failure' = NoFailure
          /\ UNCHANGED <<mode, cause>>
  /\ UNCHANGED <<target, pc, hookPhase, nodeIndex, frames, events, verdict, runs, wanted>>

Observer == Head(observers)

\* activeObservedAssertion of uvu
HasRecord == failure.kind = "assertion" /\ failure.record = TRUE

\* The trap was the expected one.
Resume == mode' = "guest" /\ failure' = Observer.saved /\ UNCHANGED cause

\* The observed callback of throws or doesNotThrow returned.
LeaveObserved ==
  /\ mode = "guest" /\ Observer.by # "executor"
  /\ observers' = Tail(observers)
  /\ \/ Observer.by = "throws" /\ FailAssertion
     \/ Observer.by = "uvuThrows" /\ FailWithRecord
     \/ /\ Observer.by = "doesNotThrow"
        /\ failure' = Observer.saved /\ UNCHANGED <<mode, cause>>
  /\ UNCHANGED <<target, pc, scope, hookPhase, nodeIndex, frames, events, verdict, ops, runs,
                 wanted, asserted>>

\* Mutant of UnwindObserved: the failure state is not restored.
UnwindKeepingFailure ==
  /\ mode = "trapping" /\ Observer.by # "executor"
  /\ observers' = Tail(observers)
  /\ \/ Observer.by = "throws" /\ mode' = "guest" /\ UNCHANGED <<failure, cause>>
     \/ Observer.by = "doesNotThrow" /\ FailAssertion
     \/ Observer.by = "uvuThrows" /\ HasRecord /\ FailWithRecord
     \/ Observer.by = "uvuThrows" /\ ~ HasRecord /\ mode' = "guest" /\ UNCHANGED <<failure, cause>>
  /\ UNCHANGED <<target, pc, scope, hookPhase, nodeIndex, frames, events, verdict, ops, runs,
                 wanted, asserted>>

\* The observed callback trapped.  The throws of uvu raises an assertion with a
\* record again.
UnwindObserved ==
  /\ mode = "trapping" /\ Observer.by # "executor"
  /\ observers' = Tail(observers)
  /\ \/ Observer.by = "throws" /\ Resume
     \/ Observer.by = "doesNotThrow" /\ FailAssertion
     \/ Observer.by = "uvuThrows" /\ HasRecord /\ FailWithRecord
     \/ Observer.by = "uvuThrows" /\ ~ HasRecord /\ Resume
  /\ UNCHANGED <<target, pc, scope, hookPhase, nodeIndex, frames, events, verdict, ops, runs,
                 wanted, asserted>>

-----------------------------------------------------------------------------
(* What the executor does when a callback has returned or trapped. *)

\* The state that every callback leaves, whatever it did.
AfterCallback ==
  /\ observers' = Tail(observers)
  /\ frames' = IF frames = <<>> THEN <<>> ELSE Tail(frames)
  /\ hookPhase' = "none" /\ nodeIndex' = "none"

\* abandonAssertionScope, resetAssertionScopeState
ResetScope == scope' = FreshScope /\ failure' = NoFailure

LeaveCallback ==
  /\ mode = "guest" /\ Observer.by = "executor"
  /\ AfterCallback
  /\ mode' = "executor" /\ pc' = pc + 1
  /\ IF Step.what = "body"
     THEN /\ scope' = [scope EXCEPT !.runOnly = Observer.runOnly, !.passed = TRUE]
          /\ UNCHANGED events
     ELSE /\ scope' = [scope EXCEPT !.runOnly = Observer.runOnly]
          /\ events' = Append(events, [type |-> "callbackPass", hook |-> Step])
  /\ UNCHANGED <<target, failure, verdict, ops, runs, history>>

\* resolveFailureKind
FailureKind == IF failure.kind = "assertion" THEN "assertion" ELSE "trap"

FailEvent ==
  IF Step.what = "body" THEN [type |-> "nodeFail", kind |-> FailureKind]
  ELSE [type |-> "callbackFail", hook |-> Step, kind |-> FailureKind]

\* Mutant of UnwindCallback: a hook that trapped ends the run without abandoning
\* the scope.
UnwindHookQuietly ==
  /\ mode = "trapping" /\ Observer.by = "executor"
  /\ AfterCallback
  /\ IF Step.what = "body" THEN ResetScope
     ELSE scope' = [scope EXCEPT !.runOnly = Observer.runOnly] /\ UNCHANGED failure
  /\ mode' = "idle" /\ verdict' = "failed"
  /\ events' = Append(events, FailEvent)
  /\ UNCHANGED <<target, pc, ops, runs, history>>

UnwindCallback ==
  /\ mode = "trapping" /\ Observer.by = "executor"
  /\ AfterCallback
  /\ ResetScope
  /\ mode' = "idle" /\ verdict' = "failed"
  /\ events' = Append(events, FailEvent)
  /\ UNCHANGED <<target, pc, ops, runs, history>>

\* The end of executeNode: endAssertionScope under observation.
EndScope ==
  /\ mode = "executor" /\ pc > Len(Schedule(target))
  /\ ResetScope
  /\ mode' = "idle"
  /\ IF scope.planned >= 0 /\ scope.observed # scope.planned
     THEN /\ verdict' = "failed" /\ cause' = "assertion"
          /\ events' = Append(events, [type |-> "nodeFail", kind |-> "assertion"])
     ELSE /\ verdict' = "passed" /\ UNCHANGED cause
          /\ events' = Append(events, [type |-> "nodePass"])
  /\ UNCHANGED <<target, pc, hookPhase, nodeIndex, frames, observers, ops, runs, wanted, asserted>>

GuestStep ==
  \/ \E holds \in BOOLEAN : CountedAssertion(holds)
  \/ \E record \in BOOLEAN : UncountedFailure(record)
  \/ \E count \in Plans : SetPlanned(count)
  \/ EndPlan
  \/ RunOnly
  \/ Trap
  \/ \E by \in {"throws", "doesNotThrow", "uvuThrows"} : Observe(by)

Next ==
  \/ ReplayAncestor
  \/ \E t \in Targets : Run(t)
  \/ EnterCallback
  \/ GuestStep
  \/ LeaveObserved
  \/ UnwindObserved
  \/ LeaveCallback
  \/ UnwindCallback
  \/ EndScope

Spec == Init /\ [][Next]_vars

-----------------------------------------------------------------------------
(***************************************************************************)
(* Properties.                                                             *)
(***************************************************************************)

Attempted == target.mode = "normal" /\ verdict # "none"

\* Nothing that an attempt sets outlives it, on whichever way it ends and
\* whatever the replay of the ancestors had left behind: no staged failure,
\* plan, count, run-only flag, hook phase, node index or artifact frame is
\* there for the next target of the instance (executeNode's early returns).
AttemptStateIsLocal ==
  Attempted => /\ scope = FreshScope /\ failure = NoFailure
               /\ hookPhase = "none" /\ nodeIndex = "none"
               /\ frames = <<>> /\ observers = <<>>

\* The failure kind that the host is told is the kind of the trap that ended
\* the attempt, not that of one which a throws or doesNotThrow observed
\* earlier or in the meantime (failure-state.ts, resolveFailureKind).
FailureKindIsTrue ==
  verdict = "failed" => Last(events).kind = cause

\* A target passes only if the assertion calls of its hooks and its body are as
\* many as was last asked for, also when a call beyond the plan trapped inside
\* a throws that took the trap for the expected one.
PlanIsKept ==
  Attempted /\ verdict = "passed" /\ wanted >= 0 => asserted = wanted

Before(i, j) ==
  LET a == events[i].hook  b == events[j].hook
  IN  \/ a.what \in BeforeKinds /\ b.what \in AfterKinds
      \/ <<a.what, b.what>> \in {<<"beforeAll", "beforeEach">>, <<"afterEach", "afterAll">>}
      \/ a.what = b.what /\ a.what \in BeforeKinds /\ a.owner <= b.owner
      \/ a.what = b.what /\ a.what \in AfterKinds /\ a.owner >= b.owner

Started == {i \in DOMAIN events : events[i].type = "callbackStart"}

\* The events of an attempt: every hook that starts is closed before the next,
\* outer hooks enclose inner ones, nothing follows a failure, and a target that
\* passed has run each of its hooks once.
AttemptIsWellNested ==
  Attempted =>
    /\ \A i, j \in Started : i < j => Before(i, j)
    /\ \A i \in Started :
         /\ i < Len(events) /\ events[i + 1].type \in {"callbackPass", "callbackFail"}
         /\ events[i + 1].hook = events[i].hook
    /\ \A i \in DOMAIN events :
         events[i].type \in {"nodePass", "nodeFail", "callbackFail"} <=> i = Len(events)
    /\ verdict = "passed" <=> Last(events).type = "nodePass"
    /\ verdict = "passed" => Cardinality(Started) = Len(Schedule(target)) - 1
=============================================================================
