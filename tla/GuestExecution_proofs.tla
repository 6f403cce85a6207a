----------------------- MODULE GuestExecution_proofs -----------------------
(***************************************************************************)
(* For every set of targets and every bound: an attempt leaves no state    *)
(* behind, names the failure it had, keeps its plan, and tells of its      *)
(* hooks as well nested events.  The first invariant says that a callback  *)
(* always runs with a clear failure state, because every observer saved a  *)
(* clear one, and that the executor's own observer is at the bottom of the *)
(* stack.  The second says what the events tell up to each step of the     *)
(* schedule, which is shown to be sorted: hooks from the root inwards, one *)
(* body, hooks outwards.                                                   *)
(*                                                                         *)
(* The other guest is one built with coverage (CoverageRun, here C), that  *)
(* runs statements with the hits and markers put in front of them: for all *)
(* programs and options the merged snapshot holds what was executed, and   *)
(* what the host is told of the source is true.  Its invariant says that   *)
(* nothing on the agenda is torn from what belongs to it, except for the   *)
(* one statement that is on its way.                                       *)
(***************************************************************************)
EXTENDS GuestExecution, CoverageView, SequenceTheorems, FiniteSetTheorems, WellFoundedInduction, TLAPS

\* Every set of naturals has a least member.
LEMMA LeastNatural ==
  ASSUME NEW S \in SUBSET Nat, S # {}
  PROVE  \E m \in S : \A n \in S : m <= n
<1> DEFINE Less == {ss \in Nat \X Nat : ss[1] < ss[2]}
<1>1. IsWellFoundedOn(Less, Nat)
  BY NatLessThanWellFounded, Zenon DEF OpToRel
<1>2. PICK m \in S : \A n \in S : ~ (<<n, m>> \in Less)
  <2> HIDE DEF Less
  <2> QED BY <1>1, WFMin
<1>3. ASSUME NEW n \in S PROVE m <= n
  <2>1. ~ (n < m)
    BY <1>2
  <2> QED BY <2>1
<1> QED BY <1>3

Failures == [kind : {"none", "assertion"}, record : BOOLEAN]

Scopes == [active : BOOLEAN, planned : Int, observed : Nat, passed : BOOLEAN,
           runOnly : BOOLEAN, name : {"none", "target"}]

Observers == [by : {"executor", "throws", "doesNotThrow", "uvuThrows"},
              saved : {NoFailure}, runOnly : BOOLEAN]

TypeInv ==
  /\ mode \in {"idle", "executor", "guest", "trapping"}
  /\ verdict \in {"none", "passed", "failed"}
  /\ target \in Targets
  /\ scope \in Scopes /\ failure \in Failures
  /\ observers \in Seq(Observers)
  /\ wanted \in Int /\ asserted \in Nat

\* Frames and events are sequences, of whatever the schedule has.
IsSequence(s) == \E S : s \in Seq(S)
SeqInv == IsSequence(frames) /\ IsSequence(events)

\* Outside a callback there is no observer, no frame and no active hook.
Quiet ==
  mode \in {"idle", "executor"} =>
    observers = <<>> /\ frames = <<>> /\ hookPhase = "none" /\ nodeIndex = "none"

\* Inside one, the observer of the executor is the outermost and only it.
Observed ==
  mode \in {"guest", "trapping"} =>
    /\ observers # <<>> /\ Len(frames) = 1
    /\ \A i \in 1..Len(observers) : observers[i].by = "executor" <=> i = Len(observers)

\* Code of the guest runs with a clear failure state, and the staged failure
\* tells what raised the trap that unwinds.
Staged ==
  /\ mode \in {"executor", "guest"} => failure = NoFailure
  /\ mode = "trapping" =>
       cause = IF failure.kind = "assertion" THEN "assertion" ELSE "trap"

\* The scope counts what the history counts.
Counted ==
  mode # "idle" => /\ verdict = "none" /\ target.mode = "normal" /\ scope.active = TRUE
                   /\ scope.planned = wanted /\ scope.observed = asserted

IInv ==
  /\ TypeInv /\ SeqInv /\ Quiet /\ Observed /\ Staged /\ Counted
  /\ AttemptStateIsLocal /\ FailureKindIsTrue /\ PlanIsKept

-----------------------------------------------------------------------------
\* Appending to a sequence of whatever elements.
LEMMA AppendLast ==
  ASSUME NEW s, IsSequence(s), NEW e
  PROVE  /\ IsSequence(Append(s, e))
         /\ Last(Append(s, e)) = e
<1>1. PICK S : s \in Seq(S)  BY DEF IsSequence
<1>2. s \in Seq(S \cup {e})
  BY <1>1
<1>3. Append(s, e) \in Seq(S \cup {e}) /\ Last(Append(s, e)) = e
  BY <1>2 DEF Last
<1> QED BY <1>3 DEF IsSequence

LEMMA ShortSequences == ASSUME NEW e PROVE IsSequence(<<>>) /\ IsSequence(<<e>>)
<1>1. <<>> \in Seq({}) /\ <<e>> \in Seq({e})
  OBVIOUS
<1> QED BY <1>1 DEF IsSequence

\* Pushing on a stack whose top is the head, and popping it again.
LEMMA Push ==
  ASSUME NEW S, NEW s \in Seq(S), NEW e \in S
  PROVE  /\ <<e>> \o s \in Seq(S)
         /\ Len(<<e>> \o s) = Len(s) + 1
         /\ \A i \in 1..(Len(s) + 1) : (<<e>> \o s)[i] = IF i = 1 THEN e ELSE s[i - 1]
<1>1. <<e>> \in Seq(S) /\ Len(<<e>>) = 1 /\ <<e>>[1] = e
  OBVIOUS
<1> QED BY <1>1

LEMMA Pop ==
  ASSUME NEW S, NEW s \in Seq(S), s # <<>>
  PROVE  /\ Tail(s) \in Seq(S) /\ Len(s) \in Nat /\ Len(s) > 0
         /\ Len(Tail(s)) = Len(s) - 1
         /\ \A i \in 1..(Len(s) - 1) : Tail(s)[i] = s[i + 1]
         /\ Head(s) = s[1] /\ Head(s) \in S
         /\ Len(s) = 1 => Tail(s) = <<>>
<1>1. Len(s) \in Nat /\ Len(s) > 0
  OBVIOUS
<1>2. Tail(s) \in Seq(S) /\ Len(Tail(s)) = Len(s) - 1
  BY <1>1
<1>3. \A i \in 1..(Len(s) - 1) : Tail(s)[i] = s[i + 1]
  BY <1>1
<1>4. Head(s) = s[1] /\ Head(s) \in S
  BY <1>1
<1>5. ASSUME Len(s) = 1 PROVE Tail(s) = <<>>
  <2>1. Tail(s) \in Seq(S) /\ Len(Tail(s)) = 0
    BY <1>2, <1>5
  <2> QED BY <2>1, EmptySeq
<1> QED BY <1>1, <1>2, <1>3, <1>4, <1>5

\* What may be staged has the type of a failure, and what the scope begins and
\* ends with that of a scope.
LEMMA Types ==
  /\ NoFailure \in Failures /\ NoFailure.kind = "none"
  /\ [kind |-> "assertion", record |-> FALSE] \in Failures
  /\ [kind |-> "assertion", record |-> TRUE] \in Failures
  /\ FreshScope \in Scopes
BY DEF NoFailure, Failures, FreshScope, Scopes

LEMMA ScopeTypes ==
  ASSUME NEW s \in Scopes
  PROVE  /\ Recorded(s) \in Scopes
         /\ \A n \in Int : [s EXCEPT !.planned = n] \in Scopes
         /\ [s EXCEPT !.planned = s.observed] \in Scopes
         /\ [s EXCEPT !.runOnly = TRUE] \in Scopes
<1>1. [s EXCEPT !.observed = s.observed + 1] \in Scopes
  BY DEF Scopes
<1>2. Recorded(s) \in Scopes
  BY <1>1 DEF Recorded
<1>3. ASSUME NEW n \in Int PROVE [s EXCEPT !.planned = n] \in Scopes
  BY DEF Scopes
<1>4. [s EXCEPT !.planned = s.observed] \in Scopes
  BY DEF Scopes
<1>5. [s EXCEPT !.runOnly = TRUE] \in Scopes
  BY DEF Scopes
<1> QED BY <1>2, <1>3, <1>4, <1>5

LEMMA OpenedScope ==
  ASSUME NEW n \in Int
  PROVE  [FreshScope EXCEPT !.active = TRUE, !.planned = n, !.name = "target"] \in Scopes
BY DEF Scopes, FreshScope

LEMMA ObserverTypes ==
  ASSUME NEW by \in {"executor", "throws", "doesNotThrow", "uvuThrows"}, NEW b \in BOOLEAN
  PROVE  [by |-> by, saved |-> NoFailure, runOnly |-> b] \in Observers
BY DEF Observers

LEMMA InitInv == Init => IInv
<1> SUFFICES ASSUME Init PROVE IInv  OBVIOUS
<1>1. TypeInv
  BY DEF Init, TypeInv, Scopes, Failures, FreshScope, NoFailure
<1>4. SeqInv
  BY ShortSequences DEF Init, SeqInv
<1>2. Quiet /\ Observed /\ Staged /\ Counted
  BY DEF Init, Quiet, Observed, Staged, Counted
<1>3. AttemptStateIsLocal /\ FailureKindIsTrue /\ PlanIsKept
  BY DEF Init, AttemptStateIsLocal, FailureKindIsTrue, PlanIsKept, Attempted
<1> QED BY <1>1, <1>2, <1>3, <1>4 DEF IInv

-----------------------------------------------------------------------------
\* A step that only the guest takes: it runs on, or it starts to trap.
LEMMA GuestInv ==
  ASSUME IInv, GuestStep
  PROVE  IInv'
<1> USE DEF Guest
<1>0. /\ mode = "guest" /\ verdict = "none" /\ verdict' = "none"
      /\ target' = target /\ frames' = frames /\ events' = events
      /\ hookPhase' = hookPhase /\ nodeIndex' = nodeIndex
  BY DEF IInv, Counted, GuestStep, CountedAssertion, UncountedFailure, SetPlanned, EndPlan,
         RunOnly, Trap, Observe, attempt, history
<1>1. TypeInv' /\ mode' \in {"guest", "trapping"}
  <2> USE <1>0 DEF IInv, TypeInv
  <2>1. ASSUME NEW holds \in BOOLEAN, CountedAssertion(holds)
        PROVE  TypeInv' /\ mode' \in {"guest", "trapping"}
    <3>0. scope' \in Scopes
      BY <2>1, ScopeTypes DEF CountedAssertion
    <3>1. observers' = observers /\ wanted' = wanted /\ asserted' \in Nat
      BY <2>1 DEF CountedAssertion
    <3>2. failure' \in Failures /\ mode' \in {"guest", "trapping"}
      BY <2>1, Types DEF CountedAssertion, FailAssertion
    <3> QED BY <3>0, <3>1, <3>2
  <2>2. ASSUME NEW record \in BOOLEAN, UncountedFailure(record)
        PROVE  TypeInv' /\ mode' \in {"guest", "trapping"}
    BY <2>2, Types DEF UncountedFailure, FailAssertion, FailWithRecord
  <2>3. ASSUME NEW count \in Plans, SetPlanned(count)
        PROVE  TypeInv' /\ mode' \in {"guest", "trapping"}
    <3>1. scope' \in Scopes /\ observers' = observers /\ wanted' \in Int /\ asserted' = asserted
      BY <2>3, ScopeTypes, TargetsAssumption DEF SetPlanned
    <3>2. failure' \in Failures /\ mode' \in {"guest", "trapping"}
      BY <2>3, Types DEF SetPlanned, FailAssertion
    <3> QED BY <3>1, <3>2
  <2>4. CASE EndPlan
    <3>1. scope' \in Scopes
      BY <2>4, ScopeTypes DEF EndPlan
    <3> QED BY <2>4, <3>1 DEF EndPlan
  <2>5. CASE RunOnly
    BY <2>5, ScopeTypes DEF RunOnly, history
  <2>6. CASE Trap
    BY <2>6 DEF Trap, attempt
  <2>7. ASSUME NEW by \in {"throws", "doesNotThrow", "uvuThrows"}, Observe(by)
        PROVE  TypeInv' /\ mode' \in {"guest", "trapping"}
    <3>0. failure = NoFailure
      BY DEF Staged
    <3>5. scope' \in Scopes
      BY <2>7, ScopeTypes DEF Observe
    <3>1. wanted' = wanted /\ asserted' \in Nat
      BY <2>7 DEF Observe
    <3>2. [by |-> by, saved |-> failure, runOnly |-> FALSE] \in Observers
      BY <3>0, ObserverTypes
    <3>3. observers' \in Seq(Observers)
      <4> DEFINE top == [by |-> by, saved |-> failure, runOnly |-> FALSE]
      <4>1. observers' = observers \/ observers' = <<top>> \o observers
        BY <2>7 DEF Observe
      <4>2. <<top>> \o observers \in Seq(Observers)
        BY <3>2, Push
      <4> QED BY <4>1, <4>2
    <3>4. failure' \in Failures /\ mode' \in {"guest", "trapping"}
      BY <2>7, Types DEF Observe, FailAssertion
    <3> QED BY <3>1, <3>3, <3>4, <3>5
  <2> QED BY <2>1, <2>2, <2>3, <2>4, <2>5, <2>6, <2>7 DEF GuestStep
<1>2. Observed'
  <2> USE <1>0 DEF IInv, TypeInv, Observed
  <2>1. CASE observers' = observers
    BY <2>1
  <2>2. ASSUME NEW by \in {"throws", "doesNotThrow", "uvuThrows"},
               observers' = <<[by |-> by, saved |-> failure, runOnly |-> FALSE]>> \o observers
        PROVE  Observed'
    <3> DEFINE top == [by |-> by, saved |-> failure, runOnly |-> FALSE]
    <3>0. failure = NoFailure
      BY DEF Staged
    <3>1. top \in Observers /\ top.by # "executor"
      BY <3>0, ObserverTypes
    <3>2. /\ Len(observers') = Len(observers) + 1 /\ Len(observers) \in Nat
          /\ \A i \in 1..Len(observers') :
               observers'[i] = IF i = 1 THEN top ELSE observers[i - 1]
      <4>1. observers \in Seq(Observers)
        OBVIOUS
      <4> HIDE DEF top
      <4>2. observers' = <<top>> \o observers
        BY <2>2 DEF top
      <4>3. top \in Observers
        BY <3>1
      <4>4. /\ Len(<<top>> \o observers) = Len(observers) + 1
            /\ \A i \in 1..(Len(observers) + 1) :
                 (<<top>> \o observers)[i] = IF i = 1 THEN top ELSE observers[i - 1]
        BY <4>1, <4>3, Push
      <4>5. Len(observers) \in Nat
        BY <4>1, LenProperties
      <4> QED BY <4>2, <4>4, <4>5
    <3>3. Len(observers) > 0
      BY <1>0
    <3>4. \A i \in 1..Len(observers') : observers'[i].by = "executor" <=> i = Len(observers')
      BY <1>0, <3>1, <3>2, <3>3
    <3> QED BY <3>2, <3>3, <3>4
  <2> QED BY <2>1, <2>2 DEF GuestStep, CountedAssertion, UncountedFailure, SetPlanned, EndPlan,
                            RunOnly, Trap, Observe, attempt
<1>3. Staged'
  BY <1>0, Types DEF IInv, TypeInv, Staged, GuestStep, CountedAssertion,
         UncountedFailure, SetPlanned, EndPlan, RunOnly, Trap, Observe, attempt, history,
         FailAssertion, FailWithRecord
<1>4. Counted'
  BY <1>0 DEF IInv, TypeInv, Scopes, Counted, Recorded, GuestStep, CountedAssertion,
         UncountedFailure, SetPlanned, EndPlan, RunOnly, Trap, Observe, attempt, history,
         FailAssertion, FailWithRecord
<1>5. Quiet' /\ SeqInv' /\ AttemptStateIsLocal' /\ FailureKindIsTrue' /\ PlanIsKept'
  BY <1>0, <1>1 DEF IInv, SeqInv, Quiet, AttemptStateIsLocal, FailureKindIsTrue, PlanIsKept, Attempted
<1> QED BY <1>1, <1>2, <1>3, <1>4, <1>5 DEF IInv

\* An observer closes: its callback returned or trapped.
LEMMA ObserverInv ==
  ASSUME IInv, LeaveObserved \/ UnwindObserved
  PROVE  IInv'
<1>0. /\ mode \in {"guest", "trapping"} /\ observers' = Tail(observers)
      /\ Head(observers).by # "executor"
      /\ verdict = "none" /\ verdict' = "none" /\ target' = target /\ frames' = frames
      /\ events' = events /\ scope' = scope /\ wanted' = wanted /\ asserted' = asserted
      /\ hookPhase' = hookPhase /\ nodeIndex' = nodeIndex
  BY DEF IInv, Counted, LeaveObserved, UnwindObserved, Observer
<1>1. /\ observers \in Seq(Observers) /\ observers # <<>> /\ Len(observers) \in Nat
      /\ Head(observers) = observers[1] /\ Head(observers) \in Observers
  BY <1>0, Pop DEF IInv, TypeInv, Observed
<1>2. Observer.saved = NoFailure /\ Observer.by \in {"throws", "doesNotThrow", "uvuThrows"}
  BY <1>0, <1>1 DEF Observer, Observers
<1>3. Len(observers) > 1
  BY <1>0, <1>1 DEF IInv, Observed
<1>4. /\ observers' \in Seq(Observers) /\ Len(observers') = Len(observers) - 1
      /\ \A i \in 1..Len(observers') : observers'[i] = observers[i + 1]
  BY <1>0, <1>1, Pop
<1>5. /\ mode' \in {"guest", "trapping"} /\ failure' \in Failures
      /\ mode' = "guest" => failure' = NoFailure
      /\ mode' = "trapping" =>
           cause' = IF failure'.kind = "assertion" THEN "assertion" ELSE "trap"
  <2>1. \/ mode' = "guest" /\ failure' = NoFailure
        \/ FailAssertion
        \/ FailWithRecord
    <3>1. CASE LeaveObserved
      BY <1>2, <3>1 DEF LeaveObserved
    <3>2. CASE UnwindObserved
      BY <1>2, <3>2 DEF UnwindObserved, Resume
    <3> QED BY <3>1, <3>2
  <2>2. CASE FailAssertion
    BY <2>2, Types DEF FailAssertion
  <2>3. CASE FailWithRecord
    BY <2>3, Types DEF FailWithRecord
  <2> QED BY <2>1, <2>2, <2>3, Types
<1>6. TypeInv'
  BY <1>0, <1>4, <1>5 DEF IInv, TypeInv
<1>7. Observed'
  <2>0. /\ Len(frames) = 1
        /\ \A i \in 1..Len(observers) : observers[i].by = "executor" <=> i = Len(observers)
    BY <1>0 DEF IInv, Observed
  <2>1. \A i \in 1..Len(observers') : observers'[i].by = "executor" <=> i = Len(observers')
    BY <2>0, <1>1, <1>3, <1>4
  <2>2. observers' # <<>> /\ Len(frames') = 1
    <3>1. Len(observers') # 0
      BY <1>3, <1>4, <1>1
    <3> QED BY <1>0, <2>0, <3>1, EmptySeq
  <2> QED BY <2>1, <2>2 DEF Observed
<1>8. Staged' /\ Counted' /\ Quiet' /\ SeqInv'
  BY <1>0, <1>5 DEF IInv, SeqInv, Staged, Counted, Quiet
<1>9. AttemptStateIsLocal' /\ FailureKindIsTrue' /\ PlanIsKept'
  BY <1>0 DEF AttemptStateIsLocal, FailureKindIsTrue, PlanIsKept, Attempted
<1> QED BY <1>6, <1>7, <1>8, <1>9 DEF IInv

-----------------------------------------------------------------------------
\* The innermost observer is that of the executor only when it is the last one.
LEMMA ExecutorObserver ==
  ASSUME IInv, mode \in {"guest", "trapping"}, Observer.by = "executor"
  PROVE  /\ Tail(observers) = <<>> /\ Tail(frames) = <<>> /\ frames # <<>>
         /\ Observer \in Observers
<1>1. /\ observers \in Seq(Observers) /\ observers # <<>> /\ Len(observers) \in Nat
      /\ Observer = observers[1] /\ Observer \in Observers
  BY Pop DEF IInv, TypeInv, Observed, Observer
<1>2. Len(observers) = 1
  <2>1. Len(observers) > 0
    BY <1>1, Pop
  <2>2. \A i \in 1..Len(observers) : observers[i].by = "executor" <=> i = Len(observers)
    BY DEF IInv, Observed
  <2>3. observers[1].by = "executor"
    BY <1>1
  <2>4. Len(observers) \in Nat
    BY <1>1
  <2>5. 1 \in 1..Len(observers)
    BY <2>1, <2>4
  <2> QED BY <2>2, <2>3, <2>5
<1>3. PICK S : frames \in Seq(S)
  BY DEF IInv, SeqInv, IsSequence
<1>4. Len(frames) = 1
  BY DEF IInv, Observed
<1>5. Tail(frames) = <<>> /\ frames # <<>>
  <2>1. frames # <<>>
    BY <1>4, EmptySeq
  <2> QED BY <1>3, <1>4, <2>1, Pop
<1>6. Tail(observers) = <<>>
  BY <1>1, <1>2, Pop
<1> QED BY <1>1, <1>5, <1>6

LEMMA ExecutorInv ==
  ASSUME IInv, EnterCallback \/ LeaveCallback \/ UnwindCallback \/ EndScope
  PROVE  IInv'
<1>1. CASE EnterCallback
  <2> USE <1>1 DEF EnterCallback
  <2>1. /\ mode = "executor" /\ mode' = "guest" /\ observers = <<>> /\ frames = <<>>
        /\ failure = NoFailure /\ failure' = failure /\ scope' = scope /\ verdict' = verdict
        /\ target' = target /\ wanted' = wanted /\ asserted' = asserted /\ verdict = "none"
    BY DEF IInv, Quiet, Staged, Counted, history
  <2> DEFINE top == [by |-> "executor", saved |-> failure, runOnly |-> scope.runOnly]
  <2>2. top \in Observers
    BY <2>1 DEF IInv, TypeInv, Scopes, Observers
  <2>3. observers' = <<top>> /\ frames' = <<Step>>
    <3>1. observers' = <<top>> \o <<>> /\ frames' = <<Step>> \o <<>>
      BY <2>1
    <3>2. <<top>> \o <<>> = <<top>> /\ <<Step>> \o <<>> = <<Step>>
      OBVIOUS
    <3> QED BY <3>1, <3>2
  <2>4. IsSequence(frames')
    BY <2>3, ShortSequences
  <2>5. IsSequence(events')
    BY AppendLast DEF IInv, SeqInv
  <2>6. TypeInv' /\ SeqInv'
    BY <2>1, <2>2, <2>3, <2>4, <2>5 DEF IInv, TypeInv, SeqInv
  <2>7. Observed' /\ Staged' /\ Counted' /\ Quiet'
    BY <2>1, <2>2, <2>3 DEF IInv, Observed, Staged, Counted, Quiet
  <2>8. AttemptStateIsLocal' /\ FailureKindIsTrue' /\ PlanIsKept'
    BY <2>1 DEF AttemptStateIsLocal, FailureKindIsTrue, PlanIsKept, Attempted
  <2> QED BY <2>6, <2>7, <2>8 DEF IInv
<1>2. CASE LeaveCallback
  <2> USE <1>2 DEF LeaveCallback, AfterCallback
  <2>1. /\ observers' = <<>> /\ frames' = <<>> /\ Observer \in Observers
        /\ hookPhase' = "none" /\ nodeIndex' = "none"
    BY ExecutorObserver
  <2>2. /\ mode' = "executor" /\ failure = NoFailure /\ failure' = failure
        /\ verdict' = "none" /\ verdict = "none" /\ target' = target
        /\ wanted' = wanted /\ asserted' = asserted
        /\ scope' \in Scopes /\ scope'.active = TRUE /\ scope.active = TRUE
        /\ scope'.planned = scope.planned /\ scope'.observed = scope.observed
    <3>1. mode = "guest" /\ scope \in Scopes /\ Observer.runOnly \in BOOLEAN
      BY <2>1 DEF IInv, TypeInv, Observers
    <3>2. failure = NoFailure /\ verdict = "none" /\ scope.active = TRUE
      BY <3>1 DEF IInv, Staged, Counted
    <3>3. \/ scope' = [scope EXCEPT !.runOnly = Observer.runOnly, !.passed = TRUE]
          \/ scope' = [scope EXCEPT !.runOnly = Observer.runOnly]
      OBVIOUS
    <3>4. /\ scope' \in Scopes /\ scope'.active = scope.active
          /\ scope'.planned = scope.planned /\ scope'.observed = scope.observed
      BY <3>1, <3>3 DEF Scopes
    <3> QED BY <3>2, <3>4 DEF history
  <2>3. IsSequence(events')
    BY AppendLast DEF IInv, SeqInv
  <2>4. IsSequence(frames')
    BY <2>1, ShortSequences
  <2>5. TypeInv' /\ SeqInv'
    <3>1. observers' \in Seq(Observers)
      BY <2>1, EmptySeq
    <3> QED BY <2>1, <2>2, <2>3, <2>4, <3>1 DEF IInv, TypeInv, SeqInv
  <2>6. Observed' /\ Staged' /\ Counted' /\ Quiet'
    BY <2>1, <2>2 DEF IInv, Observed, Staged, Counted, Quiet
  <2>7. AttemptStateIsLocal' /\ FailureKindIsTrue' /\ PlanIsKept'
    BY <2>2 DEF AttemptStateIsLocal, FailureKindIsTrue, PlanIsKept, Attempted
  <2> QED BY <2>5, <2>6, <2>7 DEF IInv
<1>3. CASE UnwindCallback
  <2> USE <1>3 DEF UnwindCallback, AfterCallback, ResetScope
  <2>1. /\ observers' = <<>> /\ frames' = <<>>
        /\ hookPhase' = "none" /\ nodeIndex' = "none"
    BY ExecutorObserver
  <2>2. FailEvent.kind = cause
    BY DEF FailEvent, FailureKind, IInv, Staged
  <2>3. IsSequence(events') /\ Last(events') = FailEvent
    BY AppendLast DEF IInv, SeqInv
  <2>7. IsSequence(frames')
    BY <2>1, ShortSequences
  <2>4. TypeInv' /\ SeqInv'
    <3>1. observers' \in Seq(Observers)
      BY <2>1, EmptySeq
    <3> QED BY <2>1, <2>3, <2>7, <3>1, Types DEF IInv, TypeInv, SeqInv, history
  <2>5. Observed' /\ Staged' /\ Counted' /\ Quiet'
    BY <2>1 DEF Observed, Staged, Counted, Quiet
  <2>6. AttemptStateIsLocal' /\ FailureKindIsTrue' /\ PlanIsKept'
    BY <2>1, <2>2, <2>3 DEF AttemptStateIsLocal, FailureKindIsTrue, PlanIsKept, Attempted, history
  <2> QED BY <2>4, <2>5, <2>6 DEF IInv
<1>4. CASE EndScope
  <2> USE <1>4 DEF EndScope, ResetScope
  <2>1. /\ mode' = "idle" /\ observers' = <<>> /\ frames' = <<>>
        /\ hookPhase' = "none" /\ nodeIndex' = "none"
    BY DEF IInv, Quiet
  <2>2. /\ IsSequence(events')
        /\ verdict' = "failed" => Last(events') = [type |-> "nodeFail", kind |-> "assertion"]
    BY AppendLast DEF IInv, SeqInv
  <2>3. TypeInv' /\ SeqInv'
    BY <2>1, <2>2, Types DEF IInv, TypeInv, SeqInv
  <2>4. Observed' /\ Staged' /\ Counted' /\ Quiet'
    BY <2>1 DEF Observed, Staged, Counted, Quiet
  <2>5. AttemptStateIsLocal' /\ FailureKindIsTrue'
    BY <2>1, <2>2 DEF AttemptStateIsLocal, FailureKindIsTrue
  <2>6. PlanIsKept'
    BY DEF IInv, Counted, PlanIsKept, Attempted
  <2> QED BY <2>3, <2>4, <2>5, <2>6 DEF IInv
<1> QED BY <1>1, <1>2, <1>3, <1>4

LEMMA IdleInv ==
  ASSUME IInv, ReplayAncestor \/ (\E t \in Targets : Run(t))
  PROVE  IInv'
<1>1. CASE ReplayAncestor
  <2> USE <1>1 DEF ReplayAncestor
  <2>1. TypeInv' /\ SeqInv'
    BY Types, ScopeTypes DEF IInv, TypeInv, SeqInv, history
  <2>2. Quiet' /\ Observed' /\ Staged' /\ Counted'
    BY DEF IInv, Quiet, Observed, Staged, Counted
  <2>3. AttemptStateIsLocal' /\ FailureKindIsTrue' /\ PlanIsKept'
    BY DEF AttemptStateIsLocal, FailureKindIsTrue, PlanIsKept, Attempted
  <2> QED BY <2>1, <2>2, <2>3 DEF IInv
<1>2. ASSUME NEW t \in Targets, Run(t) PROVE IInv'
  <2>1. t.plan \in Int
    BY TargetsAssumption
  <2>2. /\ mode = "idle" /\ mode' \in {"idle", "executor"} /\ target' = t
        /\ verdict' \in {"none", "passed"}
        /\ observers' = observers /\ frames' = frames
    BY <1>2 DEF Run
  <2>6. SeqInv'
    <3> DEFINE start == [type |-> "nodeStart"]
    <3>1. events' = <<>> \/ events' = <<start>>
      BY <1>2 DEF Run
    <3> HIDE DEF start
    <3> QED BY <2>2, <3>1, ShortSequences DEF IInv, SeqInv
  <2>7. scope' \in Scopes /\ failure' \in Failures /\ wanted' \in Int /\ asserted' \in Nat
    <3>1. CASE t.mode # "normal"
      BY <1>2, <3>1 DEF Run, IInv, TypeInv, history
    <3>2. CASE t.mode = "normal"
      <4>1. /\ scope' = [FreshScope EXCEPT !.active = TRUE, !.planned = t.plan, !.name = "target"]
            /\ failure' = NoFailure /\ wanted' = t.plan /\ asserted' = 0
        BY <1>2, <3>2 DEF Run
      <4> QED BY <4>1, <2>1, Types, OpenedScope
    <3> QED BY <3>1, <3>2
  <2>3. TypeInv' /\ SeqInv'
    BY <2>2, <2>6, <2>7 DEF IInv, TypeInv
  <2> USE <1>2 DEF Run
  <2>4. Quiet' /\ Observed' /\ Staged' /\ Counted'
    BY DEF IInv, Quiet, Observed, Staged, Counted, FreshScope
  <2>5. AttemptStateIsLocal' /\ FailureKindIsTrue' /\ PlanIsKept'
    BY DEF AttemptStateIsLocal, FailureKindIsTrue, PlanIsKept, Attempted
  <2> QED BY <2>3, <2>4, <2>5 DEF IInv
<1> QED BY <1>1, <1>2

LEMMA NextInv == IInv /\ [Next]_vars => IInv'
<1> SUFFICES ASSUME IInv, [Next]_vars PROVE IInv'  OBVIOUS
<1>1. CASE UNCHANGED vars
  BY <1>1 DEF vars, attempt, history, IInv, TypeInv, SeqInv, Quiet, Observed, Staged, Counted,
              AttemptStateIsLocal, FailureKindIsTrue, PlanIsKept, Attempted
<1> QED BY <1>1, GuestInv, ObserverInv, ExecutorInv, IdleInv DEF Next

THEOREM Invariance == Spec => []IInv
BY InitInv, NextInv, PTL DEF Spec

\* However an attempt ends, and whatever the bodies of the ancestors, the hooks
\* and the test have done, it leaves the attempt state of executor.ts and
\* execution-state.ts as a new instance has it.
THEOREM AttemptsLeaveNothing == Spec => []AttemptStateIsLocal
<1>1. IInv => AttemptStateIsLocal  BY DEF IInv
<1> QED BY <1>1, Invariance, PTL

\* resolveFailureKind tells the host the kind of the trap that ended the
\* attempt, at any depth of nested throws and doesNotThrow.
THEOREM FailureKindsAreTrue == Spec => []FailureKindIsTrue
<1>1. IInv => FailureKindIsTrue  BY DEF IInv
<1> QED BY <1>1, Invariance, PTL

\* A target that passed made the assertion calls that were last asked for.
THEOREM PlansAreKept == Spec => []PlanIsKept
<1>1. IInv => PlanIsKept  BY DEF IInv
<1> QED BY <1>1, Invariance, PTL

-----------------------------------------------------------------------------
(***************************************************************************)
(* The schedule of a target: hooks from the root inwards, the body, hooks  *)
(* from the target outwards.                                               *)
(***************************************************************************)

Steps == [what : HookKinds \cup {"body"}, owner : Nat]

\* The hook a may come before the hook b.
HookPrecedes(a, b) ==
  \/ a.what \in BeforeKinds /\ b.what \in AfterKinds
  \/ <<a.what, b.what>> \in {<<"beforeAll", "beforeEach">>, <<"afterEach", "afterAll">>}
  \/ a.what = b.what /\ a.what \in BeforeKinds /\ a.owner <= b.owner
  \/ a.what = b.what /\ a.what \in AfterKinds /\ a.owner >= b.owner

\* The step a may come before the step b: there is one body.
Order == {p \in Steps \X Steps :
            /\ p[1].what # "body" \/ p[2].what # "body"
            /\ p[1].what # "body" /\ p[2].what # "body" => HookPrecedes(p[1], p[2])}

Sorted(s, R) == \A i, j \in DOMAIN s : i < j => <<s[i], s[j]>> \in R

LEMMA SortedConcat ==
  ASSUME NEW S, NEW s \in Seq(S), NEW t \in Seq(S), NEW R, Sorted(s, R), Sorted(t, R),
         \A x \in Range(s), y \in Range(t) : <<x, y>> \in R
  PROVE  s \o t \in Seq(S) /\ Sorted(s \o t, R)
<1> DEFINE m == Len(s)  n == Len(t)  st == s \o t
<1>1. /\ st \in Seq(S) /\ m \in Nat /\ n \in Nat
      /\ DOMAIN s = 1..m /\ DOMAIN t = 1..n /\ DOMAIN st = 1..(m + n)
      /\ \A i \in 1..(m + n) : st[i] = IF i <= m THEN s[i] ELSE t[i - m]
  <2>1. st \in Seq(S) /\ Len(st) = m + n /\ m \in Nat /\ n \in Nat
    BY ConcatProperties, LenProperties
  <2>2. \A i \in 1..(m + n) : st[i] = IF i <= m THEN s[i] ELSE t[i - m]
    BY ConcatProperties, LenProperties
  <2> QED BY <2>1, <2>2, LenProperties
<1> HIDE DEF m, n, st
<1>2. ASSUME NEW k \in 1..(m + n)
      PROVE  \/ k \in 1..m /\ st[k] = s[k]
             \/ k - m \in 1..n /\ ~ (k <= m) /\ st[k] = t[k - m]
  BY <1>1
<1>3. Sorted(st, R)
  <2> SUFFICES ASSUME NEW i \in 1..(m + n), NEW j \in 1..(m + n), i < j
               PROVE  <<st[i], st[j]>> \in R
    BY <1>1 DEF Sorted
  <2>1. CASE i <= m /\ j <= m
    <3>1. st[i] = s[i] /\ st[j] = s[j] /\ i \in 1..m /\ j \in 1..m
      BY <1>1, <1>2, <2>1
    <3> QED BY <1>1, <3>1 DEF Sorted
  <2>2. CASE i <= m /\ ~ (j <= m)
    <3>1. st[i] = s[i] /\ st[j] = t[j - m] /\ i \in 1..m /\ j - m \in 1..n
      BY <1>1, <1>2, <2>2
    <3>2. s[i] \in Range(s) /\ t[j - m] \in Range(t)
      BY <1>1, <3>1 DEF Range
    <3> QED BY <3>1, <3>2
  <2>3. CASE ~ (i <= m)
    <3>1. /\ st[i] = t[i - m] /\ st[j] = t[j - m] /\ i - m \in 1..n /\ j - m \in 1..n
          /\ i - m < j - m
      BY <1>1, <1>2, <2>3
    <3> QED BY <1>1, <3>1 DEF Sorted
  <2> QED BY <2>1, <2>2, <2>3
<1> QED BY <1>1, <1>3 DEF st

\* One step of the recursion of FlattenSeq.
Glue(q, g, i) == IF i = 1 THEN q[i] ELSE g[i - 1] \o q[i]

LEMMA GlueExists ==
  ASSUME NEW S, NEW q \in Seq(Seq(S)), Len(q) > 0
  PROVE  \E g \in [1..Len(q) -> Seq(S)] : \A i \in 1..Len(q) : g[i] = Glue(q, g, i)
<1> DEFINE D == 1..Len(q)
           Upto(g, k) == \A i \in D : i <= k => g[i] = Glue(q, g, i)
           Bad == {k \in Nat : ~ \E g \in [D -> Seq(S)] : Upto(g, k)}
<1>0. Len(q) \in Nat /\ DOMAIN q = D /\ \A i \in D : q[i] \in Seq(S)
  BY LenProperties, ElementOfSeq
<1>1. Bad = {}
  <2> SUFFICES ASSUME Bad # {} PROVE FALSE
    OBVIOUS
  <2>1. PICK k \in Bad : \A n \in Bad : k <= n
    <3>1. Bad \in SUBSET Nat /\ Bad # {}
      OBVIOUS
    <3> HIDE DEF Bad
    <3> QED BY <3>1, LeastNatural
  <2>2. k \in Nat /\ ~ \E g \in [D -> Seq(S)] : Upto(g, k)
    OBVIOUS
  <2>3. CASE k = 0
    <3> DEFINE g == [i \in D |-> <<>>]
    <3>1. g \in [D -> Seq(S)]
      OBVIOUS
    <3>2. Upto(g, k)
      BY <1>0, <2>3
    <3> QED BY <2>2, <3>1, <3>2
  <2>4. CASE k # 0
    <3>1. k - 1 \in Nat /\ k - 1 < k
      BY <2>2, <2>4
    <3>2. k - 1 \notin Bad
      <4> HIDE DEF Bad
      <4> QED BY <2>1, <2>2, <3>1
    <3>3. PICK g \in [D -> Seq(S)] : Upto(g, k - 1)
      BY <3>1, <3>2
    <3> DEFINE h == IF k \in D THEN [g EXCEPT ![k] = Glue(q, g, k)] ELSE g
    <3>4. k \in D => Glue(q, g, k) \in Seq(S)
      <4>1. ASSUME k \in D, k # 1 PROVE k - 1 \in D /\ g[k - 1] \in Seq(S) /\ q[k] \in Seq(S)
        <5>1. k - 1 \in D
          BY <1>0, <2>2, <4>1
        <5> HIDE DEF D, Upto
        <5> QED BY <1>0, <3>3, <4>1, <5>1
      <4>2. ASSUME k \in D, k # 1 PROVE g[k - 1] \o q[k] \in Seq(S)
        BY <4>1, <4>2, ConcatProperties
      <4> QED BY <1>0, <4>2 DEF Glue
    <3>5. h \in [D -> Seq(S)]
      BY <3>4
    <3>6. Upto(h, k)
      <4> SUFFICES ASSUME NEW i \in D, i <= k PROVE h[i] = Glue(q, h, i)
        OBVIOUS
      <4>0. i \in Nat /\ i - 1 # k
        BY <1>0, <2>2
      <4>1. i - 1 \in D => h[i - 1] = g[i - 1]
        BY <4>0
      <4>2. Glue(q, h, i) = Glue(q, g, i)
        <5>1. i # 1 => i - 1 \in D
          BY <1>0
        <5> QED BY <4>1, <5>1 DEF Glue
      <4>3. CASE i = k
        BY <4>2, <4>3
      <4>4. CASE i # k
        <5>1. i <= k - 1 /\ h[i] = g[i]
          BY <2>2, <4>0, <4>4
        <5> QED BY <3>3, <4>2, <5>1
      <4> QED BY <4>3, <4>4
    <3> QED BY <2>2, <3>5, <3>6
  <2> QED BY <2>3, <2>4
<1>2. PICK g \in [D -> Seq(S)] : Upto(g, Len(q))
  <2> HIDE DEF D, Upto
  <2> QED BY <1>0, <1>1
<1> QED BY <1>0, <1>2

\* Sequences that are sorted, and of which each comes before the next ones.
LEMMA SortedFlatten ==
  ASSUME NEW S, NEW q \in Seq(Seq(S)), NEW R, \A k \in DOMAIN q : Sorted(q[k], R),
         \A k, l \in DOMAIN q : k < l =>
           \A x \in Range(q[k]), y \in Range(q[l]) : <<x, y>> \in R
  PROVE  /\ FlattenSeq(q) \in Seq(S) /\ Sorted(FlattenSeq(q), R)
         /\ Range(FlattenSeq(q)) \subseteq UNION {Range(q[k]) : k \in DOMAIN q}
<1> DEFINE n == Len(q)
<1>0. n \in Nat /\ DOMAIN q = 1..n /\ \A i \in 1..n : q[i] \in Seq(S)
  BY LenProperties, ElementOfSeq
<1>1. CASE n = 0
  <2>1. q = <<>> /\ FlattenSeq(q) = <<>>
    BY <1>1, EmptySeq DEF FlattenSeq
  <2>2. <<>> \in Seq(S) /\ DOMAIN <<>> = {}
    OBVIOUS
  <2> QED BY <2>1, <2>2 DEF Sorted, Range
<1>2. CASE n # 0
  <2> DEFINE IsFlat(g) == g = [i \in 1..n |-> IF i = 1 THEN q[i] ELSE g[i - 1] \o q[i]]
             g == CHOOSE f : IsFlat(f)
  <2>1. FlattenSeq(q) = g[n]
    BY <1>2 DEF FlattenSeq
  <2>2. \E f : IsFlat(f)
    <3>1. PICK f \in [1..n -> Seq(S)] : \A i \in 1..n : f[i] = Glue(q, f, i)
      <4>1. Len(q) > 0
        BY <1>0, <1>2
      <4> QED BY <4>1, GlueExists
    <3>2. IsFlat(f)
      BY <3>1 DEF Glue
    <3> HIDE DEF IsFlat
    <3> QED BY <3>2
  <2>3. IsFlat(g)
    <3> HIDE DEF IsFlat
    <3> QED BY <2>2
  <2>4. \A i \in 1..n : g[i] = IF i = 1 THEN q[i] ELSE g[i - 1] \o q[i]
    <3> HIDE DEF g
    <3> QED BY <2>3
  <2> HIDE DEF g
  <2> DEFINE Upto(k) == UNION {Range(q[l]) : l \in 1..k}
             Right(k) == g[k] \in Seq(S) /\ Sorted(g[k], R) /\ Range(g[k]) \subseteq Upto(k)
             Wrong == {k \in 1..n : ~ Right(k)}
  <2>5. Wrong = {}
    <3> SUFFICES ASSUME Wrong # {} PROVE FALSE
      OBVIOUS
    <3>1. PICK k \in Wrong : \A m \in Wrong : k <= m
      <4>1. Wrong \in SUBSET Nat /\ Wrong # {}
        <5> HIDE DEF Right
        <5> QED BY <1>0
      <4> HIDE DEF Wrong
      <4> QED BY <4>1, LeastNatural
    <3>2. k \in 1..n /\ ~ Right(k)
      <4> HIDE DEF Right
      <4> QED OBVIOUS
    <3>3. CASE k = 1
      <4>1. g[k] = q[k] /\ q[k] \in Seq(S) /\ Sorted(q[k], R)
        BY <1>0, <2>4, <3>2, <3>3
      <4>2. k \in 1..k
        BY <1>0, <3>2
      <4>3. Range(q[k]) \subseteq Upto(k)
        BY <4>2
      <4> QED BY <3>2, <4>1, <4>3
    <3>4. CASE k # 1
      <4>1. k - 1 \in 1..n /\ ~ (k <= k - 1)
        BY <1>0, <3>2, <3>4
      <4>2. Right(k - 1)
        <5>1. k - 1 \notin Wrong
          <6> HIDE DEF Wrong
          <6> QED BY <3>1, <4>1
        <5> HIDE DEF Right
        <5> QED BY <4>1, <5>1
      <4> DEFINE s == g[k - 1]  t == q[k]
      <4>3. g[k] = s \o t
        BY <2>4, <3>2, <3>4
      <4>4. s \in Seq(S) /\ t \in Seq(S) /\ Sorted(s, R) /\ Sorted(t, R)
        BY <1>0, <3>2, <4>2
      <4>5. Range(s) \subseteq Upto(k - 1)
        BY <4>2
      <4>6. \A x \in Range(s), y \in Range(t) : <<x, y>> \in R
        <5> SUFFICES ASSUME NEW x \in Range(s), NEW y \in Range(t) PROVE <<x, y>> \in R
          OBVIOUS
        <5>1. PICK l \in 1..(k - 1) : x \in Range(q[l])
          <6> HIDE DEF s
          <6> QED BY <4>5
        <5>2. l \in DOMAIN q /\ k \in DOMAIN q /\ l < k
          BY <1>0, <3>2
        <5> QED BY <5>1, <5>2
      <4>7. Upto(k) = Upto(k - 1) \cup Range(t)
        <5>1. 1..k = (1..(k - 1)) \cup {k}
          BY <1>0, <3>2
        <5> HIDE DEF n, s
        <5> QED BY <5>1
      <4> HIDE DEF s, t, Upto, Wrong, n
      <4>8. s \o t \in Seq(S) /\ Sorted(s \o t, R)
        BY <4>4, <4>6, SortedConcat, Zenon
      <4>9. Range(s \o t) = Range(s) \cup Range(t)
        BY <4>4, RangeConcatenation
      <4>10. Range(s \o t) \subseteq Upto(k)
        BY <4>5, <4>7, <4>9
      <4> QED BY <3>2, <4>3, <4>8, <4>10
    <3> QED BY <3>3, <3>4
  <2>6. Right(n)
    <3>1. n \in 1..n
      BY <1>0, <1>2
    <3> HIDE DEF Right, n
    <3> QED BY <2>5, <3>1
  <2>7. /\ FlattenSeq(q) \in Seq(S) /\ Sorted(FlattenSeq(q), R)
        /\ Range(FlattenSeq(q)) \subseteq Upto(n)
    <3> HIDE DEF Upto
    <3> QED BY <2>1, <2>6
  <2> QED BY <1>0, <2>7
<1> QED BY <1>1, <1>2

LEMMA Repeated ==
  ASSUME NEW S, NEW e \in S, NEW c \in Nat
  PROVE  /\ [k \in 1..c |-> e] \in Seq(S) /\ DOMAIN [k \in 1..c |-> e] = 1..c
         /\ \A k \in 1..c : [o \in 1..c |-> e][k] = e
OBVIOUS

\* The hooks of a kind, along a chain that goes down for the kinds before the
\* body and up for those after it.
LEMMA AlongSorted ==
  ASSUME NEW hooks \in Seq([HookKinds -> Nat]), NEW chain \in Seq(1..Len(hooks)),
         NEW kind \in HookKinds,
         \A i, j \in DOMAIN chain : i < j =>
           IF kind \in BeforeKinds THEN chain[i] <= chain[j] ELSE chain[i] >= chain[j]
  PROVE  /\ HooksAlong(chain, kind, hooks) \in Seq(Steps)
         /\ Sorted(HooksAlong(chain, kind, hooks), Order)
         /\ \A x \in Range(HooksAlong(chain, kind, hooks)) : x \in Steps /\ x.what = kind
<1> DEFINE step(j) == [what |-> kind, owner |-> chain[j]]
           count(j) == hooks[chain[j]][kind]
           q == [j \in DOMAIN chain |-> [k \in 1..count(j) |-> step(j)]]
<1>0. Len(hooks) \in Nat /\ DOMAIN hooks = 1..Len(hooks) /\ Len(chain) \in Nat
      /\ DOMAIN chain = 1..Len(chain) /\ \A j \in DOMAIN chain : chain[j] \in 1..Len(hooks)
  BY LenProperties, ElementOfSeq
<1>1. \A j \in DOMAIN chain : count(j) \in Nat /\ step(j) \in Steps /\ chain[j] \in Nat
  <2> TAKE j \in DOMAIN chain
  <2>1. chain[j] \in 1..Len(hooks) /\ chain[j] \in Nat
    BY <1>0
  <2>2. hooks[chain[j]] \in [HookKinds -> Nat]
    BY <2>1, ElementOfSeq
  <2> QED BY <2>1, <2>2 DEF Steps
<1>2. \A j \in DOMAIN chain : q[j] \in Seq(Steps) /\ DOMAIN q[j] = 1..count(j)
                             /\ \A k \in 1..count(j) : q[j][k] = step(j)
  <2> TAKE j \in DOMAIN chain
  <2> DEFINE e == step(j)  c == count(j)  r == q[j]
  <2>1. r = [k \in 1..c |-> e]
    OBVIOUS
  <2>2. c \in Nat /\ e \in Steps
    BY <1>1
  <2> HIDE DEF e, c, r
  <2>3. r \in Seq(Steps) /\ DOMAIN r = 1..c /\ \A k \in 1..c : r[k] = e
    BY <2>1, <2>2, Repeated
  <2> QED BY <2>3 DEF e, c, r
<1>3. q \in Seq(Seq(Steps)) /\ DOMAIN q = DOMAIN chain
  <2> HIDE DEF step, count
  <2> QED BY <1>0, <1>2
<1>4. HooksAlong(chain, kind, hooks) = FlattenSeq(q)
  BY DEF HooksAlong
<1> HIDE DEF q
<1>5. \A i, j \in DOMAIN chain : i <= j => <<step(i), step(j)>> \in Order
  <2> SUFFICES ASSUME NEW i \in DOMAIN chain, NEW j \in DOMAIN chain, i <= j
               PROVE  <<step(i), step(j)>> \in Order
    OBVIOUS
  <2>1. IF kind \in BeforeKinds THEN chain[i] <= chain[j] ELSE chain[i] >= chain[j]
    <3>1. CASE i = j
      BY <1>1, <3>1
    <3>2. CASE i # j
      <4>1. i < j
        BY <1>0, <3>2
      <4> QED BY <4>1
    <3> QED BY <3>1, <3>2
  <2>2. kind \in BeforeKinds \/ kind \in AfterKinds
    BY DEF HookKinds
  <2>3. HookPrecedes(step(i), step(j)) /\ kind # "body"
    BY <2>1, <2>2 DEF HookPrecedes, BeforeKinds, AfterKinds
  <2> HIDE DEF step
  <2>4. step(i).what = kind /\ step(j).what = kind
    BY DEF step
  <2> QED BY <1>1, <2>3, <2>4 DEF Order
<1>6. \A j \in DOMAIN chain : Range(q[j]) \subseteq {step(j)}
  <2> HIDE DEF step, count
  <2> QED BY <1>2 DEF Range
<1>7. \A j \in DOMAIN q : Sorted(q[j], Order)
  <2> TAKE j \in DOMAIN q
  <2>1. <<step(j), step(j)>> \in Order
    <3>1. j \in DOMAIN chain /\ j <= j
      BY <1>0, <1>3
    <3> HIDE DEF step
    <3> QED BY <1>5, <3>1
  <2>2. j \in DOMAIN chain
    BY <1>3
  <2> HIDE DEF step, count
  <2> QED BY <1>2, <2>1, <2>2 DEF Sorted
<1>8. \A k, l \in DOMAIN q : k < l => \A x \in Range(q[k]), y \in Range(q[l]) : <<x, y>> \in Order
  <2> SUFFICES ASSUME NEW k \in DOMAIN q, NEW l \in DOMAIN q, k < l,
                      NEW x \in Range(q[k]), NEW y \in Range(q[l])
               PROVE  <<x, y>> \in Order
    OBVIOUS
  <2>1. x = step(k) /\ y = step(l)
    <3> HIDE DEF step
    <3> QED BY <1>3, <1>6
  <2>2. <<step(k), step(l)>> \in Order
    <3>1. k \in 1..Len(chain) /\ l \in 1..Len(chain) /\ k <= l
      BY <1>0, <1>3
    <3> HIDE DEF step
    <3> QED BY <1>0, <1>5, <3>1
  <2> HIDE DEF step
  <2> QED BY <2>1, <2>2
<1>9. /\ FlattenSeq(q) \in Seq(Steps) /\ Sorted(FlattenSeq(q), Order)
      /\ Range(FlattenSeq(q)) \subseteq UNION {Range(q[k]) : k \in DOMAIN q}
  <2> HIDE DEF step, count
  <2> QED BY <1>3, <1>7, <1>8, SortedFlatten, Zenon
<1>10. \A x \in Range(FlattenSeq(q)) : x \in Steps /\ x.what = kind
  <2> SUFFICES ASSUME NEW x \in Range(FlattenSeq(q)) PROVE x \in Steps /\ x.what = kind
    OBVIOUS
  <2>1. PICK j \in DOMAIN chain : x = step(j)
    <3> HIDE DEF step, count
    <3> QED BY <1>3, <1>6, <1>9
  <2> QED BY <1>1, <2>1
<1> QED BY <1>4, <1>9, <1>10

\* What comes first by its kind may come first.
Phase == [beforeAll |-> 1, beforeEach |-> 2, body |-> 3, afterEach |-> 4, afterAll |-> 5]

LEMMA PhasesInOrder ==
  ASSUME NEW x \in Steps, NEW y \in Steps, Phase[x.what] < Phase[y.what]
  PROVE  <<x, y>> \in Order
<1>1. x.what \in {"beforeAll", "beforeEach", "body", "afterEach", "afterAll"}
      /\ y.what \in {"beforeAll", "beforeEach", "body", "afterEach", "afterAll"}
  BY DEF Steps, HookKinds, BeforeKinds, AfterKinds
<1>2. /\ Phase["beforeAll"] = 1 /\ Phase["beforeEach"] = 2 /\ Phase["body"] = 3
      /\ Phase["afterEach"] = 4 /\ Phase["afterAll"] = 5
  BY DEF Phase
<1>3. x.what # "body" \/ y.what # "body"
  BY <1>2
<1>4. x.what # "body" /\ y.what # "body" => HookPrecedes(x, y)
  BY <1>1, <1>2 DEF HookPrecedes, BeforeKinds, AfterKinds
<1> QED BY <1>3, <1>4 DEF Order

\* The steps up to a phase, and those of one phase.
UpToPhase(s, k) ==
  s \in Seq(Steps) /\ Sorted(s, Order) /\ \A x \in Range(s) : x \in Steps /\ Phase[x.what] <= k
OfPhase(s, k) ==
  s \in Seq(Steps) /\ Sorted(s, Order) /\ \A x \in Range(s) : x \in Steps /\ Phase[x.what] = k

LEMMA NextPhase ==
  ASSUME NEW s, NEW t, NEW k \in Nat, UpToPhase(s, k), OfPhase(t, k + 1)
  PROVE  UpToPhase(s \o t, k + 1) /\ Range(s \o t) = Range(s) \cup Range(t)
<1>0. s \in Seq(Steps) /\ t \in Seq(Steps) /\ Sorted(s, Order) /\ Sorted(t, Order)
  BY DEF UpToPhase, OfPhase
<1>1. Range(s \o t) = Range(s) \cup Range(t)
  BY <1>0, RangeConcatenation
<1>2. \A x \in Steps : Phase[x.what] \in Nat
  BY DEF Steps, HookKinds, BeforeKinds, AfterKinds, Phase
<1>3. \A x \in Range(s), y \in Range(t) : <<x, y>> \in Order
  <2> SUFFICES ASSUME NEW x \in Range(s), NEW y \in Range(t) PROVE <<x, y>> \in Order
    OBVIOUS
  <2>1. x \in Steps /\ y \in Steps /\ Phase[x.what] < Phase[y.what]
    BY <1>2 DEF UpToPhase, OfPhase
  <2> QED BY <2>1, PhasesInOrder
<1>4. s \o t \in Seq(Steps) /\ Sorted(s \o t, Order)
  BY <1>0, <1>3, SortedConcat, Zenon
<1>5. ASSUME NEW x \in Range(s \o t) PROVE x \in Steps /\ Phase[x.what] <= k + 1
  <2>1. CASE x \in Range(s)
    BY <1>2, <2>1 DEF UpToPhase
  <2>2. CASE x \in Range(t)
    BY <1>2, <2>2 DEF OfPhase
  <2> QED BY <1>1, <1>5, <2>1, <2>2
<1> QED BY <1>1, <1>4, <1>5 DEF UpToPhase

\* Hooks and body come in the order that the events are to show.
LEMMA ScheduleSorted ==
  ASSUME NEW t \in Targets
  PROVE  /\ Schedule(t) \in Seq(Steps) /\ Sorted(Schedule(t), Order)
         /\ \E i \in DOMAIN Schedule(t) : Schedule(t)[i].what = "body"
<1> DEFINE hooks == t.hooks
           n == Len(hooks)
           inward == [i \in DOMAIN hooks |-> i]
           outward == Reverse(inward)
           body == [what |-> "body", owner |-> n]
           along(kind) == HooksAlong(IF kind \in BeforeKinds THEN inward ELSE outward, kind, hooks)
<1>1. hooks \in Seq([HookKinds -> Nat]) /\ n \in Nat /\ DOMAIN hooks = 1..n
  BY TargetsAssumption, LenProperties
<1>2. /\ inward \in Seq(1..n) /\ Len(inward) = n
      /\ \A i \in 1..n : inward[i] = i
  BY <1>1
<1>3. /\ outward \in Seq(1..n) /\ Len(outward) = n
      /\ \A i \in 1..n : outward[i] = n - i + 1
  <2>1. outward = [i \in 1..n |-> inward[(n - i) + 1]]
    BY <1>2 DEF Reverse
  <2>2. \A i \in 1..n : (n - i) + 1 \in 1..n
    BY <1>1
  <2>3. outward = [i \in 1..n |-> (n - i) + 1]
    <3> HIDE DEF inward, outward, n
    <3> QED BY <1>2, <2>1, <2>2
  <2> HIDE DEF outward, n
  <2> QED BY <1>1, <2>2, <2>3
<1>4. ASSUME NEW kind \in HookKinds
      PROVE  /\ along(kind) \in Seq(Steps) /\ Sorted(along(kind), Order)
             /\ \A x \in Range(along(kind)) : x \in Steps /\ x.what = kind
  <2> DEFINE chain == IF kind \in BeforeKinds THEN inward ELSE outward
  <2>1. chain \in Seq(1..n) /\ DOMAIN chain = 1..n
    <3> HIDE DEF inward, outward, n
    <3> QED BY <1>1, <1>2, <1>3, LenProperties
  <2>2. \A i, j \in DOMAIN chain : i < j =>
           IF kind \in BeforeKinds THEN chain[i] <= chain[j] ELSE chain[i] >= chain[j]
    <3> SUFFICES ASSUME NEW i \in 1..n, NEW j \in 1..n, i < j
                 PROVE  IF kind \in BeforeKinds THEN chain[i] <= chain[j] ELSE chain[i] >= chain[j]
      BY <2>1
    <3>1. inward[i] = i /\ inward[j] = j /\ outward[i] = n - i + 1 /\ outward[j] = n - j + 1
      BY <1>2, <1>3
    <3>2. inward[i] <= inward[j] /\ outward[i] >= outward[j]
      <4> HIDE DEF inward, outward, n
      <4> QED BY <1>1, <3>1
    <3> HIDE DEF inward, outward, n
    <3> QED BY <3>2
  <2>3. along(kind) = HooksAlong(chain, kind, hooks)
    OBVIOUS
  <2> HIDE DEF chain, along, hooks, n
  <2>4. chain \in Seq(1..Len(hooks))
    BY <2>1 DEF n
  <2>5. /\ HooksAlong(chain, kind, hooks) \in Seq(Steps)
        /\ Sorted(HooksAlong(chain, kind, hooks), Order)
        /\ \A x \in Range(HooksAlong(chain, kind, hooks)) : x \in Steps /\ x.what = kind
    BY <1>1, <2>2, <2>4, AlongSorted, Zenon
  <2> QED BY <2>3, <2>5
<1>5. /\ <<body>> \in Seq(Steps) /\ Sorted(<<body>>, Order) /\ Range(<<body>>) = {body}
      /\ body \in Steps
  <2>1. body \in Steps
    BY <1>1 DEF Steps
  <2> HIDE DEF body
  <2>2. <<body>> \in Seq(Steps) /\ DOMAIN <<body>> = {1} /\ <<body>>[1] = body
    BY <2>1
  <2> QED BY <2>1, <2>2 DEF Sorted, Range
<1> DEFINE s2 == along("beforeAll") \o along("beforeEach")
           s3 == s2 \o <<body>>
           s4 == s3 \o along("afterEach")
           s5 == s4 \o along("afterAll")
<1>6. Schedule(t) = s5
  BY DEF Schedule, BeforeKinds
<1>7. {"beforeAll", "beforeEach", "afterEach", "afterAll"} \subseteq HookKinds
  BY DEF HookKinds, BeforeKinds, AfterKinds
<1>8. /\ Phase["beforeAll"] = 1 /\ Phase["beforeEach"] = 2 /\ Phase["body"] = 3
      /\ Phase["afterEach"] = 4 /\ Phase["afterAll"] = 5 /\ body.what = "body"
  BY DEF Phase
<1> HIDE DEF along, body, hooks
<1>9. /\ UpToPhase(along("beforeAll"), 1) /\ OfPhase(along("beforeEach"), 2) /\ OfPhase(<<body>>, 3)
      /\ OfPhase(along("afterEach"), 4) /\ OfPhase(along("afterAll"), 5)
  <2>1. ASSUME NEW kind \in HookKinds PROVE OfPhase(along(kind), Phase[kind])
    BY <1>4, <2>1 DEF OfPhase
  <2>2. OfPhase(<<body>>, Phase["body"])
    <3>1. \A x \in Range(<<body>>) : x \in Steps /\ Phase[x.what] = Phase["body"]
      BY <1>5, <1>8
    <3> QED BY <1>5, <3>1 DEF OfPhase
  <2>3. OfPhase(along("beforeAll"), 1)
    BY <1>7, <1>8, <2>1
  <2>4. UpToPhase(along("beforeAll"), 1)
    BY <2>3 DEF UpToPhase, OfPhase
  <2> QED BY <1>7, <1>8, <2>1, <2>2, <2>4
<1>10. 1 + 1 = 2 /\ 2 + 1 = 3 /\ 3 + 1 = 4 /\ 4 + 1 = 5
  OBVIOUS
<1>11. UpToPhase(s2, 2)
  BY <1>9, <1>10, NextPhase
<1> HIDE DEF s2
<1>12. UpToPhase(s3, 3) /\ body \in Range(s3)
  BY <1>5, <1>9, <1>10, <1>11, NextPhase
<1> HIDE DEF s3
<1>13. UpToPhase(s4, 4) /\ body \in Range(s4)
  BY <1>9, <1>10, <1>12, NextPhase
<1> HIDE DEF s4
<1>14. UpToPhase(s5, 5) /\ body \in Range(s5)
  BY <1>9, <1>10, <1>13, NextPhase
<1> HIDE DEF s5
<1>15. \E i \in DOMAIN s5 : s5[i].what = "body"
  BY <1>8, <1>14 DEF Range
<1> QED BY <1>6, <1>14, <1>15 DEF UpToPhase

\* The place of the body.
BodyAt(t) == CHOOSE i \in DOMAIN Schedule(t) : Schedule(t)[i].what = "body"

LEMMA OneBody ==
  ASSUME NEW t \in Targets
  PROVE  /\ Len(Schedule(t)) \in Nat /\ DOMAIN Schedule(t) = 1..Len(Schedule(t))
         /\ BodyAt(t) \in 1..Len(Schedule(t))
         /\ \A i \in 1..Len(Schedule(t)) :
              /\ Schedule(t)[i] \in Steps
              /\ Schedule(t)[i].what = "body" <=> i = BodyAt(t)
<1> DEFINE s == Schedule(t)
<1>1. s \in Seq(Steps) /\ Sorted(s, Order) /\ \E i \in DOMAIN s : s[i].what = "body"
  BY ScheduleSorted
<1>2. Len(s) \in Nat /\ DOMAIN s = 1..Len(s) /\ \A i \in 1..Len(s) : s[i] \in Steps
  BY <1>1, LenProperties, ElementOfSeq
<1>3. BodyAt(t) \in 1..Len(s) /\ s[BodyAt(t)].what = "body"
  <2> HIDE DEF s
  <2> QED BY <1>1, <1>2 DEF BodyAt, s
<1>4. ASSUME NEW i \in 1..Len(s), NEW j \in 1..Len(s), s[i].what = "body", s[j].what = "body", i < j
      PROVE  FALSE
  <2>1. <<s[i], s[j]>> \in Order
    BY <1>1, <1>2, <1>4 DEF Sorted
  <2> QED BY <1>4, <2>1 DEF Order
<1>5. ASSUME NEW i \in 1..Len(s), s[i].what = "body" PROVE i = BodyAt(t)
  <2> HIDE DEF s
  <2>1. ~ (i < BodyAt(t)) /\ ~ (BodyAt(t) < i)
    BY <1>3, <1>4, <1>5
  <2> QED BY <1>2, <1>3, <2>1
<1> HIDE DEF s
<1> QED BY <1>2, <1>3, <1>5 DEF s

-----------------------------------------------------------------------------
(***************************************************************************)
(* What the events tell.                                                   *)
(***************************************************************************)

\* The n-th hook of the schedule, and the number of hooks before its k-th step.
HookAt(t, n) == Schedule(t)[IF n < BodyAt(t) THEN n ELSE n + 1]
HooksBefore(t, k) == IF k <= BodyAt(t) THEN k - 1 ELSE k - 2

Begun(h) == [type |-> "callbackStart", hook |-> h]
Passed(h) == [type |-> "callbackPass", hook |-> h]

\* The events s tell that the target t has started and n of its hooks have passed.
Told(s, t, n) ==
  /\ Len(s) >= 2 * n + 1
  /\ s[1] = [type |-> "nodeStart"]
  /\ \A i \in 1..n : s[2 * i] = Begun(HookAt(t, i)) /\ s[2 * i + 1] = Passed(HookAt(t, i))

\* What the events tell of an attempt under way, at step k of its schedule.
ToldUpTo(s, t, k) ==
  LET n == HooksBefore(t, k)
  IN  /\ k \in 1..Len(Schedule(t)) + 1
      /\ Told(s, t, n)
      /\ \/ mode = "executor" /\ Len(s) = 2 * n + 1
         \/ mode # "executor" /\ k = BodyAt(t) /\ Len(s) = 2 * n + 1
         \/ /\ mode # "executor" /\ k # BodyAt(t) /\ k <= Len(Schedule(t))
            /\ Len(s) = 2 * n + 2 /\ s[2 * n + 2] = Begun(Schedule(t)[k])

\* What they tell of one that has ended behind n hooks: by the body or the
\* plan, or in a hook.
EndedPlainly(s, v, t, n) ==
  /\ Len(s) = 2 * n + 2
  /\ \/ v = "passed" /\ s[2 * n + 2].type = "nodePass" /\ n + 1 = Len(Schedule(t))
     \/ v = "failed" /\ s[2 * n + 2].type = "nodeFail"
EndedInHook(s, v, t, n) ==
  /\ v = "failed" /\ n + 1 < Len(Schedule(t))
  /\ Len(s) = 2 * n + 3
  /\ s[2 * n + 2] = Begun(HookAt(t, n + 1))
  /\ s[2 * n + 3].type = "callbackFail" /\ s[2 * n + 3].hook = HookAt(t, n + 1)

EventInv ==
  /\ mode # "idle" => ToldUpTo(events, target, pc)
  /\ Attempted =>
       \E n \in 0..(Len(Schedule(target)) - 1) :
         /\ Told(events, target, n)
         /\ EndedPlainly(events, verdict, target, n) \/ EndedInHook(events, verdict, target, n)

\* Counting the hooks.
LEMMA HookCount ==
  ASSUME NEW t \in Targets, NEW k \in 1..(Len(Schedule(t)) + 1)
  PROVE  /\ HooksBefore(t, k) \in Nat /\ HooksBefore(t, k) < Len(Schedule(t))
         /\ HooksBefore(t, 1) = 0
         /\ k = BodyAt(t) => HooksBefore(t, k + 1) = HooksBefore(t, k)
         /\ k \in 1..Len(Schedule(t)) /\ k # BodyAt(t) =>
              /\ HooksBefore(t, k + 1) = HooksBefore(t, k) + 1
              /\ HooksBefore(t, k) + 1 < Len(Schedule(t))
              /\ HookAt(t, HooksBefore(t, k) + 1) = Schedule(t)[k]
         /\ k > Len(Schedule(t)) => HooksBefore(t, k) + 1 = Len(Schedule(t))
<1> DEFINE b == BodyAt(t)  n == Len(Schedule(t))
<1>1. n \in Nat /\ b \in 1..n /\ k \in 1..(n + 1)
  BY OneBody
<1> HIDE DEF b, n
<1>2. HooksBefore(t, k) = IF k <= b THEN k - 1 ELSE k - 2
  BY DEF HooksBefore, b
<1>3. HooksBefore(t, k + 1) = IF k + 1 <= b THEN k ELSE k - 1
  BY <1>1 DEF HooksBefore, b
<1>4. HooksBefore(t, 1) = 0
  BY <1>1 DEF HooksBefore, b
<1>5. HooksBefore(t, k) \in Nat /\ HooksBefore(t, k) < n
  BY <1>1, <1>2
<1>6. k = b => HooksBefore(t, k + 1) = HooksBefore(t, k)
  BY <1>1, <1>2, <1>3
<1>7. k > n => HooksBefore(t, k) + 1 = n
  BY <1>1, <1>2
<1>8. ASSUME k \in 1..n, k # b
      PROVE  /\ HooksBefore(t, k + 1) = HooksBefore(t, k) + 1 /\ HooksBefore(t, k) + 1 < n
             /\ HookAt(t, HooksBefore(t, k) + 1) = Schedule(t)[k]
  <2>1. HooksBefore(t, k + 1) = HooksBefore(t, k) + 1 /\ HooksBefore(t, k) + 1 < n
    BY <1>1, <1>2, <1>3, <1>8
  <2> DEFINE m == HooksBefore(t, k) + 1
  <2>2. (IF m < b THEN m ELSE m + 1) = k
    BY <1>1, <1>2, <1>8
  <2>3. HookAt(t, m) = Schedule(t)[k]
    <3> HIDE DEF m
    <3> QED BY <2>2 DEF HookAt, b
  <2> QED BY <2>1, <2>3
<1> QED BY <1>4, <1>5, <1>6, <1>7, <1>8 DEF b, n

LEMMA AppendEvent ==
  ASSUME NEW s, IsSequence(s), NEW e
  PROVE  /\ Len(s) \in Nat /\ Len(Append(s, e)) = Len(s) + 1
         /\ \A i \in 1..Len(s) : Append(s, e)[i] = s[i]
         /\ Append(s, e)[Len(s) + 1] = e
<1>1. PICK S : s \in Seq(S)  BY DEF IsSequence
<1>2. s \in Seq(S \cup {e})
  BY <1>1
<1> QED BY <1>2, AppendProperties, LenProperties

\* What has been told stays told.
LEMMA ToldStays ==
  ASSUME NEW s, IsSequence(s), NEW e, NEW t, NEW n \in Nat, Told(s, t, n)
  PROVE  Told(Append(s, e), t, n)
<1>1. /\ Len(s) \in Nat /\ Len(Append(s, e)) = Len(s) + 1
      /\ \A i \in 1..Len(s) : Append(s, e)[i] = s[i]
  BY AppendEvent
<1>2. Len(s) >= 2 * n + 1
  BY DEF Told
<1>3. 1 \in 1..Len(s) /\ \A i \in 1..n : 2 * i \in 1..Len(s) /\ 2 * i + 1 \in 1..Len(s)
  BY <1>1, <1>2
<1>4. Len(Append(s, e)) >= 2 * n + 1
  BY <1>1, <1>2
<1> QED BY <1>1, <1>3, <1>4 DEF Told

LEMMA InitEvents == Init => EventInv
BY DEF Init, EventInv, Attempted

\* Steps inside a callback tell nothing.
LEMMA InsideEvents ==
  ASSUME IInv, EventInv, GuestStep \/ LeaveObserved \/ UnwindObserved
  PROVE  EventInv'
<1>1. /\ mode \in {"guest", "trapping"} /\ mode' \in {"guest", "trapping"}
      /\ verdict = "none" /\ verdict' = "none"
      /\ UNCHANGED <<target, pc, events>>
  <2>1. mode \in {"guest", "trapping"} /\ UNCHANGED <<target, pc, events, verdict>>
    BY DEF GuestStep, CountedAssertion, UncountedFailure, SetPlanned, EndPlan, RunOnly, Trap,
           Observe, LeaveObserved, UnwindObserved, Guest, attempt
  <2>2. mode' \in {"guest", "trapping"}
    <3>1. CASE GuestStep
      BY <3>1 DEF GuestStep, CountedAssertion, UncountedFailure, SetPlanned, EndPlan, RunOnly, Trap,
           Observe, Guest, FailAssertion, FailWithRecord
    <3>2. CASE LeaveObserved
      BY <2>1, <3>2 DEF LeaveObserved, FailAssertion, FailWithRecord
    <3>3. CASE UnwindObserved
      BY <2>1, <3>3 DEF UnwindObserved, FailAssertion, FailWithRecord, Resume
    <3> QED BY <3>1, <3>2, <3>3
  <2> QED BY <2>1, <2>2 DEF IInv, Counted
<1>2. ToldUpTo(events, target, pc)
  BY <1>1 DEF EventInv
<1>3. ToldUpTo(events, target, pc)'
  BY <1>1, <1>2 DEF ToldUpTo, Told, HookAt
<1> QED BY <1>1, <1>3 DEF EventInv, Attempted

LEMMA IdleEvents ==
  ASSUME IInv, EventInv, ReplayAncestor \/ (\E t \in Targets : Run(t))
  PROVE  EventInv'
<1>1. CASE ReplayAncestor
  BY <1>1 DEF ReplayAncestor, EventInv, Attempted
<1>2. ASSUME NEW t \in Targets, Run(t) PROVE EventInv'
  <2>1. CASE t.mode # "normal"
    BY <1>2, <2>1 DEF Run, EventInv, Attempted
  <2>2. CASE t.mode = "normal"
    <3> DEFINE start == [type |-> "nodeStart"]
    <3>1. /\ mode' = "executor" /\ verdict' = "none" /\ target' = t /\ pc' = 1
          /\ events' = <<start>>
      BY <1>2, <2>2 DEF Run
    <3>2. Len(<<start>>) = 1 /\ <<start>>[1] = start
      OBVIOUS
    <3>3. HooksBefore(t, 1) = 0 /\ 1 \in 1..(Len(Schedule(t)) + 1)
      <4>1. Len(Schedule(t)) \in Nat
        BY OneBody
      <4>2. 1 \in 1..(Len(Schedule(t)) + 1)
        BY <4>1
      <4> QED BY <4>2, HookCount
    <3>4. Told(<<start>>, t, 0)
      <4> HIDE DEF start
      <4>1. Len(<<start>>) >= 2 * 0 + 1 /\ 1..0 = {}
        BY <3>2
      <4> QED BY <3>2, <4>1 DEF Told, start
    <3>5. ToldUpTo(events, target, pc)'
      <4> HIDE DEF start
      <4> QED BY <3>1, <3>2, <3>3, <3>4 DEF ToldUpTo
    <3> QED BY <3>1, <3>5 DEF EventInv, Attempted
  <2> QED BY <2>1, <2>2
<1> QED BY <1>1, <1>2

\* The steps of the executor, one event each at most.
LEMMA EnterEvents ==
  ASSUME IInv, EventInv, EnterCallback
  PROVE  EventInv'
<1> DEFINE n == HooksBefore(target, pc)
<1>1. /\ mode = "executor" /\ mode' = "guest" /\ verdict' = verdict /\ verdict = "none"
      /\ UNCHANGED <<target, pc>> /\ pc <= Len(Schedule(target))
      /\ events' = IF Step.what = "body" THEN events ELSE Append(events, Begun(Step))
  BY DEF EnterCallback, IInv, Counted, Begun
<1>2. /\ target \in Targets /\ IsSequence(events) /\ ToldUpTo(events, target, pc)
  BY <1>1 DEF IInv, TypeInv, SeqInv, EventInv
<1>3. pc \in 1..(Len(Schedule(target)) + 1) /\ Told(events, target, n) /\ Len(events) = 2 * n + 1
  BY <1>1, <1>2 DEF ToldUpTo
<1>4. n \in Nat /\ (Step.what = "body" <=> pc = BodyAt(target)) /\ Step = Schedule(target)[pc]
  <2>1. Len(Schedule(target)) \in Nat
    BY <1>2, OneBody
  <2>2. pc \in 1..Len(Schedule(target))
    BY <1>1, <1>3, <2>1
  <2> QED BY <1>2, <1>3, <2>2, OneBody, HookCount DEF Step
<1> HIDE DEF n
<1>5. ToldUpTo(events, target, pc)'
  <2>1. CASE Step.what = "body"
    BY <1>1, <1>3, <1>4, <2>1 DEF ToldUpTo, n
  <2>2. CASE Step.what # "body"
    <3>1. events' = Append(events, Begun(Step))
      BY <1>1, <2>2
    <3>2. Told(events', target, n)
      BY <1>2, <1>3, <1>4, <3>1, ToldStays
    <3>3. Len(events') = 2 * n + 2 /\ events'[2 * n + 2] = Begun(Step)
      <4>1. Len(Append(events, Begun(Step))) = Len(events) + 1
            /\ Append(events, Begun(Step))[Len(events) + 1] = Begun(Step)
        BY <1>2, AppendEvent
      <4>2. Len(events) + 1 = 2 * n + 2
        BY <1>3, <1>4
      <4> QED BY <3>1, <4>1, <4>2
    <3> QED BY <1>1, <1>3, <1>4, <2>2, <3>2, <3>3 DEF ToldUpTo, n
  <2> QED BY <2>1, <2>2
<1> QED BY <1>1, <1>5 DEF EventInv, Attempted

LEMMA LeaveEvents ==
  ASSUME IInv, EventInv, LeaveCallback
  PROVE  EventInv'
<1> DEFINE n == HooksBefore(target, pc)
<1>1. /\ mode = "guest" /\ mode' = "executor" /\ verdict' = verdict /\ verdict = "none"
      /\ target' = target /\ pc' = pc + 1
      /\ events' = IF Step.what = "body" THEN events ELSE Append(events, Passed(Step))
  BY DEF LeaveCallback, AfterCallback, IInv, Counted, Passed
<1>2. /\ target \in Targets /\ IsSequence(events) /\ ToldUpTo(events, target, pc)
  BY <1>1 DEF IInv, TypeInv, SeqInv, EventInv
<1>0. Len(Schedule(target)) \in Nat /\ BodyAt(target) \in 1..Len(Schedule(target))
  BY <1>2, OneBody
<1>3. /\ pc \in 1..Len(Schedule(target)) /\ pc \in 1..(Len(Schedule(target)) + 1)
      /\ Told(events, target, n)
      /\ \/ pc = BodyAt(target) /\ Len(events) = 2 * n + 1
         \/ pc # BodyAt(target) /\ Len(events) = 2 * n + 2 /\ events[2 * n + 2] = Begun(Schedule(target)[pc])
  BY <1>0, <1>1, <1>2 DEF ToldUpTo
<1>4. n \in Nat /\ (Step.what = "body" <=> pc = BodyAt(target)) /\ Step = Schedule(target)[pc]
  BY <1>2, <1>3, OneBody, HookCount DEF Step
<1>5. pc + 1 \in 1..(Len(Schedule(target)) + 1)
  BY <1>0, <1>3
<1>6. ToldUpTo(events, target, pc)'
  <2>1. CASE pc = BodyAt(target)
    <3>1. HooksBefore(target, pc + 1) = n
      BY <1>2, <1>3, <2>1, HookCount
    <3> HIDE DEF n
    <3> QED BY <1>1, <1>3, <1>4, <1>5, <2>1, <3>1 DEF ToldUpTo
  <2>2. CASE pc # BodyAt(target)
    <3>1. HooksBefore(target, pc + 1) = n + 1 /\ HookAt(target, n + 1) = Step
      BY <1>2, <1>3, <1>4, <2>2, HookCount
    <3> HIDE DEF n
    <3>2. events' = Append(events, Passed(Step)) /\ Len(events) = 2 * n + 2
          /\ events[2 * n + 2] = Begun(Step)
      BY <1>1, <1>3, <1>4, <2>2
    <3>3. /\ Len(events') = Len(events) + 1 /\ events'[Len(events) + 1] = Passed(Step)
          /\ \A i \in 1..Len(events) : events'[i] = events[i]
      BY <1>2, <3>2, AppendEvent
    <3>4. Told(events', target, n)
      BY <1>2, <1>3, <1>4, <3>2, ToldStays
    <3>5. 2 * (n + 1) = 2 * n + 2 /\ 2 * n + 2 \in 1..Len(events) /\ Len(events) + 1 = 2 * (n + 1) + 1
      BY <1>4, <3>2
    <3>6. events'[2 * (n + 1)] = Begun(Step) /\ events'[2 * (n + 1) + 1] = Passed(Step)
          /\ Len(events') = 2 * (n + 1) + 1
      BY <3>2, <3>3, <3>5
    <3>7. Told(events', target, n + 1)
      <4>1. ASSUME NEW i \in 1..(n + 1)
            PROVE  /\ events'[2 * i] = Begun(HookAt(target, i))
                   /\ events'[2 * i + 1] = Passed(HookAt(target, i))
        <5>1. CASE i = n + 1
          BY <3>1, <3>6, <5>1
        <5>2. CASE i # n + 1
          <6>1. i \in 1..n
            BY <1>4, <5>2
          <6> QED BY <3>4, <6>1 DEF Told
        <5> QED BY <5>1, <5>2
      <4>2. Len(events') >= 2 * (n + 1) + 1
        BY <1>4, <3>6
      <4> QED BY <3>4, <4>1, <4>2 DEF Told
    <3> QED BY <1>1, <1>5, <3>1, <3>6, <3>7 DEF ToldUpTo
  <2> QED BY <2>1, <2>2
<1> QED BY <1>1, <1>6 DEF EventInv, Attempted

LEMMA UnwindEvents ==
  ASSUME IInv, EventInv, UnwindCallback
  PROVE  EventInv'
<1> DEFINE n == HooksBefore(target, pc)
<1>1. /\ mode = "trapping" /\ mode' = "idle" /\ verdict' = "failed"
      /\ target' = target /\ events' = Append(events, FailEvent)
  BY DEF UnwindCallback
<1>2. /\ target \in Targets /\ IsSequence(events) /\ ToldUpTo(events, target, pc)
  BY <1>1 DEF IInv, TypeInv, SeqInv, EventInv
<1>0. Len(Schedule(target)) \in Nat /\ BodyAt(target) \in 1..Len(Schedule(target))
  BY <1>2, OneBody
<1>3. /\ pc \in 1..Len(Schedule(target)) /\ pc \in 1..(Len(Schedule(target)) + 1)
      /\ Told(events, target, n)
      /\ \/ pc = BodyAt(target) /\ Len(events) = 2 * n + 1
         \/ pc # BodyAt(target) /\ Len(events) = 2 * n + 2 /\ events[2 * n + 2] = Begun(Schedule(target)[pc])
  BY <1>0, <1>1, <1>2 DEF ToldUpTo
<1>4. /\ n \in Nat /\ n < Len(Schedule(target))
      /\ (Step.what = "body" <=> pc = BodyAt(target)) /\ Step = Schedule(target)[pc]
  BY <1>2, <1>3, OneBody, HookCount DEF Step
<1>5. /\ Len(events') = Len(events) + 1 /\ events'[Len(events) + 1] = FailEvent
      /\ \A i \in 1..Len(events) : events'[i] = events[i]
  BY <1>1, <1>2, AppendEvent
<1>6. Told(events', target, n)
  <2>1. n \in Nat
    BY <1>4
  <2> HIDE DEF n
  <2> QED BY <1>1, <1>2, <1>3, <2>1, ToldStays
<1>7. EndedPlainly(events', "failed", target, n) \/ EndedInHook(events', "failed", target, n)
  <2>1. CASE pc = BodyAt(target)
    <3>1. FailEvent.type = "nodeFail"
      BY <1>4, <2>1 DEF FailEvent
    <3>2. Len(events') = 2 * n + 2 /\ events'[2 * n + 2] = FailEvent
      <4>1. Len(events) = 2 * n + 1 /\ 2 * n + 1 + 1 = 2 * n + 2
        BY <1>3, <1>4, <2>1
      <4> QED BY <1>5, <4>1
    <3> HIDE DEF n
    <3> QED BY <3>1, <3>2 DEF EndedPlainly
  <2>2. CASE pc # BodyAt(target)
    <3>1. FailEvent.type = "callbackFail" /\ FailEvent.hook = Step
      BY <1>4, <2>2 DEF FailEvent
    <3>2. n + 1 < Len(Schedule(target)) /\ HookAt(target, n + 1) = Step
      BY <1>2, <1>3, <1>4, <2>2, HookCount
    <3>3. Len(events) = 2 * n + 2 /\ events[2 * n + 2] = Begun(Step)
      BY <1>3, <1>4, <2>2
    <3>4. Len(events) + 1 = 2 * n + 3 /\ 2 * n + 2 \in 1..Len(events)
      BY <1>4, <3>3
    <3>5. /\ Len(events') = 2 * n + 3 /\ events'[2 * n + 3] = FailEvent
          /\ events'[2 * n + 2] = Begun(Step)
      BY <1>5, <3>3, <3>4
    <3> HIDE DEF n
    <3> QED BY <3>1, <3>2, <3>5 DEF EndedInHook
  <2> QED BY <2>1, <2>2
<1>8. n \in 0..(Len(Schedule(target)) - 1)
  BY <1>0, <1>4
<1> HIDE DEF n
<1> QED BY <1>1, <1>6, <1>7, <1>8 DEF EventInv

LEMMA EndEvents ==
  ASSUME IInv, EventInv, EndScope
  PROVE  EventInv'
<1> DEFINE n == Len(Schedule(target)) - 1
           last == events'[2 * n + 2]
<1>1. /\ mode = "executor" /\ mode' = "idle" /\ pc > Len(Schedule(target)) /\ target' = target
      /\ \/ verdict' = "failed" /\ events' = Append(events, [type |-> "nodeFail", kind |-> "assertion"])
         \/ verdict' = "passed" /\ events' = Append(events, [type |-> "nodePass"])
  BY DEF EndScope
<1>2. /\ target \in Targets /\ IsSequence(events) /\ ToldUpTo(events, target, pc)
  BY <1>1 DEF IInv, TypeInv, SeqInv, EventInv
<1>3. Len(Schedule(target)) \in Nat /\ BodyAt(target) \in 1..Len(Schedule(target)) /\ n \in Nat
  BY <1>2, OneBody
<1>4. HooksBefore(target, pc) = n /\ HooksBefore(target, pc) \in Nat
  <2>1. pc \in 1..(Len(Schedule(target)) + 1)
    BY <1>2 DEF ToldUpTo
  <2>2. HooksBefore(target, pc) \in Nat /\ HooksBefore(target, pc) + 1 = Len(Schedule(target))
    BY <1>1, <1>2, <2>1, HookCount
  <2> QED BY <1>3, <2>2
<1>5. Told(events, target, n) /\ Len(events) = 2 * n + 1
  BY <1>1, <1>2, <1>4 DEF ToldUpTo
<1>6. Told(events', target, n)
  <2> HIDE DEF n
  <2> QED BY <1>1, <1>2, <1>3, <1>5, ToldStays
<1>7. EndedPlainly(events', verdict', target, n)
  <2>1. Len(events) + 1 = 2 * n + 2
    BY <1>3, <1>5
  <2>2. Len(events') = Len(events) + 1 /\ last.type = IF verdict' = "passed" THEN "nodePass" ELSE "nodeFail"
    <3> HIDE DEF n
    <3>1. CASE verdict' = "failed" /\ events' = Append(events, [type |-> "nodeFail", kind |-> "assertion"])
      BY <1>2, <2>1, <3>1, AppendEvent
    <3>2. CASE verdict' = "passed" /\ events' = Append(events, [type |-> "nodePass"])
      BY <1>2, <2>1, <3>2, AppendEvent
    <3> QED BY <1>1, <3>1, <3>2
  <2>3. n + 1 = Len(Schedule(target))
    BY <1>3
  <2> HIDE DEF n
  <2> QED BY <1>1, <2>1, <2>2, <2>3 DEF EndedPlainly
<1>8. n \in 0..(Len(Schedule(target)) - 1)
  BY <1>3
<1> HIDE DEF n
<1> QED BY <1>1, <1>6, <1>7, <1>8 DEF EventInv

LEMMA NextEvents == IInv /\ EventInv /\ [Next]_vars => EventInv'
<1> SUFFICES ASSUME IInv, EventInv, [Next]_vars PROVE EventInv'
  OBVIOUS
<1>1. CASE UNCHANGED vars
  BY <1>1 DEF vars, EventInv, Attempted, ToldUpTo, Told, HookAt, EndedPlainly, EndedInHook
<1> QED BY <1>1, IdleEvents, InsideEvents, EnterEvents, LeaveEvents, UnwindEvents, EndEvents DEF Next

-----------------------------------------------------------------------------
(***************************************************************************)
(* What was told is well nested.                                           *)
(***************************************************************************)

\* Every natural is even or odd.
LEMMA Parity ==
  ASSUME NEW i \in Nat
  PROVE  \E j \in Nat : i = 2 * j \/ i = 2 * j + 1
<1>1. i \div 2 \in Nat /\ (i = 2 * (i \div 2) \/ i = 2 * (i \div 2) + 1)
  OBVIOUS
<1> QED BY <1>1

\* There are n even numbers up to 2 * n.
LEMMA Doubles ==
  ASSUME NEW n \in Nat
  PROVE  Cardinality({2 * j : j \in 1..n}) = n
<1> DEFINE T == {2 * j : j \in 1..n}
           double == [j \in 1..n |-> 2 * j]
<1>1. double \in Bijection(1..n, T)
  <2>1. double \in [1..n -> T]
    OBVIOUS
  <2>2. \A a, b \in 1..n : double[a] = double[b] => a = b
    OBVIOUS
  <2>3. \A t \in T : \E a \in 1..n : double[a] = t
    OBVIOUS
  <2> HIDE DEF T, double
  <2> QED BY <2>1, <2>2, <2>3 DEF Bijection, Injection, Surjection, IsInjective
<1>2. ExistsBijection(1..n, T)
  BY <1>1 DEF ExistsBijection
<1>3. IsFiniteSet(1..n) /\ Cardinality(1..n) = n
  BY FS_Interval
<1> HIDE DEF T
<1> QED BY <1>2, <1>3, FS_Bijection DEF T

\* The hooks of the schedule are in their order.
LEMMA HooksInOrder ==
  ASSUME NEW t \in Targets,
         NEW i \in 1..(Len(Schedule(t)) - 1), NEW j \in 1..(Len(Schedule(t)) - 1), i < j
  PROVE  HookPrecedes(HookAt(t, i), HookAt(t, j))
<1> DEFINE n == Len(Schedule(t))
           b == BodyAt(t)
           ii == IF i < b THEN i ELSE i + 1
           jj == IF j < b THEN j ELSE j + 1
<1>1. n \in Nat /\ b \in 1..n /\ DOMAIN Schedule(t) = 1..n
      /\ \A k \in 1..n : Schedule(t)[k].what = "body" <=> k = b
  BY OneBody
<1>2. ii \in 1..n /\ jj \in 1..n /\ ii < jj /\ ii # b /\ jj # b
  <2> HIDE DEF n, b
  <2> QED BY <1>1 DEF n
<1>3. HookAt(t, i) = Schedule(t)[ii] /\ HookAt(t, j) = Schedule(t)[jj]
  BY DEF HookAt
<1> HIDE DEF n, b, ii, jj
<1>4. <<Schedule(t)[ii], Schedule(t)[jj]>> \in Order
  BY <1>1, <1>2, ScheduleSorted DEF Sorted
<1> QED BY <1>1, <1>2, <1>3, <1>4 DEF Order

LEMMA EventsAreNested == IInv /\ EventInv => AttemptIsWellNested
<1> SUFFICES ASSUME IInv, EventInv, Attempted PROVE AttemptIsWellNested
  BY DEF AttemptIsWellNested
<1>1. target \in Targets /\ IsSequence(events)
  BY DEF IInv, TypeInv, SeqInv
<1>2. PICK n \in 0..(Len(Schedule(target)) - 1) :
        /\ Told(events, target, n)
        /\ EndedPlainly(events, verdict, target, n) \/ EndedInHook(events, verdict, target, n)
  BY DEF EventInv
<1>3. Len(Schedule(target)) \in Nat /\ n \in Nat /\ n < Len(Schedule(target))
  BY <1>1, <1>2, OneBody
<1> DEFINE L == Len(events)
           m == IF EndedInHook(events, verdict, target, n) THEN n + 1 ELSE n
<1>4. L \in Nat /\ DOMAIN events = 1..L
  <2>1. PICK S : events \in Seq(S)
    BY <1>1 DEF IsSequence
  <2> QED BY <2>1, LenProperties
<1>5. m \in Nat /\ m < Len(Schedule(target)) /\ (verdict = "passed" => m = n /\ n + 1 = Len(Schedule(target)))
  BY <1>2, <1>3 DEF EndedInHook, EndedPlainly
<1> DEFINE last == events[L].type
<1>6. /\ L = n + m + 2 /\ (m = n \/ m = n + 1)
      /\ last \in {"nodePass", "nodeFail", "callbackFail"}
      /\ last = "callbackFail" <=> m = n + 1
      /\ m = n + 1 => events[L].hook = HookAt(target, m)
      /\ verdict = "passed" <=> last = "nodePass"
  BY <1>2, <1>3 DEF EndedInHook, EndedPlainly
<1>7. ASSUME NEW j \in 1..m
      PROVE  /\ 2 * j \in 1..L /\ 2 * j < L /\ 2 * j + 1 \in 1..L
             /\ events[2 * j].type = "callbackStart" /\ events[2 * j].hook = HookAt(target, j)
             /\ j \in 1..(Len(Schedule(target)) - 1)
  <2>1. events[2 * j] = Begun(HookAt(target, j))
    <3>1. CASE j \in 1..n
      BY <1>2, <3>1 DEF Told
    <3>2. CASE j \notin 1..n
      <4>1. m = n + 1 /\ j = n + 1 /\ 2 * j = 2 * n + 2
        BY <1>3, <1>6, <3>2
      <4>2. EndedInHook(events, verdict, target, n)
        BY <1>3, <4>1
      <4> QED BY <4>1, <4>2 DEF EndedInHook
    <3> QED BY <3>1, <3>2
  <2>2. 2 * j \in 1..L /\ 2 * j < L /\ 2 * j + 1 \in 1..L /\ j \in 1..(Len(Schedule(target)) - 1)
    <3> HIDE DEF L, m
    <3> QED BY <1>3, <1>4, <1>5, <1>6
  <2> HIDE DEF L, m
  <2> QED BY <2>1, <2>2 DEF Begun
<1>8. ASSUME NEW j \in 1..n
      PROVE  /\ events[2 * j + 1].type = "callbackPass" /\ events[2 * j + 1].hook = HookAt(target, j)
  <2>1. events[2 * j + 1] = Passed(HookAt(target, j))
    BY <1>2 DEF Told
  <2> QED BY <2>1 DEF Passed
<1>9. events[1].type = "nodeStart"
  BY <1>2 DEF Told
<1> HIDE DEF L, m, last
<1>10. ASSUME NEW i \in 1..L
       PROVE  \/ i = 1
              \/ \E j \in 1..m : i = 2 * j
              \/ \E j \in 1..n : i = 2 * j + 1
              \/ i = L
  <2>1. i \in Nat
    BY <1>4
  <2>2. PICK j \in Nat : i = 2 * j \/ i = 2 * j + 1
    BY <2>1, Parity
  <2>3. CASE i = 2 * j
    <3>1. j \in 1..m \/ i = L
      BY <1>3, <1>4, <1>5, <1>6, <2>3
    <3> QED BY <2>3, <3>1
  <2>4. CASE i = 2 * j + 1
    <3>1. i = 1 \/ j \in 1..n \/ i = L
      BY <1>3, <1>4, <1>5, <1>6, <2>4
    <3> QED BY <2>4, <3>1
  <2> QED BY <2>2, <2>3, <2>4
<1>11. Started = {2 * j : j \in 1..m}
  <2>1. ASSUME NEW i \in Started PROVE i \in {2 * j : j \in 1..m}
    <3>1. i \in 1..L /\ events[i].type = "callbackStart"
      BY <1>4, <2>1 DEF Started
    <3>2. i # 1 /\ i # L /\ ~ \E j \in 1..n : i = 2 * j + 1
      BY <1>6, <1>8, <1>9, <3>1 DEF last
    <3> QED BY <1>10, <3>1, <3>2
  <2>2. ASSUME NEW j \in 1..m PROVE 2 * j \in Started
    BY <1>4, <1>7 DEF Started
  <2> QED BY <2>1, <2>2
<1>12. ASSUME NEW i \in Started, NEW j \in Started, i < j PROVE Before(i, j)
  <2>1. PICK a \in 1..m : i = 2 * a
    BY <1>11
  <2>2. PICK b \in 1..m : j = 2 * b
    BY <1>11
  <2>3. a < b
    BY <1>5, <1>12, <2>1, <2>2
  <2>4. HookPrecedes(HookAt(target, a), HookAt(target, b))
    BY <1>1, <1>7, <2>3, HooksInOrder
  <2> QED BY <1>7, <2>1, <2>2, <2>4 DEF Before, HookPrecedes
<1>13. ASSUME NEW i \in Started
       PROVE  /\ i < L /\ events[i + 1].type \in {"callbackPass", "callbackFail"}
              /\ events[i + 1].hook = events[i].hook
  <2>1. PICK a \in 1..m : i = 2 * a
    BY <1>11
  <2>2. CASE a \in 1..n
    BY <1>7, <1>8, <2>1, <2>2
  <2>3. CASE a \notin 1..n
    <3>1. m = n + 1 /\ a = m /\ 2 * a + 1 = L
      BY <1>3, <1>6, <2>3
    <3> QED BY <1>6, <1>7, <2>1, <3>1 DEF last
  <2> QED BY <2>2, <2>3
<1>14. ASSUME NEW i \in 1..L
       PROVE  events[i].type \in {"nodePass", "nodeFail", "callbackFail"} <=> i = L
  BY <1>6, <1>7, <1>8, <1>9, <1>10 DEF last
<1>15. Last(events) = events[L]
  BY DEF Last, L
<1>16. verdict = "passed" => Cardinality(Started) = Len(Schedule(target)) - 1
  <2>1. Cardinality(Started) = m
    BY <1>5, <1>11, Doubles
  <2> QED BY <1>3, <1>5, <2>1
<1>17. \A i, j \in Started : i < j => Before(i, j)
  BY <1>12
<1> QED BY <1>4, <1>6, <1>13, <1>14, <1>15, <1>16, <1>17 DEF AttemptIsWellNested, last, L

\* Every hook that starts is closed before the next, outer hooks enclose inner
\* ones, nothing follows a failure, and a target that passed has run each of
\* its hooks once (executeNode and the event buffer that it writes).
THEOREM AttemptsAreWellNested == Spec => []AttemptIsWellNested
<1>1. Spec => []EventInv
  <2>1. IInv /\ EventInv /\ [Next]_vars => EventInv'
    BY NextEvents
  <2> QED BY <2>1, InitEvents, Invariance, PTL DEF Spec
<1> QED BY <1>1, Invariance, EventsAreNested, PTL

-----------------------------------------------------------------------------
(* Sequences. *)

\* Induction up to m, over a set.
LEMMA UpTo ==
  ASSUME NEW m \in Nat, NEW S, 0 \in S, \A n \in 0..m : n < m /\ n \in S => n + 1 \in S
  PROVE  \A n \in 0..m : n \in S
<1> SUFFICES ASSUME \E n \in 0..m : n \notin S PROVE FALSE
  OBVIOUS
<1> DEFINE Bad == {n \in 0..m : n \notin S}
<1>1. PICK b \in Bad : \A n \in Bad : b <= n
  <2>1. Bad \subseteq Nat /\ Bad # {}
    OBVIOUS
  <2> HIDE DEF Bad
  <2> QED BY <2>1, LeastNatural
<1>2. b # 0 /\ b \in 0..m
  OBVIOUS
<1>3. b - 1 \in 0..m /\ b - 1 < m /\ b - 1 + 1 = b
  BY <1>2
<1>4. b - 1 \in S
  BY <1>1, <1>3
<1>5. b \in S
  BY <1>3, <1>4
<1> QED BY <1>5

\* f is what m steps make of a, the n-th being make[n, .].
Runs(f, m, a, make) == f[0] = a /\ \A n \in 1..m : f[n] = make[<<n, f[n - 1]>>]

LEMMA StepsExist ==
  ASSUME NEW m \in Nat, NEW S, NEW a \in S, NEW make \in [(1..m) \X S -> S]
  PROVE  \E f \in [0..m -> S] : Runs(f, m, a, make)
<1> DEFINE Good == {k \in 0..m : \E f \in [0..k -> S] : Runs(f, k, a, make)}
<1>1. 0 \in Good
  <2> DEFINE f == [n \in 0..0 |-> a]
  <2>1. f \in [0..0 -> S] /\ Runs(f, 0, a, make)
    BY DEF Runs
  <2>2. 0 \in 0..m
    OBVIOUS
  <2> HIDE DEF f
  <2> QED BY <2>1, <2>2
<1>2. ASSUME NEW k \in 0..m, k < m, k \in Good PROVE k + 1 \in Good
  <2>1. PICK f \in [0..k -> S] : Runs(f, k, a, make)
    BY <1>2
  <2> DEFINE z == make[<<k + 1, f[k]>>]
             g == [n \in 0..(k + 1) |-> IF n = k + 1 THEN z ELSE f[n]]
  <2>2. z \in S
    <3>1. k + 1 \in 1..m /\ f[k] \in S
      BY <1>2
    <3> QED BY <3>1
  <2> HIDE DEF z
  <2>3. g \in [0..(k + 1) -> S]
    BY <2>2
  <2>4. g[0] = a
    BY <2>1 DEF Runs
  <2>5. ASSUME NEW n \in 1..(k + 1) PROVE g[n] = make[<<n, g[n - 1]>>]
    <3>1. n - 1 \in 0..k /\ n - 1 \in 0..(k + 1) /\ n - 1 # k + 1 /\ n \in 0..(k + 1)
      OBVIOUS
    <3>2. g[n - 1] = f[n - 1]
      BY <3>1
    <3>3. CASE n = k + 1
      BY <3>1, <3>2, <3>3 DEF z
    <3>4. CASE n # k + 1
      <4>1. n \in 1..k /\ g[n] = f[n]
        BY <3>1, <3>4
      <4> QED BY <2>1, <3>2, <4>1 DEF Runs
    <3> QED BY <3>3, <3>4
  <2>6. Runs(g, k + 1, a, make)
    BY <2>4, <2>5 DEF Runs
  <2>7. k + 1 \in 0..m
    BY <1>2
  <2> HIDE DEF g
  <2> QED BY <2>3, <2>6, <2>7
<1> HIDE DEF Good
<1>3. \A k \in 0..m : k \in Good
  BY <1>1, <1>2, UpTo
<1>4. m \in Good
  BY <1>3
<1> QED BY <1>4 DEF Good

\* The sequences that FlattenSeq comes by.
LEMMA FlattenSteps ==
  ASSUME NEW S, NEW q \in Seq(Seq(S))
  PROVE  \E g \in [0..Len(q) -> Seq(S)] :
           /\ g[0] = <<>> /\ \A i \in 1..Len(q) : g[i] = g[i - 1] \o q[i]
           /\ FlattenSeq(q) = g[Len(q)]
<1> DEFINE n == Len(q)
           make == [x \in (1..n) \X Seq(S) |-> x[2] \o q[x[1]]]
<1>1. n \in Nat /\ DOMAIN q = 1..n /\ \A i \in 1..n : q[i] \in Seq(S)
  BY LenProperties, ElementOfSeq
<1>2. <<>> \in Seq(S)
  OBVIOUS
<1> HIDE DEF n
<1>3. make \in [(1..n) \X Seq(S) -> Seq(S)]
  <2>1. ASSUME NEW x \in (1..n) \X Seq(S) PROVE x[2] \o q[x[1]] \in Seq(S)
    BY <1>1, ConcatProperties
  <2> QED BY <2>1
<1>4. PICK g \in [0..n -> Seq(S)] : Runs(g, n, <<>>, make)
  <2> HIDE DEF make
  <2> QED BY <1>1, <1>2, <1>3, StepsExist
<1>5. g[0] = <<>> /\ \A i \in 1..n : g[i] = g[i - 1] \o q[i]
  <2>1. ASSUME NEW i \in 1..n PROVE g[i] = g[i - 1] \o q[i]
    <3>1. i - 1 \in 0..n /\ g[i - 1] \in Seq(S)
      BY <1>1
    <3>2. g[i] = make[<<i, g[i - 1]>>]
      BY <1>4 DEF Runs
    <3> QED BY <3>1, <3>2
  <2> QED BY <1>4, <2>1 DEF Runs
<1>6. FlattenSeq(q) = g[n]
  <2>1. CASE n = 0
    <3>1. q = <<>>
      BY <2>1, EmptySeq DEF n
    <3>2. FlattenSeq(q) = q
      BY <2>1 DEF FlattenSeq, n
    <3> QED BY <1>5, <2>1, <3>1, <3>2
  <2>2. CASE n # 0
    <3> DEFINE Is(f) == f = [i \in 1..n |-> IF i = 1 THEN q[i] ELSE f[i - 1] \o q[i]]
               flat == CHOOSE f : Is(f)
               h == [i \in 1..n |-> g[i]]
    <3>1. FlattenSeq(q) = flat[n]
      BY <2>2 DEF FlattenSeq, n
    <3>2. ASSUME NEW i \in 1..n PROVE h[i] = IF i = 1 THEN q[i] ELSE h[i - 1] \o q[i]
      <4>1. CASE i = 1
        <5>1. 1 \in 1..n /\ q[1] \in Seq(S)
          BY <1>1, <4>1
        <5>2. g[1] = g[0] \o q[1] /\ g[0] = <<>>
          <6>1. g[1] = g[1 - 1] \o q[1]
            BY <1>5, <5>1
          <6>2. 1 - 1 = 0
            OBVIOUS
          <6>3. g[1 - 1] = g[0]
            BY <6>2, Zenon
          <6> QED BY <1>5, <6>1, <6>3, Zenon
        <5>3. g[1] = q[1]
          BY <5>1, <5>2, ConcatEmptySeq
        <5> QED BY <4>1, <5>1, <5>3
      <4>2. CASE i # 1
        <5>1. i - 1 \in 1..n
          BY <1>1, <4>2
        <5> QED BY <1>5, <4>2, <5>1
      <4> QED BY <4>1, <4>2
    <3>3. Is(h)
      <4>1. h = [i \in 1..n |-> h[i]]
        OBVIOUS
      <4> HIDE DEF h
      <4>2. h = [i \in 1..n |-> IF i = 1 THEN q[i] ELSE h[i - 1] \o q[i]]
        BY <3>2, <4>1, Zenon
      <4> QED BY <4>2
    <3>4. Is(flat)
      <4> HIDE DEF Is, h
      <4> QED BY <3>3
    <3> HIDE DEF flat
    <3>5. ASSUME NEW i \in 1..n PROVE flat[i] = IF i = 1 THEN q[i] ELSE flat[i - 1] \o q[i]
      BY <3>4
    <3> DEFINE Same == {0} \cup {i \in 1..n : flat[i] = g[i]}
    <3>6. ASSUME NEW i \in 0..n, i < n, i \in Same PROVE i + 1 \in Same
      <4> DEFINE j == i + 1
      <4>1. j \in 1..n /\ j - 1 = i
        BY <1>1, <3>6
      <4> HIDE DEF j
      <4>2. CASE i = 0
        <5>1. j = 1 /\ flat[j] = q[j]
          BY <3>5, <4>1, <4>2
        <5>2. h[j] = q[j] /\ h[j] = g[j]
          BY <3>2, <4>1, <5>1
        <5> QED BY <4>1, <5>1, <5>2 DEF j
      <4>3. CASE i # 0
        <5>1. j # 1 /\ flat[i] = g[i]
          BY <1>1, <3>6, <4>1, <4>3
        <5>2. flat[j] = flat[i] \o q[j] /\ g[j] = g[i] \o q[j]
          BY <1>5, <3>5, <4>1, <5>1
        <5> QED BY <4>1, <5>1, <5>2 DEF j
      <4> QED BY <4>2, <4>3
    <3> HIDE DEF Same
    <3>7. \A i \in 0..n : i \in Same
      <4>1. 0 \in Same
        BY DEF Same
      <4> QED BY <1>1, <3>6, <4>1, UpTo
    <3>8. flat[n] = g[n]
      <4>1. n \in 0..n
        BY <1>1
      <4> QED BY <1>1, <2>2, <3>7, <4>1 DEF Same
    <3> QED BY <3>1, <3>8
  <2> QED BY <2>1, <2>2
<1> QED BY <1>5, <1>6 DEF n

\* What FlattenSeq comes by stays in a set that each of the sequences keeps to.
LEMMA FlattenKeeps ==
  ASSUME NEW S, NEW q \in Seq(Seq(S)), NEW G, <<>> \in G,
         \A a \in G : \A i \in 1..Len(q) : a \o q[i] \in G
  PROVE  FlattenSeq(q) \in G
<1>1. PICK g \in [0..Len(q) -> Seq(S)] :
        /\ g[0] = <<>> /\ \A i \in 1..Len(q) : g[i] = g[i - 1] \o q[i]
        /\ FlattenSeq(q) = g[Len(q)]
  BY FlattenSteps
<1>2. PICK n \in Nat : n = Len(q)
  BY LenProperties
<1> DEFINE InG == {k \in 0..n : g[k] \in G}
<1>3. ASSUME NEW k \in 0..n, k < n, k \in InG PROVE k + 1 \in InG
  <2>1. k + 1 \in 1..Len(q) /\ k + 1 - 1 = k /\ k + 1 \in 0..n
    BY <1>2, <1>3
  <2>2. PICK j \in 1..Len(q) : j = k + 1 /\ j - 1 = k
    BY <2>1
  <2>3. g[j] = g[j - 1] \o q[j]
    BY <1>1
  <2>4. g[j] = g[k] \o q[j]
    BY <2>2, <2>3, Zenon
  <2>5. g[k] \o q[j] \in G
    BY <1>3
  <2>6. k + 1 \in 0..n /\ g[k + 1] \in G
    BY <2>1, <2>2, <2>4, <2>5
  <2> QED BY <2>6
<1>4. 0 \in InG
  BY <1>1, <1>2
<1> HIDE DEF InG
<1>5. \A k \in 0..n : k \in InG
  BY <1>2, <1>3, <1>4, UpTo
<1> QED BY <1>1, <1>2, <1>5 DEF InG

\* And has what each of them has.
LEMMA FlattenHas ==
  ASSUME NEW S, NEW q \in Seq(Seq(S))
  PROVE  /\ FlattenSeq(q) \in Seq(S)
         /\ \A i \in 1..Len(q) : \A x \in DOMAIN q[i] :
              \E y \in DOMAIN FlattenSeq(q) : FlattenSeq(q)[y] = q[i][x]
<1>1. PICK g \in [0..Len(q) -> Seq(S)] :
        /\ g[0] = <<>> /\ \A i \in 1..Len(q) : g[i] = g[i - 1] \o q[i]
        /\ FlattenSeq(q) = g[Len(q)]
  BY FlattenSteps
<1>2. PICK n \in Nat : n = Len(q)
  BY LenProperties
<1> DEFINE Has == {k \in 0..n : \A i \in 1..k : \A x \in DOMAIN q[i] :
                                 \E y \in DOMAIN g[k] : g[k][y] = q[i][x]}
<1>3. ASSUME NEW k \in 0..n, k < n, k \in Has PROVE k + 1 \in Has
  <2>1. k + 1 \in 1..Len(q) /\ k + 1 - 1 = k /\ k + 1 \in 0..n
    BY <1>2, <1>3
  <2> DEFINE u == g[k]
             v == q[k + 1]
  <2>2. g[k + 1] = u \o v
    <3>1. PICK j \in 1..Len(q) : j = k + 1 /\ j - 1 = k
      BY <2>1
    <3>2. g[j] = g[j - 1] \o q[j]
      BY <1>1
    <3> QED BY <3>1, <3>2, Zenon DEF u, v
  <2>3. u \in Seq(S) /\ v \in Seq(S)
    BY <1>2, <2>1, ElementOfSeq
  <2>4. /\ DOMAIN u = 1..Len(u) /\ DOMAIN v = 1..Len(v) /\ Len(u) \in Nat /\ Len(v) \in Nat
        /\ DOMAIN (u \o v) = 1..(Len(u) + Len(v))
        /\ \A y \in 1..Len(u) : (u \o v)[y] = u[y]
        /\ \A y \in 1..Len(v) : (u \o v)[Len(u) + y] = v[y]
    <3>1. u \o v \in Seq(S) /\ Len(u \o v) = Len(u) + Len(v)
      BY <2>3, ConcatProperties
    <3>2. /\ DOMAIN u = 1..Len(u) /\ DOMAIN v = 1..Len(v) /\ Len(u) \in Nat /\ Len(v) \in Nat
          /\ DOMAIN (u \o v) = 1..Len(u \o v)
      BY <2>3, <3>1, LenProperties
    <3>3. \A y \in 1..(Len(u) + Len(v)) : (u \o v)[y] = IF y <= Len(u) THEN u[y] ELSE v[y - Len(u)]
      BY <2>3, ConcatProperties
    <3> HIDE DEF u, v
    <3>4. \A y \in 1..Len(u) : y \in 1..(Len(u) + Len(v)) /\ y <= Len(u)
      BY <3>2
    <3>5. \A y \in 1..Len(v) : /\ Len(u) + y \in 1..(Len(u) + Len(v))
                               /\ ~ (Len(u) + y <= Len(u)) /\ Len(u) + y - Len(u) = y
      BY <3>2
    <3>6. \A y \in 1..Len(v) : (u \o v)[Len(u) + y] = v[y]
      BY <3>3, <3>5
    <3> QED BY <3>1, <3>2, <3>3, <3>4, <3>6
  <2>5. ASSUME NEW i \in 1..(k + 1), NEW x \in DOMAIN q[i]
        PROVE  \E y \in DOMAIN g[k + 1] : g[k + 1][y] = q[i][x]
    <3>1. CASE i = k + 1
      <4> HIDE DEF u
      <4>1. x \in 1..Len(v) /\ q[i][x] = v[x]
        BY <2>4, <2>5, <3>1
      <4> HIDE DEF v
      <4>2. Len(u) + x \in 1..(Len(u) + Len(v))
        BY <2>4, <4>1
      <4> QED BY <2>2, <2>4, <4>1, <4>2
    <3>2. CASE i # k + 1
      <4>1. i \in 1..k
        BY <1>2, <3>2
      <4>2. PICK y \in DOMAIN u : u[y] = q[i][x]
        BY <1>3, <4>1
      <4> HIDE DEF u, v
      <4>3. y \in 1..Len(u) /\ y \in 1..(Len(u) + Len(v))
        BY <2>4, <4>2
      <4> QED BY <2>2, <2>4, <4>2, <4>3
    <3> QED BY <3>1, <3>2
  <2> QED BY <2>1, <2>5
<1>4. 0 \in Has
  BY <1>2
<1> HIDE DEF Has
<1>5. n \in Has
  <2>1. \A k \in 0..n : k \in Has
    BY <1>2, <1>3, <1>4, UpTo
  <2>2. n \in 0..n
    BY <1>2
  <2> QED BY <2>1, <2>2
<1>6. FlattenSeq(q) \in Seq(S)
  BY <1>1, <1>2
<1> QED BY <1>1, <1>2, <1>5, <1>6 DEF Has

-----------------------------------------------------------------------------
(* The run with coverage. *)

CONSTANTS Sources, Options
VARIABLES waiting, instance, agenda, points, covered, frame, snapshots

C == INSTANCE CoverageRun WITH Programs <- Sources, todo <- waiting

\* A place that has a point, and its id.
Wanted(p, o, s, t) == Instrumented(p, o, s) /\ t \in PointTypes(p, s) /\ t \in o.types

IdIn(p, s, t) == Hash(Point(p, s, t))

PlainIn(p, s) ==
  /\ p[s].call = 0 /\ p[s].slot = "list" /\ p[s].kind \in {"Expression", "Variable"}
  /\ s \in Visited(p, MarkEnters)

Operations == {"hit", "mark", "do", "call", "art", "trace", "abort", "choose", "Return", "Throw",
               "back", "frame"}

\* What may stand on an agenda.
Items(p, o) ==
  {it \in [op : Operations, s : Statements(p), type : {"function", "block", "expression", ""}] :
    /\ IF it.op = "hit" THEN Wanted(p, o, it.s, it.type) ELSE it.type = ""
    /\ it.op = "do" => p[it.s].slot \in {"list", "arm"}
    /\ it.op = "call" => p[it.s].kind \in FunctionKinds
    /\ it.op = "abort" => p[it.s].bare = "abort"}

\* The statement comes next, or behind its marker.
Followed(a, i, s) ==
  \/ i < Len(a) /\ a[i + 1] = Item("do", s, "")
  \/ i + 1 < Len(a) /\ a[i + 1] = Item("mark", s, "") /\ a[i + 2] = Item("do", s, "")

\* A hit of an expression is followed by its statement, one of a function or a block
\* has been entered.
HitFits(p, a, R, i) ==
  a[i].op = "hit" =>
    IF a[i].type = "expression" THEN p[a[i].s].slot = "list" /\ Followed(a, i, a[i].s)
    ELSE <<a[i].s, a[i].type>> \in R

\* A statement of a list is preceded by its marker and, before that, by its hit.
DoFits(p, o, a, i) ==
  a[i].op = "do" /\ p[a[i].s].slot = "list" =>
    /\ ArtifactMarked(p, a[i].s) => i > 1 /\ a[i - 1] = Item("mark", a[i].s, "")
    /\ Wanted(p, o, a[i].s, "expression") =>
         IF ArtifactMarked(p, a[i].s) THEN i > 2 /\ a[i - 2] = Item("hit", a[i].s, "expression")
         ELSE i > 1 /\ a[i - 1] = Item("hit", a[i].s, "expression")

\* No artifact of a statement that has its marker for itself is left.
ArtFits(p, a, i) == a[i].op = "art" => ~ PlainIn(p, a[i].s)

\* An agenda on which nothing has been torn from what belongs to it.
Whole(p, o, a, R) ==
  /\ a \in Seq(Items(p, o))
  /\ \A i \in 1..Len(a) : HitFits(p, a, R, i) /\ DoFits(p, o, a, i) /\ ArtFits(p, a, i)

LEMMA NothingSound ==
  ASSUME NEW p, NEW o, NEW R
  PROVE  Whole(p, o, <<>>, R)
<1>1. <<>> \in Seq(Items(p, o)) /\ Len(<<>>) = 0
  OBVIOUS
<1>2. 1..0 = {}
  OBVIOUS
<1> QED BY <1>1, <1>2 DEF Whole

LEMMA SoundGrows ==
  ASSUME NEW p, NEW o, NEW a, NEW R, NEW T, Whole(p, o, a, R), R \subseteq T
  PROVE  Whole(p, o, a, T)
BY DEF Whole, HitFits

\* Two sound agendas make one.
LEMMA SoundJoined ==
  ASSUME NEW p, NEW o, NEW R, NEW a, NEW b, Whole(p, o, a, R), Whole(p, o, b, R)
  PROVE  Whole(p, o, a \o b, R)
<1> DEFINE S == Items(p, o)
<1>1. a \in Seq(S) /\ b \in Seq(S)
  BY DEF Whole
<1> HIDE DEF S
<1>2. PICK c \in Seq(S) : c = a \o b
  BY <1>1, ConcatProperties
<1>3. PICK m \in Nat, n \in Nat : m = Len(a) /\ n = Len(b)
  BY <1>1, LenProperties
<1>4. /\ Len(c) = m + n
      /\ \A i \in 1..m : c[i] = a[i]
      /\ \A i \in 1..n : c[i + m] = b[i]
  <2>1. Len(c) = m + n /\ \A i \in 1..(m + n) : c[i] = IF i <= m THEN a[i] ELSE b[i - m]
    BY <1>1, <1>2, <1>3, ConcatProperties
  <2>2. \A i \in 1..m : i \in 1..(m + n) /\ i <= m
    OBVIOUS
  <2>3. \A i \in 1..n : i + m \in 1..(m + n) /\ ~ (i + m <= m) /\ i + m - m = i
    OBVIOUS
  <2> QED BY <2>1, <2>2, <2>3
<1>5. ASSUME NEW i \in 1..m
      PROVE  HitFits(p, c, R, i) /\ DoFits(p, o, c, i) /\ ArtFits(p, c, i)
  <2>1. HitFits(p, a, R, i) /\ DoFits(p, o, a, i) /\ ArtFits(p, a, i)
    BY <1>3 DEF Whole
  <2>2. c[i] = a[i] /\ (i < m => i + 1 \in 1..m) /\ (i + 1 < m => i + 1 \in 1..m /\ i + 2 \in 1..m)
    BY <1>4
  <2>3. (i > 1 => i - 1 \in 1..m) /\ (i > 2 => i - 2 \in 1..m)
    OBVIOUS
  <2>4. i < m => i < m + n
    OBVIOUS
  <2>5. i + 1 < m => i + 1 < m + n
    OBVIOUS
  <2>6. HitFits(p, c, R, i)
    BY <1>3, <1>4, <2>1, <2>2, <2>4, <2>5 DEF HitFits, Followed
  <2>7. DoFits(p, o, c, i)
    BY <1>4, <2>1, <2>2, <2>3 DEF DoFits
  <2> QED BY <2>1, <2>2, <2>6, <2>7 DEF ArtFits
<1>6. ASSUME NEW i \in 1..n
      PROVE  HitFits(p, c, R, i + m) /\ DoFits(p, o, c, i + m) /\ ArtFits(p, c, i + m)
  <2>1. HitFits(p, b, R, i) /\ DoFits(p, o, b, i) /\ ArtFits(p, b, i)
    BY <1>3 DEF Whole
  <2>2. c[i + m] = b[i]
    BY <1>4
  <2>3. i < n => i + m < m + n /\ c[i + m + 1] = b[i + 1]
    <3>1. i < n => i + 1 \in 1..n /\ i + 1 + m = i + m + 1
      OBVIOUS
    <3> QED BY <1>4, <3>1
  <2>4. i + 1 < n => i + m + 1 < m + n /\ c[i + m + 2] = b[i + 2]
    <3>1. i + 1 < n => i + 2 \in 1..n /\ i + 2 + m = i + m + 2
      OBVIOUS
    <3> QED BY <1>4, <3>1
  <2>5. i > 1 => i + m > 1 /\ c[i + m - 1] = b[i - 1]
    <3>1. i > 1 => i - 1 \in 1..n /\ i - 1 + m = i + m - 1
      OBVIOUS
    <3> QED BY <1>4, <3>1
  <2>6. i > 2 => i + m > 2 /\ c[i + m - 2] = b[i - 2]
    <3>1. i > 2 => i - 2 \in 1..n /\ i - 2 + m = i + m - 2
      OBVIOUS
    <3> QED BY <1>4, <3>1
  <2>7. i + 1 < n => i < n
    OBVIOUS
  <2>8. HitFits(p, c, R, i + m)
    BY <1>3, <1>4, <2>1, <2>2, <2>3, <2>4, <2>7 DEF HitFits, Followed
  <2>9. DoFits(p, o, c, i + m)
    <3> DEFINE j == i + m
    <3>1. c[j] = b[i] /\ (i > 1 => j > 1 /\ c[j - 1] = b[i - 1]) /\ (i > 2 => j > 2 /\ c[j - 2] = b[i - 2])
      BY <2>2, <2>5, <2>6
    <3> HIDE DEF j
    <3>2. DoFits(p, o, c, j)
      BY <2>1, <3>1 DEF DoFits
    <3> QED BY <3>2 DEF j
  <2> QED BY <2>1, <2>2, <2>8, <2>9 DEF ArtFits
<1>7. ASSUME NEW j \in 1..Len(c)
      PROVE  HitFits(p, c, R, j) /\ DoFits(p, o, c, j) /\ ArtFits(p, c, j)
  <2>1. CASE j <= m
    <3>1. j \in 1..m
      BY <1>4, <2>1
    <3> QED BY <1>5, <3>1
  <2>2. CASE ~ (j <= m)
    <3>1. PICK i \in 1..n : j = i + m
      <4>1. j - m \in 1..n /\ j = j - m + m
        BY <1>4, <2>2
      <4> QED BY <4>1
    <3> QED BY <1>6, <3>1
  <2> QED BY <2>1, <2>2
<1> QED BY <1>2, <1>7 DEF Whole, S

\* Nothing belongs together across the k-th item.
Cut(p, a, k) ==
  /\ ~ (a[k].op = "hit" /\ a[k].type = "expression")
  /\ a[k].op = "mark" /\ k < Len(a) /\ a[k + 1].op = "do" /\ p[a[k + 1].s].slot = "list" =>
       ~ ArtifactMarked(p, a[k + 1].s)

\* What stands behind such an item is sound.
LEMMA SoundBehind ==
  ASSUME NEW p, NEW o, NEW R, NEW a, Whole(p, o, a, R),
         NEW k \in 1..Len(a), Cut(p, a, k),
         NEW b \in Seq(Items(p, o)), Len(b) = Len(a) - k,
         \A i \in 1..Len(b) : b[i] = a[i + k]
  PROVE  Whole(p, o, b, R)
<1>1. PICK n \in Nat, m \in Nat : n = Len(b) /\ m = Len(a)
  <2>1. a \in Seq(Items(p, o))
    BY DEF Whole
  <2> QED BY <2>1, LenProperties
<1>2. k \in Nat /\ k > 0 /\ n = m - k
  BY <1>1
<1>3. ASSUME NEW i \in 1..n
      PROVE  HitFits(p, b, R, i) /\ DoFits(p, o, b, i) /\ ArtFits(p, b, i)
  <2>1. PICK j \in 1..m : j = i + k /\ b[i] = a[j]
    <3>1. i + k \in 1..m /\ b[i] = a[i + k]
      BY <1>1, <1>2
    <3> QED BY <3>1
  <2>2. HitFits(p, a, R, j) /\ DoFits(p, o, a, j) /\ ArtFits(p, a, j)
    BY <1>1, <2>1 DEF Whole
  <2>3. j < m => i < n /\ a[j + 1] = b[i + 1]
    <3>1. ASSUME j < m PROVE i < n /\ a[j + 1] = b[i + 1]
      <4>1. PICK x \in 1..n : x = i + 1 /\ x + k = j + 1
        <5>1. i + 1 \in 1..n /\ i + 1 + k = j + 1
          BY <1>2, <2>1, <3>1
        <5> QED BY <5>1
      <4>2. b[x] = a[x + k]
        BY <1>1
      <4>3. a[j + 1] = b[i + 1]
        BY <4>1, <4>2, Zenon
      <4>4. i < n
        BY <1>2, <2>1, <3>1
      <4> QED BY <4>3, <4>4
    <3> QED BY <3>1
  <2>4. j + 1 < m => i + 1 < n /\ a[j + 2] = b[i + 2] /\ j < m
    <3>1. ASSUME j + 1 < m PROVE i + 1 < n /\ a[j + 2] = b[i + 2] /\ j < m
      <4>1. i + 1 < n /\ j < m
        BY <1>2, <2>1, <3>1
      <4>2. PICK x \in 1..n : x = i + 2 /\ x + k = j + 2
        <5>1. i + 2 \in 1..n /\ i + 2 + k = j + 2
          BY <1>2, <2>1, <4>1
        <5> QED BY <5>1
      <4>3. b[x] = a[x + k]
        BY <1>1
      <4>4. a[j + 2] = b[i + 2]
        BY <4>2, <4>3, Zenon
      <4> QED BY <4>1, <4>4
    <3> QED BY <3>1
  <2>5. i > 1 => a[j - 1] = b[i - 1]
    <3>1. i > 1 => i - 1 \in 1..n /\ i - 1 + k = j - 1
      BY <1>2, <2>1
    <3> QED BY <1>1, <3>1
  <2>6. i > 2 => a[j - 2] = b[i - 2]
    <3>1. i > 2 => i - 2 \in 1..n /\ i - 2 + k = j - 2
      BY <1>2, <2>1
    <3> QED BY <1>1, <3>1
  <2>7. ~ (i > 1) => i = 1 /\ j - 1 = k /\ j = k + 1 /\ k < m
    BY <1>2, <2>1
  <2>8. ~ (i > 2) => i = 1 \/ (i = 2 /\ j - 2 = k)
    BY <1>2, <2>1
  <2>9. HitFits(p, b, R, i)
    BY <1>1, <2>1, <2>2, <2>3, <2>4 DEF HitFits, Followed
  <2>10. DoFits(p, o, b, i)
    <3> SUFFICES ASSUME b[i].op = "do", p[b[i].s].slot = "list"
                 PROVE  /\ ArtifactMarked(p, b[i].s) => i > 1 /\ b[i - 1] = Item("mark", b[i].s, "")
                        /\ Wanted(p, o, b[i].s, "expression") =>
                             IF ArtifactMarked(p, b[i].s)
                             THEN i > 2 /\ b[i - 2] = Item("hit", b[i].s, "expression")
                             ELSE i > 1 /\ b[i - 1] = Item("hit", b[i].s, "expression")
      BY DEF DoFits
    <3> DEFINE s == b[i].s
    <3>1. Item("mark", s, "").op = "mark" /\ Item("hit", s, "expression").op = "hit"
          /\ Item("hit", s, "expression").type = "expression"
      BY DEF Item
    <3>2. ArtifactMarked(p, s) => i > 1 /\ b[i - 1] = Item("mark", s, "")
      <4> SUFFICES ASSUME ArtifactMarked(p, s) PROVE i > 1 /\ b[i - 1] = Item("mark", s, "")
        OBVIOUS
      <4>1. a[j - 1] = Item("mark", s, "")
        BY <2>1, <2>2 DEF DoFits
      <4>2. i > 1
        <5>1. ASSUME i = 1 PROVE FALSE
          <6>1. ~ (i > 1)
            BY <5>1
          <6>2. j - 1 = k /\ j = k + 1 /\ k < Len(a)
            BY <1>1, <2>7, <6>1
          <6>3. a[k] = Item("mark", s, "") /\ a[k + 1] = b[i]
            BY <2>1, <4>1, <6>2, Zenon
          <6> QED BY <3>1, <6>2, <6>3 DEF Cut
        <5> QED BY <5>1
      <4> QED BY <2>5, <4>1, <4>2
    <3>3. ASSUME Wanted(p, o, s, "expression"), ArtifactMarked(p, s)
          PROVE  i > 2 /\ b[i - 2] = Item("hit", s, "expression")
      <4>1. a[j - 2] = Item("hit", s, "expression")
        BY <2>1, <2>2, <3>3 DEF DoFits
      <4>2. i # 1
        <5>1. i > 1
          BY <3>2, <3>3
        <5> QED BY <5>1
      <4>3. ASSUME i = 2 PROVE FALSE
        <5>1. a[k] = Item("hit", s, "expression")
          BY <2>8, <4>1, <4>3
        <5> QED BY <3>1, <5>1 DEF Cut
      <4> QED BY <2>6, <2>8, <4>1, <4>2, <4>3
    <3>4. ASSUME Wanted(p, o, s, "expression"), ~ ArtifactMarked(p, s)
          PROVE  i > 1 /\ b[i - 1] = Item("hit", s, "expression")
      <4>1. a[j - 1] = Item("hit", s, "expression")
        BY <2>1, <2>2, <3>4 DEF DoFits
      <4>2. ASSUME i = 1 PROVE FALSE
        <5>1. a[k] = Item("hit", s, "expression")
          BY <2>7, <4>1, <4>2
        <5> QED BY <3>1, <5>1 DEF Cut
      <4> QED BY <2>5, <4>1, <4>2
    <3> QED BY <3>2, <3>3, <3>4
  <2> QED BY <2>1, <2>2, <2>9, <2>10 DEF ArtFits
<1> QED BY <1>1, <1>3 DEF Whole

LEMMA PairIs ==
  ASSUME NEW x, NEW y
  PROVE  <<x>> \o <<y>> = <<x, y>>
<1> DEFINE S == {x, y}
           a == <<x>>
           b == <<y>>
<1>1. /\ a \in Seq(S) /\ b \in Seq(S) /\ Len(a) = 1 /\ Len(b) = 1 /\ a[1] = x /\ b[1] = y
      /\ <<x, y>> \in Seq(S) /\ Len(<<x, y>>) = 2 /\ <<x, y>>[1] = x /\ <<x, y>>[2] = y
  OBVIOUS
<1> HIDE DEF S, a, b
<1>2. PICK c \in Seq(S) : c = a \o b
  BY <1>1, ConcatProperties
<1>3. Len(c) = 2 /\ \A i \in 1..2 : c[i] = IF i <= 1 THEN a[i] ELSE b[i - 1]
  BY <1>1, <1>2, ConcatProperties
<1>4. c[1] = x
  BY <1>1, <1>3
<1>5. c[2] = y
  BY <1>1, <1>3
<1>6. \A i \in 1..2 : i = 1 \/ i = 2
  OBVIOUS
<1>7. \A i \in 1..2 : c[i] = <<x, y>>[i]
  BY <1>1, <1>4, <1>5, <1>6
<1>8. c = <<x, y>>
  BY <1>1, <1>3, <1>7, SeqEqual
<1> QED BY <1>2, <1>8 DEF a, b

LEMMA TripleIs ==
  ASSUME NEW x, NEW y, NEW z
  PROVE  <<x>> \o <<y>> \o <<z>> = <<x, y, z>>
<1> DEFINE S == {x, y, z}
           a == <<x, y>>
           b == <<z>>
<1>1. /\ a \in Seq(S) /\ b \in Seq(S) /\ Len(a) = 2 /\ Len(b) = 1
      /\ a[1] = x /\ a[2] = y /\ b[1] = z
      /\ <<x, y, z>> \in Seq(S) /\ Len(<<x, y, z>>) = 3
      /\ <<x, y, z>>[1] = x /\ <<x, y, z>>[2] = y /\ <<x, y, z>>[3] = z
  OBVIOUS
<1> HIDE DEF S, a, b
<1>2. PICK c \in Seq(S) : c = a \o b
  BY <1>1, ConcatProperties
<1>3. Len(c) = 3 /\ \A i \in 1..3 : c[i] = IF i <= 2 THEN a[i] ELSE b[i - 2]
  <2>1. /\ Len(a \o b) = Len(a) + Len(b)
        /\ \A i \in 1..(Len(a) + Len(b)) : (a \o b)[i] = IF i <= Len(a) THEN a[i] ELSE b[i - Len(a)]
    BY <1>1, ConcatProperties
  <2>2. Len(a) + Len(b) = 3
    BY <1>1
  <2> QED BY <1>1, <1>2, <2>1, <2>2
<1>4. c[1] = x /\ c[2] = y
  BY <1>1, <1>3
<1>5. c[3] = z
  BY <1>1, <1>3
<1>6. \A i \in 1..3 : i = 1 \/ i = 2 \/ i = 3
  OBVIOUS
<1>7. \A i \in 1..3 : c[i] = <<x, y, z>>[i]
  BY <1>1, <1>4, <1>5, <1>6
<1>8. c = <<x, y, z>>
  BY <1>1, <1>3, <1>7, SeqEqual
<1> QED BY <1>2, <1>8, PairIs, Zenon DEF a, b

LEMMA OneIs == ASSUME NEW S, NEW x \in S PROVE <<x>> \in Seq(S) /\ Len(<<x>>) = 1 /\ <<x>>[1] = x
OBVIOUS

LEMMA EmptyJoin == ASSUME NEW x PROVE <<x>> \o <<>> = <<x>> /\ <<>> \o <<x>> = <<x>>
<1>1. <<x>> \in Seq({x})
  OBVIOUS
<1> QED BY <1>1, ConcatEmptySeq

\* Of three sequences, what is left when all but one or two are empty.
LEMMA JoinsAre ==
  ASSUME NEW x, NEW y
  PROVE  /\ <<x>> \o <<y>> \o <<>> = <<x, y>>
         /\ <<x>> \o <<>> \o <<y>> = <<x, y>>
         /\ <<>> \o <<x>> \o <<y>> = <<x, y>>
         /\ <<x>> \o <<>> \o <<>> = <<x>>
         /\ <<>> \o <<x>> \o <<>> = <<x>>
         /\ <<>> \o <<>> \o <<x>> = <<x>>
<1>1. <<x, y>> \o <<>> = <<x, y>>
  <2>1. <<x, y>> \in Seq({x, y})
    OBVIOUS
  <2> QED BY <2>1, ConcatEmptySeq
<1>2. <<x>> \o <<>> = <<x>> /\ <<>> \o <<x>> = <<x>>
  BY EmptyJoin
<1>3. <<>> \o <<>> = <<>>
  <2>1. <<>> \in Seq({x})
    OBVIOUS
  <2> QED BY <2>1, ConcatEmptySeq
<1> QED BY <1>1, <1>2, <1>3, PairIs, Zenon
Hit1(p, o, s, t) == When(Wanted(p, o, s, t), Item("hit", s, t))

\* The hits of a statement, in their order.
LEMMA HitsAre ==
  ASSUME NEW p, NEW o, NEW s
  PROVE  Hits(p, o, s) = Hit1(p, o, s, "function") \o Hit1(p, o, s, "block")
                           \o Hit1(p, o, s, "expression")
<1> DEFINE t == AskedTypes(p, o, s)
           f == Wanted(p, o, s, "function")
           b == Wanted(p, o, s, "block")
           e == Wanted(p, o, s, "expression")
<1>1. t = When(f, "function") \o When(b, "block") \o When(e, "expression")
  BY DEF AskedTypes, Wanted
<1>2. Hits(p, o, s) = [i \in DOMAIN t |-> Item("hit", s, t[i])]
  BY DEF Hits
<1>3. /\ f => Hit1(p, o, s, "function") = <<Item("hit", s, "function")>>
      /\ ~f => Hit1(p, o, s, "function") = <<>>
      /\ b => Hit1(p, o, s, "block") = <<Item("hit", s, "block")>>
      /\ ~b => Hit1(p, o, s, "block") = <<>>
      /\ e => Hit1(p, o, s, "expression") = <<Item("hit", s, "expression")>>
      /\ ~e => Hit1(p, o, s, "expression") = <<>>
  BY DEF Hit1, When
<1>4. e => ~f /\ ~b
  BY DEF Wanted, PointTypes
<1> HIDE DEF t, f, b, e
<1>5. CASE f /\ b
  <2>4. When(f, "function") = <<"function">> /\ When(b, "block") = <<"block">>
        /\ When(e, "expression") = <<>>
    BY <1>4, <1>5 DEF When
  <2>1. t = <<"function", "block">>
    BY <1>1, <2>4, JoinsAre, Zenon
  <2>2. [i \in DOMAIN t |-> Item("hit", s, t[i])]
          = <<Item("hit", s, "function"), Item("hit", s, "block")>>
    BY <2>1
  <2>3. /\ Hit1(p, o, s, "function") = <<Item("hit", s, "function")>>
        /\ Hit1(p, o, s, "block") = <<Item("hit", s, "block")>>
        /\ Hit1(p, o, s, "expression") = <<>>
    BY <1>3, <1>4, <1>5
  <2> QED BY <1>2, <2>2, <2>3, JoinsAre, Zenon
<1>6. CASE f /\ ~b
  <2>4. When(f, "function") = <<"function">> /\ When(b, "block") = <<>>
        /\ When(e, "expression") = <<>>
    BY <1>4, <1>6 DEF When
  <2>1. t = <<"function">>
    BY <1>1, <2>4, JoinsAre, Zenon
  <2>2. [i \in DOMAIN t |-> Item("hit", s, t[i])] = <<Item("hit", s, "function")>>
    BY <2>1
  <2>3. /\ Hit1(p, o, s, "function") = <<Item("hit", s, "function")>>
        /\ Hit1(p, o, s, "block") = <<>>
        /\ Hit1(p, o, s, "expression") = <<>>
    BY <1>3, <1>4, <1>6
  <2> QED BY <1>2, <2>2, <2>3, JoinsAre, Zenon
<1>7. CASE ~f /\ b
  <2>4. When(f, "function") = <<>> /\ When(b, "block") = <<"block">>
        /\ When(e, "expression") = <<>>
    BY <1>4, <1>7 DEF When
  <2>1. t = <<"block">>
    BY <1>1, <2>4, JoinsAre, Zenon
  <2>2. [i \in DOMAIN t |-> Item("hit", s, t[i])] = <<Item("hit", s, "block")>>
    BY <2>1
  <2>3. /\ Hit1(p, o, s, "function") = <<>>
        /\ Hit1(p, o, s, "block") = <<Item("hit", s, "block")>>
        /\ Hit1(p, o, s, "expression") = <<>>
    BY <1>3, <1>4, <1>7
  <2> QED BY <1>2, <2>2, <2>3, JoinsAre, Zenon
<1>8. CASE e
  <2>4. When(f, "function") = <<>> /\ When(b, "block") = <<>>
        /\ When(e, "expression") = <<"expression">>
    BY <1>4, <1>8 DEF When
  <2>1. t = <<"expression">>
    BY <1>1, <2>4, JoinsAre, Zenon
  <2>2. [i \in DOMAIN t |-> Item("hit", s, t[i])] = <<Item("hit", s, "expression")>>
    BY <2>1
  <2>3. /\ Hit1(p, o, s, "function") = <<>>
        /\ Hit1(p, o, s, "block") = <<>>
        /\ Hit1(p, o, s, "expression") = <<Item("hit", s, "expression")>>
    BY <1>3, <1>4, <1>8
  <2> QED BY <1>2, <2>2, <2>3, JoinsAre, Zenon
<1>9. CASE ~f /\ ~b /\ ~e
  <2>1. t = <<>>
    BY <1>1, <1>9 DEF When
  <2>2. [i \in DOMAIN t |-> Item("hit", s, t[i])] = <<>>
    BY <2>1
  <2> QED BY <1>2, <1>3, <1>9, <2>2
<1> QED BY <1>5, <1>6, <1>7, <1>8, <1>9

\* What belongs to nothing before or after it.
Loose(p, R, it) ==
  /\ it.op = "hit" => it.type # "expression" /\ <<it.s, it.type>> \in R
  /\ it.op = "do" => p[it.s].slot # "list"
  /\ it.op = "art" => ~ PlainIn(p, it.s)

LEMMA LooseSound ==
  ASSUME NEW p, NEW o, NEW R, NEW it \in Items(p, o), Loose(p, R, it), NEW c
  PROVE  Whole(p, o, <<it>>, R) /\ Whole(p, o, When(c, it), R)
<1> DEFINE a == <<it>>
           S == Items(p, o)
<1>1. a \in Seq(S) /\ Len(a) = 1 /\ a[1] = it
  OBVIOUS
<1> HIDE DEF a, S
<1>2. HitFits(p, a, R, 1) /\ DoFits(p, o, a, 1) /\ ArtFits(p, a, 1)
  BY <1>1 DEF Loose, HitFits, DoFits, ArtFits
<1>3. Whole(p, o, a, R)
  <2>1. \A i \in 1..Len(a) : i = 1
    BY <1>1
  <2> QED BY <1>1, <1>2, <2>1 DEF Whole, S
<1>4. When(c, it) = a \/ When(c, it) = <<>>
  BY DEF When, a
<1> QED BY <1>3, <1>4, NothingSound DEF a

\* A statement of a list, with what is put in front of it.
LEMMA InListSound ==
  ASSUME NEW p, NEW o, NEW R, NEW s \in Statements(p), p[s].slot = "list"
  PROVE  Whole(p, o, InList(p, o, s), R)
<1> DEFINE h == Item("hit", s, "expression")
           k == Item("mark", s, "")
           d == Item("do", s, "")
           w == Wanted(p, o, s, "expression")
           m == ArtifactMarked(p, s)
           S == Items(p, o)
<1>1. InList(p, o, s) = When(w, h) \o When(m, k) \o <<d>>
  <2>1. CASE p[s].kind \in FunctionKinds \cup {"Block"}
    <3>1. ~ w
      BY <2>1 DEF Wanted, PointTypes
    <3>2. InList(p, o, s) = <<>> \o When(m, k) \o <<d>>
      BY <2>1 DEF InList
    <3>3. When(w, h) = <<>>
      BY <3>1 DEF When
    <3> QED BY <3>2, <3>3
  <2>2. CASE p[s].kind \notin FunctionKinds \cup {"Block"}
    <3>1. ~ Wanted(p, o, s, "function") /\ ~ Wanted(p, o, s, "block")
      BY <2>2 DEF Wanted, PointTypes
    <3>2. Hits(p, o, s) = <<>> \o <<>> \o When(w, h)
      BY <3>1, HitsAre DEF Hit1, When
    <3>3. <<>> \o <<>> \o When(w, h) = When(w, h)
      BY DEF When
    <3>4. InList(p, o, s) = Hits(p, o, s) \o When(m, k) \o <<d>>
      BY <2>2 DEF InList
    <3> QED BY <3>2, <3>3, <3>4
  <2> QED BY <2>1, <2>2
<1>2. d \in S /\ k \in S /\ (w => h \in S)
  BY DEF Items, Item, Operations
<1>3. /\ h.op = "hit" /\ h.type = "expression" /\ h.s = s
      /\ k.op = "mark" /\ d.op = "do" /\ d.s = s
  BY DEF Item
<1> HIDE DEF h, k, d, S
<1>4. CASE w /\ m
  <2> DEFINE a == <<h, k, d>>
  <2>1. InList(p, o, s) = a
    <3>1. When(w, h) = <<h>> /\ When(m, k) = <<k>>
      BY <1>4 DEF When
    <3> QED BY <1>1, <3>1, TripleIs, Zenon
  <2>2. a \in Seq(S) /\ Len(a) = 3 /\ a[1] = h /\ a[2] = k /\ a[3] = d
    BY <1>2, <1>4
  <2> HIDE DEF a
  <2>3. HitFits(p, a, R, 1) /\ DoFits(p, o, a, 1) /\ ArtFits(p, a, 1)
    <3>1. 1 + 1 < Len(a) /\ a[1 + 1] = k /\ a[1 + 2] = d /\ a[1].s = s
      BY <1>3, <2>2
    <3>2. Followed(a, 1, a[1].s)
      BY <3>1 DEF Followed, k, d
    <3>3. HitFits(p, a, R, 1)
      BY <1>3, <2>2, <3>2 DEF HitFits
    <3> QED BY <1>3, <2>2, <3>3 DEF DoFits, ArtFits
  <2>4. HitFits(p, a, R, 2) /\ DoFits(p, o, a, 2) /\ ArtFits(p, a, 2)
    BY <1>3, <2>2 DEF HitFits, DoFits, ArtFits
  <2>5. HitFits(p, a, R, 3) /\ DoFits(p, o, a, 3) /\ ArtFits(p, a, 3)
    <3>1. a[3 - 1] = Item("mark", a[3].s, "") /\ 3 > 1
      <4>1. a[2] = Item("mark", a[3].s, "")
        BY <1>3, <2>2, Zenon DEF k
      <4>2. 3 - 1 = 2 /\ 3 > 1
        OBVIOUS
      <4> QED BY <4>1, <4>2, Zenon
    <3>2. a[3 - 2] = Item("hit", a[3].s, "expression") /\ 3 > 2
      BY <1>3, <2>2 DEF h
    <3>3. ArtifactMarked(p, a[3].s)
      BY <1>3, <1>4, <2>2
    <3>4. DoFits(p, o, a, 3)
      BY <3>1, <3>2, <3>3 DEF DoFits
    <3> QED BY <1>3, <2>2, <3>4 DEF HitFits, ArtFits
  <2>6. \A i \in 1..Len(a) : i = 1 \/ i = 2 \/ i = 3
    BY <2>2
  <2> QED BY <2>1, <2>2, <2>3, <2>4, <2>5, <2>6 DEF Whole, S
<1>5. CASE w /\ ~m
  <2> DEFINE a == <<h, d>>
  <2>1. InList(p, o, s) = a
    <3>1. When(w, h) = <<h>> /\ When(m, k) = <<>>
      BY <1>5 DEF When
    <3> QED BY <1>1, <3>1, JoinsAre, Zenon
  <2>2. a \in Seq(S) /\ Len(a) = 2 /\ a[1] = h /\ a[2] = d
    BY <1>2, <1>5
  <2> HIDE DEF a
  <2>3. HitFits(p, a, R, 1) /\ DoFits(p, o, a, 1) /\ ArtFits(p, a, 1)
    <3>1. 1 < Len(a) /\ a[1 + 1] = d /\ a[1].s = s
      BY <1>3, <2>2
    <3>2. Followed(a, 1, a[1].s)
      BY <3>1 DEF Followed, d
    <3>3. HitFits(p, a, R, 1)
      BY <1>3, <2>2, <3>2 DEF HitFits
    <3> QED BY <1>3, <2>2, <3>3 DEF DoFits, ArtFits
  <2>4. HitFits(p, a, R, 2) /\ DoFits(p, o, a, 2) /\ ArtFits(p, a, 2)
    <3>1. a[2 - 1] = Item("hit", a[2].s, "expression") /\ 2 > 1
      BY <1>3, <2>2 DEF h
    <3>2. ~ ArtifactMarked(p, a[2].s)
      BY <1>3, <1>5, <2>2
    <3>3. DoFits(p, o, a, 2)
      BY <3>1, <3>2 DEF DoFits
    <3> QED BY <1>3, <2>2, <3>3 DEF HitFits, ArtFits
  <2>5. \A i \in 1..Len(a) : i = 1 \/ i = 2
    BY <2>2
  <2> QED BY <2>1, <2>2, <2>3, <2>4, <2>5 DEF Whole, S
<1>6. CASE ~w /\ m
  <2> DEFINE a == <<k, d>>
  <2>1. InList(p, o, s) = a
    <3>1. When(w, h) = <<>> /\ When(m, k) = <<k>>
      BY <1>6 DEF When
    <3> QED BY <1>1, <3>1, JoinsAre, Zenon
  <2>2. a \in Seq(S) /\ Len(a) = 2 /\ a[1] = k /\ a[2] = d
    BY <1>2, <1>6
  <2> HIDE DEF a
  <2>3. HitFits(p, a, R, 1) /\ DoFits(p, o, a, 1) /\ ArtFits(p, a, 1)
    BY <1>3, <2>2 DEF HitFits, DoFits, ArtFits
  <2>4. HitFits(p, a, R, 2) /\ DoFits(p, o, a, 2) /\ ArtFits(p, a, 2)
    <3>1. a[2 - 1] = Item("mark", a[2].s, "") /\ 2 > 1
      <4>1. a[1] = Item("mark", a[2].s, "")
        BY <1>3, <2>2, Zenon DEF k
      <4>2. 2 - 1 = 1 /\ 2 > 1
        OBVIOUS
      <4> QED BY <4>1, <4>2, Zenon
    <3>2. ~ Wanted(p, o, a[2].s, "expression")
      BY <1>3, <1>6, <2>2
    <3>3. DoFits(p, o, a, 2)
      BY <3>1, <3>2 DEF DoFits
    <3> QED BY <1>3, <2>2, <3>3 DEF HitFits, ArtFits
  <2>5. \A i \in 1..Len(a) : i = 1 \/ i = 2
    BY <2>2
  <2> QED BY <2>1, <2>2, <2>3, <2>4, <2>5 DEF Whole, S
<1>7. CASE ~w /\ ~m
  <2> DEFINE a == <<d>>
  <2>1. InList(p, o, s) = a
    BY <1>1, <1>7 DEF When
  <2>2. a \in Seq(S) /\ Len(a) = 1 /\ a[1] = d
    BY <1>2, <1>7
  <2> HIDE DEF a
  <2>3. HitFits(p, a, R, 1) /\ DoFits(p, o, a, 1) /\ ArtFits(p, a, 1)
    BY <1>3, <1>7, <2>2 DEF HitFits, DoFits, ArtFits
  <2>4. \A i \in 1..Len(a) : i = 1
    BY <2>2
  <2> QED BY <2>1, <2>2, <2>3, <2>4 DEF Whole, S
<1> QED BY <1>4, <1>5, <1>6, <1>7

\* The statements of a list.
LEMMA BodySound ==
  ASSUME NEW p, NEW o, NEW R, NEW u, Len(p) \in Nat
  PROVE  Whole(p, o, Body(p, o, u), R)
<1> DEFINE S == Items(p, o)
           G == {a \in Seq(S) : Whole(p, o, a, R)}
           chunk(s) == IF p[s].up = u /\ p[s].slot = "list" THEN InList(p, o, s) ELSE <<>>
           q == [s \in Statements(p) |-> chunk(s)]
<1>1. ASSUME NEW s \in Statements(p) PROVE Whole(p, o, chunk(s), R) /\ chunk(s) \in Seq(S)
  <2>1. Whole(p, o, chunk(s), R)
    BY InListSound, NothingSound
  <2> QED BY <2>1 DEF Whole
<1>2. Body(p, o, u) = FlattenSeq(q)
  BY DEF Body
<1> HIDE DEF chunk
<1>3. q \in Seq(Seq(S)) /\ Len(q) = Len(p)
  <2> HIDE DEF S
  <2>1. Statements(p) = 1..Len(p)
    BY DEF Statements
  <2> QED BY <1>1, <2>1
<1>4. ASSUME NEW a \in G, NEW i \in 1..Len(q) PROVE a \o q[i] \in G
  <2>1. i \in Statements(p) /\ q[i] = chunk(i)
    BY <1>3 DEF Statements
  <2>2. Whole(p, o, a \o chunk(i), R)
    BY <1>1, <2>1, SoundJoined
  <2>3. a \o chunk(i) \in Seq(S)
    BY <2>2 DEF Whole
  <2> QED BY <2>1, <2>2, <2>3
<1>5. <<>> \in G
  BY NothingSound
<1> HIDE DEF S, G, q
<1>6. FlattenSeq(q) \in G
  BY <1>3, <1>4, <1>5, FlattenKeeps
<1> QED BY <1>2, <1>6 DEF G

\* A function or a block that is entered.
LEMMA EnteredSound ==
  ASSUME NEW p, NEW o, NEW R, Len(p) \in Nat, NEW s \in Statements(p),
         p[s].kind \in FunctionKinds \cup {"Block"},
         \A t \in PointTypes(p, s) : <<s, t>> \in R
  PROVE  /\ Whole(p, o, Entered(p, o, s), R)
         /\ Entered(p, o, s) = When(CallbackMarked(p, s), Item("mark", s, ""))
                                 \o (Hit1(p, o, s, "function") \o Hit1(p, o, s, "block"))
                                 \o Body(p, o, s)
<1> DEFINE m == When(CallbackMarked(p, s), Item("mark", s, ""))
           f == Hit1(p, o, s, "function")
           b == Hit1(p, o, s, "block")
           S == Items(p, o)
<1>1. Hits(p, o, s) = f \o b
  <2>1. ~ Wanted(p, o, s, "expression")
    BY DEF Wanted, PointTypes
  <2>2. Hits(p, o, s) = f \o b \o <<>>
    BY <2>1, HitsAre DEF Hit1, When
  <2>3. f \o b \o <<>> = f \o b
    BY DEF Hit1, When
  <2> QED BY <2>2, <2>3
<1>2. Entered(p, o, s) = m \o (f \o b) \o Body(p, o, s)
  BY <1>1 DEF Entered
<1>3. Whole(p, o, m, R)
  <2>1. Item("mark", s, "") \in S /\ Loose(p, R, Item("mark", s, ""))
    BY DEF Items, Item, Operations, Loose
  <2> QED BY <2>1, LooseSound
<1>4. ASSUME NEW t \in {"function", "block"} PROVE Whole(p, o, Hit1(p, o, s, t), R)
  <2>1. CASE Wanted(p, o, s, t)
    <3>1. Item("hit", s, t) \in S
      BY <2>1 DEF Items, Item, Operations
    <3>2. Loose(p, R, Item("hit", s, t))
      BY <2>1 DEF Item, Loose, Wanted
    <3> QED BY <3>1, <3>2, LooseSound DEF Hit1
  <2>2. CASE ~ Wanted(p, o, s, t)
    BY <2>2, NothingSound DEF Hit1, When
  <2> QED BY <2>1, <2>2
<1> HIDE DEF m, f, b
<1>5. Whole(p, o, f, R) /\ Whole(p, o, b, R)
  BY <1>4 DEF f, b
<1>6. Whole(p, o, f \o b, R)
  BY <1>5, SoundJoined
<1>7. Whole(p, o, m \o (f \o b), R)
  BY <1>3, <1>6, SoundJoined
<1>8. Whole(p, o, m \o (f \o b) \o Body(p, o, s), R)
  BY <1>7, BodySound, SoundJoined
<1> QED BY <1>2, <1>8 DEF m, f, b

-----------------------------------------------------------------------------
(* What the steps of a run with coverage keep. *)

\* The active frame, if there is one, is at the statement.
LocatedAt(s) == frame.active => frame.file = prog[s].file /\ frame.line = LineOf(prog, s)

\* The hit of the statement, if it has one, was just made.
JustHit(s) == Wanted(prog, opts, s, "expression") => IdIn(prog, s, "expression") \in covered

AtMark ==
  /\ Len(agenda) > 1
  /\ agenda[1] = Item("mark", agenda[1].s, "") /\ agenda[2] = Item("do", agenda[1].s, "")
  /\ prog[agenda[1].s].slot = "list" /\ JustHit(agenda[1].s)
  /\ Whole(prog, opts, Tail(Tail(agenda)), reached)

AtDo ==
  /\ Len(agenda) > 0 /\ agenda[1] = Item("do", agenda[1].s, "")
  /\ prog[agenda[1].s].slot = "list" /\ JustHit(agenda[1].s)
  /\ ArtifactMarked(prog, agenda[1].s) => LocatedAt(agenda[1].s)
  /\ Whole(prog, opts, Tail(agenda), reached)

AtArt ==
  /\ Len(agenda) > 0 /\ agenda[1] = Item("art", agenda[1].s, "")
  /\ LocatedAt(agenda[1].s)
  /\ Whole(prog, opts, Tail(agenda), reached)

\* Either nothing is torn, or a statement is on its way whose hit or marker is done.
OnItsWay == Whole(prog, opts, agenda, reached) \/ AtMark \/ AtDo \/ AtArt

\* The id is that of a place that was executed,
Met(id) ==
  \E s \in Statements(prog) : \E t \in PointTypes(prog, s) :
    <<s, t>> \in reached /\ Wanted(prog, opts, s, t) /\ id = IdIn(prog, s, t)

\* or of the statement that is on its way.
Coming(id) ==
  \E s \in Statements(prog) :
    /\ Wanted(prog, opts, s, "expression") /\ id = IdIn(prog, s, "expression")
    /\ Len(agenda) > 0
    /\ \/ agenda[1] = Item("do", s, "")
       \/ Len(agenda) > 1 /\ agenda[1] = Item("mark", s, "") /\ agenda[2] = Item("do", s, "")

\* The hit of the place is one of those the agenda starts with.
Pending(a, s, t) ==
  \E i \in 1..Len(a) : a[i] = Item("hit", s, t) /\ \A j \in 1..(i - 1) : a[j].op = "hit"

Pends(s, t) == Pending(agenda, s, t)

Shelved(id) == \E i \in DOMAIN snapshots : id \in snapshots[i].covered

CovTyped ==
  /\ prog \in Sources /\ agenda \in Seq(Items(prog, opts)) /\ \E T : snapshots \in Seq(T)
  /\ \A x \in reached : /\ x = <<x[1], x[2]>> /\ x[1] \in Statements(prog)
                        /\ x[2] \in PointTypes(prog, x[1])
  /\ frame.active \in BOOLEAN /\ (~ frame.active => frame.file = "")
  /\ instance = "none" => agenda = <<>> /\ covered = {}
  /\ \A t \in waiting : t \in Statements(prog) /\ prog[t].kind = "Callback"

CovDeclared ==
  \A s \in Statements(prog) : \A t \in PointTypes(prog, s) : Wanted(prog, opts, s, t) =>
    /\ instance # "none" => IdIn(prog, s, t) \in DOMAIN points
    /\ \A i \in DOMAIN snapshots : IdIn(prog, s, t) \in DOMAIN snapshots[i].points

CovReal ==
  /\ \A id \in covered : Met(id) \/ Coming(id)
  /\ \A i \in DOMAIN snapshots : \A id \in snapshots[i].covered : Met(id)

CovFull ==
  \A s \in Statements(prog) : \A t \in PointTypes(prog, s) :
    /\ <<s, t>> \in reached /\ Wanted(prog, opts, s, t)
    /\ ~ (t = "expression" /\ prog[s].slot = "arm")
    => IdIn(prog, s, t) \in covered \/ Shelved(IdIn(prog, s, t)) \/ Pends(s, t)

CovFinal == merged.done => instance = "none" /\ CoverageIsExact

CovInv ==
  /\ CovTyped /\ OnItsWay /\ CovDeclared /\ CovReal /\ CovFull /\ CovFinal /\ EventsAreLocated

LEMMA ItemIs == \A op, s, t : Item(op, s, t).op = op /\ Item(op, s, t).s = s /\ Item(op, s, t).type = t
BY DEF Item

LEMMA ItemSelf ==
  \A op, s, type, x : x = Item(op, s, type) => x.op = op /\ x.s = s /\ x.type = type
BY ItemIs

LEMMA OpsAre ==
  \A x : /\ (\E s : x = Item("mark", s, "")) => x.op = "mark" /\ x.type = ""
         /\ (\E s : x = Item("do", s, "")) => x.op = "do" /\ x.type = ""
         /\ (\E s : x = Item("art", s, "")) => x.op = "art" /\ x.type = ""
<1>1. ASSUME NEW x, NEW s, NEW op, x = Item(op, s, "") PROVE x.op = op /\ x.type = ""
  BY <1>1 DEF Item
<1> QED BY <1>1

LEMMA PlaceIs == \A x, s : x = Item("mark", s, "") \/ x = Item("do", s, "") => x.s = s
<1>1. ASSUME NEW x, NEW s, NEW op, x = Item(op, s, "") PROVE x.s = s
  BY <1>1 DEF Item
<1> QED BY <1>1

LEMMA FirstIs ==
  /\ AtMark => agenda[1].op = "mark" /\ agenda[1].type = ""
  /\ AtDo => agenda[1].op = "do" /\ agenda[1].type = ""
  /\ AtArt => agenda[1].op = "art" /\ agenda[1].type = ""
<1>1. ASSUME AtMark PROVE agenda[1].op = "mark" /\ agenda[1].type = ""
  <2>1. \E s : agenda[1] = Item("mark", s, "")
    BY <1>1, Zenon DEF AtMark
  <2> QED BY <2>1, OpsAre, Zenon
<1>2. ASSUME AtDo PROVE agenda[1].op = "do" /\ agenda[1].type = ""
  <2>1. \E s : agenda[1] = Item("do", s, "")
    BY <1>2, Zenon DEF AtDo
  <2> QED BY <2>1, OpsAre, Zenon
<1>3. ASSUME AtArt PROVE agenda[1].op = "art" /\ agenda[1].type = ""
  <2>1. \E s : agenda[1] = Item("art", s, "")
    BY <1>3, Zenon DEF AtArt
  <2> QED BY <2>1, OpsAre, Zenon
<1> QED BY <1>1, <1>2, <1>3

\* The operators of the passes mean the same in the run's own module.
LEMMA PassesAreThose ==
  /\ \A p, e : C!Visited(p, e) = Visited(p, e)
  /\ \A p, s : C!LineOf(p, s) = LineOf(p, s)
  /\ \A p, s, t : C!Point(p, s, t) = Point(p, s, t)
  /\ \A op, s, t : C!Item(op, s, t) = Item(op, s, t)
  /\ \A c, x : C!When(c, x) = When(c, x)
  /\ \A p : C!Statements(p) = Statements(p) /\ C!Rewritten(p) = Rewritten(p)
  /\ \A p, s : C!Arms(p, s) = Arms(p, s) /\ C!AbortLine(p, s) = AbortLine(p, s)
<1>1. \A p, e : C!Visited(p, e) = Visited(p, e)
  BY DEF C!Visited, Visited, C!Statements, Statements
<1>2. \A p : C!Statements(p) = Statements(p)
  BY DEF C!Statements, Statements
<1>3. \A p : C!Rewritten(p) = Rewritten(p)
  BY <1>1 DEF C!Rewritten, Rewritten, C!RewriteEnters, RewriteEnters, C!Walked, Walked
<1>4. \A p, s : C!LineOf(p, s) = LineOf(p, s) /\ C!AbortLine(p, s) = AbortLine(p, s)
  BY <1>3 DEF C!LineOf, LineOf, C!AbortLine, AbortLine
<1>5. \A p, s, t : C!Point(p, s, t) = Point(p, s, t)
  BY <1>4 DEF C!Point, Point
<1>6. \A op, s, t : C!Item(op, s, t) = Item(op, s, t)
  BY DEF C!Item, Item
<1>7. \A c, x : C!When(c, x) = When(c, x)
  BY DEF C!When, When
<1>8. \A p, s : C!Arms(p, s) = Arms(p, s)
  BY DEF C!Arms, Arms, C!Statements, Statements
<1> QED BY <1>1, <1>2, <1>3, <1>4, <1>5, <1>6, <1>7, <1>8

LEMMA ListsAreThose ==
  /\ \A p, o, s : C!Instrumented(p, o, s) = Instrumented(p, o, s)
  /\ \A p, o, s : C!AskedTypes(p, o, s) = AskedTypes(p, o, s)
  /\ \A p, o, s : C!Hits(p, o, s) = Hits(p, o, s)
  /\ \A p, o, s : C!InList(p, o, s) = InList(p, o, s)
  /\ \A p, o, u : C!Body(p, o, u) = Body(p, o, u)
  /\ \A p, o, s : C!Entered(p, o, s) = Entered(p, o, s)
  /\ \A p, o : C!Declarations(p, o) = Declarations(p, o)
<1>1. \A p, o, s : C!Instrumented(p, o, s) <=> Instrumented(p, o, s)
  BY PassesAreThose DEF C!Instrumented, Instrumented, C!CoverEnters, CoverEnters, C!Walked, Walked
<1>2. \A p, s : C!PointTypes(p, s) = PointTypes(p, s)
  BY DEF C!PointTypes, PointTypes, C!FunctionKinds, FunctionKinds
<1>10. \A q : C!FlattenSeq(q) = FlattenSeq(q)
  BY DEF C!FlattenSeq, FlattenSeq
<1>3. ASSUME NEW p, NEW o, NEW s PROVE C!AskedTypes(p, o, s) = AskedTypes(p, o, s)
  BY <1>1, <1>2, PassesAreThose DEF C!AskedTypes, AskedTypes
<1>4. ASSUME NEW p, NEW o, NEW s PROVE C!Hits(p, o, s) = Hits(p, o, s)
  BY <1>3, PassesAreThose DEF C!Hits, Hits
<1>5. ASSUME NEW p, NEW s
      PROVE  /\ C!ArtifactMarked(p, s) <=> ArtifactMarked(p, s)
             /\ C!CallbackMarked(p, s) <=> CallbackMarked(p, s)
  BY PassesAreThose DEF C!ArtifactMarked, ArtifactMarked, C!CallbackMarked, CallbackMarked,
     C!MarkEnters, MarkEnters, C!Walked, Walked
<1>6. ASSUME NEW p, NEW o, NEW s PROVE C!InList(p, o, s) = InList(p, o, s)
  BY <1>4, <1>5, PassesAreThose DEF C!InList, InList, C!FunctionKinds, FunctionKinds, C!When, When
<1>7. ASSUME NEW p, NEW o, NEW u PROVE C!Body(p, o, u) = Body(p, o, u)
  <2>1. [s \in C!Statements(p) |->
           IF p[s].up = u /\ p[s].slot = "list" THEN C!InList(p, o, s) ELSE <<>>]
          = [s \in Statements(p) |->
               IF p[s].up = u /\ p[s].slot = "list" THEN InList(p, o, s) ELSE <<>>]
    BY <1>6, PassesAreThose
  <2> QED BY <1>10, <2>1, Zenon DEF C!Body, Body
<1>8. ASSUME NEW p, NEW o, NEW s PROVE C!Entered(p, o, s) = Entered(p, o, s)
  BY <1>4, <1>5, <1>7, PassesAreThose DEF C!Entered, Entered, C!When, When
<1>9. ASSUME NEW p, NEW o PROVE C!Declarations(p, o) = Declarations(p, o)
  <2> DEFINE places(s) == [i \in DOMAIN AskedTypes(p, o, s) |-> Point(p, s, AskedTypes(p, o, s)[i])]
  <2>1. C!Declarations(p, o) = C!FlattenSeq([s \in C!Statements(p) |-> places(s)])
    BY <1>3, PassesAreThose DEF C!Declarations
  <2>2. Declarations(p, o) = FlattenSeq([s \in Statements(p) |-> places(s)])
    BY DEF Declarations
  <2> HIDE DEF places
  <2>3. [s \in C!Statements(p) |-> places(s)] = [s \in Statements(p) |-> places(s)]
    BY PassesAreThose
  <2> QED BY <1>10, <2>1, <2>2, <2>3, Zenon
<1> QED BY <1>1, <1>3, <1>4, <1>6, <1>7, <1>8, <1>9 DEF C!Instrumented, Instrumented

\* The item in front, and what is behind it.
LEMMA FrontIs ==
  ASSUME NEW S, NEW a \in Seq(S), a # <<>>
  PROVE  /\ Len(a) \in Nat /\ Len(a) > 0 /\ 1 \in 1..Len(a) /\ Head(a) = a[1] /\ a[1] \in S
         /\ Tail(a) \in Seq(S) /\ Len(Tail(a)) = Len(a) - 1 /\ <<>> \o Tail(a) = Tail(a)
         /\ \A i \in 1..Len(Tail(a)) : Tail(a)[i] = a[i + 1]
<1>1. Len(a) \in Nat /\ Len(a) > 0
  BY EmptySeq, LenProperties
<1>2. Head(a) = a[1] /\ a[1] \in S /\ Tail(a) \in Seq(S) /\ Len(Tail(a)) = Len(a) - 1
  BY <1>1, HeadTailProperties, ElementOfSeq
<1>3. \A i \in 1..Len(Tail(a)) : Tail(a)[i] = a[i + 1]
  BY <1>1, HeadTailProperties
<1>4. <<>> \o Tail(a) = Tail(a)
  BY <1>2, ConcatEmptySeq
<1> QED BY <1>1, <1>2, <1>3, <1>4

LEMMA TailSound ==
  ASSUME NEW p, NEW o, NEW R, NEW a, Whole(p, o, a, R), a # <<>>, Cut(p, a, 1)
  PROVE  Whole(p, o, Tail(a), R)
<1> DEFINE S == Items(p, o)
<1>1. a \in Seq(S)
  BY DEF Whole
<1> HIDE DEF S
<1>2. /\ 1 \in 1..Len(a) /\ Tail(a) \in Seq(S) /\ Len(Tail(a)) = Len(a) - 1
      /\ \A i \in 1..Len(Tail(a)) : Tail(a)[i] = a[i + 1]
  BY <1>1, FrontIs
<1> QED BY <1>2, SoundBehind DEF S

\* Behind an item that is neither a hit nor a marker nothing is torn.
LEMMA BehindIsSound ==
  ASSUME CovTyped, OnItsWay, agenda # <<>>, agenda[1].op \notin {"hit", "mark"}
  PROVE  Whole(prog, opts, Tail(agenda), reached)
<1>1. CASE Whole(prog, opts, agenda, reached)
  <2>1. Cut(prog, agenda, 1)
    BY DEF Cut
  <2> QED BY <1>1, <2>1, TailSound
<1>2. ~ AtMark
  BY FirstIs
<1> QED BY <1>1, <1>2 DEF OnItsWay, AtDo, AtArt

\* No hit is pending when the agenda starts with something else.
LEMMA HitsComeFirst ==
  ASSUME Len(agenda) \in Nat, agenda[1].op # "hit", NEW s, NEW t
  PROVE  ~ Pends(s, t)
<1> SUFFICES ASSUME Pends(s, t) PROVE FALSE
  OBVIOUS
<1>1. PICK i \in 1..Len(agenda) : agenda[i].op = "hit" /\ \A j \in 1..(i - 1) : agenda[j].op = "hit"
  BY ItemSelf DEF Pends, Pending
<1>2. i = 1 \/ 1 \in 1..(i - 1)
  OBVIOUS
<1> QED BY <1>1, <1>2

\* A step of the guest keeps what follows from what it leaves alone.
LEMMA GuestKeeps ==
  ASSUME CovInv, agenda # <<>>, agenda[1].op # "hit",
         UNCHANGED <<prog, opts, waiting, instance, points, covered, snapshots, merged>>,
         reached \subseteq reached',
         \A x \in reached' \ reached : /\ x = <<x[1], x[2]>> /\ x[1] \in Statements(prog)
                                       /\ x[2] \in PointTypes(prog, x[1]),
         frame'.active \in BOOLEAN, ~ frame'.active => frame'.file = "",
         agenda' \in Seq(Items(prog, opts)), OnItsWay', EventsAreLocated',
         \A id : Coming(id) => Met(id)' \/ Coming(id)',
         \A s \in Statements(prog) : \A t \in PointTypes(prog, s) :
           /\ <<s, t>> \in reached' \ reached /\ Wanted(prog, opts, s, t)
           /\ ~ (t = "expression" /\ prog[s].slot = "arm")
           => IdIn(prog, s, t) \in covered \/ Pends(s, t)'
  PROVE  CovInv'
<1>1. agenda \in Seq(Items(prog, opts)) /\ instance # "none" /\ ~ merged.done
  BY DEF CovInv, CovTyped, CovFinal
<1>2. Len(agenda) \in Nat /\ Len(agenda) > 0
  BY <1>1, FrontIs
<1>3. CovTyped'
  <2>1. \A x \in reached' : /\ x = <<x[1], x[2]>> /\ x[1] \in Statements(prog)
                            /\ x[2] \in PointTypes(prog, x[1])
    BY DEF CovInv, CovTyped
  <2> QED BY <1>1, <2>1 DEF CovInv, CovTyped
<1>4. CovDeclared'
  BY DEF CovInv, CovDeclared
<1>5. CovFinal'
  BY <1>1 DEF CovFinal
<1>6. CovReal'
  <2>1. ASSUME NEW id, Met(id) PROVE Met(id)'
    BY <2>1 DEF Met
  <2>3. \A id \in covered' : Met(id)' \/ Coming(id)'
    BY <2>1 DEF CovInv, CovReal
  <2>4. \A i \in DOMAIN snapshots' : \A id \in snapshots'[i].covered : Met(id)'
    BY <2>1 DEF CovInv, CovReal
  <2> QED BY <2>3, <2>4 DEF CovReal
<1>7. CovFull'
  <2> SUFFICES ASSUME NEW s \in Statements(prog), NEW t \in PointTypes(prog, s),
                      <<s, t>> \in reached', Wanted(prog, opts, s, t),
                      ~ (t = "expression" /\ prog[s].slot = "arm")
               PROVE  IdIn(prog, s, t) \in covered \/ Shelved(IdIn(prog, s, t)) \/ Pends(s, t)'
    BY DEF CovFull, Shelved
  <2>1. CASE <<s, t>> \in reached
    <3>1. ~ Pends(s, t)
      BY <1>2, HitsComeFirst
    <3> QED BY <2>1, <3>1 DEF CovInv, CovFull
  <2>2. CASE <<s, t>> \notin reached
    BY <2>2
  <2> QED BY <2>1, <2>2
<1> QED BY <1>3, <1>4, <1>5, <1>6, <1>7 DEF CovInv

\* The statements that are pushed are in front of what was behind.
LEMMA PushedSound ==
  ASSUME CovTyped, OnItsWay, agenda # <<>>, agenda[1].op \notin {"hit", "mark"},
         UNCHANGED <<prog, opts>>, reached \subseteq reached',
         NEW a, Whole(prog, opts, a, reached'), agenda' = a \o Tail(agenda)
  PROVE  OnItsWay' /\ agenda' \in Seq(Items(prog, opts))
<1>1. Whole(prog, opts, Tail(agenda), reached')
  BY BehindIsSound, SoundGrows
<1>2. Whole(prog, opts, a \o Tail(agenda), reached')
  BY <1>1, SoundJoined
<1>3. agenda' \in Seq(Items(prog, opts))
  BY <1>2 DEF Whole
<1> QED BY <1>2, <1>3 DEF OnItsWay


\* Only a statement or its marker has a statement on its way.
LEMMA NoneAhead ==
  ASSUME agenda # <<>>, agenda[1].op \notin {"do", "mark"}, NEW id
  PROVE  ~ Coming(id)
<1> SUFFICES ASSUME Coming(id) PROVE FALSE
  OBVIOUS
<1>1. (\E s : agenda[1] = Item("do", s, "")) \/ (\E s : agenda[1] = Item("mark", s, ""))
  BY Zenon DEF Coming
<1>2. agenda[1].op = "do" \/ agenda[1].op = "mark"
  BY <1>1, OpsAre, Zenon
<1> QED BY <1>2, Zenon

LEMMA ProgramIs ==
  ASSUME C!IsProgram(prog)
  PROVE  /\ Len(prog) \in Nat
         /\ \A s \in Statements(prog) :
              /\ s \in Nat /\ prog[s].kind \in Kinds
              /\ prog[s].kind \in {"Method", "Callback"} => prog[s].slot = "part"
              /\ prog[s].call # 0 => /\ prog[s].call \in Statements(prog)
                                     /\ prog[prog[s].call].kind \in FunctionKinds
              /\ prog[s].bare \in {"none", "trace", "abort"}
<1>1. Len(prog) \in Nat
  BY LenProperties DEF C!IsProgram
<1>2. ASSUME NEW s \in Statements(prog)
      PROVE  /\ s \in Nat /\ prog[s].kind \in Kinds
             /\ prog[s].kind \in {"Method", "Callback"} => prog[s].slot = "part"
             /\ prog[s].call # 0 => /\ prog[s].call \in Statements(prog)
                                    /\ prog[prog[s].call].kind \in FunctionKinds
             /\ prog[s].bare \in {"none", "trace", "abort"}
  <2>1. /\ prog[s].kind \in C!Kinds
        /\ prog[s].kind \in {"Method", "Callback"} => prog[s].slot = "part"
        /\ prog[s].call \in 0..Len(prog)
        /\ prog[s].call # 0 => prog[prog[s].call].kind \in C!FunctionKinds
        /\ prog[s].bare \in {"none", "trace", "abort"}
    BY PassesAreThose DEF C!IsProgram
  <2> QED BY <1>1, <2>1 DEF Statements, C!Kinds, Kinds, C!FunctionKinds, FunctionKinds
<1> QED BY <1>1, <1>2

LEMMA PushFrameKeeps ==
  ASSUME CovInv, C!PushFrame, C!IsProgram(prog)
  PROVE  CovInv'
<1>1. agenda \in Seq(Items(prog, opts)) /\ CovTyped /\ OnItsWay
  BY DEF CovInv, CovTyped
<1>2. /\ agenda # <<>> /\ agenda[1].op = "frame" /\ agenda' = <<>> \o Tail(agenda)
      /\ frame' = [C!NoFrame EXCEPT !.active = TRUE]
      /\ UNCHANGED <<prog, opts, waiting, instance, points, covered, snapshots, merged, reached, sightings>>
  BY <1>1, FrontIs DEF C!PushFrame, C!Is, C!Continue, C!history
<1>3. frame'.active \in BOOLEAN
  BY <1>2 DEF C!NoFrame
<1>4. frame'.active
  BY <1>2 DEF C!NoFrame
<1>5. OnItsWay' /\ agenda' \in Seq(Items(prog, opts))
  <2>1. Whole(prog, opts, <<>>, reached')
    BY NothingSound
  <2> QED BY <1>1, <1>2, <2>1, PushedSound
<1>6. \A id : ~ Coming(id)
  BY <1>2, NoneAhead
<1>7. EventsAreLocated'
  BY <1>2 DEF CovInv, EventsAreLocated, Plain
<1> QED BY <1>2, <1>3, <1>4, <1>5, <1>6, <1>7, GuestKeeps

LEMMA SkipKeeps ==
  ASSUME CovInv, C!Skip, C!IsProgram(prog)
  PROVE  CovInv'
<1>1. agenda \in Seq(Items(prog, opts)) /\ CovTyped /\ OnItsWay
  BY DEF CovInv, CovTyped
<1>2. /\ agenda # <<>> /\ agenda[1].op = "choose" /\ agenda' = <<>> \o Tail(agenda)
      /\ UNCHANGED <<prog, opts, waiting, instance, points, covered, frame, snapshots, merged, reached,
                     sightings>>
  BY <1>1, FrontIs DEF C!Skip, C!Is, C!Continue, C!history
<1>3. frame'.active \in BOOLEAN /\ (~ frame'.active => frame'.file = "")
  BY <1>1, <1>2 DEF CovTyped
<1>5. OnItsWay' /\ agenda' \in Seq(Items(prog, opts))
  <2>1. Whole(prog, opts, <<>>, reached')
    BY NothingSound
  <2> QED BY <1>1, <1>2, <2>1, PushedSound
<1>6. \A id : ~ Coming(id)
  BY <1>2, NoneAhead
<1>7. EventsAreLocated'
  BY <1>2 DEF CovInv, EventsAreLocated, Plain
<1> QED BY <1>2, <1>3, <1>5, <1>6, <1>7, GuestKeeps

LEMMA TakeKeeps ==
  ASSUME CovInv, C!Take, C!IsProgram(prog)
  PROVE  CovInv'
<1> DEFINE s == agenda[1].s
           S == Items(prog, opts)
<1>1. agenda \in Seq(S) /\ CovTyped /\ OnItsWay
  BY DEF CovInv, CovTyped
<1> HIDE DEF S
<1>2. /\ agenda # <<>> /\ agenda[1].op = "choose" /\ C!Now = s /\ Head(agenda) = agenda[1] /\ agenda[1] \in S
      /\ UNCHANGED <<prog, opts, waiting, instance, points, covered, frame, snapshots, merged, reached,
                     sightings>>
  BY <1>1, FrontIs DEF C!Take, C!Is, C!Now, C!history
<1>3. frame'.active \in BOOLEAN /\ (~ frame'.active => frame'.file = "")
  BY <1>1, <1>2 DEF CovTyped
<1>4. CASE prog[s].kind = "Switch"
  <2>1. agenda' = Body(prog, opts, s) \o Tail(agenda)
    BY <1>2, <1>4, ListsAreThose DEF C!Take, C!Continue
  <2>2. Whole(prog, opts, Body(prog, opts, s), reached')
    BY ProgramIs, BodySound
  <2>3. OnItsWay' /\ agenda' \in Seq(Items(prog, opts))
    BY <1>1, <1>2, <2>1, <2>2, PushedSound
  <2> QED BY <2>3, <1>2, <1>3, NoneAhead, GuestKeeps DEF CovInv, EventsAreLocated, Plain
<1>5. CASE prog[s].kind # "Switch"
  <2>1. PICK a \in Arms(prog, s) :
          agenda' = (<<Item("do", a, "")>> \o When(prog[s].kind = "Loop", agenda[1])) \o Tail(agenda)
    <3>1. PICK a \in C!Arms(prog, s) :
            agenda' = (<<C!Item("do", a, "")>> \o C!When(prog[s].kind = "Loop", agenda[1])) \o Tail(agenda)
      BY <1>2, <1>5 DEF C!Take, C!Continue
    <3> QED BY <3>1, PassesAreThose
  <2> DEFINE d == Item("do", a, "")
             z == When(prog[s].kind = "Loop", agenda[1])
  <2>2. d \in S /\ Loose(prog, reached', d)
    BY DEF Items, Item, Operations, Loose, Arms, S
  <2>3. Loose(prog, reached', agenda[1])
    BY <1>2 DEF Loose
  <2>4. Whole(prog, opts, <<d>>, reached') /\ Whole(prog, opts, z, reached')
    BY <1>2, <2>2, <2>3, LooseSound DEF S
  <2>5. Whole(prog, opts, <<d>> \o z, reached')
    <3> HIDE DEF d, z
    <3> QED BY <2>4, SoundJoined
  <2>6. OnItsWay' /\ agenda' \in Seq(Items(prog, opts))
    <3> HIDE DEF d, z
    <3>1. agenda' = (<<d>> \o z) \o Tail(agenda)
      BY <2>1 DEF d, z
    <3> QED BY <1>1, <1>2, <2>5, <3>1, PushedSound
  <2> QED BY <2>6, <1>2, <1>3, NoneAhead, GuestKeeps DEF CovInv, EventsAreLocated, Plain
<1> QED BY <1>4, <1>5

\* A sequence that another starts with.
Starts(h, c) == Len(h) <= Len(c) /\ \A i \in 1..Len(h) : c[i] = h[i]

LEMMA StartsOn ==
  ASSUME NEW S, NEW h \in Seq(S), NEW c \in Seq(S), NEW d \in Seq(S), Starts(h, c)
  PROVE  Starts(h, c \o d)
<1>1. PICK l \in Nat, m \in Nat, n \in Nat : l = Len(h) /\ m = Len(c) /\ n = Len(d)
  BY LenProperties
<1>2. Len(c \o d) = m + n /\ \A i \in 1..(m + n) : (c \o d)[i] = IF i <= m THEN c[i] ELSE d[i - m]
  BY <1>1, ConcatProperties
<1>3. l <= m /\ \A i \in 1..l : c[i] = h[i]
  BY <1>1 DEF Starts
<1>4. \A i \in 1..l : i \in 1..(m + n) /\ i <= m
  BY <1>3
<1>5. l <= m + n
  BY <1>3
<1> QED BY <1>1, <1>2, <1>3, <1>4, <1>5 DEF Starts

\* The hits of a function or block that is entered are what the agenda starts with.
LEMMA EnteredPends ==
  ASSUME NEW p, NEW o, NEW R, NEW s \in Statements(p), Len(p) \in Nat,
         p[s].kind \in FunctionKinds \cup {"Block"}, p[s].kind # "Callback",
         \A t \in PointTypes(p, s) : <<s, t>> \in R,
         NEW d \in Seq(Items(p, o)), NEW e \in Seq(Items(p, o)),
         NEW t \in PointTypes(p, s), Wanted(p, o, s, t)
  PROVE  Pending(Entered(p, o, s) \o d \o e, s, t)
<1> DEFINE S == Items(p, o)
           a == Entered(p, o, s) \o d \o e
           f == Hit1(p, o, s, "function")
           b == Hit1(p, o, s, "block")
           h == f \o b
           B == Body(p, o, s)
           x == Item("hit", s, "function")
           y == Item("hit", s, "block")
<1>1. Entered(p, o, s) = h \o B
  <2>1. Entered(p, o, s) = When(CallbackMarked(p, s), Item("mark", s, "")) \o h \o B
    BY EnteredSound
  <2>2. When(CallbackMarked(p, s), Item("mark", s, "")) = <<>>
    BY DEF When, CallbackMarked
  <2>3. <<>> \o h = h
    BY DEF Hit1, When
  <2> QED BY <2>1, <2>2, <2>3
<1>2. B \in Seq(S)
  BY BodySound DEF Whole
<1>3. t \in {"function", "block"}
  BY DEF PointTypes
<1>4. x.op = "hit" /\ y.op = "hit" /\ (Wanted(p, o, s, "function") => x \in S)
      /\ (Wanted(p, o, s, "block") => y \in S)
  BY DEF Items, Item, Operations
<1> HIDE DEF S, B, x, y
<1>5. /\ h \in Seq(S) /\ Len(h) \in Nat
      /\ \E i \in 1..Len(h) : h[i] = Item("hit", s, t) /\ \A j \in 1..(i - 1) : h[j].op = "hit"
  <2>1. CASE Wanted(p, o, s, "function") /\ Wanted(p, o, s, "block")
    <3>1. h = <<x, y>>
      <4>1. f = <<x>> /\ b = <<y>>
        BY <2>1 DEF Hit1, When, x, y
      <4> HIDE DEF f, b
      <4> QED BY <4>1, PairIs, Zenon
    <3> HIDE DEF h
    <3>2. h \in Seq(S) /\ Len(h) = 2 /\ h[1] = x /\ h[2] = y
      BY <1>4, <2>1, <3>1
    <3>3. CASE t = "function"
      <4>1. 1 \in 1..Len(h) /\ h[1] = Item("hit", s, t) /\ 1..(1 - 1) = {}
        BY <3>2, <3>3 DEF x
      <4> QED BY <3>2, <4>1
    <3>4. CASE t = "block"
      <4>1. 2 \in 1..Len(h) /\ h[2] = Item("hit", s, t) /\ \A j \in 1..(2 - 1) : h[j].op = "hit"
        BY <1>4, <3>2, <3>4 DEF y
      <4> QED BY <3>2, <4>1
    <3> QED BY <1>3, <3>3, <3>4
  <2>2. CASE ~ Wanted(p, o, s, "function") \/ ~ Wanted(p, o, s, "block")
    <3>1. h = <<Item("hit", s, t)>>
      <4>1. \/ f = <<Item("hit", s, t)>> /\ b = <<>>
            \/ f = <<>> /\ b = <<Item("hit", s, t)>>
        BY <1>3, <2>2 DEF Hit1, When
      <4> HIDE DEF f, b
      <4> QED BY <4>1, EmptyJoin, Zenon
    <3>2. Item("hit", s, t) \in S
      BY <1>3, <1>4 DEF x, y
    <3> HIDE DEF h
    <3>3. h \in Seq(S) /\ Len(h) = 1 /\ h[1] = Item("hit", s, t)
      BY <3>1, <3>2
    <3>4. 1 \in 1..Len(h) /\ 1..(1 - 1) = {}
      BY <3>3
    <3> QED BY <3>3, <3>4
  <2> QED BY <2>1, <2>2
<1> HIDE DEF h
<1>6. h \o B \in Seq(S) /\ h \o B \o d \in Seq(S) /\ d \in Seq(S) /\ e \in Seq(S)
  BY <1>2, <1>5, ConcatProperties DEF S
<1>7. Starts(h, h \o B)
  <2>1. Starts(h, h)
    BY <1>5 DEF Starts
  <2> QED BY <1>2, <1>5, <2>1, StartsOn
<1>8. Starts(h, h \o B \o d)
  BY <1>5, <1>6, <1>7, StartsOn
<1>9. Starts(h, a)
  BY <1>1, <1>5, <1>6, <1>8, StartsOn
<1>10. a \in Seq(S) /\ Len(a) \in Nat
  <2>1. h \o B \o d \o e \in Seq(S)
    BY <1>6, ConcatProperties
  <2> QED BY <1>1, <2>1, LenProperties
<1>11. PICK i \in 1..Len(h) : h[i] = Item("hit", s, t) /\ \A j \in 1..(i - 1) : h[j].op = "hit"
  BY <1>5
<1>12. i \in 1..Len(a) /\ \A j \in 1..(i - 1) : j \in 1..Len(h)
  BY <1>5, <1>9, <1>10 DEF Starts
<1>13. a[i] = Item("hit", s, t) /\ \A j \in 1..(i - 1) : a[j].op = "hit"
  BY <1>9, <1>11, <1>12 DEF Starts
<1> QED BY <1>12, <1>13 DEF Pending
LEMMA CallKeeps ==
  ASSUME CovInv, C!Call, C!IsProgram(prog)
  PROVE  CovInv'
<1> DEFINE s == agenda[1].s
           S == Items(prog, opts)
           back == <<Item("back", s, "")>>
<1>1. agenda \in Seq(S) /\ CovTyped /\ OnItsWay
  BY DEF CovInv, CovTyped
<1> HIDE DEF S
<1>2. /\ agenda # <<>> /\ agenda[1].op = "call" /\ C!Now = s /\ agenda[1] \in S
      /\ Tail(agenda) \in Seq(S)
      /\ agenda' = (Entered(prog, opts, s) \o back) \o Tail(agenda)
      /\ reached' = reached \cup {<<s, "function">>, <<s, "block">>}
      /\ UNCHANGED <<prog, opts, waiting, instance, points, covered, frame, snapshots, merged,
                     sightings>>
  <2>1. agenda # <<>> /\ agenda[1].op = "call" /\ C!Now = s /\ agenda[1] \in S /\ Tail(agenda) \in Seq(S)
    BY <1>1, FrontIs DEF C!Call, C!Is, C!Now
  <2>2. /\ agenda' = (C!Entered(prog, opts, s) \o <<C!Item("back", s, "")>>) \o Tail(agenda)
        /\ reached' = reached \cup {<<s, "function">>, <<s, "block">>}
        /\ UNCHANGED <<prog, opts, waiting, instance, points, covered, frame, snapshots, merged,
                       sightings>>
    BY <2>1 DEF C!Call, C!Continue, C!Reach
  <2> QED BY <2>1, <2>2, PassesAreThose, ListsAreThose
<1>3. s \in Statements(prog) /\ prog[s].kind \in FunctionKinds
  BY <1>2 DEF Items, S
<1>4. PointTypes(prog, s) = {"function", "block"} /\ Len(prog) \in Nat
  <2>1. PointTypes(prog, s) = {"function", "block"}
    BY <1>3 DEF PointTypes, FunctionKinds
  <2> QED BY <2>1, ProgramIs
<1>5. \A t \in PointTypes(prog, s) : <<s, t>> \in reached'
  BY <1>2, <1>4
<1>6. Whole(prog, opts, Entered(prog, opts, s), reached')
  BY <1>3, <1>4, <1>5, EnteredSound
<1>7. Whole(prog, opts, back, reached') /\ back \in Seq(S)
  <2>1. Item("back", s, "") \in S /\ Loose(prog, reached', Item("back", s, ""))
    BY <1>3 DEF Items, Item, Operations, Loose, S
  <2>2. back \in Seq(S)
    BY <2>1, OneIs
  <2> QED BY <2>1, <2>2, LooseSound DEF S
<1> HIDE DEF back
<1>8. Whole(prog, opts, Entered(prog, opts, s) \o back, reached')
  BY <1>6, <1>7, SoundJoined
<1>9. OnItsWay' /\ agenda' \in Seq(Items(prog, opts))
  BY <1>1, <1>2, <1>8, PushedSound
<1>10. frame'.active \in BOOLEAN /\ (~ frame'.active => frame'.file = "")
  BY <1>1, <1>2 DEF CovTyped
<1>11. ASSUME NEW r \in Statements(prog), NEW t \in PointTypes(prog, r),
              <<r, t>> \in reached' \ reached, Wanted(prog, opts, r, t)
       PROVE  Pends(r, t)'
  <2>1. r = s /\ t \in PointTypes(prog, s)
    BY <1>2, <1>4, <1>11
  <2>2. prog[s].kind # "Callback"
    BY <1>11, <2>1 DEF Wanted, Instrumented
  <2>3. Pending(agenda', s, t)
    <3> DEFINE e == Tail(agenda)
    <3>1. e \in Seq(S) /\ agenda' = Entered(prog, opts, s) \o back \o e /\ back \in Seq(S)
      BY <1>2, <1>7
    <3> HIDE DEF e
    <3>2. Wanted(prog, opts, s, t) /\ prog[s].kind \in FunctionKinds \cup {"Block"}
      BY <1>3, <1>11, <2>1
    <3>3. e \in Seq(Items(prog, opts)) /\ back \in Seq(Items(prog, opts))
      BY <3>1 DEF S
    <3> HIDE DEF s
    <3>4. Pending(Entered(prog, opts, s) \o back \o e, s, t)
      BY <1>3, <1>4, <1>5, <2>1, <2>2, <3>2, <3>3, EnteredPends
    <3> QED BY <3>1, <3>4
  <2> QED BY <2>1, <2>3 DEF Pends
<1>12. \A x \in reached' \ reached : /\ x = <<x[1], x[2]>> /\ x[1] \in Statements(prog)
                                     /\ x[2] \in PointTypes(prog, x[1])
  BY <1>2, <1>3, <1>4
<1>13. EventsAreLocated'
  BY <1>2 DEF CovInv, EventsAreLocated, Plain
<1>14. \A id : ~ Coming(id)
  BY <1>2, NoneAhead
<1> QED BY <1>2, <1>9, <1>10, <1>11, <1>12, <1>13, <1>14, GuestKeeps

\* The statement in front has a point only if its hit was made; when it has a marker,
\* the frame is where it says.
LEMMA StatementInFront ==
  ASSUME CovTyped, OnItsWay, agenda # <<>>, agenda[1].op = "do", prog[agenda[1].s].slot = "list"
  PROVE  JustHit(agenda[1].s) /\ (ArtifactMarked(prog, agenda[1].s) => LocatedAt(agenda[1].s))
<1>1. agenda \in Seq(Items(prog, opts)) /\ 1 \in 1..Len(agenda)
  <2>1. agenda \in Seq(Items(prog, opts))
    BY DEF CovTyped
  <2> QED BY <2>1, FrontIs
<1>2. CASE Whole(prog, opts, agenda, reached)
  <2>1. DoFits(prog, opts, agenda, 1)
    BY <1>1, <1>2 DEF Whole
  <2> QED BY <2>1 DEF DoFits, JustHit
<1>3. ~ AtMark /\ ~ AtArt
  BY FirstIs
<1> QED BY <1>2, <1>3 DEF OnItsWay, AtDo

\* What the expression of a statement does.
LEMMA EvaluationIs ==
  ASSUME C!IsProgram(prog), NEW s \in Statements(prog)
  PROVE  C!Evaluation(s) = When(prog[s].call # 0, Item("call", prog[s].call, ""))
                             \o When(prog[s].art, Item("art", s, ""))
                             \o When(prog[s].bare # "none", Item(prog[s].bare, s, ""))
BY PassesAreThose DEF C!Evaluation

LEMMA CallsSound ==
  ASSUME C!IsProgram(prog), NEW s \in Statements(prog), NEW R
  PROVE  /\ Whole(prog, opts, When(prog[s].call # 0, Item("call", prog[s].call, "")), R)
         /\ Whole(prog, opts, When(prog[s].bare # "none", Item(prog[s].bare, s, "")), R)
<1>1. Whole(prog, opts, When(prog[s].call # 0, Item("call", prog[s].call, "")), R)
  <2>1. CASE prog[s].call # 0
    <3>1. Item("call", prog[s].call, "") \in Items(prog, opts)
      BY <2>1, ProgramIs DEF Items, Item, Operations
    <3>2. Loose(prog, R, Item("call", prog[s].call, ""))
      BY DEF Loose, Item
    <3> QED BY <3>1, <3>2, LooseSound
  <2>2. CASE prog[s].call = 0
    BY <2>2, NothingSound DEF When
  <2> QED BY <2>1, <2>2
<1>2. Whole(prog, opts, When(prog[s].bare # "none", Item(prog[s].bare, s, "")), R)
  <2>1. CASE prog[s].bare # "none"
    <3>1. prog[s].bare \in {"trace", "abort"}
      BY <2>1, ProgramIs
    <3>2. Item(prog[s].bare, s, "") \in Items(prog, opts)
      BY <3>1 DEF Items, Item, Operations
    <3>3. Loose(prog, R, Item(prog[s].bare, s, ""))
      BY <3>1 DEF Loose, Item
    <3> QED BY <3>2, <3>3, LooseSound
  <2>2. CASE prog[s].bare = "none"
    BY <2>2, NothingSound DEF When
  <2> QED BY <2>1, <2>2
<1> QED BY <1>1, <1>2

LEMMA EvaluationSound ==
  ASSUME C!IsProgram(prog), NEW s \in Statements(prog), NEW R, ~ (prog[s].art /\ PlainIn(prog, s))
  PROVE  Whole(prog, opts, C!Evaluation(s), R)
<1> DEFINE a == When(prog[s].call # 0, Item("call", prog[s].call, ""))
           b == When(prog[s].art, Item("art", s, ""))
           c == When(prog[s].bare # "none", Item(prog[s].bare, s, ""))
<1>1. Whole(prog, opts, b, R)
  <2>1. CASE prog[s].art
    <3>1. Item("art", s, "") \in Items(prog, opts)
      BY DEF Items, Item, Operations
    <3>2. Loose(prog, R, Item("art", s, ""))
      BY <2>1 DEF Loose, Item
    <3> QED BY <3>1, <3>2, LooseSound
  <2>2. CASE ~ prog[s].art
    BY <2>2, NothingSound DEF When
  <2> QED BY <2>1, <2>2
<1>2. Whole(prog, opts, a, R) /\ Whole(prog, opts, c, R)
  BY CallsSound
<1>3. C!Evaluation(s) = a \o b \o c
  BY EvaluationIs
<1> HIDE DEF a, b, c
<1>4. Whole(prog, opts, a \o b, R)
  BY <1>1, <1>2, SoundJoined
<1> QED BY <1>2, <1>3, <1>4, SoundJoined

\* A statement that takes an artifact behind its marker leaves the artifact in front.
LEMMA PlainArtifactNext ==
  ASSUME CovTyped, OnItsWay, C!IsProgram(prog), agenda # <<>>, agenda[1].op = "do",
         prog[agenda[1].s].art, PlainIn(prog, agenda[1].s),
         UNCHANGED <<prog, opts, frame>>, reached \subseteq reached',
         agenda' = C!Evaluation(agenda[1].s) \o Tail(agenda)
  PROVE  OnItsWay' /\ agenda' \in Seq(Items(prog, opts))
<1> DEFINE s == agenda[1].s
           S == Items(prog, opts)
           x == Item("art", s, "")
           c == When(prog[s].bare # "none", Item(prog[s].bare, s, ""))
           z == Tail(agenda)
           y == c \o z
<1>1. agenda \in Seq(S) /\ agenda[1] \in S /\ s \in Statements(prog)
  <2>1. agenda \in Seq(S)
    BY DEF CovTyped
  <2> HIDE DEF S
  <2>2. agenda[1] \in S
    BY <2>1, FrontIs
  <2> QED BY <2>1, <2>2 DEF S, Items
<1>2. C!Evaluation(s) = <<x>> \o c
  <2>1. C!Evaluation(s) = <<>> \o <<x>> \o c
    <3>1. When(prog[s].call # 0, Item("call", prog[s].call, "")) = <<>> /\ When(prog[s].art, x) = <<x>>
      BY DEF When, PlainIn
    <3> QED BY <1>1, <3>1, EvaluationIs
  <2>2. <<>> \o <<x>> = <<x>>
    OBVIOUS
  <2> QED BY <2>1, <2>2
<1>3. LocatedAt(s) /\ x \in S /\ x = Item("art", x.s, "") /\ x.s = s
  <2>1. ArtifactMarked(prog, s) /\ prog[s].slot = "list"
    BY DEF ArtifactMarked, PlainIn
  <2>2. x \in S /\ x = Item("art", x.s, "") /\ x.s = s
    BY <1>1 DEF Items, Item, Operations
  <2> QED BY <2>1, <2>2, StatementInFront
<1>4. Whole(prog, opts, z, reached')
  BY BehindIsSound, SoundGrows
<1>5. Whole(prog, opts, c, reached')
  BY <1>1, CallsSound
<1> HIDE DEF S, c, z, x
<1>6. Whole(prog, opts, y, reached')
  BY <1>4, <1>5, SoundJoined
<1>7. y \in Seq(S) /\ c \in Seq(S) /\ z \in Seq(S)
  BY <1>4, <1>5, <1>6 DEF Whole, S
<1>8. agenda' = <<x>> \o y
  <2>1. agenda' = (<<x>> \o c) \o z
    BY <1>2 DEF z
  <2>2. <<x>> \in Seq(S)
    <3>1. x \in S
      BY <1>3
    <3> QED BY <3>1
  <2>3. <<x>> \o (c \o z) = (<<x>> \o c) \o z
    BY <1>7, <2>2, ConcatAssociative
  <2> QED BY <2>1, <2>3 DEF y
<1> HIDE DEF y
<1>9. /\ agenda' \in Seq(S) /\ Len(agenda') > 0 /\ agenda'[1] = x /\ Tail(agenda') = y
  <2> DEFINE w == <<x>> \o y
  <2>1. <<x>> \in Seq(S) /\ Len(<<x>>) = 1 /\ <<x>>[1] = x
    <3>1. x \in S
      BY <1>3
    <3> QED BY <3>1
  <2>2. PICK n \in Nat : n = Len(y)
    BY <1>7, LenProperties
  <2>3. /\ w \in Seq(S) /\ Len(w) = n + 1
        /\ \A i \in 1..(n + 1) : w[i] = IF i <= 1 THEN <<x>>[i] ELSE y[i - 1]
    BY <1>7, <2>1, <2>2, ConcatProperties
  <2> HIDE DEF w
  <2>4. w # <<>> /\ w[1] = x
    BY <2>1, <2>2, <2>3
  <2>5. /\ Tail(w) \in Seq(S) /\ Len(Tail(w)) = n
        /\ \A i \in 1..n : Tail(w)[i] = w[i + 1]
    BY <2>2, <2>3, <2>4, FrontIs
  <2>6. \A i \in 1..n : Tail(w)[i] = y[i]
    <3>1. \A i \in 1..n : i + 1 \in 1..(n + 1) /\ ~ (i + 1 <= 1) /\ i + 1 - 1 = i
      OBVIOUS
    <3> QED BY <2>3, <2>5, <3>1
  <2>7. Tail(w) = y
    BY <1>7, <2>2, <2>5, <2>6, SeqEqual
  <2>8. Len(w) > 0
    BY <2>2, <2>3
  <2> QED BY <1>8, <2>3, <2>4, <2>7, <2>8 DEF w
<1>10. AtArt'
  <2>1. agenda'[1] = Item("art", agenda'[1].s, "") /\ LocatedAt(agenda[1].s)'
    BY <1>3, <1>9 DEF LocatedAt
  <2> QED BY <1>6, <1>9, <2>1 DEF AtArt
<1> QED BY <1>9, <1>10 DEF OnItsWay, S

LEMMA DoKeeps ==
  ASSUME CovInv, C!Do, C!IsProgram(prog)
  PROVE  CovInv'
<1> DEFINE s == agenda[1].s
           S == Items(prog, opts)
           kind == prog[s].kind
<1>1. agenda \in Seq(S) /\ CovTyped /\ OnItsWay
  BY DEF CovInv, CovTyped
<1> HIDE DEF S
<1>2. /\ agenda # <<>> /\ agenda[1].op = "do" /\ C!Now = s /\ agenda[1] \in S
      /\ Tail(agenda) \in Seq(S) /\ <<>> \o Tail(agenda) = Tail(agenda)
      /\ UNCHANGED <<prog, opts, waiting, instance, points, covered, frame, snapshots, merged, sightings>>
  BY <1>1, FrontIs DEF C!Do, C!Is, C!Now
<1>3. s \in Statements(prog) /\ prog[s].slot \in {"list", "arm"}
  BY <1>2 DEF Items, S
<1>4. kind \in Kinds /\ kind \notin {"Method", "Callback"}
  BY <1>3, ProgramIs
<1>5. frame'.active \in BOOLEAN /\ (~ frame'.active => frame'.file = "")
  BY <1>1, <1>2 DEF CovTyped
<1>6. EventsAreLocated'
  BY <1>2 DEF CovInv, EventsAreLocated, Plain
<1>7. ASSUME NEW id, Coming(id)
      PROVE  Wanted(prog, opts, s, "expression") /\ id = IdIn(prog, s, "expression")
  <2>1. PICK r \in Statements(prog) :
          /\ Wanted(prog, opts, r, "expression") /\ id = IdIn(prog, r, "expression")
          /\ \/ agenda[1] = Item("do", r, "")
             \/ agenda[1] = Item("mark", r, "")
    BY <1>7 DEF Coming
  <2>2. agenda[1].s = r
    BY <2>1, PlaceIs, Zenon
  <2> QED BY <2>1, <2>2
<1>8. CASE kind \in {"Function", "Class"}
  <2>1. agenda' = <<>> \o Tail(agenda) /\ reached' = reached
    BY <1>2, <1>8 DEF C!Do, C!Continue
  <2>2. OnItsWay' /\ agenda' \in Seq(Items(prog, opts))
    <3>1. Whole(prog, opts, <<>>, reached')
      BY NothingSound
    <3> QED BY <1>1, <1>2, <2>1, <3>1, PushedSound
  <2>3. ~ Wanted(prog, opts, s, "expression")
    BY <1>8 DEF Wanted, PointTypes, FunctionKinds
  <2> QED BY <1>2, <1>5, <1>6, <1>7, <2>1, <2>2, <2>3, GuestKeeps
<1>9. CASE kind = "Block"
  <2>1. agenda' = Entered(prog, opts, s) \o Tail(agenda) /\ reached' = reached \cup {<<s, "block">>}
    BY <1>2, <1>9, ListsAreThose DEF C!Do, C!Continue, C!Reach
  <2>2. PointTypes(prog, s) = {"block"} /\ Len(prog) \in Nat
    BY <1>9, ProgramIs DEF PointTypes, FunctionKinds
  <2>3. \A t \in PointTypes(prog, s) : <<s, t>> \in reached'
    BY <2>1, <2>2
  <2>4. Whole(prog, opts, Entered(prog, opts, s), reached')
    BY <1>3, <1>9, <2>2, <2>3, EnteredSound
  <2>5. OnItsWay' /\ agenda' \in Seq(Items(prog, opts))
    BY <1>1, <1>2, <2>1, <2>4, PushedSound
  <2>6. ~ Wanted(prog, opts, s, "expression")
    BY <2>2 DEF Wanted
  <2>7. ASSUME NEW r \in Statements(prog), NEW t \in PointTypes(prog, r),
               <<r, t>> \in reached' \ reached, Wanted(prog, opts, r, t)
        PROVE  Pends(r, t)'
    <3>1. r = s /\ t \in PointTypes(prog, s)
      BY <2>1, <2>2, <2>7
    <3>2. Pending(agenda', s, t)
      <4> DEFINE e == Tail(agenda)
                 ent == Entered(prog, opts, s)
      <4>1. e \in Seq(S) /\ <<>> \in Seq(S) /\ agenda' = ent \o e
        BY <1>2, <2>1
      <4>2. ent \in Seq(S)
        BY <2>4 DEF Whole, S
      <4> HIDE DEF e, ent
      <4>3. ent \o <<>> = ent
        BY <4>2, ConcatEmptySeq
      <4>4. agenda' = ent \o <<>> \o e
        BY <4>1, <4>3
      <4>5. kind # "Callback" /\ kind \in FunctionKinds \cup {"Block"}
        BY <1>9
      <4>6. e \in Seq(Items(prog, opts)) /\ <<>> \in Seq(Items(prog, opts))
        BY <4>1 DEF S
      <4>7. Wanted(prog, opts, s, t)
        BY <2>7, <3>1
      <4>8. Pending(ent \o <<>> \o e, s, t)
        BY <1>3, <2>2, <2>3, <3>1, <4>5, <4>6, <4>7, EnteredPends DEF ent
      <4> QED BY <4>4, <4>8
    <3> QED BY <3>1, <3>2 DEF Pends
  <2>8. \A x \in reached' \ reached : /\ x = <<x[1], x[2]>> /\ x[1] \in Statements(prog)
                                      /\ x[2] \in PointTypes(prog, x[1])
    BY <1>3, <2>1, <2>2
  <2> QED BY <1>2, <1>5, <1>6, <1>7, <2>1, <2>5, <2>6, <2>7, <2>8, GuestKeeps
<1>10. CASE kind \notin {"Function", "Class", "Block"}
  <2>1. PointTypes(prog, s) = {"expression"}
    BY <1>4, <1>10 DEF PointTypes, FunctionKinds
  <2>2. reached' = reached \cup {<<s, "expression">>}
    BY <1>2, <1>10 DEF C!Do, C!Reach
  <2>3. OnItsWay' /\ agenda' \in Seq(Items(prog, opts))
    <3>1. CASE prog[s].art /\ PlainIn(prog, s)
      <4>1. agenda' = C!Evaluation(s) \o Tail(agenda)
        BY <1>2, <3>1 DEF C!Do, C!Continue, PlainIn
      <4> QED BY <1>1, <1>2, <2>2, <3>1, <4>1, PlainArtifactNext
    <3>2. CASE ~ (prog[s].art /\ PlainIn(prog, s))
      <4>1. Whole(prog, opts, C!Evaluation(s), reached')
        BY <1>3, <3>2, EvaluationSound
      <4>2. PICK op \in {"choose", "Return", "Throw", ""} :
              IF op = "" THEN agenda' = C!Evaluation(s) \o Tail(agenda)
              ELSE agenda' = (C!Evaluation(s) \o <<Item(op, s, "")>>) \o Tail(agenda)
        <5>1. CASE kind \in {"If", "Loop", "Switch"}
          <6>1. agenda' = (C!Evaluation(s) \o <<C!Item("choose", s, "")>>) \o Tail(agenda)
            BY <1>2, <5>1 DEF C!Do, C!Continue
          <6> QED BY <6>1, PassesAreThose
        <5>2. CASE kind \in {"Return", "Throw"}
          <6>1. agenda' = (C!Evaluation(s) \o <<C!Item(kind, s, "")>>) \o Tail(agenda)
            BY <1>2, <5>2 DEF C!Do, C!Continue
          <6> QED BY <5>2, <6>1, PassesAreThose
        <5>3. CASE kind \notin {"If", "Loop", "Switch", "Return", "Throw"}
          <6>1. agenda' = C!Evaluation(s) \o Tail(agenda)
            BY <1>2, <1>10, <5>3 DEF C!Do, C!Continue
          <6> QED BY <6>1
        <5> QED BY <5>1, <5>2, <5>3
      <4>3. CASE op = ""
        BY <1>1, <1>2, <2>2, <4>1, <4>2, <4>3, PushedSound
      <4>4. CASE op # ""
        <5> DEFINE z == Item(op, s, "")
        <5>1. z \in S /\ Loose(prog, reached', z)
          BY <1>3, <4>4 DEF Items, Item, Operations, Loose, S
        <5>2. Whole(prog, opts, <<z>>, reached')
          BY <5>1, LooseSound DEF S
        <5>3. agenda' = (C!Evaluation(s) \o <<z>>) \o Tail(agenda)
          BY <4>2, <4>4
        <5> HIDE DEF z
        <5>4. Whole(prog, opts, C!Evaluation(s) \o <<z>>, reached')
          BY <4>1, <5>2, SoundJoined
        <5> QED BY <1>1, <1>2, <2>2, <5>3, <5>4, PushedSound
      <4> QED BY <4>3, <4>4
    <3> QED BY <3>1, <3>2
  <2>4. ASSUME NEW id, Coming(id) PROVE Met(id)'
    <3>1. Wanted(prog, opts, s, "expression") /\ id = IdIn(prog, s, "expression")
      BY <1>7, <2>4
    <3> QED BY <1>2, <1>3, <2>1, <2>2, <3>1 DEF Met
  <2>5. ASSUME NEW r \in Statements(prog), NEW t \in PointTypes(prog, r),
               <<r, t>> \in reached' \ reached, Wanted(prog, opts, r, t),
               ~ (t = "expression" /\ prog[r].slot = "arm")
        PROVE  IdIn(prog, r, t) \in covered
    <3>1. r = s /\ t = "expression"
      BY <2>1, <2>2, <2>5
    <3>2. prog[s].slot = "list"
      BY <1>3, <2>5, <3>1
    <3> QED BY <1>1, <1>2, <2>5, <3>1, <3>2, StatementInFront DEF JustHit
  <2>6. \A x \in reached' \ reached : /\ x = <<x[1], x[2]>> /\ x[1] \in Statements(prog)
                                      /\ x[2] \in PointTypes(prog, x[1])
    BY <1>3, <2>1, <2>2
  <2> QED BY <1>2, <1>5, <1>6, <2>2, <2>3, <2>4, <2>5, <2>6, GuestKeeps
<1> QED BY <1>8, <1>9, <1>10

LEMMA LeaveKeeps ==
  ASSUME CovInv, C!Leave, C!IsProgram(prog)
  PROVE  CovInv'
<1> DEFINE S == Items(prog, opts)
<1>1. agenda \in Seq(S) /\ CovTyped /\ OnItsWay
  BY DEF CovInv, CovTyped
<1> HIDE DEF S
<1>2. /\ agenda # <<>> /\ agenda[1].op \in {"back", "Return"}
      /\ UNCHANGED <<prog, opts, waiting, instance, points, covered, frame, snapshots, merged, reached,
                     sightings>>
  BY <1>1, FrontIs DEF C!Leave, C!Is, C!history
<1>3. PICK end \in DOMAIN agenda :
        agenda[end].op = "back" /\ agenda' = SubSeq(agenda, end + 1, Len(agenda))
  BY DEF C!Leave
<1>4. PICK n \in Nat : n = Len(agenda) /\ end \in 1..n
  BY <1>1, LenProperties
<1>5. /\ agenda' \in Seq(S) /\ Len(agenda') = n - end
      /\ \A i \in 1..Len(agenda') : agenda'[i] = agenda[i + end]
  <2>1. \A i \in (end + 1)..n : agenda[i] \in S
    <3>1. \A i \in (end + 1)..n : i \in 1..n
      BY <1>4
    <3> QED BY <1>1, <1>4, <3>1, ElementOfSeq
  <2>2. end + 1 \in 1..(n + 1)
    BY <1>4
  <2>3. /\ SubSeq(agenda, end + 1, n) \in Seq(S)
        /\ Len(SubSeq(agenda, end + 1, n)) = IF end + 1 <= n THEN n - (end + 1) + 1 ELSE 0
        /\ \A i \in 1..(n - (end + 1) + 1) : SubSeq(agenda, end + 1, n)[i] = agenda[end + 1 + i - 1]
    BY <1>1, <1>4, <2>1, <2>2, SubSeqProperties
  <2>4. n - (end + 1) + 1 = n - end /\ (~ (end + 1 <= n) => n - end = 0)
        /\ \A i \in 1..(n - end) : end + 1 + i - 1 = i + end
    BY <1>4
  <2> QED BY <1>3, <1>4, <2>3, <2>4
<1>6. Whole(prog, opts, agenda, reached)
  BY <1>1, <1>2, FirstIs DEF OnItsWay
<1>7. Whole(prog, opts, agenda', reached)
  <2> DEFINE b == agenda'
  <2>1. Cut(prog, agenda, end)
    BY <1>3 DEF Cut
  <2>2. b \in Seq(Items(prog, opts)) /\ Len(b) = Len(agenda) - end /\ end \in 1..Len(agenda)
        /\ \A i \in 1..Len(b) : b[i] = agenda[i + end]
    BY <1>4, <1>5 DEF S
  <2> HIDE DEF b
  <2>3. Whole(prog, opts, b, reached)
    BY <1>6, <2>1, <2>2, SoundBehind
  <2> QED BY <2>3 DEF b
<1>8. OnItsWay' /\ agenda' \in Seq(Items(prog, opts))
  BY <1>2, <1>5, <1>7 DEF OnItsWay, S
<1>9. frame'.active \in BOOLEAN /\ (~ frame'.active => frame'.file = "")
  BY <1>1, <1>2 DEF CovTyped
<1> QED BY <1>2, <1>8, <1>9, NoneAhead, GuestKeeps DEF CovInv, EventsAreLocated, Plain

\* An artifact in front is where the frame says, if the statement has its marker for itself.
LEMMA ArtifactInFront ==
  ASSUME CovTyped, OnItsWay, agenda # <<>>, agenda[1].op = "art", PlainIn(prog, agenda[1].s)
  PROVE  LocatedAt(agenda[1].s)
<1>1. agenda \in Seq(Items(prog, opts)) /\ 1 \in 1..Len(agenda)
  <2>1. agenda \in Seq(Items(prog, opts))
    BY DEF CovTyped
  <2> QED BY <2>1, FrontIs
<1>2. CASE Whole(prog, opts, agenda, reached)
  <2>1. ArtFits(prog, agenda, 1)
    BY <1>1, <1>2 DEF Whole
  <2> QED BY <2>1 DEF ArtFits
<1>3. ~ AtMark /\ ~ AtDo
  BY FirstIs
<1> QED BY <1>2, <1>3 DEF OnItsWay, AtArt

LEMMA ArtifactKeeps ==
  ASSUME CovInv, C!Artifact, C!IsProgram(prog)
  PROVE  CovInv'
<1> DEFINE s == agenda[1].s
           new == [s |-> s, what |-> "artifact", file |-> frame.file, line |-> frame.line]
<1>1. agenda \in Seq(Items(prog, opts)) /\ CovTyped /\ OnItsWay
  BY DEF CovInv, CovTyped
<1>2. /\ agenda # <<>> /\ agenda[1].op = "art" /\ agenda' = <<>> \o Tail(agenda)
      /\ sightings' = sightings \cup {new}
      /\ UNCHANGED <<prog, opts, waiting, instance, points, covered, frame, snapshots, merged, reached>>
  BY <1>1, FrontIs DEF C!Artifact, C!Is, C!Continue, C!Now
<1>3. frame'.active \in BOOLEAN /\ (~ frame'.active => frame'.file = "")
  BY <1>1, <1>2 DEF CovTyped
<1>4. OnItsWay' /\ agenda' \in Seq(Items(prog, opts))
  <2>1. Whole(prog, opts, <<>>, reached')
    BY NothingSound
  <2> QED BY <1>1, <1>2, <2>1, PushedSound
<1>5. ASSUME frame.file # "", Plain(s)
      PROVE  /\ frame.file = prog[s].file
             /\ (\A r \in Rewritten(prog) : prog[r].file # frame.file) => frame.line = s
  <2>1. frame.active
    BY <1>1, <1>5 DEF CovTyped
  <2>2. PlainIn(prog, s)
    BY <1>5 DEF Plain, PlainIn
  <2>3. frame.file = prog[s].file /\ frame.line = LineOf(prog, s)
    BY <1>1, <1>2, <2>1, <2>2, ArtifactInFront DEF LocatedAt
  <2> QED BY <2>3 DEF LineOf
<1>6. EventsAreLocated'
  <2> DEFINE Good(told) ==
        /\ told.what = "artifact" /\ told.file # "" /\ Plain(told.s) =>
             /\ told.file = prog[told.s].file
             /\ (\A r \in Rewritten(prog) : prog[r].file # told.file) => told.line = told.s
        /\ told.what = "abort" /\ told.s \in Visited(prog, RewriteEnters) => told.line = told.s
  <2>1. \A told \in sightings : Good(told)
    BY DEF CovInv, EventsAreLocated
  <2>2. Good(new)
    BY <1>5
  <2> HIDE DEF new
  <2>3. \A told \in sightings' : Good(told)
    BY <1>2, <2>1, <2>2
  <2> QED BY <1>2, <2>3 DEF EventsAreLocated, Plain
<1> QED BY <1>2, <1>3, <1>4, <1>6, NoneAhead, GuestKeeps

LEMMA TraceKeeps ==
  ASSUME CovInv, C!Trace, C!IsProgram(prog)
  PROVE  CovInv'
<1> DEFINE s == agenda[1].s
           new == [s |-> s, what |-> "trace", file |-> frame.file, line |-> frame.line]
<1>1. agenda \in Seq(Items(prog, opts)) /\ CovTyped /\ OnItsWay
  BY DEF CovInv, CovTyped
<1>2. /\ agenda # <<>> /\ agenda[1].op = "trace" /\ agenda' = <<>> \o Tail(agenda)
      /\ sightings' \subseteq sightings \cup {new}
      /\ UNCHANGED <<prog, opts, waiting, instance, points, covered, frame, snapshots, merged, reached>>
  BY <1>1, FrontIs DEF C!Trace, C!Is, C!Continue, C!Now
<1>3. frame'.active \in BOOLEAN /\ (~ frame'.active => frame'.file = "")
  BY <1>1, <1>2 DEF CovTyped
<1>4. OnItsWay' /\ agenda' \in Seq(Items(prog, opts))
  <2>1. Whole(prog, opts, <<>>, reached')
    BY NothingSound
  <2> QED BY <1>1, <1>2, <2>1, PushedSound
<1>5. EventsAreLocated'
  <2>1. \A told \in sightings' : told \in sightings \/ told.what = "trace"
    BY <1>2
  <2> QED BY <1>2, <2>1 DEF CovInv, EventsAreLocated, Plain
<1> QED BY <1>2, <1>3, <1>4, <1>5, NoneAhead, GuestKeeps

LEMMA GuestTrapKeeps ==
  ASSUME CovInv, C!Trap, C!IsProgram(prog)
  PROVE  CovInv'
<1> DEFINE s == agenda[1].s
           new == [s |-> s, what |-> "abort", file |-> prog[s].file, line |-> AbortLine(prog, s)]
<1>1. agenda \in Seq(Items(prog, opts)) /\ CovTyped /\ OnItsWay
  BY DEF CovInv, CovTyped
<1>2. /\ agenda # <<>> /\ agenda[1].op \in {"Throw", "abort"} /\ agenda' = <<>>
      /\ sightings' = IF agenda[1].op = "abort" THEN sightings \cup {new} ELSE sightings
      /\ agenda[1] \in Items(prog, opts)
      /\ UNCHANGED <<prog, opts, waiting, instance, points, covered, frame, snapshots, merged, reached>>
  <2>1. agenda # <<>> => Head(agenda) = agenda[1] /\ agenda[1] \in Items(prog, opts)
    BY <1>1, FrontIs
  <2> QED BY <2>1, PassesAreThose DEF C!Trap, C!Is, C!Now
<1>3. frame'.active \in BOOLEAN /\ (~ frame'.active => frame'.file = "")
  BY <1>1, <1>2 DEF CovTyped
<1>4. OnItsWay' /\ agenda' \in Seq(Items(prog, opts))
  <2>1. Whole(prog, opts, agenda', reached')
    BY <1>2, NothingSound
  <2>2. agenda' \in Seq(Items(prog, opts))
    BY <1>2
  <2> QED BY <1>2, <2>1, <2>2 DEF OnItsWay
<1>5. ASSUME agenda[1].op = "abort", s \in Visited(prog, RewriteEnters)
      PROVE  AbortLine(prog, s) = s
  <2>1. prog[s].bare = "abort"
    BY <1>2, <1>5 DEF Items
  <2> QED BY <1>5, <2>1 DEF AbortLine, Rewritten
<1>6. EventsAreLocated'
  <2> DEFINE Good(told) ==
        /\ told.what = "artifact" /\ told.file # "" /\ Plain(told.s) =>
             /\ told.file = prog[told.s].file
             /\ (\A r \in Rewritten(prog) : prog[r].file # told.file) => told.line = told.s
        /\ told.what = "abort" /\ told.s \in Visited(prog, RewriteEnters) => told.line = told.s
  <2>1. \A told \in sightings : Good(told)
    BY DEF CovInv, EventsAreLocated
  <2>2. agenda[1].op = "abort" => Good(new)
    BY <1>5
  <2> HIDE DEF new
  <2>3. \A told \in sightings' : Good(told)
    BY <1>2, <2>1, <2>2
  <2> QED BY <1>2, <2>3 DEF EventsAreLocated, Plain
<1> QED BY <1>2, <1>3, <1>4, <1>6, NoneAhead, GuestKeeps

\* What stands behind the first two.
LEMMA TailOfTail ==
  ASSUME NEW S, NEW a \in Seq(S), Len(a) > 1
  PROVE  /\ Tail(a) \in Seq(S) /\ Tail(a) # <<>> /\ Len(Tail(a)) = Len(a) - 1
         /\ \A i \in 1..Len(Tail(a)) : Tail(a)[i] = a[i + 1]
         /\ Tail(a)[1] = a[2] /\ Len(Tail(a)) > 0 /\ (Len(a) > 2 => Tail(a)[2] = a[3] /\ Len(Tail(a)) > 1)
         /\ Tail(Tail(a)) \in Seq(S) /\ Len(Tail(Tail(a))) = Len(a) - 2
         /\ \A i \in 1..Len(Tail(Tail(a))) : Tail(Tail(a))[i] = a[i + 2]
<1>1. PICK n \in Nat : n = Len(a) /\ n > 1
  BY LenProperties
<1>2. PICK z : z = Tail(a)
  OBVIOUS
<1>3. z \in Seq(S) /\ Len(z) = n - 1 /\ \A i \in 1..(n - 1) : z[i] = a[i + 1]
  <2>1. a # <<>>
    BY <1>1
  <2> QED BY <1>1, <1>2, <2>1, HeadTailProperties
<1>4. z # <<>>
  <2>1. n - 1 # 0 /\ Len(<<>>) = 0
    BY <1>1
  <2> QED BY <1>3, <2>1
<1>5. z[1] = a[2] /\ (n > 2 => z[2] = a[3])
  <2>1. 1 \in 1..(n - 1) /\ 1 + 1 = 2 /\ (n > 2 => 2 \in 1..(n - 1)) /\ 2 + 1 = 3
    BY <1>1
  <2>2. z[1] = a[1 + 1] /\ (n > 2 => z[2] = a[2 + 1])
    BY <1>3, <2>1
  <2> QED BY <2>1, <2>2, Zenon
<1>6. PICK y : y = Tail(z)
  OBVIOUS
<1>7. y \in Seq(S) /\ Len(y) = n - 2 /\ \A i \in 1..(n - 2) : y[i] = a[i + 2]
  <2>1. y \in Seq(S) /\ Len(y) = Len(z) - 1 /\ \A i \in 1..(Len(z) - 1) : y[i] = z[i + 1]
    BY <1>3, <1>4, <1>6, HeadTailProperties
  <2>2. n - 1 - 1 = n - 2
    BY <1>1
  <2>3. y \in Seq(S) /\ Len(y) = n - 2 /\ \A i \in 1..(n - 2) : y[i] = z[i + 1]
    BY <1>3, <2>1, <2>2
  <2>4. ASSUME NEW i \in 1..(n - 2) PROVE y[i] = a[i + 2]
    <3>1. PICK j \in 1..(n - 1) : j = i + 1 /\ j + 1 = i + 2
      BY <1>1
    <3>2. y[i] = z[j] /\ z[j] = a[j + 1]
      BY <1>3, <2>3, <3>1
    <3> QED BY <3>1, <3>2, Zenon
  <2> QED BY <2>3, <2>4
<1>8. n - 1 > 0 /\ (n > 2 => n - 1 > 1)
  BY <1>1
<1> QED BY <1>1, <1>2, <1>3, <1>4, <1>5, <1>6, <1>7, <1>8

\* A statement comes next whose hit and marker are done.
LEMMA DoNext ==
  ASSUME NEW s, UNCHANGED <<prog, opts, reached>>,
         Len(agenda') > 0, agenda'[1] = Item("do", s, ""), prog[s].slot = "list",
         Wanted(prog, opts, s, "expression") => IdIn(prog, s, "expression") \in covered',
         ArtifactMarked(prog, s) /\ frame'.active => frame'.file = prog[s].file /\ frame'.line = LineOf(prog, s),
         Whole(prog, opts, Tail(agenda'), reached)
  PROVE  AtDo'
<1>1. agenda'[1].s = s
  BY PlaceIs, Zenon
<1>2. agenda'[1] = Item("do", agenda'[1].s, "")
  BY <1>1, Zenon
<1>3. prog'[agenda'[1].s].slot = "list"
  BY <1>1, Zenon
<1>4. (Wanted(prog, opts, agenda[1].s, "expression") => IdIn(prog, agenda[1].s, "expression") \in covered)'
  BY <1>1, Zenon
<1>5. (ArtifactMarked(prog, agenda[1].s) =>
         (frame.active => frame.file = prog[agenda[1].s].file /\ frame.line = LineOf(prog, agenda[1].s)))'
  BY <1>1, Zenon
<1>6. Whole(prog, opts, Tail(agenda), reached)'
  BY Zenon
<1> QED BY <1>2, <1>3, <1>4, <1>5, <1>6, Zenon DEF AtDo, JustHit, LocatedAt

\* A marker comes next, and its statement behind it, whose hit is done.
LEMMA MarkNext ==
  ASSUME NEW s, UNCHANGED <<prog, opts, reached>>,
         Len(agenda') > 1, agenda'[1] = Item("mark", s, ""), agenda'[2] = Item("do", s, ""),
         prog[s].slot = "list",
         Wanted(prog, opts, s, "expression") => IdIn(prog, s, "expression") \in covered',
         Whole(prog, opts, Tail(Tail(agenda')), reached)
  PROVE  AtMark'
<1>1. agenda'[1].s = s
  BY PlaceIs, Zenon
<1>2. agenda'[1] = Item("mark", agenda'[1].s, "") /\ agenda'[2] = Item("do", agenda'[1].s, "")
  BY <1>1, Zenon
<1>3. prog'[agenda'[1].s].slot = "list"
  BY <1>1, Zenon
<1>4. (Wanted(prog, opts, agenda[1].s, "expression") => IdIn(prog, agenda[1].s, "expression") \in covered)'
  BY <1>1, Zenon
<1>5. Whole(prog, opts, Tail(Tail(agenda)), reached)'
  BY Zenon
<1> QED BY <1>2, <1>3, <1>4, <1>5, Zenon DEF AtMark, JustHit

\* The id of the statement that comes next, or behind its marker, is coming.
LEMMA ComesNext ==
  ASSUME NEW s \in Statements(prog), UNCHANGED <<prog, opts>>, Wanted(prog, opts, s, "expression"),
         Len(agenda') > 0,
         \/ agenda'[1] = Item("do", s, "")
         \/ Len(agenda') > 1 /\ agenda'[1] = Item("mark", s, "") /\ agenda'[2] = Item("do", s, "")
  PROVE  Coming(IdIn(prog, s, "expression"))'
<1>1. (/\ Wanted(prog, opts, s, "expression")
       /\ IdIn(prog, s, "expression") = IdIn(prog, s, "expression")
       /\ Len(agenda) > 0
       /\ \/ agenda[1] = Item("do", s, "")
          \/ Len(agenda) > 1 /\ agenda[1] = Item("mark", s, "") /\ agenda[2] = Item("do", s, ""))'
  BY Zenon
<1>2. s \in Statements(prog)'
  BY Zenon
<1> QED BY <1>1, <1>2, Zenon DEF Coming

LEMMA MarkKeeps ==
  ASSUME CovInv, C!Mark, C!IsProgram(prog)
  PROVE  CovInv'
<1> DEFINE S == Items(prog, opts)
<1>1. agenda \in Seq(S) /\ CovTyped /\ OnItsWay
  BY DEF CovInv, CovTyped
<1>2. /\ agenda # <<>> /\ agenda[1].op = "mark" /\ agenda[1] \in S /\ agenda' = Tail(agenda)
      /\ Tail(agenda) \in Seq(S) /\ Len(agenda) \in Nat
      /\ UNCHANGED <<prog, opts, waiting, instance, points, covered, snapshots, merged, reached, sightings>>
  BY <1>1, FrontIs DEF C!Mark, C!Is, C!Continue, C!history
<1>3. PICK s \in Statements(prog) : agenda[1] = Item("mark", s, "") /\ s = agenda[1].s
  <2>1. PICK x \in S : x = agenda[1] /\ x.op = "mark"
    BY <1>2
  <2>2. x = Item("mark", x.s, "") /\ x.s \in Statements(prog)
    BY <2>1 DEF Items, Item
  <2> QED BY <2>1, <2>2
<1> HIDE DEF S
<1>4. /\ frame'.active \in BOOLEAN /\ (~ frame'.active => frame'.file = "")
      /\ frame'.active => frame'.file = prog[s].file /\ frame'.line = LineOf(prog, s)
  <2>1. frame' = IF frame.active THEN [active |-> TRUE, file |-> prog[s].file, line |-> LineOf(prog, s)]
                 ELSE frame
    <3>1. Head(agenda) = agenda[1]
      BY <1>1, <1>2, FrontIs
    <3> QED BY <1>3, <3>1, PassesAreThose DEF C!Mark, C!Now
  <2>2. CASE frame.active
    BY <2>1, <2>2
  <2>3. CASE ~ frame.active
    BY <1>1, <2>1, <2>3 DEF CovTyped
  <2> QED BY <2>2, <2>3
<1>5. ASSUME NEW r, Len(agenda) > 1, agenda[2] = Item("do", r, "")
      PROVE  /\ Len(agenda') > 0 /\ agenda'[1] = Item("do", r, "")
             /\ Tail(agenda') \in Seq(S) /\ Len(Tail(agenda')) = Len(agenda) - 2
             /\ \A i \in 1..Len(Tail(agenda')) : Tail(agenda')[i] = agenda[i + 2]
  BY <1>1, <1>2, <1>5, TailOfTail, Zenon
<1>6. ASSUME Whole(prog, opts, agenda, reached), Cut(prog, agenda, 1) PROVE OnItsWay'
  <2>1. Whole(prog, opts, Tail(agenda), reached)
    BY <1>2, <1>6, TailSound
  <2>2. Whole(prog, opts, agenda, reached)'
    BY <1>2, <2>1
  <2> QED BY <2>2 DEF OnItsWay
<1>7. ASSUME Whole(prog, opts, agenda, reached), ~ Cut(prog, agenda, 1) PROVE OnItsWay'
  <2>1. PICK r : /\ Len(agenda) > 1 /\ agenda[2].op = "do" /\ r = agenda[2].s
                 /\ prog[r].slot = "list" /\ ArtifactMarked(prog, r)
    BY <1>2, <1>7 DEF Cut
  <2>2. 2 \in 1..Len(agenda) /\ agenda[2] \in S /\ 2 - 1 = 1
    BY <1>1, <1>2, <2>1, ElementOfSeq
  <2>3. agenda[1] = Item("mark", r, "") /\ ~ Wanted(prog, opts, r, "expression")
    <3>1. DoFits(prog, opts, agenda, 2)
      BY <1>7, <2>2 DEF Whole
    <3>2. /\ agenda[2 - 1] = Item("mark", r, "")
          /\ Wanted(prog, opts, r, "expression") => 2 > 2
      BY <2>1, <3>1, Zenon DEF DoFits
    <3>3. ~ (2 > 2)
      OBVIOUS
    <3> QED BY <2>2, <3>2, <3>3, Zenon
  <2>4. agenda[2] = Item("do", r, "")
    <3>1. PICK x \in S : x = agenda[2] /\ x.op = "do" /\ x.s = r
      BY <2>1, <2>2
    <3>2. x = Item("do", r, "")
      BY <3>1 DEF S, Items, Item
    <3> QED BY <3>1, <3>2
  <2>5. r = s
    BY <1>3, <2>3, PlaceIs, Zenon
  <2>6. Whole(prog, opts, Tail(agenda'), reached)
    <3>1. Cut(prog, agenda, 2)
      BY <2>1 DEF Cut
    <3>2. PICK b \in Seq(S) : b = Tail(agenda') /\ Len(b) = Len(agenda) - 2
                              /\ \A i \in 1..Len(b) : b[i] = agenda[i + 2]
      BY <1>5, <2>1, <2>4, Zenon
    <3>3. Whole(prog, opts, b, reached)
      BY <1>7, <2>2, <3>1, <3>2, SoundBehind DEF S
    <3> QED BY <3>2, <3>3
  <2>7. AtDo'
    <3>1. Len(agenda') > 0 /\ agenda'[1] = Item("do", r, "")
      BY <1>5, <2>1, <2>4, Zenon
    <3>2. UNCHANGED <<prog, opts, reached>>
      BY <1>2
    <3>3. frame'.active => frame'.file = prog[r].file /\ frame'.line = LineOf(prog, r)
      BY <1>4, <2>5, Zenon
    <3> QED BY <2>1, <2>3, <2>6, <3>1, <3>2, <3>3, DoNext, Zenon
  <2> QED BY <2>7 DEF OnItsWay
<1>8. ASSUME AtMark PROVE OnItsWay'
  <2>1. /\ Len(agenda) > 1 /\ agenda[2] = Item("do", s, "") /\ prog[s].slot = "list"
        /\ Wanted(prog, opts, s, "expression") => IdIn(prog, s, "expression") \in covered
        /\ Whole(prog, opts, Tail(Tail(agenda)), reached)
    BY <1>3, <1>8, Zenon DEF AtMark, JustHit
  <2>2. Len(agenda') > 0 /\ agenda'[1] = Item("do", s, "")
    BY <1>5, <2>1, Zenon
  <2>3. UNCHANGED <<prog, opts, reached>> /\ covered' = covered /\ agenda' = Tail(agenda)
    BY <1>2
  <2>4. Whole(prog, opts, Tail(agenda'), reached)
    BY <2>1, <2>3, Zenon
  <2>5. Wanted(prog, opts, s, "expression") => IdIn(prog, s, "expression") \in covered'
    BY <2>1, <2>3, Zenon
  <2>6. AtDo'
    BY <1>4, <2>1, <2>2, <2>3, <2>4, <2>5, DoNext, Zenon
  <2> QED BY <2>6 DEF OnItsWay
<1>9. OnItsWay' /\ agenda' \in Seq(Items(prog, opts))
  <2>1. ~ AtDo /\ ~ AtArt
    BY <1>2, FirstIs
  <2>2. agenda' \in Seq(Items(prog, opts))
    BY <1>2 DEF S
  <2>3. Whole(prog, opts, agenda, reached) \/ AtMark
    BY <1>1, <2>1 DEF OnItsWay
  <2>4. OnItsWay'
    BY <1>6, <1>7, <1>8, <2>3
  <2> QED BY <2>2, <2>4
<1>10. ASSUME NEW id, Coming(id) PROVE Coming(id)'
  <2>1. PICK r \in Statements(prog) :
          /\ Wanted(prog, opts, r, "expression") /\ id = IdIn(prog, r, "expression")
          /\ \/ agenda[1] = Item("do", r, "")
             \/ Len(agenda) > 1 /\ agenda[1] = Item("mark", r, "") /\ agenda[2] = Item("do", r, "")
    BY <1>10, Zenon DEF Coming
  <2>2. agenda[1] # Item("do", r, "")
    <3>1. agenda[1] = Item("do", r, "") => agenda[1].op = "do"
      BY OpsAre, Zenon
    <3> QED BY <1>2, <3>1
  <2>3. Len(agenda') > 0 /\ agenda'[1] = Item("do", r, "")
    BY <1>5, <2>1, <2>2, Zenon
  <2>4. UNCHANGED <<prog, opts>>
    BY <1>2
  <2> QED BY <2>1, <2>3, <2>4, ComesNext, Zenon
<1>11. EventsAreLocated'
  BY <1>2 DEF CovInv, EventsAreLocated, Plain
<1> QED BY <1>2, <1>4, <1>9, <1>10, <1>11, GuestKeeps

LEMMA HitKeeps ==
  ASSUME CovInv, C!Hit, C!IsProgram(prog)
  PROVE  CovInv'
<1> DEFINE S == Items(prog, opts)
<1>1. agenda \in Seq(S) /\ CovTyped /\ OnItsWay
  BY DEF CovInv, CovTyped
<1>2. /\ agenda # <<>> /\ Head(agenda) = agenda[1] /\ agenda[1].op = "hit" /\ agenda[1] \in S
      /\ agenda' = Tail(agenda) /\ Tail(agenda) \in Seq(S) /\ Len(Tail(agenda)) = Len(agenda) - 1
      /\ \A i \in 1..Len(Tail(agenda)) : Tail(agenda)[i] = agenda[i + 1]
      /\ Len(agenda) \in Nat /\ Len(agenda) > 0
      /\ UNCHANGED <<prog, opts, waiting, instance, points, frame, snapshots, merged, reached, sightings>>
  BY <1>1, FrontIs DEF C!Hit, C!Is, C!Continue, C!history
<1>3. PICK s \in Statements(prog) : \E t \in PointTypes(prog, s) :
        /\ agenda[1] = Item("hit", s, t) /\ s = agenda[1].s /\ t = agenda[1].type
        /\ Wanted(prog, opts, s, t)
  <2>1. PICK x \in S : x = agenda[1] /\ x.op = "hit"
    BY <1>2
  <2>2. /\ x = Item("hit", x.s, x.type) /\ x.s \in Statements(prog) /\ Wanted(prog, opts, x.s, x.type)
        /\ x.type \in PointTypes(prog, x.s)
    BY <2>1 DEF Items, Item, Wanted
  <2> QED BY <2>1, <2>2
<1>30. PICK t \in PointTypes(prog, s) :
        /\ agenda[1] = Item("hit", s, t) /\ s = agenda[1].s /\ t = agenda[1].type
        /\ Wanted(prog, opts, s, t)
  BY <1>3
<1> HIDE DEF S
<1>4. PICK new : new = IdIn(prog, s, t) /\ covered' = covered \cup {new}
  BY <1>2, <1>30, PassesAreThose DEF C!Hit, C!Now, IdIn
<1>5. Whole(prog, opts, agenda, reached) /\ HitFits(prog, agenda, reached, 1)
  <2>1. 1 \in 1..Len(agenda)
    BY <1>2
  <2>2. ~ AtMark /\ ~ AtDo /\ ~ AtArt
    BY <1>2, FirstIs
  <2>3. Whole(prog, opts, agenda, reached)
    BY <1>1, <2>2 DEF OnItsWay
  <2> QED BY <2>1, <2>3 DEF Whole
<1>6. instance # "none" /\ ~ merged.done
  BY <1>1, <1>2 DEF CovInv, CovTyped, CovFinal
<1>7. UNCHANGED <<prog, opts, reached>>
  BY <1>2
\* What stands behind the statement that is on its way.
<1>8. ASSUME NEW k \in {2, 3}, k \in 1..Len(agenda), agenda[k] = Item("do", s, ""),
             NEW b \in Seq(S), Len(b) = Len(agenda) - k, \A i \in 1..Len(b) : b[i] = agenda[i + k]
      PROVE  Whole(prog, opts, b, reached)
  <2>1. agenda[k].op = "do"
    BY <1>8, OpsAre, Zenon
  <2>2. Cut(prog, agenda, k)
    BY <1>8, <2>1 DEF Cut
  <2> QED BY <1>5, <1>8, <2>2, SoundBehind DEF S
<1>9. ASSUME t = "expression" PROVE OnItsWay' /\ Coming(new)'
  <2>1. prog[s].slot = "list" /\ Followed(agenda, 1, s)
    BY <1>2, <1>30, <1>5, <1>9, Zenon DEF HitFits
  <2>2. new \in covered' /\ new = IdIn(prog, s, "expression") /\ Wanted(prog, opts, s, "expression")
    BY <1>30, <1>4, <1>9
  <2>3. \/ 1 < Len(agenda) /\ agenda[2] = Item("do", s, "")
        \/ 2 < Len(agenda) /\ agenda[2] = Item("mark", s, "") /\ agenda[3] = Item("do", s, "")
    <3>1. 1 + 1 = 2 /\ 1 + 2 = 3
      OBVIOUS
    <3> QED BY <2>1, <3>1, Zenon DEF Followed
  <2>4. ASSUME 1 < Len(agenda), agenda[2] = Item("do", s, "") PROVE OnItsWay' /\ Coming(new)'
    <3>1. 2 \in 1..Len(agenda) /\ 2 - 1 = 1 /\ Len(agenda) > 1
      <4>1. Len(agenda) \in Nat
        BY <1>2, Zenon
      <4>2. 1 < Len(agenda)
        BY <2>4
      <4> QED BY <4>1, <4>2
    <3>2. ~ ArtifactMarked(prog, s)
      <4>1. DoFits(prog, opts, agenda, 2)
        BY <1>5, <3>1 DEF Whole
      <4>2. agenda[2].op = "do" /\ agenda[2].s = s
        BY <2>4, OpsAre, PlaceIs, Zenon
      <4>3. ArtifactMarked(prog, s) => agenda[2 - 1] = Item("mark", s, "")
        BY <2>1, <4>1, <4>2, Zenon DEF DoFits
      <4>4. agenda[1] = Item("mark", s, "") => agenda[1].op = "mark"
        BY OpsAre, Zenon
      <4>5. agenda[2 - 1] = agenda[1]
        BY <3>1, Zenon
      <4> QED BY <1>2, <4>3, <4>4, <4>5
    <3>3. /\ agenda'[1] = Item("do", s, "") /\ Len(agenda') > 0
          /\ Tail(agenda') \in Seq(S) /\ Len(Tail(agenda')) = Len(agenda) - 2
          /\ \A i \in 1..Len(Tail(agenda')) : Tail(agenda')[i] = agenda[i + 2]
      BY <1>1, <1>2, <2>4, <3>1, TailOfTail, Zenon
    <3>4. Whole(prog, opts, Tail(agenda'), reached)
      <4>1. PICK b \in Seq(S) : /\ b = Tail(agenda') /\ Len(b) = Len(agenda) - 2
                                /\ \A i \in 1..Len(b) : b[i] = agenda[i + 2]
        BY <3>3, Zenon
      <4>2. Whole(prog, opts, b, reached)
        BY <1>8, <2>4, <3>1, <4>1
      <4> QED BY <4>1, <4>2
    <3>5. AtDo'
      BY <1>7, <2>1, <2>2, <3>2, <3>3, <3>4, DoNext, Zenon
    <3>6. Coming(IdIn(prog, s, "expression"))'
      BY <1>7, <2>2, <3>3, ComesNext, Zenon
    <3>7. Coming(new)'
      BY <1>7, <2>2, <3>6, Zenon
    <3> QED BY <3>5, <3>7 DEF OnItsWay
  <2>5. ASSUME 2 < Len(agenda), agenda[2] = Item("mark", s, ""), agenda[3] = Item("do", s, "")
        PROVE  OnItsWay' /\ Coming(new)'
    <3>1. 3 \in 1..Len(agenda) /\ Len(agenda) > 1 /\ Len(agenda) > 2
      <4>1. Len(agenda) \in Nat
        BY <1>2, Zenon
      <4>2. 2 < Len(agenda)
        BY <2>5
      <4> QED BY <4>1, <4>2
    <3> DEFINE y == Tail(agenda')
               x == Tail(y)
    <3>2. /\ agenda'[1] = Item("mark", s, "") /\ agenda'[2] = Item("do", s, "") /\ Len(agenda') > 1
          /\ y \in Seq(S) /\ Len(y) = Len(agenda) - 2 /\ \A i \in 1..Len(y) : y[i] = agenda[i + 2]
      BY <1>1, <1>2, <2>5, <3>1, TailOfTail, Zenon
    <3>3. Whole(prog, opts, x, reached)
      <4>1. PICK b \in Seq(S) : b = y /\ Len(b) = Len(agenda) - 2 /\ \A i \in 1..Len(b) : b[i] = agenda[i + 2]
        BY <3>2, Zenon
      <4>2. b # <<>>
        <5>1. Len(<<>>) = 0 /\ Len(b) > 0
          BY <1>2, <3>1, <4>1
        <5> QED BY <5>1
      <4>3. PICK c \in Seq(S) : c = Tail(b) /\ Len(c) = Len(b) - 1 /\ \A i \in 1..Len(c) : c[i] = b[i + 1]
        BY <4>2, HeadTailProperties
      <4>4. Len(c) = Len(agenda) - 3
        BY <1>2, <4>1, <4>3
      <4>5. ASSUME NEW i \in 1..Len(c) PROVE c[i] = agenda[i + 3]
        <5>1. PICK j \in 1..Len(b) : j = i + 1 /\ j + 2 = i + 3
          BY <1>2, <4>1, <4>3, <4>4
        <5>2. c[i] = b[i + 1] /\ b[j] = agenda[j + 2]
          BY <4>1, <4>3
        <5> QED BY <5>1, <5>2, Zenon
      <4>6. Whole(prog, opts, c, reached)
        BY <1>8, <2>5, <3>1, <4>4, <4>5
      <4> QED BY <4>1, <4>3, <4>6
    <3>4. AtMark'
      BY <1>7, <2>1, <2>2, <3>2, <3>3, MarkNext, Zenon
    <3>5. Coming(IdIn(prog, s, "expression"))'
      <4>1. Len(agenda') > 0
        BY <1>2, <3>1
      <4> QED BY <1>7, <2>2, <3>2, <4>1, ComesNext, Zenon
    <3>6. Coming(new)'
      BY <1>7, <2>2, <3>5, Zenon
    <3> QED BY <3>4, <3>6 DEF OnItsWay
  <2> QED BY <2>3, <2>4, <2>5
<1>10. ASSUME t # "expression" PROVE OnItsWay' /\ Met(new)'
  <2>1. <<s, t>> \in reached
    BY <1>2, <1>30, <1>5, <1>10, Zenon DEF HitFits
  <2>2. Cut(prog, agenda, 1)
    BY <1>2, <1>30, <1>10 DEF Cut
  <2>3. Whole(prog, opts, Tail(agenda), reached)
    BY <1>2, <1>5, <2>2, TailSound
  <2>4. Whole(prog, opts, agenda, reached)'
    BY <1>2, <2>3
  <2>5. Met(new)
    BY <1>30, <1>4, <2>1 DEF Met
  <2>6. Met(new)'
    BY <1>7, <2>5 DEF Met
  <2> QED BY <2>4, <2>6 DEF OnItsWay
<1>11. OnItsWay' /\ (Met(new)' \/ Coming(new)')
  BY <1>9, <1>10
<1>12. CovTyped'
  BY <1>1, <1>2, <1>6 DEF CovTyped, S
<1>13. CovDeclared' /\ CovFinal'
  BY <1>2, <1>6 DEF CovInv, CovDeclared, CovFinal
<1>14. CovReal'
  <2>1. ASSUME NEW id, Met(id) PROVE Met(id)'
    BY <1>2, <2>1 DEF Met
  <2>2. \A id : ~ Coming(id)
    BY <1>2, NoneAhead
  <2>3. \A id \in covered' : Met(id)' \/ Coming(id)'
    BY <1>4, <1>11, <2>1, <2>2 DEF CovInv, CovReal
  <2>4. \A i \in DOMAIN snapshots' : \A id \in snapshots'[i].covered : Met(id)'
    BY <1>2, <2>1 DEF CovInv, CovReal
  <2> QED BY <2>3, <2>4 DEF CovReal
<1>15. CovFull'
  <2> SUFFICES ASSUME NEW q \in Statements(prog), NEW u \in PointTypes(prog, q),
                      <<q, u>> \in reached, Wanted(prog, opts, q, u),
                      ~ (u = "expression" /\ prog[q].slot = "arm")
               PROVE  IdIn(prog, q, u) \in covered' \/ Shelved(IdIn(prog, q, u)) \/ Pends(q, u)'
    BY <1>2 DEF CovFull, Shelved
  <2>1. ASSUME Pending(agenda, q, u) PROVE IdIn(prog, q, u) \in covered' \/ Pending(agenda', q, u)
    <3>1. PICK i \in 1..Len(agenda) : /\ agenda[i] = Item("hit", q, u)
                                      /\ \A j \in 1..(i - 1) : agenda[j].op = "hit"
      BY <2>1 DEF Pending
    <3>2. CASE i = 1
      <4>1. agenda[1] = Item("hit", q, u)
        BY <3>1, <3>2
      <4>2. q = s /\ u = t
        <5>1. Item("hit", s, t) = Item("hit", q, u)
          BY <1>30, <4>1, Zenon
        <5> QED BY <5>1 DEF Item
      <4> QED BY <1>4, <4>2
    <3>3. CASE i # 1
      <4>1. PICK z \in Seq(S) : /\ z = agenda' /\ Len(z) = Len(agenda) - 1
                                /\ \A j \in 1..Len(z) : z[j] = agenda[j + 1]
        BY <1>2
      <4>2. PICK k \in 1..Len(z) : k + 1 = i
        BY <1>2, <3>3, <4>1
      <4>3. z[k] = Item("hit", q, u)
        <5>1. z[k] = agenda[k + 1]
          BY <4>1
        <5> QED BY <3>1, <4>2, <5>1, Zenon
      <4>4. ASSUME NEW j \in 1..(k - 1) PROVE z[j].op = "hit"
        <5>1. j + 1 \in 1..(i - 1) /\ j \in 1..Len(z)
          BY <4>2, <1>2, <4>1
        <5>2. agenda[j + 1].op = "hit" /\ z[j] = agenda[j + 1]
          BY <3>1, <4>1, <5>1
        <5> QED BY <5>2, Zenon
      <4>5. Pending(z, q, u)
        BY <4>3, <4>4 DEF Pending
      <4> QED BY <4>1, <4>5
    <3> QED BY <3>2, <3>3
  <2>2. CASE Pends(q, u)
    <3>1. Pending(agenda, q, u)
      BY <2>2 DEF Pends
    <3> QED BY <2>1, <3>1 DEF Pends
  <2>3. CASE ~ Pends(q, u)
    <3>1. IdIn(prog, q, u) \in covered \/ Shelved(IdIn(prog, q, u))
      BY <2>3 DEF CovInv, CovFull
    <3> QED BY <1>4, <3>1
  <2> QED BY <2>2, <2>3
<1>16. EventsAreLocated'
  BY <1>2 DEF CovInv, EventsAreLocated, Plain
<1> QED BY <1>11, <1>12, <1>13, <1>14, <1>15, <1>16 DEF CovInv

\* A type that is asked for is among those the statement is instrumented for.
AsksFor(p, o, s, t) == \E i \in DOMAIN AskedTypes(p, o, s) : AskedTypes(p, o, s)[i] = t

LEMMA AskedTypesHave ==
  ASSUME NEW p, NEW o, NEW s
  PROVE  /\ AskedTypes(p, o, s) \in Seq({"function", "block", "expression"})
         /\ \A t \in PointTypes(p, s) : Wanted(p, o, s, t) => AsksFor(p, o, s, t)
<1> DEFINE T == {"function", "block", "expression"}
           f == When(Wanted(p, o, s, "function"), "function")
           b == When(Wanted(p, o, s, "block"), "block")
           e == When(Wanted(p, o, s, "expression"), "expression")
<1>1. /\ AskedTypes(p, o, s) = f \o b \o e
      /\ <<"function">> \o <<"block">> \o <<>> = <<"function", "block">>
      /\ <<"function">> \o <<>> \o <<>> = <<"function">> /\ <<>> \o <<"block">> \o <<>> = <<"block">>
      /\ <<>> \o <<>> \o <<"expression">> = <<"expression">> /\ <<>> \o <<>> \o <<>> = <<>>
  <2>1. AskedTypes(p, o, s) = f \o b \o e
    BY DEF AskedTypes, Wanted
  <2>2. <<>> \o <<>> = <<>>
    <3>1. <<>> \in Seq(T)
      OBVIOUS
    <3> QED BY <3>1, ConcatEmptySeq
  <2> HIDE DEF f, b, e
  <2> QED BY <2>1, <2>2, JoinsAre, Zenon
<1>2. PointTypes(p, s) \subseteq T
  BY DEF PointTypes
<1>3. Wanted(p, o, s, "expression") => f = <<>> /\ b = <<>> /\ e = <<"expression">>
  BY DEF Wanted, PointTypes, When
<1>4. ~ Wanted(p, o, s, "expression") => e = <<>>
  BY DEF When
<1>30. /\ Wanted(p, o, s, "function") => f = <<"function">>
       /\ ~ Wanted(p, o, s, "function") => f = <<>>
       /\ Wanted(p, o, s, "block") => b = <<"block">>
       /\ ~ Wanted(p, o, s, "block") => b = <<>>
  BY DEF When
<1> HIDE DEF f, b, e
<1>5. CASE Wanted(p, o, s, "expression")
  <2>1. AskedTypes(p, o, s) = <<"expression">>
    BY <1>1, <1>3, <1>5, Zenon
  <2>2. \A t \in T : Wanted(p, o, s, t) => t = "expression"
    BY <1>5 DEF Wanted, PointTypes
  <2>3. <<"expression">> \in Seq(T) /\ 1 \in DOMAIN <<"expression">> /\ <<"expression">>[1] = "expression"
    OBVIOUS
  <2> QED BY <1>2, <2>1, <2>2, <2>3 DEF AsksFor
<1>6. CASE ~ Wanted(p, o, s, "expression")
  <2>1. CASE Wanted(p, o, s, "function") /\ Wanted(p, o, s, "block")
    <3>1. AskedTypes(p, o, s) = <<"function", "block">>
      BY <1>1, <1>30, <1>4, <1>6, <2>1, Zenon
    <3>2. /\ <<"function", "block">> \in Seq(T) /\ 1 \in DOMAIN <<"function", "block">>
          /\ 2 \in DOMAIN <<"function", "block">>
          /\ <<"function", "block">>[1] = "function" /\ <<"function", "block">>[2] = "block"
      OBVIOUS
    <3> QED BY <1>2, <1>6, <3>1, <3>2 DEF AsksFor
  <2>2. CASE Wanted(p, o, s, "function") /\ ~ Wanted(p, o, s, "block")
    <3>1. AskedTypes(p, o, s) = <<"function">>
      BY <1>1, <1>30, <1>4, <1>6, <2>2, Zenon
    <3>2. <<"function">> \in Seq(T) /\ 1 \in DOMAIN <<"function">> /\ <<"function">>[1] = "function"
      OBVIOUS
    <3> QED BY <1>2, <1>6, <2>2, <3>1, <3>2 DEF AsksFor
  <2>3. CASE ~ Wanted(p, o, s, "function") /\ Wanted(p, o, s, "block")
    <3>1. AskedTypes(p, o, s) = <<"block">>
      BY <1>1, <1>30, <1>4, <1>6, <2>3, Zenon
    <3>2. <<"block">> \in Seq(T) /\ 1 \in DOMAIN <<"block">> /\ <<"block">>[1] = "block"
      OBVIOUS
    <3> QED BY <1>2, <1>6, <2>3, <3>1, <3>2 DEF AsksFor
  <2>4. CASE ~ Wanted(p, o, s, "function") /\ ~ Wanted(p, o, s, "block")
    <3>1. AskedTypes(p, o, s) = <<>>
      BY <1>1, <1>30, <1>4, <1>6, <2>4, Zenon
    <3>2. <<>> \in Seq(T)
      OBVIOUS
    <3> QED BY <1>2, <1>6, <2>4, <3>1, <3>2 DEF AsksFor
  <2> QED BY <2>1, <2>2, <2>3, <2>4
<1> QED BY <1>5, <1>6

\* Every point that is asked for is declared.
LEMMA AllDeclared ==
  ASSUME NEW p, NEW o, Len(p) \in Nat, NEW s \in Statements(p), NEW t \in PointTypes(p, s),
         Wanted(p, o, s, t)
  PROVE  IdIn(p, s, t) \in DOMAIN C!DeclareAll(C!Declarations(p, o))
<1> DEFINE T == {"function", "block", "expression"}
           S == {Point(p, r, u) : r \in Statements(p), u \in T}
           types(r) == AskedTypes(p, o, r)
           chunk(r) == [i \in DOMAIN types(r) |-> Point(p, r, types(r)[i])]
           q == [r \in Statements(p) |-> chunk(r)]
           list == FlattenSeq(q)
<1>1. C!Declarations(p, o) = list
  <2>1. Declarations(p, o) = list
    BY DEF Declarations
  <2> QED BY <2>1, ListsAreThose
<1>2. ASSUME NEW r \in Statements(p) PROVE chunk(r) \in Seq(S)
  <2>1. types(r) \in Seq(T)
    BY AskedTypesHave
  <2> DEFINE y == types(r)
  <2> HIDE DEF y, T
  <2>2. Len(y) \in Nat /\ DOMAIN y = 1..Len(y) /\ \A i \in 1..Len(y) : y[i] \in T
    BY <2>1, LenProperties, ElementOfSeq DEF y
  <2>3. \A i \in 1..Len(y) : Point(p, r, y[i]) \in S
    BY <2>2
  <2> HIDE DEF S
  <2>4. [i \in 1..Len(y) |-> Point(p, r, y[i])] \in Seq(S)
    BY <2>2, <2>3
  <2> QED BY <2>2, <2>4 DEF y
<1> HIDE DEF S, chunk
<1>3. q \in Seq(Seq(S)) /\ Len(q) = Len(p)
  <2>1. Statements(p) = 1..Len(p)
    BY DEF Statements
  <2> QED BY <1>2, <2>1
<1>4. PICK x \in DOMAIN q[s] : q[s][x] = Point(p, s, t)
  <2>1. AsksFor(p, o, s, t)
    BY AskedTypesHave, Zenon
  <2>2. PICK i \in DOMAIN AskedTypes(p, o, s) : AskedTypes(p, o, s)[i] = t
    BY <2>1 DEF AsksFor
  <2> QED BY <2>2 DEF chunk
<1>5. s \in 1..Len(q)
  BY <1>3 DEF Statements
<1> HIDE DEF q
<1>6. PICK y \in DOMAIN list : list[y] = Point(p, s, t)
  BY <1>3, <1>4, <1>5, FlattenHas
<1> HIDE DEF list
<1>7. DOMAIN C!DeclareAll(list) = {Hash(list[i]) : i \in DOMAIN list}
  BY DEF C!DeclareAll
<1> QED BY <1>1, <1>6, <1>7 DEF IdIn

\* A harness is made, and the guest starts from the top.
LEMMA LoadKeeps ==
  ASSUME CovInv, C!IsProgram(prog), instance = "none", ~ merged.done,
         NEW which, which # "none", NEW rest, Whole(prog, opts, rest, reached),
         C!Load(which, rest), waiting' \subseteq waiting
  PROVE  CovInv'
<1>1. /\ instance' = which /\ covered' = {} /\ frame' = C!NoFrame
      /\ points' = C!DeclareAll(C!Declarations(prog, opts))
      /\ agenda' = Body(prog, opts, 0) \o rest
      /\ UNCHANGED <<prog, opts, snapshots, merged, reached, sightings>>
  BY ListsAreThose DEF C!Load, C!Start, C!history
<1>2. CovTyped /\ Len(prog) \in Nat /\ agenda = <<>> /\ covered = {}
  BY ProgramIs DEF CovInv, CovTyped
<1>3. Whole(prog, opts, agenda', reached)
  <2>1. Whole(prog, opts, Body(prog, opts, 0), reached)
    BY <1>2, BodySound
  <2> QED BY <1>1, <2>1, SoundJoined
<1>4. OnItsWay'
  BY <1>1, <1>3 DEF OnItsWay
<1>5. CovTyped'
  <2>1. agenda' \in Seq(Items(prog, opts))
    BY <1>3 DEF Whole
  <2>2. frame'.active = FALSE /\ frame'.file = ""
    BY <1>1 DEF C!NoFrame
  <2> QED BY <1>1, <1>2, <2>1, <2>2 DEF CovTyped
<1>6. CovDeclared'
  BY <1>1, <1>2, AllDeclared DEF CovInv, CovDeclared
<1>7. CovReal'
  <2>1. ASSUME NEW id, Met(id) PROVE Met(id)'
    BY <1>1, <2>1 DEF Met
  <2> QED BY <1>1, <2>1 DEF CovInv, CovReal
<1>8. CovFull'
  <2>1. ASSUME NEW s, NEW t PROVE ~ Pends(s, t)
    BY <1>2 DEF Pends, Pending
  <2> QED BY <1>1, <1>2, <2>1 DEF CovInv, CovFull, Shelved
<1>9. CovFinal' /\ EventsAreLocated'
  BY <1>1 DEF CovInv, CovFinal, EventsAreLocated, Plain
<1> QED BY <1>4, <1>5, <1>6, <1>7, <1>8, <1>9 DEF CovInv

LEMMA DiscoverKeeps ==
  ASSUME CovInv, C!Discover, C!IsProgram(prog)
  PROVE  CovInv'
<1>1. Whole(prog, opts, <<>>, reached)
  BY NothingSound
<1> QED BY <1>1, LoadKeeps DEF C!Discover

LEMMA RunTestKeeps ==
  ASSUME CovInv, C!IsProgram(prog), NEW t, C!RunTest(t)
  PROVE  CovInv'
<1> DEFINE f == Item("frame", t, "")
           c == Item("call", t, "")
<1>1. t \in Statements(prog) /\ prog[t].kind = "Callback"
  BY DEF CovInv, CovTyped, C!RunTest
<1>2. Whole(prog, opts, <<f>>, reached) /\ Whole(prog, opts, <<c>>, reached)
  <2>1. f \in Items(prog, opts) /\ Loose(prog, reached, f)
    BY <1>1 DEF Items, Item, Operations, Loose
  <2>2. c \in Items(prog, opts) /\ Loose(prog, reached, c)
    BY <1>1 DEF Items, Item, Operations, Loose, FunctionKinds
  <2> QED BY <2>1, <2>2, LooseSound
<1>3. <<C!Item("frame", t, ""), C!Item("call", t, "")>> = <<f>> \o <<c>>
  <2>1. C!Item("frame", t, "") = f /\ C!Item("call", t, "") = c
    BY PassesAreThose
  <2> QED BY <2>1, PairIs, Zenon
<1> HIDE DEF f, c
<1>4. Whole(prog, opts, <<f>> \o <<c>>, reached)
  BY <1>2, SoundJoined
<1>5. /\ instance = "none" /\ ~ merged.done /\ waiting' \subseteq waiting
      /\ C!Load("test", <<C!Item("frame", t, ""), C!Item("call", t, "")>>)
  BY DEF C!RunTest
<1> QED BY <1>3, <1>4, <1>5, LoadKeeps

LEMMA CloseKeeps ==
  ASSUME CovInv, C!Close, C!IsProgram(prog)
  PROVE  CovInv'
<1> DEFINE new == [points |-> points, covered |-> covered]
<1>1. /\ instance # "none" /\ instance' = "none" /\ agenda = <<>> /\ agenda' = <<>>
      /\ snapshots' = Append(snapshots, new) /\ covered' = {} /\ frame' = C!NoFrame
      /\ UNCHANGED <<prog, opts, waiting, merged, reached, sightings>>
  BY DEF C!Close, C!history
<1>2. PICK T : snapshots \in Seq(T)
  BY DEF CovInv, CovTyped
<1>3. PICK n \in Nat : n = Len(snapshots) /\ DOMAIN snapshots = 1..n
  BY <1>2, LenProperties
<1> HIDE DEF new
<1>4. /\ snapshots' \in Seq(T \cup {new}) /\ DOMAIN snapshots' = 1..(n + 1)
      /\ \A i \in 1..n : snapshots'[i] = snapshots[i]
      /\ snapshots'[n + 1] = new
  <2>1. snapshots \in Seq(T \cup {new})
    BY <1>2
  <2>2. /\ Append(snapshots, new) \in Seq(T \cup {new}) /\ Len(Append(snapshots, new)) = n + 1
        /\ \A i \in 1..n : Append(snapshots, new)[i] = snapshots[i]
        /\ Append(snapshots, new)[n + 1] = new
    BY <1>3, <2>1, AppendProperties
  <2> QED BY <1>1, <2>2, LenProperties
<1>5. Len(agenda) = 0
  BY <1>1
<1>6. OnItsWay'
  BY <1>1, NothingSound DEF OnItsWay
<1>7. CovTyped'
  <2>1. frame'.active = FALSE /\ frame'.file = ""
    BY <1>1 DEF C!NoFrame
  <2> QED BY <1>1, <1>4, <2>1 DEF CovInv, CovTyped
<1>8. CovDeclared'
  <2> SUFFICES ASSUME NEW s \in Statements(prog), NEW t \in PointTypes(prog, s), Wanted(prog, opts, s, t),
                      NEW i \in 1..(n + 1)
               PROVE  IdIn(prog, s, t) \in DOMAIN snapshots'[i].points
    BY <1>1, <1>4 DEF CovDeclared
  <2>1. CASE i = n + 1
    BY <1>1, <1>4, <2>1 DEF CovInv, CovDeclared, new
  <2>2. CASE i # n + 1
    <3>1. i \in 1..n
      BY <2>2
    <3> QED BY <1>3, <1>4, <3>1 DEF CovInv, CovDeclared
  <2> QED BY <2>1, <2>2
<1>9. CovReal'
  <2>1. ASSUME NEW id, Met(id) PROVE Met(id)'
    BY <1>1, <2>1 DEF Met
  <2>2. \A id : ~ Coming(id)
    BY <1>5 DEF Coming
  <2>3. ASSUME NEW i \in 1..(n + 1), NEW id \in snapshots'[i].covered PROVE Met(id)'
    <3>1. CASE i = n + 1
      <4>1. id \in covered
        BY <1>4, <2>3, <3>1 DEF new
      <4> QED BY <2>1, <2>2, <4>1 DEF CovInv, CovReal
    <3>2. CASE i # n + 1
      <4>1. i \in 1..n
        BY <3>2
      <4> QED BY <1>3, <1>4, <2>1, <2>3, <4>1 DEF CovInv, CovReal
    <3> QED BY <3>1, <3>2
  <2> QED BY <1>1, <1>4, <2>3 DEF CovReal
<1>10. CovFull'
  <2>1. ASSUME NEW id, id \in covered \/ Shelved(id) PROVE Shelved(id)'
    <3>1. CASE id \in covered
      <4>1. n + 1 \in 1..(n + 1)
        OBVIOUS
      <4> QED BY <1>4, <3>1, <4>1 DEF Shelved, new
    <3>2. CASE Shelved(id)
      <4>1. PICK i \in 1..n : id \in snapshots[i].covered
        BY <1>3, <3>2 DEF Shelved
      <4>2. i \in 1..(n + 1)
        OBVIOUS
      <4> QED BY <1>4, <4>1, <4>2 DEF Shelved
    <3> QED BY <2>1, <3>1, <3>2
  <2>2. ASSUME NEW s, NEW t PROVE ~ Pends(s, t)
    BY <1>5 DEF Pends, Pending
  <2> QED BY <1>1, <2>1, <2>2 DEF CovInv, CovFull
<1>11. CovFinal' /\ EventsAreLocated'
  BY <1>1 DEF CovInv, CovFinal, EventsAreLocated, Plain
<1> QED BY <1>6, <1>7, <1>8, <1>9, <1>10, <1>11 DEF CovInv

\* A place the options ask for is one that has a point.
LEMMA AskedIs ==
  ASSUME NEW s \in Statements(prog), NEW t \in PointTypes(prog, s)
  PROVE  /\ Asked(<<s, t>>) <=> Wanted(prog, opts, s, t)
         /\ IdOf(<<s, t>>) = IdIn(prog, s, t)
         /\ Unbraced(<<s, t>>) <=> (t = "expression" /\ prog[s].slot = "arm")
BY DEF Asked, Wanted, Instrumented, IdOf, IdIn, Unbraced

LEMMA FinishKeeps ==
  ASSUME CovInv, C!Finish, C!IsProgram(prog)
  PROVE  CovInv'
<1>1. /\ instance = "none" /\ snapshots # <<>> /\ merged' = C!Merge(snapshots)
      /\ UNCHANGED <<prog, opts, waiting, instance, agenda, points, covered, frame, snapshots, reached,
                     sightings>>
  BY DEF C!Finish, C!guest, C!history
<1>2. agenda = <<>> /\ covered = {} /\ Len(agenda) = 0
  BY <1>1 DEF CovInv, CovTyped
<1>3. /\ DOMAIN merged'.points = UNION {DOMAIN snapshots[i].points : i \in DOMAIN snapshots}
      /\ merged'.covered = UNION {snapshots[i].covered : i \in DOMAIN snapshots}
  BY <1>1 DEF C!Merge, C!MergedPoints
<1>4. 1 \in DOMAIN snapshots
  <2>1. PICK T : snapshots \in Seq(T)
    BY DEF CovInv, CovTyped
  <2>2. Len(snapshots) \in Nat /\ Len(snapshots) # 0 /\ DOMAIN snapshots = 1..Len(snapshots)
    BY <1>1, <2>1, EmptySeq, LenProperties
  <2> QED BY <2>2
<1>5. ASSUME NEW x \in reached, Asked(x)
      PROVE  \E s \in Statements(prog) : \E t \in PointTypes(prog, s) :
               x = <<s, t>> /\ Wanted(prog, opts, s, t) /\ IdOf(x) = IdIn(prog, s, t)
  <2>1. x = <<x[1], x[2]>> /\ x[1] \in Statements(prog) /\ x[2] \in PointTypes(prog, x[1])
    BY DEF CovInv, CovTyped
  <2> DEFINE s == x[1]
             t == x[2]
  <2>2. x = <<s, t>> /\ s \in Statements(prog) /\ t \in PointTypes(prog, s)
    BY <2>1
  <2> HIDE DEF s, t
  <2>3. (Asked(<<s, t>>) <=> Wanted(prog, opts, s, t)) /\ IdOf(<<s, t>>) = IdIn(prog, s, t)
    BY <2>2, AskedIs
  <2>4. Wanted(prog, opts, s, t)
    BY <1>5, <2>2, <2>3
  <2>5. IdOf(x) = IdIn(prog, s, t)
    BY <2>2, <2>3
  <2> QED BY <2>2, <2>4, <2>5
<1>6. ASSUME NEW x \in reached, Asked(x) PROVE IdOf(x) \in DOMAIN merged'.points
  <2>1. PICK s \in Statements(prog) : \E t \in PointTypes(prog, s) :
          Wanted(prog, opts, s, t) /\ IdOf(x) = IdIn(prog, s, t)
    BY <1>5, <1>6
  <2>2. PICK t \in PointTypes(prog, s) : Wanted(prog, opts, s, t) /\ IdOf(x) = IdIn(prog, s, t)
    BY <2>1
  <2>3. IdIn(prog, s, t) \in DOMAIN snapshots[1].points
    BY <1>4, <2>2 DEF CovInv, CovDeclared
  <2> QED BY <1>3, <1>4, <2>2, <2>3
<1>7. ASSUME NEW id \in merged'.covered PROVE \E x \in reached : Asked(x) /\ id = IdOf(x)
  <2>1. PICK i \in DOMAIN snapshots : id \in snapshots[i].covered
    BY <1>3, <1>7
  <2>2. Met(id)
    BY <2>1 DEF CovInv, CovReal
  <2>3. PICK s \in Statements(prog) : \E t \in PointTypes(prog, s) :
          <<s, t>> \in reached /\ Wanted(prog, opts, s, t) /\ id = IdIn(prog, s, t)
    BY <2>2 DEF Met
  <2>4. PICK t \in PointTypes(prog, s) :
          <<s, t>> \in reached /\ Wanted(prog, opts, s, t) /\ id = IdIn(prog, s, t)
    BY <2>3
  <2>5. Asked(<<s, t>>) /\ IdOf(<<s, t>>) = id
    BY <2>4, AskedIs
  <2> QED BY <2>5, <2>4
<1>8. ASSUME NEW x \in reached, Asked(x), ~ Unbraced(x) PROVE IdOf(x) \in merged'.covered
  <2>1. PICK s \in Statements(prog) : \E t \in PointTypes(prog, s) :
          x = <<s, t>> /\ Wanted(prog, opts, s, t) /\ IdOf(x) = IdIn(prog, s, t)
    BY <1>5, <1>8
  <2>2. PICK t \in PointTypes(prog, s) :
          x = <<s, t>> /\ Wanted(prog, opts, s, t) /\ IdOf(x) = IdIn(prog, s, t)
    BY <2>1
  <2>3. ~ (t = "expression" /\ prog[s].slot = "arm")
    BY <1>8, <2>2, AskedIs
  <2>4. ~ Pends(s, t)
    BY <1>2 DEF Pends, Pending
  <2>5. Shelved(IdIn(prog, s, t))
    BY <1>2, <2>2, <2>3, <2>4 DEF CovInv, CovFull
  <2> QED BY <1>3, <2>2, <2>5 DEF Shelved
<1>9. CoverageIsExact'
  BY <1>1, <1>6, <1>7, <1>8 DEF CoverageIsExact, Asked, IdOf, Unbraced
<1>10. CovFinal'
  BY <1>1, <1>9 DEF CovFinal
<1>11. OnItsWay'
  BY <1>1, <1>2, NothingSound DEF OnItsWay
<1>12. CovTyped' /\ CovDeclared' /\ EventsAreLocated'
  BY <1>1 DEF CovInv, CovTyped, CovDeclared, EventsAreLocated, Plain
<1>13. CovReal'
  <2>1. ASSUME NEW id, Met(id) PROVE Met(id)'
    BY <1>1, <2>1 DEF Met
  <2> QED BY <1>1, <1>2, <2>1 DEF CovInv, CovReal
<1>14. CovFull'
  BY <1>1 DEF CovInv, CovFull, Shelved, Pends, Pending
<1> QED BY <1>10, <1>11, <1>12, <1>13, <1>14 DEF CovInv

LEMMA CoverageStutters ==
  ASSUME CovInv, UNCHANGED C!vars
  PROVE  CovInv'
<1>1. UNCHANGED <<prog, opts, waiting, instance, agenda, points, covered, frame, snapshots, merged,
                  reached, sightings>>
  BY DEF C!vars, C!guest, C!history
<1>2. CovTyped' /\ CovDeclared' /\ EventsAreLocated'
  BY <1>1 DEF CovInv, CovTyped, CovDeclared, EventsAreLocated, Plain
<1>3. OnItsWay'
  <2>1. /\ Whole(prog, opts, agenda, reached) <=> Whole(prog, opts, agenda, reached)'
        /\ AtMark <=> AtMark'
        /\ AtDo <=> AtDo'
        /\ AtArt <=> AtArt'
    BY <1>1 DEF AtMark, AtDo, AtArt, JustHit, LocatedAt
  <2> QED BY <2>1 DEF CovInv, OnItsWay
<1>4. CovReal'
  <2>1. ASSUME NEW id PROVE (Met(id) => Met(id)') /\ (Coming(id) => Coming(id)')
    BY <1>1 DEF Met, Coming
  <2> QED BY <1>1, <2>1 DEF CovInv, CovReal
<1>5. CovFull'
  BY <1>1 DEF CovInv, CovFull, Shelved, Pends, Pending
<1>6. CovFinal'
  BY <1>1 DEF CovInv, CovFinal, CoverageIsExact, Asked, IdOf, Unbraced
<1> QED BY <1>2, <1>3, <1>4, <1>5, <1>6 DEF CovInv

LEMMA CoverageStarts ==
  ASSUME C!Init
  PROVE  CovInv
<1>1. /\ prog \in Sources /\ waiting = C!Tests(prog) /\ instance = "none" /\ agenda = <<>>
      /\ covered = {} /\ frame = C!NoFrame /\ snapshots = <<>> /\ merged.done = FALSE
      /\ reached = {} /\ sightings = {}
  BY DEF C!Init
<1>2. agenda \in Seq(Items(prog, opts)) /\ snapshots \in Seq({}) /\ DOMAIN snapshots = {}
  BY <1>1
<1>3. CovTyped
  <2>1. frame.active = FALSE /\ frame.file = ""
    BY <1>1 DEF C!NoFrame
  <2>2. \A t \in waiting : t \in Statements(prog) /\ prog[t].kind = "Callback"
    BY <1>1, PassesAreThose DEF C!Tests
  <2> QED BY <1>1, <1>2, <2>1, <2>2 DEF CovTyped
<1>4. OnItsWay
  BY <1>1, NothingSound DEF OnItsWay
<1>5. CovDeclared /\ CovReal /\ CovFull /\ CovFinal /\ EventsAreLocated
  BY <1>1, <1>2 DEF CovDeclared, CovReal, CovFull, CovFinal, EventsAreLocated
<1> QED BY <1>3, <1>4, <1>5 DEF CovInv

\* Every step of a run with coverage keeps its invariant.
LEMMA CoverageSteps ==
  ASSUME \A p \in Sources : C!IsProgram(p), CovInv, [C!Next]_(C!vars)
  PROVE  CovInv'
<1>1. C!IsProgram(prog)
  BY DEF CovInv, CovTyped
<1>2. CASE C!Discover
  BY <1>1, <1>2, DiscoverKeeps
<1>3. ASSUME NEW t, C!RunTest(t) PROVE CovInv'
  BY <1>1, <1>3, RunTestKeeps
<1>4. CASE C!Close
  BY <1>1, <1>4, CloseKeeps
<1>5. CASE C!Finish
  BY <1>1, <1>5, FinishKeeps
<1>6. CASE C!Hit
  BY <1>1, <1>6, HitKeeps
<1>7. CASE C!Mark
  BY <1>1, <1>7, MarkKeeps
<1>8. CASE C!PushFrame
  BY <1>1, <1>8, PushFrameKeeps
<1>9. CASE C!Do
  BY <1>1, <1>9, DoKeeps
<1>10. CASE C!Take
  BY <1>1, <1>10, TakeKeeps
<1>11. CASE C!Skip
  BY <1>1, <1>11, SkipKeeps
<1>12. CASE C!Call
  BY <1>1, <1>12, CallKeeps
<1>13. CASE C!Leave
  BY <1>1, <1>13, LeaveKeeps
<1>14. CASE C!Artifact
  BY <1>1, <1>14, ArtifactKeeps
<1>15. CASE C!Trace
  BY <1>1, <1>15, TraceKeeps
<1>16. CASE C!Trap
  BY <1>1, <1>16, GuestTrapKeeps
<1>17. CASE UNCHANGED C!vars
  BY <1>17, CoverageStutters
<1> QED BY <1>2, <1>3, <1>4, <1>5, <1>6, <1>7, <1>8, <1>9, <1>10, <1>11, <1>12, <1>13, <1>14, <1>15,
           <1>16, <1>17 DEF C!Next, C!Step

\* For all programs and options: the merged coverage has a point for every place that was
\* executed, and what it says is covered is what was, whatever the order of the tests and
\* wherever each of them trapped.
THEOREM CoverageStaysExact ==
  ASSUME \A p \in Sources : C!IsProgram(p)
  PROVE  C!Spec => []CoverageIsExact
<1>1. C!Init => CovInv
  BY CoverageStarts
<1>2. CovInv /\ [C!Next]_(C!vars) => CovInv'
  BY CoverageSteps
<1>3. CovInv => CoverageIsExact
  BY DEF CovInv, CovFinal, CoverageIsExact
<1> QED BY <1>1, <1>2, <1>3, PTL DEF C!Spec

\* For all programs and options: what the host is told of the source is true.
THEOREM EventsStayLocated ==
  ASSUME \A p \in Sources : C!IsProgram(p)
  PROVE  C!Spec => []EventsAreLocated
<1>1. C!Init => CovInv
  BY CoverageStarts
<1>2. CovInv /\ [C!Next]_(C!vars) => CovInv'
  BY CoverageSteps
<1>3. CovInv => EventsAreLocated
  BY DEF CovInv
<1> QED BY <1>1, <1>2, <1>3, PTL DEF C!Spec
=============================================================================
