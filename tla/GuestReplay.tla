---------------------------- MODULE GuestReplay ----------------------------
(***************************************************************************)
(* The registry and the traversal of a guest instance                      *)
(* (assembly/internal/node.ts, traversal.ts, and the exports discover and  *)
(* run): a tree of durable nodes that the bodies of suites and tests       *)
(* declare when they are first needed, and the replay of those bodies on   *)
(* every later call that passes through them.                              *)
(*                                                                         *)
(* A path is a sequence of ordinals, counted from one here.  A body        *)
(* registers its hooks and its own hints first and then declares its       *)
(* children; it may trap at any point, or declare something else than it   *)
(* did before.  Hints and dependencies are one flag: what matters to       *)
(* replay is whether a node's metadata still is what its declaration said. *)
(* The shipped hosts make an instance for each call; the ABI (docs/003)    *)
(* allows any sequence of calls.                                           *)
(***************************************************************************)
EXTENDS Naturals, Sequences, FiniteSets, Functions

CONSTANTS
  Guests,      \* programs: from the path of a node to its body
  MaxFaults,   \* how many bodies misbehave in a run
  MaxCalls     \* how many calls the host makes

Modes == {"normal", "skip", "todo"}
Kinds == {"test", "suite"}

\* handle: a chained dependsOn, inBand, bail or continueOnFailure.
Declaration == [kind : Kinds, mode : Modes, only : BOOLEAN, handle : BOOLEAN]

\* mark, hint: the body calls skip() or todo(), a hint setter of its context;
\* hooks: the after hooks it registers.
IsBody(b) ==
  /\ DOMAIN b = {"decls", "mark", "hint", "hooks"}
  /\ b.decls \in Seq(Declaration) /\ b.mark \in Modes
  /\ b.hint \in BOOLEAN /\ b.hooks \in Nat

ASSUME GuestAssumption ==
  /\ \A g \in Guests : <<>> \in DOMAIN g /\ \A p \in DOMAIN g : p \in Seq(Nat) /\ IsBody(g[p])
  /\ MaxFaults \in Nat /\ MaxCalls \in Nat

VARIABLES
  guest,      \* the program (never changes)
  slots,      \* the durable nodes, by path
  nextId,     \* nextStableNodeId
  replay,     \* the nodes on the way with an active replay state
  replayed,   \* replayedNodes: those to clear at the end of the call
  call,       \* the call the host has made
  depth,      \* how much of its path is resolved
  phase,      \* "idle", "walk", "return"
  answer,     \* the answer to the last call
  faults, calls,   \* the bounded counters
  said,       \* history: what each body on the way has declared in this call
  clean,      \* history: no body misbehaved in this call
  ran,        \* history: the top-level nodes that were run before
  wayward,    \* history: the bodies that ever declared something else
  shown       \* history: the id of each path that an answer has shown

walkVars == <<replay, replayed, depth, phase, answer>>
history == <<ran, wayward, shown>>
vars == <<guest, slots, nextId, walkVars, call, faults, calls, said, clean, history>>

With(f, x, y) == [z \in DOMAIN f \cup {x} |-> IF z = x THEN y ELSE f[z]]

Quiet == [decls |-> <<>>, mark |-> "normal", hint |-> FALSE, hooks |-> 0]

Body(code) == IF code \in DOMAIN guest THEN guest[code] ELSE Quiet

NewSlot(code, id, d) ==
  [id |-> id, code |-> code, kind |-> d.kind, base |-> d.mode, mode |-> d.mode,
   only |-> d.only, hinted |-> d.handle, resolved |-> FALSE, hooks |-> 0, count |-> 0]

Under(p, q) == Len(q) > Len(p) /\ SubSeq(q, 1, Len(p)) = p

Children(S, p) == {Append(p, i) : i \in 1..S[p].count}

Refused == [ok |-> FALSE, found |-> {}, hooks |-> <<>>]

-----------------------------------------------------------------------------
(***************************************************************************)
(* What a body does when it is invoked.                                    *)
(***************************************************************************)

Performance(ds, traps) == [decls |-> ds, traps |-> traps]

\* The program's declarations; or a trap after some of them; or one fewer,
\* one more, or one of another kind.
Performances(code) ==
  LET d == Body(code).decls
      other == [kind |-> "suite", mode |-> "normal", only |-> FALSE, handle |-> FALSE]
      astray == {Append(d, other)} \cup
                IF d = <<>> THEN {}
                ELSE {SubSeq(d, 1, Len(d) - 1),
                      [d EXCEPT ![1].kind = IF @ = "test" THEN "suite" ELSE "test"]}
  IN  {Performance(d, FALSE)} \cup
        IF faults = MaxFaults THEN {}
        ELSE {Performance(SubSeq(d, 1, k), TRUE) : k \in 0..Len(d)}
               \cup {Performance(ds, FALSE) : ds \in astray}

Perform(p, o) ==
  LET ds == Body(slots[p].code).decls
      proper == o = Performance(ds, FALSE)
  IN  /\ faults' = IF proper THEN faults ELSE faults + 1
      /\ clean' = (clean /\ proper)
      /\ wayward' = IF o.traps \/ proper THEN wayward ELSE wayward \cup {slots[p].code}
      /\ said' = With(said, p, o.decls)

\* createChild on a durable node: new slots with new ids.
AddChildren(S, p, ds) ==
  LET n == S[p].count
      born == {Append(p, n + i) : i \in DOMAIN ds}
      nth(q) == q[Len(q)] - n
  IN  [q \in DOMAIN S \cup born |->
         IF q \in born THEN NewSlot(Append(S[p].code, nth(q)), nextId + nth(q) - 1, ds[nth(q)])
         ELSE IF q = p THEN [S[q] EXCEPT !.count = n + Len(ds)] ELSE S[q]]

\* A body that runs on a durable node outside of a replay leaves its mark,
\* its hint, its hooks and its children there.
OnDurable(p, ds) ==
  LET b == Body(slots[p].code)
  IN  [AddChildren(slots, p, ds) EXCEPT
         ![p].mode = IF b.mark = "normal" THEN @ ELSE b.mark,
         ![p].hinted = @ \/ b.hint,
         ![p].hooks = @ + b.hooks]

\* Mutant of ResetUnresolved: the children stay.
ResetHooksOnly(S, p) == [S EXCEPT ![p].mode = S[p].base, ![p].hooks = 0]

\* resetUnresolvedDurableState
ResetUnresolved(S, p) ==
  [q \in {q \in DOMAIN S : ~ Under(p, q)} |->
     IF q = p THEN [S[p] EXCEPT !.mode = S[p].base, !.hooks = 0, !.count = 0] ELSE S[q]]

\* Mutant of Drifted: the kind of a child is not compared.
DriftedInNumber(p, ds) ==
  \/ Len(ds) # slots[p].count
  \/ \E i \in DOMAIN ds : slots[Append(p, i)].hinted

\* hasReplayShapeDrift, of declarations that carry no hint of their own.
Drifted(p, ds) ==
  \/ Len(ds) # slots[p].count
  \/ \E i \in DOMAIN ds : LET s == slots[Append(p, i)]
                           IN  \/ s.kind # ds[i].kind \/ s.base # ds[i].mode
                               \/ s.only # ds[i].only \/ s.hinted

-----------------------------------------------------------------------------
(***************************************************************************)
(* The traversal.                                                          *)
(***************************************************************************)

Here == SubSeq(call.path, 1, depth)

\* declarationMode: of the replay, of the durable node, or of a fresh copy.
ModeOf(p) ==
  IF p \in DOMAIN replay THEN replay[p].mode
  ELSE IF Len(p) <= 1 THEN slots[p].mode ELSE slots[p].base

HooksOf(p) ==
  IF p \in DOMAIN replay THEN replay[p].hooks
  ELSE IF Len(p) <= 1 THEN slots[p].hooks ELSE 0

\* shouldPruneChildren
Pruned(p) == p # <<>> /\ ModeOf(p) = "skip"

\* isVisibleChild
Visible(S, p, i) ==
  /\ i \in 1..S[p].count
  /\ S[Append(p, i)].only \/ \A c \in Children(S, p) : ~ S[c].only

Report(p, S, mode, hinted) == [path |-> p, id |-> S[p].id, mode |-> mode, hinted |-> hinted]

\* emitDiscoveredNode for the children of p.
ReportChildren(S, p) ==
  {Report(c, S, IF p = <<>> THEN S[c].mode ELSE S[c].base, S[c].hinted) :
     c \in {Append(p, i) : i \in {j \in 1..S[p].count : Visible(S, p, j)}}}

Answer(a) ==
  /\ answer' = a
  /\ phase' = "return"

\* Once the children of this node are known: the next ordinal of the path,
\* or for discover the answer.
Continue(S, self) ==
  IF depth < Len(call.path)
  THEN IF Visible(S, Here, call.path[depth + 1])
       THEN depth' = depth + 1 /\ UNCHANGED <<phase, answer>>
       ELSE Answer(Refused) /\ UNCHANGED depth
  ELSE /\ Answer([ok |-> TRUE, found |-> self \cup ReportChildren(S, Here), hooks |-> <<>>])
       /\ UNCHANGED depth

\* The root is never replayed: its children are declared as the module starts.
Init ==
  /\ guest \in Guests
  /\ LET root == [NewSlot(<<>>, 0, [kind |-> "suite", mode |-> "normal", only |-> FALSE,
                                    handle |-> FALSE])
                  EXCEPT !.resolved = TRUE, !.hooks = guest[<<>>].hooks,
                         !.count = Len(guest[<<>>].decls)]
         ds == guest[<<>>].decls
     IN  /\ slots = [p \in {<<>>} \cup {<<i>> : i \in DOMAIN ds} |->
                        IF p = <<>> THEN root ELSE NewSlot(p, p[1], ds[p[1]])]
         /\ nextId = Len(ds) + 1
  /\ replay = <<>>
  /\ replayed = <<>>
  /\ call = [op |-> "none", path |-> <<>>]
  /\ depth = 0
  /\ phase = "idle"
  /\ answer = Refused
  /\ faults = 0 /\ calls = 0
  /\ said = <<>> /\ clean = TRUE
  /\ ran = {} /\ wayward = {} /\ shown = <<>>

\* The host stages a path and calls an export.
HostCall(op, path) ==
  /\ phase = "idle" /\ calls < MaxCalls
  /\ calls' = calls + 1
  /\ call' = [op |-> op, path |-> path]
  /\ phase' = "walk" /\ depth' = 0 /\ replayed' = <<>>
  /\ clean' = TRUE /\ said' = <<>>
  /\ UNCHANGED <<guest, slots, nextId, replay, answer, faults, history>>

\* The walk is at a node whose children it needs.
NeedsChildren == phase = "walk" /\ (depth < Len(call.path) \/ call.op = "discover")

EnterRoot ==
  /\ NeedsChildren /\ depth = 0
  /\ Continue(slots, {})
  /\ UNCHANGED <<guest, slots, nextId, replay, replayed, call, faults, calls, said, clean,
                 history>>

\* Nothing below a skipped node is found, and its body is not called.
StopAtSkipped ==
  /\ NeedsChildren /\ Pruned(Here)
  /\ IF depth < Len(call.path) THEN Answer(Refused)
     ELSE Answer([ok |-> TRUE, hooks |-> <<>>,
                  found |-> {Report(Here, slots, ModeOf(Here), slots[Here].hinted)}])
  /\ UNCHANGED <<guest, slots, nextId, replay, replayed, depth, call, faults, calls, said,
                 clean, history>>

Activate(p, state) ==
  /\ replay' = With(replay, p, state)
  /\ replayed' = Append(replayed, p)

\* rediscoverChildren of a node whose children were never resolved: the body
\* runs on the durable node, whose children and hooks the replay copies.
ResolveFirst(o) ==
  /\ NeedsChildren /\ depth > 0 /\ ~ Pruned(Here) /\ ~ slots[Here].resolved
  /\ Perform(Here, o)
  /\ nextId' = nextId + Len(o.decls)
  /\ LET p == Here
         S == OnDurable(p, o.decls)
         hinted == IF depth = 1 THEN S[p].hinted ELSE slots[p].hinted
     IN  IF o.traps
         THEN /\ slots' = ResetUnresolved(S, p)
              /\ Answer(Refused)
              /\ UNCHANGED <<replay, replayed, depth>>
         ELSE /\ slots' = [S EXCEPT ![p].resolved = TRUE]
              /\ Activate(p, [mode |-> S[p].base, hooks |-> S[p].hooks])
              /\ Continue(S, {Report(p, S, S[p].base, hinted)})
  /\ UNCHANGED <<guest, call, calls, ran, shown>>

\* Handles reach through a replayed child to its slot.
HandleHints(p, ds) ==
  [q \in DOMAIN slots |->
     [slots[q] EXCEPT !.hinted =
        \/ @
        \/ \E i \in DOMAIN ds : q = Append(p, i) /\ ds[i].handle
        \/ q = p /\ depth = 1 /\ Body(slots[p].code).hint]]

\* Mutant of GiveUp: the replay state of the node is left behind.
GiveUpInReplay(p, state, S) ==
  /\ Answer(Refused)
  /\ slots' = S
  /\ replay' = With(replay, p, state)
  /\ UNCHANGED <<replayed, depth>>

\* Mutant of GiveUp: the children are discarded, to be declared anew.
GiveUpDiscarding(p, state, S) ==
  /\ Answer(Refused)
  /\ slots' = [ResetUnresolved(S, p) EXCEPT ![p].resolved = FALSE]
  /\ UNCHANGED <<replay, replayed, depth>>

\* After a trap or a drift: the replay state of the node ends, and the call.
GiveUp(p, state, S) ==
  /\ Answer(Refused)
  /\ slots' = S
  /\ UNCHANGED <<replay, replayed, depth>>

\* rediscoverChildren of a resolved node: the body runs in replay state, and
\* each declaration is taken for the slot of the same position.
Replay(o) ==
  /\ NeedsChildren /\ depth > 0 /\ ~ Pruned(Here) /\ slots[Here].resolved
  /\ Perform(Here, o)
  /\ LET p == Here
         b == Body(slots[p].code)
         S == HandleHints(p, o.decls)
         state == [mode |-> IF b.mark = "normal" THEN slots[p].base ELSE b.mark,
                   hooks |-> b.hooks]
     IN  /\ nextId' = nextId + Cardinality({i \in DOMAIN o.decls : i > slots[p].count})
         /\ IF o.traps \/ Drifted(p, o.decls)
            THEN GiveUp(p, state, S)
            ELSE /\ slots' = S
                 /\ Activate(p, state)
                 /\ Continue(S, {Report(p, slots, state.mode, slots[p].hinted \/ b.hint)})
  /\ UNCHANGED <<guest, call, calls, ran, shown>>

AtTarget == phase = "walk" /\ call.op = "run" /\ depth = Len(call.path)

\* executeNode does nothing with a node that is not normal.
RunSuppressed ==
  /\ AtTarget /\ depth > 0 /\ ModeOf(Here) # "normal"
  /\ Answer([ok |-> TRUE, found |-> {}, hooks |-> <<>>])
  /\ UNCHANGED <<guest, slots, nextId, replay, replayed, depth, call, faults, calls, said,
                 clean, history>>

\* executeNode of the root: it has no body, only hooks.
RunRoot ==
  /\ AtTarget /\ depth = 0
  /\ Answer([ok |-> TRUE, found |-> {}, hooks |-> <<HooksOf(<<>>)>>])
  /\ UNCHANGED <<guest, slots, nextId, replay, replayed, depth, call, faults, calls, said,
                 clean, history>>

\* A body that runs on the copy of a node declares nothing there that lasts,
\* but its hints reach the durable node.
OnCopy(p) == [slots EXCEPT ![p].hinted = @ \/ Body(slots[p].code).hint]

\* executeNode: the body runs once more, now for its assertions.  On a
\* top-level node, which is durable and not in replay, it declares its
\* children and hooks again.  The hooks of the whole chain run after it.
RunTarget(o) ==
  /\ AtTarget /\ depth > 0 /\ ModeOf(Here) = "normal"
  /\ Perform(Here, o)
  /\ nextId' = nextId + Len(o.decls)
  /\ LET p == Here
         S == IF depth = 1 THEN OnDurable(p, o.decls) ELSE OnCopy(p)
         own == IF depth = 1 THEN S[p].hooks ELSE Body(slots[p].code).hooks
     IN  /\ slots' = S
         /\ IF o.traps THEN Answer(Refused)
            ELSE Answer([ok |-> TRUE, found |-> {},
                         hooks |-> [k \in 1..depth |-> HooksOf(SubSeq(p, 1, k - 1))] \o <<own>>])
  /\ UNCHANGED <<guest, replay, replayed, depth, call, calls, ran, shown>>

\* clearTraversalReplayNodes; copies that were made for the call are garbage.
Return ==
  /\ phase = "return"
  /\ phase' = "idle"
  /\ replay' = [p \in {q \in DOMAIN replay : Len(q) = 1 /\ q \notin Range(replayed)} |-> replay[p]]
  /\ shown' = [p \in DOMAIN shown \cup {r.path : r \in answer.found} |->
                 IF p \in DOMAIN shown THEN shown[p]
                 ELSE (CHOOSE r \in answer.found : r.path = p).id]
  /\ ran' = IF call.op = "run" /\ Len(call.path) = 1 THEN ran \cup {call.path} ELSE ran
  /\ UNCHANGED <<guest, slots, nextId, replayed, depth, answer, call, faults, calls, said,
                 clean, wayward>>

\* Paths of the program, and one that leads nowhere.
CallPaths == DOMAIN guest \cup {<<9>>}

Next ==
  \/ \E op \in {"discover", "run"}, p \in CallPaths : HostCall(op, p)
  \/ EnterRoot
  \/ StopAtSkipped
  \/ phase = "walk" /\ \E o \in Performances(slots[Here].code) :
       \/ ResolveFirst(o)
       \/ Replay(o)
       \/ RunTarget(o)
  \/ RunSuppressed
  \/ RunRoot
  \/ Return

Spec == Init /\ [][Next]_vars

-----------------------------------------------------------------------------
(***************************************************************************)
(* Properties.                                                             *)
(***************************************************************************)

\* No node keeps an active replay state when the call has returned, whether
\* it was answered, refused, trapped or drifted (traversal.ts
\* clearTraversalReplayNodes and the clears on the error paths of
\* resolveTraversalChildren): the next body would declare into the copy.
ReplayStateEndsWithCall == phase = "idle" => replay = <<>>

\* A path that an answer shows again has the stable id it was shown with
\* before (node.ts createReplayChildFromSlotSource), whatever traps and
\* drifts came between.
StableIdentity ==
  phase = "return" =>
    \A r \in answer.found : r.path \in DOMAIN shown => r.id = shown[r.path]

RanBefore(p) == p # <<>> /\ <<p[1]>> \in ran

\* The run of a top-level node whose body had already declared its hooks there.
RunOfResolved ==
  call.op = "run" /\ call.path \in {p \in DOMAIN slots : Len(p) = 1 /\ slots[p].resolved}

\* A call is only answered from bodies that declared, in this call, what the
\* durable nodes say (traversal.ts resolveTraversalChildren and node.ts
\* hasReplayShapeDrift).  What a run appends to a top-level node is let pass.
AnswersMatchSlots ==
  (phase = "return" /\ answer.ok) =>
    \A p \in DOMAIN said :
      \/ call = [op |-> "run", path |-> p] \/ RanBefore(p)
      \/ /\ Len(said[p]) = slots[p].count
         /\ \A i \in DOMAIN said[p] :
              LET s == slots[Append(p, i)]
                  d == said[p][i]
              IN  s.kind = d.kind /\ s.base = d.mode /\ s.only = d.only

\* The program as it is written, with no registry behind it.
Written(p) == Body(SubSeq(p, 1, Len(p) - 1)).decls[p[Len(p)]]

Siblings(p) == Body(SubSeq(p, 1, Len(p) - 1)).decls

Reachable(p) ==
  \A k \in 1..Len(p) :
    LET q == SubSeq(p, 1, k)
    IN  /\ q[k] \in DOMAIN Siblings(q)
        /\ Written(q).only \/ \A i \in DOMAIN Siblings(q) : ~ Siblings(q)[i].only
        /\ k < Len(p) => Written(q).mode # "skip"

Plain(p) == [path |-> p, mode |-> Written(p).mode, hinted |-> Written(p).handle]

\* What an instance that was never called before answers.
Fresh(c) ==
  LET p == c.path
      skipped == p # <<>> /\ Written(p).mode = "skip"
      below == {Append(p, i) : i \in DOMAIN Body(p).decls}
  IN  IF ~ Reachable(p) THEN Refused
      ELSE IF c.op = "discover"
      THEN [ok |-> TRUE, hooks |-> <<>>,
            found |-> {Plain(q) : q \in {p} \ {<<>>}}
                        \cup IF skipped THEN {} ELSE {Plain(q) : q \in {b \in below : Reachable(b)}}]
      ELSE [ok |-> TRUE, found |-> {},
            hooks |-> IF p # <<>> /\ Written(p).mode # "normal" THEN <<>>
                      ELSE [k \in 1..(Len(p) + 1) |-> Body(SubSeq(p, 1, k - 1)).hooks]]

WithoutIds(a) ==
  [a EXCEPT !.found = {[path |-> r.path, mode |-> r.mode, hinted |-> r.hinted] : r \in @}]

\* A body that marks itself, or hints by its context.
SelfMarked(p) == Body(p).mark # "normal" \/ Body(p).hint

\* A body that does, or whose own or children's hints are not part of what its
\* declarations say.
Undeclared(p) ==
  \/ SelfMarked(p)
  \/ \E i \in DOMAIN Body(p).decls : Body(p).decls[i].handle \/ Body(Append(p, i)).hint

Prefixes(p) == {SubSeq(p, 1, k) : k \in 1..Len(p)}

\* A call in which every body behaves is answered as if it were the first of
\* its instance (docs/003: a structural replay attempt, not a traversal
\* session), although bodies trapped in the calls before, or drifted off its
\* path, for all programs that set hints and marks in declarations only, and as
\* long as no top-level node's body declares in a run what it declared before.  docs/006:178
\* promises the same of every program; a suite that hints on a handle of a
\* child is refused in its second discovery (matchesDeclarationShape), and a
\* top-level body that marks itself changes what the root's next one reports.
RepeatedCallsAgree ==
  (phase = "return" /\ clean) =>
    \/ RanBefore(call.path) \/ RunOfResolved
    \/ \E q \in Prefixes(call.path) : q \in wayward \/ Undeclared(q)
    \/ call.path = <<>> /\ \E i \in DOMAIN Siblings(<<1>>) : SelfMarked(<<i>>)
    \/ WithoutIds(answer) = Fresh(call)

=============================================================================
