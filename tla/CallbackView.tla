---------------------------- MODULE CallbackView ----------------------------
(***************************************************************************)
(* What the callbacks of a user see of one call of the guest, beside what  *)
(* the guest has written in it (harness/js/index.cjs, on... methods).      *)
(* HostEvents says how the one comes to the other.                         *)
(***************************************************************************)
EXTENDS SequencesExt

VARIABLES
  callbacks,   \* the kinds with a callback
  turn,        \* "idle", "running", "returned"
  seen,        \* what the callbacks of this call were given
  emitted      \* history: the events of this call

\* The events whose layout has the identifier in front of the node index, and
\* the others.
HeadedKinds == {"callbackStart", "callbackPass", "nodeFail", "callbackFail"}
PlainKinds == {"nodeFound", "nodeStart", "nodePass", "failMessage", "diagnostic", "log", "debug"}

\* The events of some kinds, in their order.
Those(es, kinds) ==
  FlattenSeq([i \in DOMAIN es |-> IF es[i].kind \in kinds THEN <<es[i]>> ELSE <<>>])

Listened(es) == Those(es, callbacks)

-----------------------------------------------------------------------------
(***************************************************************************)
(* Properties.                                                             *)
(***************************************************************************)

\* When a call has returned or trapped, the callbacks have seen every event
\* of a kind they listen to: each once, in the order the guest wrote them and
\* with every field as it wrote it, on all three hosts (events.ts and the
\* readers of index.cjs; docs/003 "Event Payload Layouts").  The events of
\* hooks and failures are the subject of the next two.
CallbacksSeeTheCall ==
  turn = "returned" => Those(seen, PlainKinds) = Those(Listened(emitted), PlainKinds)

\* A hook or failure event is given to its callback as it was written or not
\* at all: never with the index or the id of another node.  This rests on the
\* ids of node.ts, which are at least as large as the depth of their node.
HeadedEventsIntactOrLost ==
  \A i \in DOMAIN seen :
    seen[i].kind \in HeadedKinds => \E k \in DOMAIN emitted : emitted[k] = seen[i]

\* "[hook: u8] [padding: 3 bytes] [node_id: u32] [node_index_length: u32]
\* [node_index: ...u32 bytes]" (docs/003, CallbackStart, and NodeFail alike):
\* what the guest writes of a hook or a failure reaches its callback.
HookEventsArrive ==
  turn = "returned" => seen = Listened(emitted)
=============================================================================
