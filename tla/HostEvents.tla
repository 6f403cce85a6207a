----------------------------- MODULE HostEvents -----------------------------
(***************************************************************************)
(* How the events of a call reach the callbacks that were registered with  *)
(* the on... methods of a harness: while the guest runs (harness/js and    *)
(* harness/wazero), or from a list that the native harness returns with    *)
(* the result of the call (harness/wasmtime).                              *)
(***************************************************************************)
EXTENDS CallbackView, EventWire, FiniteSets

CONSTANTS
  GuestEvents,   \* the events a guest may write in a call
  Traces,        \* its trace calls: [message, n, args]
  Observed,      \* the sets of kinds a user registers for at a time
  MaxEvents,     \* bound on the events of a call
  MaxCalls       \* bound on the calls

ASSUME EventsAssumption ==
  /\ GuestEvents \subseteq Events
  /\ \A t \in Traces : t.message \in Seq(Nat) /\ t.args \in Seq(Nat) /\ Len(t.args) = 5 /\ t.n \in Int
  /\ Observed \subseteq SUBSET Kinds /\ MaxEvents \in Nat /\ MaxCalls \in Nat

VARIABLES
  host,        \* "js", "wasmtime", "wazero" (never changes)
  held,        \* wasmtime: the payloads of the call so far
  calls        \* the bounded counter

vars == <<host, callbacks, turn, held, seen, emitted, calls>>

Init ==
  /\ host \in {"js", "wasmtime", "wazero"}
  /\ callbacks = {} /\ turn = "idle"
  /\ held = <<>> /\ seen = <<>> /\ emitted = <<>> /\ calls = 0

\* onNodeFound, onNodeStart, ...: a callback replaces the one before it.
Register(kinds) ==
  /\ turn # "running"
  /\ turn' = "idle"
  /\ callbacks' = callbacks \cup kinds
  /\ UNCHANGED <<host, held, seen, emitted, calls>>

\* discover or run.
Begin ==
  /\ turn # "running" /\ calls < MaxCalls
  /\ calls' = calls + 1
  /\ turn' = "running"
  /\ held' = <<>> /\ seen' = <<>> /\ emitted' = <<>>
  /\ UNCHANGED <<host, callbacks>>

\* The wazero host refuses a node event that ends before its identifier.
WazeroDecode(kind, b) ==
  IF kind \in NodeKinds /\ HasNums(b, 0) /\ ~ HasNum(b, AfterNums(b, 0)) THEN Null
  ELSE Decode(kind, b)

\* What a payload does to the list of events the callbacks have seen.
Dispatched(given, kind, b) ==
  LET e == IF host = "wazero" THEN WazeroDecode(kind, b) ELSE Decode(kind, b)
  IN  IF kind \in callbacks /\ e # Null THEN Append(given, e) ELSE given

\* write_event: the payload is copied out of the memory of the guest.
Receive(kind, b) ==
  IF host = "wasmtime"
  THEN held' = Append(held, [kind |-> kind, payload |-> b]) /\ UNCHANGED seen
  ELSE seen' = Dispatched(seen, kind, b) /\ UNCHANGED held

Running == turn = "running" /\ Len(emitted) < MaxEvents

\* sendEvent in the guest, write_event in the host.
WriteEvent(e) ==
  /\ Running
  /\ emitted' = Append(emitted, e)
  /\ Receive(e.kind, Serialize(e))
  /\ UNCHANGED <<host, callbacks, turn, calls>>

\* clampTraceValueCount
ValueCount(n) == IF n < 0 THEN 0 ELSE IF n > 5 THEN 5 ELSE n

LogOf(t) ==
  [kind |-> "log", source |-> "trace", message |-> t.message,
   values |-> SubSeq(t.args, 1, ValueCount(t.n))]

\* The trace import: the JavaScript host calls the callback itself.
Trace(t) ==
  /\ Running
  /\ emitted' = Append(emitted, LogOf(t))
  /\ IF host = "js"
     THEN /\ seen' = IF "log" \in callbacks THEN Append(seen, LogOf(t)) ELSE seen
          /\ UNCHANGED held
     ELSE Receive("log", EncodeLog(LogOf(t)))
  /\ UNCHANGED <<host, callbacks, turn, calls>>

\* #dispatchEvents: what is held after a call is dispatched in its order.
Delivered ==
  LET given[i \in 0..Len(held)] ==
        IF i = 0 THEN seen ELSE Dispatched(given[i - 1], held[i].kind, held[i].payload)
  IN  given[Len(held)]

\* Mutant of Return: the events of a call that failed are not dispatched.
ReturnIfOk(ok) ==
  /\ turn = "running"
  /\ turn' = "returned"
  /\ seen' = IF ok THEN Delivered ELSE seen
  /\ held' = <<>>
  /\ UNCHANGED <<host, callbacks, emitted, calls>>

\* The export returns or traps (ok = FALSE).
Return(ok) ==
  /\ turn = "running"
  /\ turn' = "returned"
  /\ seen' = Delivered
  /\ held' = <<>>
  /\ UNCHANGED <<host, callbacks, emitted, calls>>

Next ==
  \/ \E kinds \in Observed : Register(kinds)
  \/ Begin
  \/ \E e \in GuestEvents : WriteEvent(e)
  \/ \E t \in Traces : Trace(t)
  \/ \E ok \in BOOLEAN : Return(ok)

Spec == Init /\ [][Next]_vars
=============================================================================
