----------------------------- MODULE EventWire -----------------------------
(***************************************************************************)
(* The payloads of the event channel: how the guest writes each event      *)
(* (assembly/internal/events.ts) and how the hosts read it back            *)
(* (harness/js/index.cjs; harness/wasmtime/index.cjs carries the same      *)
(* readers).  A payload is a sequence of bytes; offsets count from zero as *)
(* in the code.  Texts are the bytes of their UTF-8 encoding, numbers have *)
(* four bytes, the least first, and an f64 is its last byte.               *)
(***************************************************************************)
EXTENDS Naturals, Integers, Sequences, SequencesExt

NodeKinds == {"nodeStart", "nodePass"}
HookKinds == {"callbackStart", "callbackPass"}
Kinds == {"nodeFound", "nodeFail", "callbackFail", "failMessage", "diagnostic", "log", "debug"}
           \cup NodeKinds \cup HookKinds

\* The events of the guest, with their fields (events.ts).  An identifier of a
\* hook or failure event is at least as large as the depth of its node (node.ts).
Crumbs ==
  [kind : Nat, nodeKind : Nat, hookKind : Nat, nodeIndex : Seq(Nat), name : Seq(Nat),
   sourceFile : Seq(Nat), sourceLine : Nat, sourceColumn : Nat]

NodeFoundEvents ==
  [kind : {"nodeFound"}, nodeIndex : Seq(Nat), nodeId : Nat, parentNodeId : Nat,
   declarationOrder : Nat, nodeKind : Nat, declarationMode : Nat, sequenceMode : Nat,
   only : BOOLEAN, expectFailure : BOOLEAN, preferredRunnerMode : Nat,
   preferredFailurePolicy : Nat, dependencyNodeIds : Seq(Nat), name : Seq(Nat)]
NodeEvents == [kind : NodeKinds, nodeIndex : Seq(Nat), nodeId : Nat]
CallbackEvents == [kind : HookKinds, hook : Nat, nodeIndex : Seq(Nat), nodeId : Nat]
NodeFailures == [kind : {"nodeFail"}, failureKind : Nat, nodeIndex : Seq(Nat), nodeId : Nat]
CallbackFailures ==
  [kind : {"callbackFail"}, hook : Nat, failureKind : Nat, nodeIndex : Seq(Nat), nodeId : Nat]
FailMessages == [kind : {"failMessage"}, message : Seq(Nat)]
Diagnostics == [kind : {"diagnostic"}, nodeIndex : Seq(Nat), message : Seq(Nat)]
DebugEvents ==
  [kind : {"debug"}, source : {1, 2}, values : Seq(Nat), crumbs : Seq(Crumbs),
   message : Seq(Nat), locationFile : Seq(Nat), locationLine : Nat, locationColumn : Nat]

PlainEvents == NodeFoundEvents \cup NodeEvents \cup FailMessages \cup Diagnostics \cup DebugEvents
HeadedEvents ==
  {e \in CallbackEvents \cup NodeFailures \cup CallbackFailures : Len(e.nodeIndex) <= e.nodeId}
Events == PlainEvents \cup HeadedEvents

\* What a reader returns for a payload it refuses.
Null == [kind |-> "null"]

-----------------------------------------------------------------------------
(***************************************************************************)
(* The writers.                                                            *)
(***************************************************************************)

Num(v) == <<v % 256, (v \div 256) % 256, (v \div 65536) % 256, v \div 16777216>>

Nums(vs) == FlattenSeq([i \in DOMAIN vs |-> Num(vs[i])])

Float(v) == <<0, 0, 0, 0, 0, 0, 0, v>>

Bit(b) == IF b THEN 1 ELSE 0

\* A list behind its length, and a text behind its byte length.
Counted(vs) == Num(Len(vs)) \o Nums(vs)
Text(t) == Num(Len(t)) \o t

\* clampDebugLocation
Clamped(v) == Num(IF v > 0 THEN v ELSE 0)

FrameCrumb(f) ==
  <<f.kind, f.nodeKind, f.hookKind, 0>> \o Counted(f.nodeIndex)
    \o Text(f.name) \o Text(f.sourceFile) \o Clamped(f.sourceLine) \o Clamped(f.sourceColumn)

SerializeNodeFound(e) ==
  Counted(e.nodeIndex) \o Num(e.nodeId) \o Num(e.parentNodeId) \o Num(e.declarationOrder)
    \o <<e.nodeKind, e.declarationMode, e.sequenceMode, Bit(e.only), Bit(e.expectFailure),
         e.preferredRunnerMode, e.preferredFailurePolicy, 0>>
    \o Counted(e.dependencyNodeIds) \o Text(e.name)

SerializeNode(e) == Counted(e.nodeIndex) \o Num(e.nodeId)

SerializeDiagnostic(e) == Counted(e.nodeIndex) \o Text(e.message)

\* The length stands before the id here, and the index after both.
WithHead(head, e) == head \o Num(Len(e.nodeIndex)) \o Num(e.nodeId) \o Nums(e.nodeIndex)

SerializeCallback(e) == WithHead(<<e.hook, 0, 0, 0>>, e)

SerializeNodeFail(e) == WithHead(<<e.failureKind, 0, 0, 0>>, e)

SerializeCallbackFail(e) == WithHead(<<e.hook, e.failureKind, 0, 0>>, e)

SerializeDebug(e) ==
  <<e.source, 0, 0, 0>>
    \o Num(Len(e.values)) \o FlattenSeq([i \in DOMAIN e.values |-> Float(e.values[i])])
    \o Num(Len(e.crumbs)) \o FlattenSeq([i \in DOMAIN e.crumbs |-> FrameCrumb(e.crumbs[i])])
    \o Text(e.message) \o Text(e.locationFile)
    \o Clamped(e.locationLine) \o Clamped(e.locationColumn)

\* The native hosts write trace calls as events too (encode_log_payload).
EncodeLog(e) ==
  Num(Len(e.values)) \o FlattenSeq([i \in DOMAIN e.values |-> Float(e.values[i])])
    \o Text(e.message)

Serialize(e) ==
  CASE e.kind = "nodeFound" -> SerializeNodeFound(e)
    [] e.kind \in NodeKinds -> SerializeNode(e)
    [] e.kind \in HookKinds -> SerializeCallback(e)
    [] e.kind = "nodeFail" -> SerializeNodeFail(e)
    [] e.kind = "callbackFail" -> SerializeCallbackFail(e)
    [] e.kind = "failMessage" -> e.message
    [] e.kind = "diagnostic" -> SerializeDiagnostic(e)
    [] e.kind = "log" -> EncodeLog(e)
    [] e.kind = "debug" -> SerializeDebug(e)

-----------------------------------------------------------------------------
(***************************************************************************)
(* The readers.  Each has the guards of the code, in terms of what must    *)
(* fit behind an offset o of the payload b.                                *)
(***************************************************************************)

HasNum(b, o) == o + 4 <= Len(b)

NumAt(b, o) == b[o + 1] + 256 * b[o + 2] + 65536 * b[o + 3] + 16777216 * b[o + 4]

HasNums(b, o) == HasNum(b, o) /\ o + 4 + 4 * NumAt(b, o) <= Len(b)
NumsAt(b, o) == [i \in 1..NumAt(b, o) |-> NumAt(b, o + 4 * i)]
AfterNums(b, o) == o + 4 + 4 * NumAt(b, o)

HasText(b, o) == HasNum(b, o) /\ o + 4 + NumAt(b, o) <= Len(b)
TextAt(b, o) == SubSeq(b, o + 5, o + 4 + NumAt(b, o))
AfterText(b, o) == o + 4 + NumAt(b, o)

\* The identifier that follows an index is zero where it is missing.
IdAt(b, o) == IF HasNum(b, o) THEN NumAt(b, o) ELSE 0

DecodeNodeEvent(kind, b) ==
  IF ~ HasNums(b, 0) THEN Null
  ELSE [kind |-> kind, nodeIndex |-> NumsAt(b, 0), nodeId |-> IdAt(b, AfterNums(b, 0))]

DecodeNodeFoundEvent(b) ==
  LET id == AfterNums(b, 0)
      flags == id + 12
      deps == flags + 8
      name == AfterNums(b, deps)
  IN  IF \/ ~ HasNums(b, 0) \/ id + 24 > Len(b)
         \/ ~ HasNums(b, deps) \/ name + 4 > Len(b) \/ ~ HasText(b, name)
      THEN Null
      ELSE [kind |-> "nodeFound", nodeIndex |-> NumsAt(b, 0), nodeId |-> NumAt(b, id),
            parentNodeId |-> NumAt(b, id + 4), declarationOrder |-> NumAt(b, id + 8),
            nodeKind |-> b[flags + 1], declarationMode |-> b[flags + 2],
            sequenceMode |-> b[flags + 3], only |-> b[flags + 4] # 0,
            expectFailure |-> b[flags + 5] # 0, preferredRunnerMode |-> b[flags + 6],
            preferredFailurePolicy |-> b[flags + 7],
            dependencyNodeIds |-> NumsAt(b, deps), name |-> TextAt(b, name)]

\* decodeCallbackEvent, decodeNodeFailureEvent, decodeCallbackFailureEvent:
\* the identifier at offset 4, the length at offset 8.
HeadedFits(b) == Len(b) >= 12 /\ HasNums(b, 8)

\* Mutant of DecodeCallbackEvent: the index is taken to begin at the length.
DecodeCallbackAtLength(kind, b) ==
  IF Len(b) < 12 \/ ~ HasNums(b, 4) THEN Null
  ELSE [kind |-> kind, hook |-> b[1], nodeId |-> NumAt(b, 8), nodeIndex |-> NumsAt(b, 4)]

DecodeCallbackEvent(kind, b) ==
  IF ~ HeadedFits(b) THEN Null
  ELSE [kind |-> kind, hook |-> b[1], nodeId |-> NumAt(b, 4), nodeIndex |-> NumsAt(b, 8)]

DecodeNodeFailureEvent(b) ==
  IF ~ HeadedFits(b) THEN Null
  ELSE [kind |-> "nodeFail", failureKind |-> b[1], nodeId |-> NumAt(b, 4),
        nodeIndex |-> NumsAt(b, 8)]

DecodeCallbackFailureEvent(b) ==
  IF ~ HeadedFits(b) THEN Null
  ELSE [kind |-> "callbackFail", hook |-> b[1], failureKind |-> b[2],
        nodeId |-> NumAt(b, 4), nodeIndex |-> NumsAt(b, 8)]

DecodeDiagnosticEvent(b) ==
  IF ~ HasNums(b, 0) \/ ~ HasText(b, AfterNums(b, 0)) THEN Null
  ELSE [kind |-> "diagnostic", nodeIndex |-> NumsAt(b, 0),
        message |-> TextAt(b, AfterNums(b, 0))]

DecodeLogEvent(b) ==
  LET count == NumAt(b, 0)
      message == 4 + 8 * count
  IN  IF ~ HasNum(b, 0) \/ message > Len(b) \/ ~ HasText(b, message) THEN Null
      ELSE [kind |-> "log", source |-> "trace", values |-> [i \in 1..count |-> b[4 + 8 * i]],
            message |-> TextAt(b, message)]

\* decodeDebugCrumb: the crumb at offset o and the offset behind it, which is
\* -1 when it does not fit.
DecodeDebugCrumb(b, o) ==
  LET name == AfterNums(b, o + 4)
      file == AfterText(b, name)
      line == AfterText(b, file)
  IN  IF \/ o + 8 > Len(b) \/ ~ HasNums(b, o + 4) \/ ~ HasText(b, name)
         \/ ~ HasText(b, file) \/ line + 8 > Len(b)
      THEN [after |-> -1, crumb |-> Null]
      ELSE [after |-> line + 8,
            crumb |-> [kind |-> b[o + 1], nodeKind |-> b[o + 2], hookKind |-> b[o + 3],
                       nodeIndex |-> NumsAt(b, o + 4), name |-> TextAt(b, name),
                       sourceFile |-> TextAt(b, file), sourceLine |-> NumAt(b, line),
                       sourceColumn |-> NumAt(b, line + 4)]]

\* The crumbs that start behind offset o, in order.
DecodeCrumbs(b, o) ==
  LET read[i \in 0..NumAt(b, o)] ==
        IF i = 0 THEN [after |-> o + 4, crumbs |-> <<>>]
        ELSE IF read[i - 1].after < 0 THEN read[i - 1]
        ELSE LET d == DecodeDebugCrumb(b, read[i - 1].after)
             IN  [after |-> d.after, crumbs |-> Append(read[i - 1].crumbs, d.crumb)]
  IN  read[NumAt(b, o)]

DecodeDebugEvent(b) ==
  LET count == NumAt(b, 4)
      crumbs == 8 + 8 * count
      read == DecodeCrumbs(b, crumbs)
      message == read.after
      file == AfterText(b, message)
      line == AfterText(b, file)
  IN  IF \/ Len(b) < 8 \/ b[1] \notin {1, 2} \/ crumbs > Len(b) \/ ~ HasNum(b, crumbs)
         \/ read.after < 0 \/ ~ HasText(b, message) \/ ~ HasText(b, file) \/ line + 8 > Len(b)
      THEN Null
      ELSE [kind |-> "debug", source |-> b[1],
            values |-> [i \in 1..count |-> b[8 + 8 * i]], crumbs |-> read.crumbs,
            message |-> TextAt(b, message), locationFile |-> TextAt(b, file),
            locationLine |-> NumAt(b, line), locationColumn |-> NumAt(b, line + 4)]

\* decodeEvent
Decode(kind, b) ==
  CASE kind = "nodeFound" -> DecodeNodeFoundEvent(b)
    [] kind \in NodeKinds -> DecodeNodeEvent(kind, b)
    [] kind \in HookKinds -> DecodeCallbackEvent(kind, b)
    [] kind = "nodeFail" -> DecodeNodeFailureEvent(b)
    [] kind = "callbackFail" -> DecodeCallbackFailureEvent(b)
    [] kind = "failMessage" -> [kind |-> kind, message |-> b]
    [] kind = "diagnostic" -> DecodeDiagnosticEvent(b)
    [] kind = "log" -> DecodeLogEvent(b)
    [] kind = "debug" -> DecodeDebugEvent(b)
=============================================================================
