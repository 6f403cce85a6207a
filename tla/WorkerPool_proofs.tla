------------------------- MODULE WorkerPool_proofs -------------------------
(***************************************************************************)
(* Safety proofs of WorkerPool, for every number of tasks, workers and     *)
(* in-band targets and every set of faults: no task is lost or handled     *)
(* twice while the pool is open (EachTaskInOnePlace), and a batch is what  *)
(* the scheduler takes it for (the implementation of BatchRun).            *)
(***************************************************************************)
EXTENDS WorkerPool, FiniteSetTheorems, SequenceTheorems, TLAPS

Replies == {TaskResult(k) : k \in Tasks} \cup {TaskError}

\* What can be on the way from a worker: a reply, the error event, or the one
\* before the other.
OnTheWay == {<<>>, <<ErrorEvent>>} \cup {<<m>> : m \in Replies}
              \cup {<<m, ErrorEvent>> : m \in Replies}

PoolTypes ==
  /\ inbox \in [Workers -> {<<>>} \cup {<<k>> : k \in Tasks}]
  /\ thread \in [Workers -> {"loading", "idle", "busy", "dead", "gone"}]
  /\ task \in [Workers -> Tasks \cup {NoTask}]
  /\ outbox \in [Workers -> OnTheWay]
  /\ nextTask \in (WorkerCount + 1)..(TaskCount + 1)
  /\ completed \in Nat
  /\ results \in [Tasks -> Tasks \cup {NoTask}]
  /\ pool \in {"pending", "terminating", "resolved", "rejected"}
  /\ failed \in BOOLEAN
  /\ lane \in 0..LaneCount
  /\ batch \in {"running", "resolved", "rejected"}

\* A reply of w has not been handled yet.
Replied(w) == outbox[w] \in {<<m>> : m \in Replies} \cup {<<m, ErrorEvent>> : m \in Replies}

\* One thing at a time: a worker has a task posted, works on one or has
\* answered one; only a dead worker has reported its own error.
Shape(w) ==
  /\ Replied(w) => inbox[w] = <<>> /\ task[w] = NoTask
  /\ task[w] # NoTask => inbox[w] = <<>>
  /\ thread[w] \in {"loading", "idle"} => task[w] = NoTask
  /\ thread[w] = "busy" => task[w] # NoTask
  /\ Alive(w) => outbox[w] \in {<<>>} \cup {<<m>> : m \in Replies}

\* The count of completed tasks is that of the received results, and how the
\* pool settles says whether they are all there.
Settlement ==
  /\ completed = Cardinality(Received)
  /\ pool = "pending" => completed < TaskCount /\ ~ failed
  /\ pool # "pending" => (failed <=> Received # Tasks)
  /\ pool = "resolved" => ~ failed
  /\ pool = "rejected" => failed

PoolInv ==
  /\ PoolTypes
  /\ \A w \in Workers : Shape(w)
  /\ Settlement
  /\ EachTaskInOnePlace

-----------------------------------------------------------------------------
(***************************************************************************)
(* The short sequences of an inbox and of an outbox.                       *)
(***************************************************************************)

TasksIn(events) == {events[i].task : i \in DOMAIN events} \ {NoTask}

LEMMA ReplyFacts ==
  /\ NoTask \notin Tasks
  /\ \A m \in Replies : /\ m # ErrorEvent
                        /\ m = TaskError \/ \E k \in Tasks : m = TaskResult(k)
                        /\ m.type = "taskResult" => m.task \in Tasks /\ m = TaskResult(m.task)
                        /\ m.type # "taskResult" => m = TaskError
  /\ TaskError \in Replies
  /\ \A k \in Tasks : /\ TaskResult(k) \in Replies /\ TaskResult(k).task = k
                      /\ TaskResult(k).type = "taskResult"
  /\ TaskError.task = NoTask /\ ErrorEvent.task = NoTask
  /\ TaskError.type # "taskResult" /\ ErrorEvent.type # "taskResult"
<1>1. NoTask \notin Tasks
  BY DEF NoTask, Tasks
<1> QED BY <1>1 DEF Replies, TaskResult, TaskError, ErrorEvent

LEMMA ShortSequences ==
  ASSUME NEW a, NEW b
  PROVE  /\ DOMAIN <<a>> = {1} /\ <<a>>[1] = a /\ <<a>> # <<>>
         /\ Head(<<a>>) = a /\ Tail(<<a>>) = <<>> /\ Append(<<>>, a) = <<a>>
         /\ DOMAIN <<a, b>> = {1, 2} /\ <<a, b>>[1] = a /\ <<a, b>>[2] = b
         /\ <<a, b>> # <<>> /\ Head(<<a, b>>) = a /\ Tail(<<a, b>>) = <<b>>
         /\ Append(<<a>>, b) = <<a, b>>
<1>1. DOMAIN <<a>> = {1} /\ <<a>>[1] = a /\ <<a>> # <<>>
  OBVIOUS
<1>2. DOMAIN <<a, b>> = {1, 2} /\ <<a, b>>[1] = a /\ <<a, b>>[2] = b /\ <<a, b>> # <<>>
  OBVIOUS
<1>3. Head(<<a>>) = a /\ Head(<<a, b>>) = a
  OBVIOUS
<1>4. Tail(<<a>>) = <<>>
  OBVIOUS
<1>5. Tail(<<a, b>>) = <<b>>
  OBVIOUS
<1>6. Append(<<>>, a) = <<a>>
  OBVIOUS
<1>7. Append(<<a>>, b) = <<a, b>>
  <2> DEFINE longer == Append(<<a>>, b)
  <2>1. <<a>> \in Seq({a, b}) /\ Len(<<a>>) = 1
    OBVIOUS
  <2>2. /\ longer \in Seq({a, b}) /\ Len(longer) = 2
        /\ longer[1] = a /\ longer[2] = b
    BY <1>1, <2>1, AppendProperties
  <2> HIDE DEF longer
  <2>3. <<a, b>> \in Seq({a, b}) /\ Len(<<a, b>>) = 2
    OBVIOUS
  <2>4. \A i \in 1..2 : longer[i] = <<a, b>>[i]
    BY <1>2, <2>2
  <2>5. longer = <<a, b>>
    BY <2>2, <2>3, <2>4, SeqEqual
  <2> QED BY <2>5 DEF longer
<1> QED BY <1>1, <1>2, <1>3, <1>4, <1>5, <1>6, <1>7

LEMMA TasksOnTheWay ==
  /\ TasksIn(<<>>) = {} /\ TasksIn(<<ErrorEvent>>) = {}
  /\ \A m \in Replies : /\ TasksIn(<<m>>) = {m.task} \ {NoTask}
                        /\ TasksIn(<<m, ErrorEvent>>) = {m.task} \ {NoTask}
<1>1. TasksIn(<<>>) = {}
  BY DEF TasksIn
<1>2. TasksIn(<<ErrorEvent>>) = {}
  BY ReplyFacts, ShortSequences DEF TasksIn
<1>3. ASSUME NEW m \in Replies PROVE /\ TasksIn(<<m>>) = {m.task} \ {NoTask}
                                     /\ TasksIn(<<m, ErrorEvent>>) = {m.task} \ {NoTask}
  <2>1. TasksIn(<<m>>) = {m.task} \ {NoTask}
    BY ShortSequences DEF TasksIn
  <2>2. TasksIn(<<m, ErrorEvent>>) = {m.task, ErrorEvent.task} \ {NoTask}
    BY ShortSequences DEF TasksIn
  <2> QED BY <2>1, <2>2, ReplyFacts
<1> QED BY <1>1, <1>2, <1>3

-----------------------------------------------------------------------------
(***************************************************************************)
(* A worker moves.                                                         *)
(***************************************************************************)

\* What a worker holds with the inbox q, the task t and the outbox o.
Holding(q, t, o) == {q[i] : i \in DOMAIN q} \cup ({t} \ {NoTask}) \cup TasksIn(o)

LEMMA WithIsHolding ==
  /\ \A w \in Workers : With(w) = Holding(inbox[w], task[w], outbox[w])
  /\ \A w \in Workers : With(w)' = Holding(inbox'[w], task'[w], outbox'[w])
<1> QED BY DEF With, Holding, Queued, Working, Reported, TasksIn

\* The worker w moves and gets no new task, the others keep what they have: a
\* task that it drops while the pool is open leaves a report of its failure.
LEMMA OneWorkerMoves ==
  ASSUME PoolInv, NEW w \in Workers, Shape(w)',
         UNCHANGED <<results, nextTask>>,
         \A v \in Workers \ {w} : /\ inbox'[v] = inbox[v] /\ task'[v] = task[v]
                                  /\ outbox'[v] = outbox[v] /\ thread'[v] = thread[v],
         Holding(inbox'[w], task'[w], outbox'[w]) \subseteq Holding(inbox[w], task[w], outbox[w]),
         pool' = "pending" =>
           /\ pool = "pending"
           /\ TaskError \in {outbox[w][i] : i \in DOMAIN outbox[w]}
                => TaskError \in {outbox'[w][i] : i \in DOMAIN outbox'[w]}
           /\ \/ Holding(inbox'[w], task'[w], outbox'[w]) = Holding(inbox[w], task[w], outbox[w])
              \/ TaskError \in {outbox'[w][i] : i \in DOMAIN outbox'[w]}
  PROVE  /\ \A v \in Workers : Shape(v)'
         /\ EachTaskInOnePlace'
<1>1. ASSUME NEW v \in Workers PROVE Shape(v)'
  <2>1. CASE v = w
    BY <2>1
  <2>2. CASE v # w
    <3>1. Shape(v)
      BY DEF PoolInv
    <3> QED BY <2>2, <3>1 DEF Shape, Replied, Alive
  <2> QED BY <2>1, <2>2
<1>2. \A v \in Workers \ {w} : With(v)' = With(v)
  BY WithIsHolding
<1>3. With(w)' \subseteq With(w)
  BY WithIsHolding
<1>4. Received' = Received /\ (nextTask..TaskCount)' = nextTask..TaskCount
  BY DEF Received
<1>5. /\ (\A v \in Workers : With(v) \cap (Received \cup nextTask..TaskCount) = {})'
      /\ (Received \cap nextTask..TaskCount = {})'
  <2>1. /\ \A v \in Workers : With(v) \cap (Received \cup nextTask..TaskCount) = {}
        /\ Received \cap nextTask..TaskCount = {}
    BY DEF PoolInv, EachTaskInOnePlace
  <2>2. \A v \in Workers : With(v)' \subseteq With(v)
    BY <1>2, <1>3
  <2> QED BY <1>4, <2>1, <2>2
<1>6. (\A v, u \in Workers : v # u => With(v) \cap With(u) = {})'
  <2>1. \A v, u \in Workers : v # u => With(v) \cap With(u) = {}
    BY DEF PoolInv, EachTaskInOnePlace
  <2>2. \A v \in Workers : With(v)' \subseteq With(v)
    BY <1>2, <1>3
  <2> QED BY <2>1, <2>2
<1>7. ASSUME pool' = "pending"
      PROVE  (\/ Tasks = (nextTask..TaskCount) \cup Received \cup UNION {With(v) : v \in Workers}
              \/ \E v \in Workers : TaskError \in {outbox[v][i] : i \in DOMAIN outbox[v]})'
  <2>1. CASE TaskError \in {outbox'[w][i] : i \in DOMAIN outbox'[w]}
    BY <2>1
  <2>2. CASE TaskError \notin {outbox'[w][i] : i \in DOMAIN outbox'[w]}
    <3>1. With(w)' = With(w) /\ TaskError \notin {outbox[w][i] : i \in DOMAIN outbox[w]}
      BY <1>7, <2>2, WithIsHolding
    <3>2. \A v \in Workers : With(v)' = With(v)
      BY <1>2, <3>1
    <3>3. CASE \E v \in Workers : TaskError \in {outbox[v][i] : i \in DOMAIN outbox[v]}
      <4>1. PICK v \in Workers : TaskError \in {outbox[v][i] : i \in DOMAIN outbox[v]}
        BY <3>3
      <4>2. v # w
        BY <3>1, <4>1
      <4> QED BY <4>1, <4>2
    <3>4. CASE Tasks = (nextTask..TaskCount) \cup Received \cup UNION {With(v) : v \in Workers}
      <4>1. (UNION {With(v) : v \in Workers})' = UNION {With(v) : v \in Workers}
        BY <3>2
      <4> QED BY <1>4, <3>4, <4>1
    <3> QED BY <1>7, <3>3, <3>4 DEF PoolInv, EachTaskInOnePlace
  <2> QED BY <2>1, <2>2
<1> QED BY <1>1, <1>5, <1>6, <1>7 DEF EachTaskInOnePlace

LEMMA InitInv == Init => PoolInv
<1> SUFFICES ASSUME Init PROVE PoolInv
  OBVIOUS
<1> USE DEF Init
<1>1. /\ TaskCount \in Nat /\ WorkerCount \in Nat /\ WorkerCount <= TaskCount /\ WorkerCount >= 1
      /\ TaskCount >= 1 /\ LaneCount \in Nat /\ Workers \subseteq Tasks /\ NoTask \notin Tasks
  BY PoolAssumption, ReplyFacts DEF Workers, Tasks
<1>2. PoolTypes
  <2>1. inbox \in [Workers -> {<<>>} \cup {<<k>> : k \in Tasks}]
    BY <1>1
  <2>2. outbox \in [Workers -> OnTheWay]
    BY DEF OnTheWay
  <2>3. nextTask \in (WorkerCount + 1)..(TaskCount + 1) /\ lane \in 0..LaneCount
    BY <1>1
  <2> QED BY <2>1, <2>2, <2>3 DEF PoolTypes
<1>3. \A w \in Workers : Shape(w)
  <2>1. \A w \in Workers : ~ Replied(w)
    BY ShortSequences DEF Replied
  <2> QED BY <2>1 DEF Shape
<1>4. Received = {}
  BY DEF Received
<1>5. Settlement
  BY <1>1, <1>4, FS_EmptySet DEF Settlement
<1>6. ASSUME NEW w \in Workers PROVE With(w) = {w}
  <2>1. Holding(<<w>>, NoTask, <<>>) = {w}
    BY ShortSequences, TasksOnTheWay DEF Holding
  <2> QED BY <2>1, WithIsHolding
<1>7. EachTaskInOnePlace
  <2>1. \A w \in Workers : With(w) \cap (Received \cup nextTask..TaskCount) = {}
    BY <1>1, <1>4, <1>6 DEF Workers
  <2>2. \A v, w \in Workers : v # w => With(v) \cap With(w) = {}
    BY <1>6
  <2>3. UNION {With(w) : w \in Workers} = Workers
    BY <1>6
  <2>4. Tasks = (nextTask..TaskCount) \cup Received \cup UNION {With(w) : w \in Workers}
    BY <1>1, <1>4, <2>3 DEF Workers, Tasks
  <2> QED BY <1>4, <2>1, <2>2, <2>4 DEF EachTaskInOnePlace
<1> QED BY <1>2, <1>3, <1>5, <1>7 DEF PoolInv

\* The steps that leave the main thread alone.
LEMMA LoadInv ==
  ASSUME PoolInv, NEW w \in Workers, Load(w)
  PROVE  PoolInv'
<1> USE DEF Load, workerVars, poolVars
<1>1. PoolTypes'
  BY DEF PoolInv, PoolTypes
<1>2. Shape(w)'
  BY DEF PoolInv, PoolTypes, Shape, Replied, Alive
<1>3. Settlement'
  BY DEF PoolInv, Settlement, Received
<1>4. \A v \in Workers \ {w} : thread'[v] = thread[v]
  BY DEF PoolInv, PoolTypes
<1>5. (\A v \in Workers : Shape(v)') /\ EachTaskInOnePlace'
  BY <1>2, <1>4, OneWorkerMoves
<1> QED BY <1>1, <1>3, <1>5 DEF PoolInv

LEMMA TakeTaskInv ==
  ASSUME PoolInv, NEW w \in Workers, TakeTask(w)
  PROVE  PoolInv'
<1> USE DEF TakeTask, workerVars, poolVars
<1>1. PICK k \in Tasks : inbox[w] = <<k>>
  BY DEF PoolInv, PoolTypes
<1>2. /\ inbox'[w] = <<>> /\ task'[w] = k /\ thread'[w] = "busy" /\ outbox'[w] = outbox[w]
      /\ task[w] = NoTask /\ k # NoTask
  BY <1>1, ShortSequences, ReplyFacts DEF PoolInv, PoolTypes, Shape
<1>3. PoolTypes'
  BY <1>1, ShortSequences DEF PoolInv, PoolTypes
<1>4. Shape(w)'
  <2>1. ~ Replied(w)
    BY <1>1, ShortSequences DEF PoolInv, Shape
  <2>2. outbox[w] \in {<<>>} \cup {<<m>> : m \in Replies}
    BY DEF PoolInv, Shape, Alive
  <2> QED BY <1>2, <2>1, <2>2 DEF Shape, Replied, Alive
<1>5. Settlement'
  BY DEF PoolInv, Settlement, Received
<1>6. \A v \in Workers \ {w} : thread'[v] = thread[v] /\ inbox'[v] = inbox[v] /\ task'[v] = task[v]
  BY DEF PoolInv, PoolTypes
<1>7. Holding(inbox'[w], task'[w], outbox'[w]) = Holding(inbox[w], task[w], outbox[w])
  <2>1. {inbox[w][i] : i \in DOMAIN inbox[w]} = {k}
    BY <1>1, ShortSequences
  <2>2. {inbox'[w][i] : i \in DOMAIN inbox'[w]} = {}
    BY <1>2
  <2> QED BY <1>2, <2>1, <2>2 DEF Holding
<1>8. (\A v \in Workers : Shape(v)') /\ EachTaskInOnePlace'
  BY <1>4, <1>6, <1>7, OneWorkerMoves
<1> QED BY <1>3, <1>5, <1>8 DEF PoolInv

LEMMA ReplyInv ==
  ASSUME PoolInv, NEW w \in Workers, Reply(w)
  PROVE  PoolInv'
<1> USE DEF Reply, Post, workerVars, poolVars
<1>1. task[w] \in Tasks /\ inbox[w] = <<>> /\ outbox[w] = <<>>
  BY DEF PoolInv, PoolTypes, Shape, Replied, Alive
<1>2. PICK m \in Replies : /\ outbox' = [outbox EXCEPT ![w] = <<m>>]
                           /\ m = TaskResult(task[w]) \/ m = TaskError
  BY <1>1, ReplyFacts, ShortSequences DEF PoolInv, PoolTypes
<1>3. /\ inbox'[w] = <<>> /\ task'[w] = NoTask /\ thread'[w] = "idle" /\ outbox'[w] = <<m>>
  BY <1>1, <1>2 DEF PoolInv, PoolTypes
<1>4. PoolTypes'
  BY <1>2 DEF PoolInv, PoolTypes, OnTheWay
<1>5. Shape(w)'
  BY <1>3 DEF Shape, Replied, Alive
<1>6. Settlement'
  BY DEF PoolInv, Settlement, Received
<1>7. \A v \in Workers \ {w} : /\ thread'[v] = thread[v] /\ inbox'[v] = inbox[v]
                               /\ task'[v] = task[v] /\ outbox'[v] = outbox[v]
  BY <1>2 DEF PoolInv, PoolTypes
<1>8. Holding(inbox[w], task[w], outbox[w]) = {task[w]}
  BY <1>1, ReplyFacts, TasksOnTheWay DEF Holding
<1>9. Holding(inbox'[w], task'[w], outbox'[w]) = {m.task} \ {NoTask}
  <2>1. {inbox'[w][i] : i \in DOMAIN inbox'[w]} = {} /\ {task'[w]} \ {NoTask} = {}
    BY <1>3
  <2>2. TasksIn(outbox'[w]) = {m.task} \ {NoTask}
    BY <1>3, TasksOnTheWay
  <2> QED BY <2>1, <2>2 DEF Holding
<1>10. outbox[w] = <<>> /\ TaskError \notin {outbox[w][i] : i \in DOMAIN outbox[w]}
  BY <1>1
<1>11. CASE m = TaskResult(task[w])
  <2>1. Holding(inbox'[w], task'[w], outbox'[w]) = Holding(inbox[w], task[w], outbox[w])
    <3>1. m.task = task[w] /\ task[w] # NoTask
      BY <1>1, <1>11, ReplyFacts
    <3> QED BY <1>8, <1>9, <3>1
  <2>2. (\A v \in Workers : Shape(v)') /\ EachTaskInOnePlace'
    BY <1>5, <1>7, <1>10, <2>1, OneWorkerMoves
  <2> QED BY <1>4, <1>6, <2>2 DEF PoolInv
<1>12. CASE m = TaskError
  <2>1. Holding(inbox'[w], task'[w], outbox'[w]) \subseteq Holding(inbox[w], task[w], outbox[w])
    BY <1>8, <1>9, <1>12, ReplyFacts
  <2>2. TaskError \in {outbox'[w][i] : i \in DOMAIN outbox'[w]}
    BY <1>3, <1>12, ShortSequences
  <2>3. (\A v \in Workers : Shape(v)') /\ EachTaskInOnePlace'
    BY <1>5, <1>7, <2>1, <2>2, OneWorkerMoves
  <2> QED BY <1>4, <1>6, <2>3 DEF PoolInv
<1> QED BY <1>2, <1>11, <1>12

LEMMA CrashInv ==
  ASSUME PoolInv, NEW w \in Workers, Crash(w)
  PROVE  PoolInv'
<1> USE DEF Crash, Post, workerVars, poolVars
<1>1. /\ outbox' = [outbox EXCEPT ![w] = Append(outbox[w], ErrorEvent)]
      /\ outbox'[w] = Append(outbox[w], ErrorEvent)
  BY DEF PoolInv, PoolTypes
<1>2. thread'[w] = "dead" /\ inbox'[w] = inbox[w] /\ task'[w] = task[w]
  BY DEF PoolInv, PoolTypes
<1>3. \A v \in Workers \ {w} : /\ thread'[v] = thread[v] /\ inbox'[v] = inbox[v]
                               /\ task'[v] = task[v] /\ outbox'[v] = outbox[v]
  BY DEF PoolInv, PoolTypes
<1>4. Settlement'
  BY DEF PoolInv, Settlement, Received
<1>5. \/ outbox[w] = <<>> /\ outbox'[w] = <<ErrorEvent>>
      \/ \E m \in Replies : outbox[w] = <<m>> /\ outbox'[w] = <<m, ErrorEvent>>
  <2>1. outbox[w] \in {<<>>} \cup {<<m>> : m \in Replies}
    BY DEF PoolInv, Shape
  <2>2. CASE outbox[w] = <<>>
    BY <1>1, <2>2, ShortSequences
  <2>3. CASE \E m \in Replies : outbox[w] = <<m>>
    <3>1. PICK m \in Replies : outbox[w] = <<m>>
      BY <2>3
    <3>2. Append(<<m>>, ErrorEvent) = <<m, ErrorEvent>>
      BY ShortSequences
    <3> QED BY <1>1, <3>1, <3>2
  <2> QED BY <2>1, <2>2, <2>3
<1>6. outbox'[w] \in OnTheWay
  BY <1>5 DEF OnTheWay
<1>7. PoolTypes'
  <2>1. outbox' \in [Workers -> OnTheWay]
    BY <1>1, <1>6 DEF PoolInv, PoolTypes
  <2> QED BY <2>1 DEF PoolInv, PoolTypes
<1>8. Shape(w)'
  <2>1. CASE outbox[w] = <<>>
    <3>1. outbox'[w] = <<ErrorEvent>>
      BY <1>5, <2>1, ShortSequences
    <3>2. ~ Replied(w)'
      BY <3>1, ReplyFacts, ShortSequences DEF Replied
    <3> QED BY <1>2, <3>2 DEF PoolInv, Shape, Alive
  <2>2. CASE outbox[w] # <<>>
    <3>1. Replied(w)
      BY <1>5, <2>2 DEF Replied
    <3> QED BY <1>2, <3>1 DEF PoolInv, Shape, Alive
  <2> QED BY <2>1, <2>2
<1>9. TasksIn(outbox'[w]) = TasksIn(outbox[w])
  BY <1>5, TasksOnTheWay
<1>10. Holding(inbox'[w], task'[w], outbox'[w]) = Holding(inbox[w], task[w], outbox[w])
  BY <1>2, <1>9 DEF Holding
<1>11. TaskError \in {outbox[w][i] : i \in DOMAIN outbox[w]}
         => TaskError \in {outbox'[w][i] : i \in DOMAIN outbox'[w]}
  BY <1>5, ShortSequences
<1>12. (\A v \in Workers : Shape(v)') /\ EachTaskInOnePlace'
  BY <1>3, <1>8, <1>10, <1>11, OneWorkerMoves
<1> QED BY <1>4, <1>7, <1>12 DEF PoolInv

LEMMA StopInv ==
  ASSUME PoolInv, NEW w \in Workers, SilentExit(w) \/ Terminate(w)
  PROVE  PoolInv'
<1> USE DEF SilentExit, Terminate, workerVars, poolVars
<1>1. PoolTypes'
  BY DEF PoolInv, PoolTypes
<1>2. Shape(w)'
  BY DEF PoolInv, PoolTypes, Shape, Replied, Alive
<1>3. Settlement'
  BY DEF PoolInv, Settlement, Received
<1>4. \A v \in Workers \ {w} : thread'[v] = thread[v]
  BY DEF PoolInv, PoolTypes
<1>5. (\A v \in Workers : Shape(v)') /\ EachTaskInOnePlace'
  BY <1>2, <1>4, OneWorkerMoves
<1> QED BY <1>1, <1>3, <1>5 DEF PoolInv

\* The steps that leave the workers and the results alone.
LEMMA MainInv ==
  ASSUME PoolInv, RunInBand \/ SettlePool \/ AwaitPool
  PROVE  PoolInv'
<1> USE DEF RunInBand, SettlePool, AwaitPool, workerVars, poolVars
<1>1. PoolTypes'
  <2>1. lane' \in 0..LaneCount
    BY PoolAssumption DEF PoolInv, PoolTypes, InLane
  <2> QED BY <2>1 DEF PoolInv, PoolTypes
<1>2. \A v \in Workers : Shape(v)'
  BY DEF PoolInv, Shape, Replied, Alive
<1>3. Settlement'
  <2>1. Received' = Received /\ UNCHANGED <<completed, failed>>
    BY DEF Received
  <2>2. Settlement
    BY DEF PoolInv
  <2>3. CASE UNCHANGED pool
    BY <2>1, <2>2, <2>3 DEF Settlement
  <2>4. CASE SettlePool
    <3>1. pool = "terminating" /\ pool' = IF failed THEN "rejected" ELSE "resolved"
      BY <2>4
    <3>2. CASE failed
      BY <2>1, <2>2, <3>1, <3>2 DEF Settlement
    <3>3. CASE ~ failed
      BY <2>1, <2>2, <3>1, <3>3 DEF Settlement
    <3> QED BY <3>2, <3>3
  <2> QED BY <2>3, <2>4
<1>4. EachTaskInOnePlace'
  <2>1. \A v \in Workers : With(v)' = With(v)
    BY WithIsHolding
  <2>2. /\ Received' = Received /\ UNCHANGED <<nextTask, outbox>>
        /\ pool' = "pending" => pool = "pending"
    BY DEF Received
  <2>3. (UNION {With(v) : v \in Workers})' = UNION {With(v) : v \in Workers}
    BY <2>1
  <2> QED BY <2>1, <2>2, <2>3 DEF PoolInv, EachTaskInOnePlace
<1> QED BY <1>1, <1>2, <1>3, <1>4 DEF PoolInv

-----------------------------------------------------------------------------
(***************************************************************************)
(* The main thread handles an event.                                       *)
(***************************************************************************)

\* What is on the way from w before and after its first event is taken out.
LEMMA FirstEvent ==
  ASSUME PoolInv, NEW w \in Workers, outbox[w] # <<>>
  PROVE  /\ Tail(outbox[w]) \in {<<>>, <<ErrorEvent>>}
         /\ Alive(w) => Tail(outbox[w]) = <<>>
         /\ TaskError \notin {Tail(outbox[w])[i] : i \in DOMAIN Tail(outbox[w])}
         /\ Head(outbox[w]).type = "taskResult" =>
              /\ Replied(w)
              /\ \E k \in Tasks : Head(outbox[w]).task = k /\ TasksIn(outbox[w]) = {k}
<1>1. \/ outbox[w] = <<ErrorEvent>>
      \/ \E m \in Replies : outbox[w] = <<m>> \/ outbox[w] = <<m, ErrorEvent>>
  BY DEF PoolInv, PoolTypes, OnTheWay
<1>2. TaskError # ErrorEvent /\ TaskError \notin {<<ErrorEvent>>[i] : i \in DOMAIN <<ErrorEvent>>}
  BY ReplyFacts, ShortSequences
<1>3. CASE outbox[w] = <<ErrorEvent>>
  <2>1. Head(outbox[w]) = ErrorEvent /\ Tail(outbox[w]) = <<>>
    BY <1>3, ShortSequences
  <2> QED BY <2>1, ReplyFacts
<1>4. ASSUME NEW m \in Replies, outbox[w] = <<m>> \/ outbox[w] = <<m, ErrorEvent>>
      PROVE  /\ Tail(outbox[w]) \in {<<>>, <<ErrorEvent>>}
             /\ Alive(w) => Tail(outbox[w]) = <<>>
             /\ TaskError \notin {Tail(outbox[w])[i] : i \in DOMAIN Tail(outbox[w])}
             /\ Head(outbox[w]).type = "taskResult" =>
                  /\ Replied(w)
                  /\ \E k \in Tasks : Head(outbox[w]).task = k /\ TasksIn(outbox[w]) = {k}
  <2>1. /\ Head(outbox[w]) = m
        /\ outbox[w] = <<m>> => Tail(outbox[w]) = <<>>
        /\ outbox[w] = <<m, ErrorEvent>> => Tail(outbox[w]) = <<ErrorEvent>>
    <3>1. Head(<<m>>) = m /\ Tail(<<m>>) = <<>>
      BY ShortSequences
    <3>2. Head(<<m, ErrorEvent>>) = m /\ Tail(<<m, ErrorEvent>>) = <<ErrorEvent>>
      BY ShortSequences
    <3>3. CASE outbox[w] = <<m>>
      <4>1. <<m>> # <<m, ErrorEvent>>
        BY ShortSequences
      <4> QED BY <3>1, <3>3, <4>1
    <3>4. CASE outbox[w] = <<m, ErrorEvent>>
      <4>1. <<m>> # <<m, ErrorEvent>>
        BY ShortSequences
      <4> QED BY <3>2, <3>4, <4>1
    <3> QED BY <1>4, <3>3, <3>4
  <2>2. Tail(outbox[w]) \in {<<>>, <<ErrorEvent>>}
    BY <1>4, <2>1
  <2>3. Alive(w) => Tail(outbox[w]) = <<>>
    <3>1. \A n \in Replies : <<m, ErrorEvent>> # <<n>>
      BY ShortSequences
    <3>2. <<m, ErrorEvent>> # <<>>
      BY ShortSequences
    <3>3. Alive(w) => outbox[w] # <<m, ErrorEvent>>
      BY <3>1, <3>2 DEF PoolInv, Shape
    <3> QED BY <1>4, <2>1, <3>3
  <2>4. TaskError \notin {Tail(outbox[w])[i] : i \in DOMAIN Tail(outbox[w])}
    <3>1. CASE Tail(outbox[w]) = <<>>
      BY <3>1
    <3>2. CASE Tail(outbox[w]) = <<ErrorEvent>>
      BY <1>2, <3>2
    <3> QED BY <2>2, <3>1, <3>2
  <2>5. Replied(w)
    BY <1>4 DEF Replied
  <2>6. TasksIn(outbox[w]) = {m.task} \ {NoTask}
    BY <1>4, TasksOnTheWay
  <2>7. m.type = "taskResult" => m.task \in Tasks /\ m.task # NoTask
    BY ReplyFacts
  <2>8. m.type = "taskResult" => TasksIn(outbox[w]) = {m.task}
    BY <2>6, <2>7
  <2> QED BY <2>1, <2>2, <2>3, <2>4, <2>5, <2>7, <2>8
<1> QED BY <1>1, <1>3, <1>4

\* The event changes nothing, or fails the pool.
LEMMA IgnoredOrFatal ==
  ASSUME PoolInv, NEW w \in Workers, outbox[w] # <<>>,
         outbox' = [outbox EXCEPT ![w] = Tail(@)],
         UNCHANGED <<inbox, thread, task, lane, batch>>,
         \/ pool # "pending" /\ UNCHANGED poolVars
         \/ pool = "pending" /\ HandleError
  PROVE  PoolInv'
<1> USE DEF poolVars, HandleError
<1>1. /\ outbox'[w] = Tail(outbox[w]) /\ outbox'[w] \in {<<>>, <<ErrorEvent>>}
      /\ outbox'[w] \in OnTheWay
      /\ Alive(w) => outbox'[w] = <<>>
  BY FirstEvent DEF PoolInv, PoolTypes, OnTheWay
<1>2. PoolTypes'
  <2>1. outbox' \in [Workers -> OnTheWay]
    BY <1>1 DEF PoolInv, PoolTypes
  <2>2. /\ nextTask' = nextTask /\ completed' = completed /\ results' = results
        /\ pool' \in {"pending", "terminating", "resolved", "rejected"} /\ failed' \in BOOLEAN
    BY DEF PoolInv, PoolTypes
  <2> QED BY <2>1, <2>2 DEF PoolInv, PoolTypes
<1>3. Shape(w)'
  <2>1. ~ Replied(w)'
    BY <1>1, ReplyFacts, ShortSequences DEF Replied
  <2> QED BY <1>1, <2>1 DEF PoolInv, Shape, Alive
<1>4. Settlement'
  <2>1. Received' = Received /\ UNCHANGED completed
    BY DEF Received
  <2>2. Settlement
    BY DEF PoolInv
  <2>3. CASE UNCHANGED poolVars
    BY <2>1, <2>2, <2>3 DEF Settlement
  <2>4. CASE pool = "pending" /\ HandleError
    <3>1. Received # Tasks
      <4>1. TaskCount \in Nat /\ Cardinality(Tasks) = TaskCount
        BY FS_Interval, PoolAssumption DEF Tasks
      <4> QED BY <2>2, <2>4, <4>1 DEF Settlement
    <3> QED BY <2>1, <2>2, <2>4, <3>1 DEF Settlement
  <2> QED BY <2>3, <2>4
<1>5. \A v \in Workers \ {w} : outbox'[v] = outbox[v]
  BY DEF PoolInv, PoolTypes
<1>6. Holding(inbox'[w], task'[w], outbox'[w]) \subseteq Holding(inbox[w], task[w], outbox[w])
  <2>1. TasksIn(outbox'[w]) = {}
    BY <1>1, TasksOnTheWay
  <2> QED BY <2>1 DEF Holding
<1>7. UNCHANGED <<results, nextTask>> /\ pool' # "pending"
  BY DEF PoolInv, PoolTypes
<1>8. (\A v \in Workers : Shape(v)') /\ EachTaskInOnePlace'
  BY <1>3, <1>5, <1>6, <1>7, OneWorkerMoves
<1> QED BY <1>2, <1>4, <1>8 DEF PoolInv

\* A result arrives: it is recorded, and the worker gets the next task, or the
\* pool has all of them.
LEMMA ResultInv ==
  ASSUME PoolInv, NEW w \in Workers, outbox[w] # <<>>,
         outbox' = [outbox EXCEPT ![w] = Tail(@)],
         UNCHANGED <<thread, task, lane, batch>>,
         pool = "pending", Head(outbox[w]).type = "taskResult", HandleResult(w)
  PROVE  PoolInv'
<1>1. PICK k \in Tasks : Head(outbox[w]).task = k /\ TasksIn(outbox[w]) = {k}
  BY FirstEvent
<1>2. inbox[w] = <<>> /\ task[w] = NoTask
  BY FirstEvent DEF PoolInv, Shape
<1>3. /\ outbox'[w] \in {<<>>, <<ErrorEvent>>}
      /\ outbox'[w] \in OnTheWay
      /\ Alive(w) => outbox'[w] = <<>>
  BY FirstEvent DEF PoolInv, PoolTypes, OnTheWay
<1>4. /\ results' = [results EXCEPT ![k] = k]
      /\ completed' = completed + 1
  BY <1>1 DEF HandleResult
<1>5. With(w) = {k}
  <2>1. Holding(inbox[w], task[w], outbox[w]) = {k}
    BY <1>1, <1>2 DEF Holding
  <2> QED BY <2>1, WithIsHolding
<1>6. /\ TaskCount \in Nat /\ WorkerCount \in Nat /\ nextTask \in Nat /\ completed \in Nat
      /\ nextTask <= TaskCount + 1 /\ nextTask > WorkerCount
      /\ IsFiniteSet(Tasks) /\ Cardinality(Tasks) = TaskCount /\ Received \subseteq Tasks
  BY FS_Interval, PoolAssumption DEF Tasks, Received, PoolInv, PoolTypes
<1>7. /\ k \notin Received /\ k \notin nextTask..TaskCount
      /\ Received \cap nextTask..TaskCount = {}
      /\ \A v \in Workers : With(v) \cap (Received \cup nextTask..TaskCount) = {}
      /\ \A u, v \in Workers : u # v => With(u) \cap With(v) = {}
      /\ \/ Tasks = (nextTask..TaskCount) \cup Received \cup UNION {With(v) : v \in Workers}
         \/ \E v \in Workers : TaskError \in {outbox[v][i] : i \in DOMAIN outbox[v]}
  BY <1>5 DEF PoolInv, EachTaskInOnePlace
<1>8. Received' = Received \cup {k}
  BY <1>4, ReplyFacts DEF PoolInv, PoolTypes, Received
<1>9. /\ completed' = Cardinality(Received') /\ Received' \subseteq Tasks
      /\ IsFiniteSet(Received') /\ completed' \in Nat
  BY <1>4, <1>6, <1>7, <1>8, FS_Subset, FS_AddElement DEF PoolInv, Settlement
\* What the worker gets: the next task, or nothing.
<1> DEFINE assigned == completed' < TaskCount /\ nextTask <= TaskCount
           got == IF assigned THEN {nextTask} ELSE {}
<1>10. /\ PoolTypes'
       /\ inbox'[w] \in {<<>>, <<nextTask>>} /\ \A v \in Workers \ {w} : inbox'[v] = inbox[v]
       /\ With(w)' = got
       /\ nextTask..TaskCount = got \cup nextTask'..TaskCount
       /\ got \cap nextTask'..TaskCount = {}
  <2>1. CASE assigned
    <3>1. /\ inbox' = [inbox EXCEPT ![w] = <<nextTask>>] /\ nextTask' = nextTask + 1
          /\ UNCHANGED <<pool, failed>>
      BY <1>2, <1>6, <1>9, <2>1, ShortSequences DEF HandleResult, AssignTask, PoolInv, PoolTypes
    <3>2. nextTask \in Tasks /\ nextTask # NoTask
      BY <1>6, <2>1, ReplyFacts DEF Tasks
    <3>3. PoolTypes'
      BY <1>3, <1>4, <1>6, <1>9, <2>1, <3>1, <3>2 DEF PoolInv, PoolTypes
    <3>4. inbox'[w] = <<nextTask>> /\ \A v \in Workers \ {w} : inbox'[v] = inbox[v]
      BY <3>1 DEF PoolInv, PoolTypes
    <3>5. With(w)' = {nextTask}
      <4>1. {inbox'[w][i] : i \in DOMAIN inbox'[w]} = {nextTask}
        BY <3>4, ShortSequences
      <4>2. TasksIn(outbox'[w]) = {} /\ task'[w] = NoTask
        BY <1>2, <1>3, TasksOnTheWay
      <4> QED BY <4>1, <4>2, WithIsHolding DEF Holding
    <3>6. /\ nextTask..TaskCount = {nextTask} \cup nextTask'..TaskCount
          /\ nextTask \notin nextTask'..TaskCount
      BY <1>6, <2>1, <3>1
    <3> QED BY <2>1, <3>3, <3>4, <3>5, <3>6
  <2>2. CASE ~ assigned
    <3>1. inbox' = inbox /\ nextTask' = nextTask
      BY <1>6, <1>9, <2>2 DEF HandleResult, AssignTask
    <3>2. pool' \in {"pending", "terminating"} /\ failed' = failed
      BY DEF HandleResult, AssignTask
    <3>3. PoolTypes'
      BY <1>3, <1>4, <1>6, <1>9, <3>1, <3>2 DEF PoolInv, PoolTypes
    <3>4. With(w)' = {}
      <4>1. {inbox'[w][i] : i \in DOMAIN inbox'[w]} = {}
        BY <1>2, <3>1
      <4>2. TasksIn(outbox'[w]) = {} /\ task'[w] = NoTask
        BY <1>2, <1>3, TasksOnTheWay
      <4> QED BY <4>1, <4>2, WithIsHolding DEF Holding
    <3> QED BY <1>2, <2>2, <3>1, <3>3, <3>4
  <2> QED BY <2>1, <2>2
<1>11. ASSUME NEW v \in Workers PROVE Shape(v)'
  <2>1. CASE v = w
    <3>1. ~ Replied(w)'
      BY <1>3, ReplyFacts, ShortSequences DEF Replied
    <3> QED BY <1>2, <1>3, <2>1, <3>1 DEF PoolInv, Shape, Alive
  <2>2. CASE v # w
    <3>1. inbox'[v] = inbox[v] /\ outbox'[v] = outbox[v] /\ Shape(v)
      BY <1>10, <2>2 DEF PoolInv, PoolTypes
    <3> QED BY <3>1 DEF Shape, Replied, Alive
  <2> QED BY <2>1, <2>2
<1>12. Settlement'
  <2>1. CASE completed' >= TaskCount
    <3>1. pool' = "terminating" /\ failed' = FALSE
      BY <2>1 DEF HandleResult, PoolInv, PoolTypes, Settlement
    <3>2. Received' = Tasks
      <4>1. Cardinality(Received') = TaskCount
        BY <1>6, <1>9, <2>1, FS_Subset
      <4> QED BY <1>6, <1>9, <4>1, FS_Subset
    <3> QED BY <1>9, <3>1, <3>2 DEF Settlement
  <2>2. CASE ~ (completed' >= TaskCount)
    <3>1. UNCHANGED <<pool, failed>> /\ completed' < TaskCount
      BY <1>6, <1>9, <2>2 DEF HandleResult
    <3> QED BY <1>9, <3>1 DEF Settlement, PoolInv
  <2> QED BY <2>1, <2>2
<1>13. \A v \in Workers \ {w} : With(v)' = With(v)
  <2>1. \A v \in Workers \ {w} : outbox'[v] = outbox[v]
    BY DEF PoolInv, PoolTypes
  <2> QED BY <1>10, <2>1, WithIsHolding
<1>14. EachTaskInOnePlace'
  <2> HIDE DEF got
  <2>1. (Received \cap nextTask..TaskCount = {})'
    BY <1>7, <1>8, <1>10
  <2>2. ASSUME NEW v \in Workers
        PROVE  (With(v) \cap (Received \cup nextTask..TaskCount) = {})'
    <3>1. CASE v = w
      BY <1>7, <1>8, <1>10, <3>1
    <3>2. CASE v # w
      BY <1>5, <1>7, <1>8, <1>10, <1>13, <3>2
    <3> QED BY <3>1, <3>2
  <2>3. ASSUME NEW u \in Workers, NEW v \in Workers, u # v
        PROVE  (With(u) \cap With(v) = {})'
    BY <1>7, <1>10, <1>13, <2>3
  <2>4. (\/ Tasks = (nextTask..TaskCount) \cup Received \cup UNION {With(v) : v \in Workers}
         \/ \E v \in Workers : TaskError \in {outbox[v][i] : i \in DOMAIN outbox[v]})'
    <3>1. CASE \E v \in Workers : TaskError \in {outbox[v][i] : i \in DOMAIN outbox[v]}
      <4>1. PICK v \in Workers : TaskError \in {outbox[v][i] : i \in DOMAIN outbox[v]}
        BY <3>1
      <4>2. v # w
        <5>1. CASE v = w
          <6>1. \E m \in Replies : m.type = "taskResult" /\ (outbox[w] = <<m>> \/ outbox[w] = <<m, ErrorEvent>>)
            BY FirstEvent, ShortSequences DEF Replied
          <6> QED BY <4>1, <5>1, <6>1, ReplyFacts, ShortSequences
        <5> QED BY <5>1
      <4> QED BY <4>1, <4>2
    <3>2. CASE Tasks = (nextTask..TaskCount) \cup Received \cup UNION {With(v) : v \in Workers}
      <4>1. UNION {With(v) : v \in Workers} \subseteq {k} \cup (UNION {With(v) : v \in Workers})'
        BY <1>5, <1>13
      <4>2. got \subseteq (UNION {With(v) : v \in Workers})'
        BY <1>10
      <4>3. Tasks \subseteq ((nextTask..TaskCount) \cup Received \cup UNION {With(v) : v \in Workers})'
        BY <1>8, <1>10, <3>2, <4>1, <4>2
      <4>4. ((nextTask..TaskCount) \cup Received \cup UNION {With(v) : v \in Workers})' \subseteq Tasks
        BY <1>5, <1>9, <1>10, <1>13, <3>2
      <4> QED BY <4>3, <4>4
    <3> QED BY <1>7, <3>1, <3>2
  <2> QED BY <2>1, <2>2, <2>3, <2>4 DEF EachTaskInOnePlace
<1> QED BY <1>10, <1>11, <1>12, <1>14 DEF PoolInv

LEMMA HandleEventInv ==
  ASSUME PoolInv, NEW w \in Workers, HandleEvent(w)
  PROVE  PoolInv'
<1>1. /\ outbox[w] # <<>> /\ outbox' = [outbox EXCEPT ![w] = Tail(@)]
      /\ UNCHANGED <<thread, task, lane, batch>>
  BY DEF HandleEvent
<1>2. CASE pool # "pending"
  <2>1. UNCHANGED inbox /\ UNCHANGED poolVars
    BY <1>2 DEF HandleEvent
  <2> QED BY <1>1, <1>2, <2>1, IgnoredOrFatal
<1>3. CASE pool = "pending" /\ Head(outbox[w]).type = "taskResult"
  <2>1. HandleResult(w)
    BY <1>3 DEF HandleEvent
  <2> QED BY <1>1, <1>3, <2>1, ResultInv
<1>4. CASE pool = "pending" /\ Head(outbox[w]).type # "taskResult"
  <2>1. HandleError
    BY <1>4 DEF HandleEvent
  <2>2. UNCHANGED inbox
    BY <2>1 DEF HandleError
  <2> QED BY <1>1, <1>4, <2>1, <2>2, IgnoredOrFatal
<1> QED BY <1>2, <1>3, <1>4

LEMMA StepInv == PoolInv /\ [Next]_vars => PoolInv'
<1> SUFFICES ASSUME PoolInv, [Next]_vars PROVE PoolInv'
  OBVIOUS
<1>1. ASSUME NEW w \in Workers, Load(w) PROVE PoolInv'
  BY <1>1, LoadInv
<1>2. ASSUME NEW w \in Workers, TakeTask(w) PROVE PoolInv'
  BY <1>2, TakeTaskInv
<1>3. ASSUME NEW w \in Workers, Reply(w) PROVE PoolInv'
  BY <1>3, ReplyInv
<1>4. ASSUME NEW w \in Workers, Crash(w) PROVE PoolInv'
  BY <1>4, CrashInv
<1>5. ASSUME NEW w \in Workers, SilentExit(w) \/ Terminate(w) PROVE PoolInv'
  BY <1>5, StopInv
<1>6. ASSUME NEW w \in Workers, HandleEvent(w) PROVE PoolInv'
  BY <1>6, HandleEventInv
<1>7. CASE RunInBand \/ SettlePool \/ AwaitPool
  BY <1>7, MainInv
<1>8. CASE UNCHANGED vars
  <2>1. PoolTypes' /\ (\A w \in Workers : Shape(w))' /\ Settlement'
    BY <1>8 DEF vars, PoolInv, PoolTypes, Shape, Replied, Alive, Settlement, Received
  <2>2. EachTaskInOnePlace'
    <3>1. Received' = Received /\ UNCHANGED <<nextTask, pool, outbox>>
      BY <1>8 DEF vars, Received
    <3>2. \A w \in Workers : With(w)' = With(w)
      BY <1>8, WithIsHolding DEF vars
    <3>3. (UNION {With(w) : w \in Workers})' = UNION {With(w) : w \in Workers}
      BY <3>2
    <3> QED BY <3>1, <3>2, <3>3 DEF PoolInv, EachTaskInOnePlace
  <2> QED BY <2>1, <2>2 DEF PoolInv
<1> QED BY <1>1, <1>2, <1>3, <1>4, <1>5, <1>6, <1>7, <1>8 DEF Next

\* The inductive invariant holds in every state of a batch.
THEOREM Invariance == Spec => []PoolInv
<1> QED BY InitInv, StepInv, PTL DEF Spec

\* Whatever fails, and in whatever order the answers arrive: no task is handed
\* out twice, is in two places or gets lost without a report of its failure
\* being on its way to the pool.
THEOREM NoTaskLost == Spec => []EachTaskInOnePlace
<1>1. PoolInv => EachTaskInOnePlace
  BY DEF PoolInv
<1> QED BY <1>1, Invariance, PTL

-----------------------------------------------------------------------------
(***************************************************************************)
(* The batch as the scheduler sees it.                                     *)
(***************************************************************************)

LEMMA InitBatch == Init => Batch!Init
<1>1. ASSUME Init PROVE Arrived = {}
  <2>1. Received = {}
    BY <1>1 DEF Init, Received
  <2>2. 1..lane = {}
    BY <1>1 DEF Init
  <2> QED BY <2>1, <2>2 DEF Arrived
<1> QED BY <1>1 DEF Init, Batch!Init

\* The results of the workers and those of the in-band targets are apart.
LEMMA AllArrived ==
  ASSUME PoolInv
  PROVE  Arrived = AllTargets <=> Received = Tasks /\ lane = LaneCount
<1>1. lane \in Nat /\ LaneCount \in Nat /\ lane <= LaneCount /\ Received \subseteq Tasks
  BY PoolAssumption DEF PoolInv, PoolTypes, Received
<1>2. CASE Received = Tasks /\ lane = LaneCount
  BY <1>2 DEF Arrived, AllTargets
<1>3. CASE Received # Tasks
  <2>1. PICK k \in Tasks : k \notin Received
    BY <1>1, <1>3
  <2>2. <<"worker", k>> \in AllTargets /\ <<"worker", k>> \notin Arrived
    BY <2>1 DEF AllTargets, Arrived
  <2> QED BY <1>3, <2>2
<1>4. CASE lane # LaneCount
  <2>1. LaneCount \in 1..LaneCount /\ LaneCount \notin 1..lane
    BY <1>1, <1>4
  <2>2. <<"lane", LaneCount>> \in AllTargets /\ <<"lane", LaneCount>> \notin Arrived
    BY <2>1 DEF AllTargets, Arrived
  <2> QED BY <1>4, <2>2
<1> QED BY <1>2, <1>3, <1>4

LEMMA StepBatch == PoolInv /\ [Next]_vars => [Batch!Next]_Batch!vars
<1> SUFFICES ASSUME PoolInv, Next, ~ UNCHANGED <<Received, lane, batch>>
             PROVE  Batch!Next
  <2>1. UNCHANGED <<Received, lane, batch>> => UNCHANGED Batch!vars
    BY DEF Batch!vars, Arrived, AllTargets
  <2>2. UNCHANGED vars => UNCHANGED <<Received, lane, batch>>
    BY DEF vars, Received
  <2> QED BY <2>1, <2>2
<1>1. AllTargets' = AllTargets
  BY DEF AllTargets
<1>2. ASSUME NEW w \in Workers, HandleEvent(w)
      PROVE  Batch!Next
  <2>1. pool = "pending" /\ outbox[w] # <<>> /\ Head(outbox[w]).type = "taskResult"
    BY <1>2 DEF HandleEvent, HandleError, poolVars, Received
  <2>2. PICK k \in Tasks : Head(outbox[w]).task = k /\ TasksIn(outbox[w]) = {k}
    BY <2>1, FirstEvent
  <2>3. k \in With(w) /\ k \notin Received
    BY <2>2, WithIsHolding DEF Holding, PoolInv, EachTaskInOnePlace
  <2>4. results' = [results EXCEPT ![k] = k] /\ UNCHANGED <<lane, batch>>
    BY <1>2, <2>1, <2>2 DEF HandleEvent, HandleResult
  <2>5. Received' = Received \cup {k}
    BY <2>4, ReplyFacts DEF PoolInv, PoolTypes, Received
  <2>6. <<"worker", k>> \notin Arrived /\ <<"worker", k>> \in AllTargets
    BY <2>3 DEF Arrived, AllTargets
  <2>7. Arrived' = Arrived \cup {<<"worker", k>>}
    BY <2>4, <2>5 DEF Arrived
  <2>8. Batch!Arrive(<<"worker", k>>)
    BY <1>1, <2>4, <2>6, <2>7 DEF Batch!Arrive
  <2> QED BY <2>6, <2>8 DEF Batch!Next
<1>3. CASE RunInBand
  <2>1. /\ lane \in Nat /\ lane < LaneCount /\ batch = "running" /\ LaneCount \in Nat
        /\ Received' = Received
    BY <1>3, PoolAssumption DEF RunInBand, InLane, PoolInv, PoolTypes, poolVars, Received
  <2>2. CASE lane' = lane + 1 /\ UNCHANGED batch
    <3>1. 1..lane' = 1..lane \cup {lane + 1} /\ lane + 1 \notin 1..lane /\ lane + 1 \in 1..LaneCount
      BY <2>1, <2>2
    <3>2. <<"lane", lane + 1>> \notin Arrived /\ <<"lane", lane + 1>> \in AllTargets
      BY <3>1 DEF Arrived, AllTargets
    <3>3. Arrived' = Arrived \cup {<<"lane", lane + 1>>}
      BY <2>1, <3>1 DEF Arrived
    <3>4. Batch!Arrive(<<"lane", lane + 1>>)
      BY <1>1, <2>2, <3>2, <3>3 DEF Batch!Arrive
    <3> QED BY <3>2, <3>4 DEF Batch!Next
  <2>3. CASE batch' = "rejected" /\ UNCHANGED lane
    <3>1. Arrived' = Arrived /\ Arrived # AllTargets
      BY <2>1, <2>3, AllArrived DEF Arrived
    <3> QED BY <1>1, <2>1, <2>3, <3>1 DEF Batch!Next, Batch!Reject
  <2> QED BY <1>3, <2>2, <2>3 DEF RunInBand
<1>4. CASE AwaitPool
  <2>1. /\ batch = "running" /\ lane = LaneCount /\ Received' = Received /\ UNCHANGED lane
        /\ pool \in {"resolved", "rejected"} /\ batch' = pool
    BY <1>4, PoolAssumption DEF AwaitPool, InLane, PoolInv, PoolTypes, poolVars, Received
  <2>2. Arrived' = Arrived
    BY <2>1 DEF Arrived
  <2>3. CASE pool = "resolved"
    <3>1. Received = Tasks
      BY <2>3 DEF PoolInv, Settlement
    <3> QED BY <1>1, <2>1, <2>2, <2>3, <3>1, AllArrived DEF Batch!Next, Batch!Resolve
  <2>4. CASE pool = "rejected"
    <3>1. Received # Tasks
      BY <2>4 DEF PoolInv, Settlement
    <3> QED BY <1>1, <2>1, <2>2, <2>4, <3>1, AllArrived DEF Batch!Next, Batch!Reject
  <2> QED BY <2>1, <2>3, <2>4
<1>5. CASE SettlePool
  BY <1>5 DEF SettlePool, Received
<1>6. ASSUME NEW w \in Workers,
             Load(w) \/ TakeTask(w) \/ Reply(w) \/ Crash(w) \/ SilentExit(w) \/ Terminate(w)
      PROVE  FALSE
  BY <1>6 DEF Load, TakeTask, Reply, Crash, SilentExit, Terminate, poolVars, Received
<1> QED BY <1>2, <1>3, <1>4, <1>5, <1>6 DEF Next

\* A batch keeps the promise of BatchRun that the scheduler relies on: it
\* resolves when it has the result of every target, each of which arrived once,
\* and it is rejected only while one is missing.
THEOREM BatchPromise == Spec => ImplementsBatch
<1> QED BY InitBatch, StepBatch, Invariance, PTL DEF Spec, ImplementsBatch, Batch!Spec

=============================================================================
