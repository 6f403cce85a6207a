----------------------------- MODULE WorkerPool -----------------------------
(***************************************************************************)
(* One batch of runExecutionBatch: tasks handed to worker threads by       *)
(* runTasksInWorkerPool (harness/shared/start.cjs), the message loop of    *)
(* start-worker.cjs, and the in-band targets that the main thread runs     *)
(* itself before it turns to its event loop.                               *)
(*                                                                         *)
(* The main thread handles one event at a time.  Messages and the error    *)
(* event of one worker arrive in order; those of different workers in any  *)
(* order.  A worker may fail to load its module, report an error for a     *)
(* task, die with an error event, or exit without any event the pool       *)
(* listens to.                                                             *)
(***************************************************************************)
EXTENDS Naturals, Sequences

CONSTANTS
  TaskCount,     \* tasks for the workers, at least one
  WorkerCount,   \* workers of the pool
  LaneCount,     \* in-band targets
  Faults         \* the faults that may happen

Tasks == 1..TaskCount
Workers == 1..WorkerCount
NoTask == 0

FaultKinds == {"taskError", "crash", "exit", "laneThrow"}

ASSUME PoolAssumption ==
  /\ TaskCount \in Nat \ {0}
  /\ WorkerCount \in 1..TaskCount
  /\ LaneCount \in Nat
  /\ Faults \subseteq FaultKinds

VARIABLES
  inbox,      \* per worker: the tasks posted to it
  thread,     \* per worker: "loading", "idle", "busy", "dead", "gone"
  task,       \* per worker: the task it works on
  outbox,     \* per worker: events on their way to the main thread
  nextTask,   \* nextTaskIndex
  completed,  \* completedTaskCount
  results,    \* per task: the index of the task the result is for
  pool,       \* the pool's promise: "pending", "terminating", "resolved", "rejected"
  failed,     \* whether the pool settled with an error
  lane,       \* in-band targets done
  batch       \* runExecutionBatch: "running", "resolved", "rejected"

workerVars == <<inbox, thread, task, outbox>>
poolVars == <<nextTask, completed, results, pool, failed>>
vars == <<inbox, thread, task, outbox, nextTask, completed, results, pool, failed,
          lane, batch>>

TaskResult(k) == [type |-> "taskResult", task |-> k]
TaskError == [type |-> "taskError", task |-> NoTask]
ErrorEvent == [type |-> "error", task |-> NoTask]

\* "dead": by an error or terminated; "gone": exited of itself.
Alive(w) == thread[w] \notin {"dead", "gone"}

\* The main thread sits in the in-band loop until it is done or throws.
InLane == batch = "running" /\ lane < LaneCount

\* The pool is created in one turn: every worker starts with a task.
Init ==
  /\ inbox = [w \in Workers |-> <<w>>]
  /\ thread = [w \in Workers |-> "loading"]
  /\ task = [w \in Workers |-> NoTask]
  /\ outbox = [w \in Workers |-> <<>>]
  /\ nextTask = WorkerCount + 1
  /\ completed = 0
  /\ results = [k \in Tasks |-> NoTask]
  /\ pool = "pending"
  /\ failed = FALSE
  /\ lane = 0
  /\ batch = "running"

Post(w, event) == outbox' = [outbox EXCEPT ![w] = Append(@, event)]

-----------------------------------------------------------------------------
(***************************************************************************)
(* The worker threads.                                                     *)
(***************************************************************************)

Load(w) ==
  /\ thread[w] = "loading"
  /\ thread' = [thread EXCEPT ![w] = "idle"]
  /\ UNCHANGED <<inbox, task, outbox, poolVars, lane, batch>>

TakeTask(w) ==
  /\ thread[w] = "idle"
  /\ inbox[w] # <<>>
  /\ thread' = [thread EXCEPT ![w] = "busy"]
  /\ task' = [task EXCEPT ![w] = Head(inbox[w])]
  /\ inbox' = [inbox EXCEPT ![w] = Tail(@)]
  /\ UNCHANGED <<outbox, poolVars, lane, batch>>

\* Mutant of Reply: a throwing task is swallowed.
ReplyResultOnly(w) ==
  /\ thread[w] = "busy"
  /\ \/ Post(w, TaskResult(task[w]))
     \/ "taskError" \in Faults /\ UNCHANGED outbox
  /\ thread' = [thread EXCEPT ![w] = "idle"]
  /\ task' = [task EXCEPT ![w] = NoTask]
  /\ UNCHANGED <<inbox, poolVars, lane, batch>>

\* runTask returns, or throws and the catch clause reports it.
Reply(w) ==
  /\ thread[w] = "busy"
  /\ \/ Post(w, TaskResult(task[w]))
     \/ "taskError" \in Faults /\ Post(w, TaskError)
  /\ thread' = [thread EXCEPT ![w] = "idle"]
  /\ task' = [task EXCEPT ![w] = NoTask]
  /\ UNCHANGED <<inbox, poolVars, lane, batch>>

\* An uncaught error, while loading the host module or at any later time.
Crash(w) ==
  /\ "crash" \in Faults
  /\ Alive(w)
  /\ thread' = [thread EXCEPT ![w] = "dead"]
  /\ Post(w, ErrorEvent)
  /\ UNCHANGED <<inbox, task, poolVars, lane, batch>>

\* The thread ends without an error: the pool has no listener for "exit".
SilentExit(w) ==
  /\ "exit" \in Faults
  /\ Alive(w)
  /\ thread' = [thread EXCEPT ![w] = "gone"]
  /\ UNCHANGED <<inbox, task, outbox, poolVars, lane, batch>>

-----------------------------------------------------------------------------
(***************************************************************************)
(* The main thread.                                                        *)
(***************************************************************************)

\* An in-band target runs to its end, or throws out of runExecutionBatch.
RunInBand ==
  /\ InLane
  /\ \/ lane' = lane + 1 /\ UNCHANGED batch
     \/ "laneThrow" \in Faults /\ batch' = "rejected" /\ UNCHANGED lane
  /\ UNCHANGED <<workerVars, poolVars>>

\* assignTask, if there is a task left.
AssignTask(w) ==
  IF nextTask <= TaskCount
  THEN /\ inbox' = [inbox EXCEPT ![w] = Append(@, nextTask)]
       /\ nextTask' = nextTask + 1
  ELSE UNCHANGED <<inbox, nextTask>>

\* The "message" listener gets a result.
HandleResult(w) ==
  /\ results' = [results EXCEPT ![Head(outbox[w]).task] = Head(outbox[w]).task]
  /\ completed' = completed + 1
  /\ IF completed' >= TaskCount
     THEN /\ pool' = "terminating"
          /\ UNCHANGED <<inbox, nextTask, failed>>
     ELSE AssignTask(w) /\ UNCHANGED <<pool, failed>>

\* Mutant of HandleError: the other workers are left running.
RejectAtOnce ==
  /\ pool' = "rejected"
  /\ failed' = TRUE
  /\ UNCHANGED <<inbox, nextTask, completed, results>>

\* settleError, for a taskError message and for the "error" event.
HandleError ==
  /\ pool' = "terminating"
  /\ failed' = TRUE
  /\ UNCHANGED <<inbox, nextTask, completed, results>>

\* Mutant of HandleEvent: there is no listener for "error" either.
HandleMessageOnly(w) ==
  /\ ~ InLane
  /\ outbox[w] # <<>>
  /\ outbox' = [outbox EXCEPT ![w] = Tail(@)]
  /\ IF pool # "pending" \/ Head(outbox[w]) = ErrorEvent THEN UNCHANGED <<inbox, poolVars>>
     ELSE IF Head(outbox[w]).type = "taskResult" THEN HandleResult(w)
     ELSE HandleError
  /\ UNCHANGED <<thread, task, lane, batch>>

\* Events that arrive once the pool has settled are ignored.
HandleEvent(w) ==
  /\ ~ InLane
  /\ outbox[w] # <<>>
  /\ outbox' = [outbox EXCEPT ![w] = Tail(@)]
  /\ IF pool # "pending" THEN UNCHANGED <<inbox, poolVars>>
     ELSE IF Head(outbox[w]).type = "taskResult" THEN HandleResult(w)
     ELSE HandleError
  /\ UNCHANGED <<thread, task, lane, batch>>

\* terminateWorkers: the threads stop one by one, in any order.
Terminate(w) ==
  /\ pool = "terminating"
  /\ Alive(w)
  /\ thread' = [thread EXCEPT ![w] = "dead"]
  /\ UNCHANGED <<inbox, task, outbox, poolVars, lane, batch>>

\* allSettled(...).finally(...)
SettlePool ==
  /\ ~ InLane
  /\ pool = "terminating"
  /\ \A w \in Workers : ~ Alive(w)
  /\ pool' = IF failed THEN "rejected" ELSE "resolved"
  /\ UNCHANGED <<workerVars, nextTask, completed, results, failed, lane, batch>>

\* Mutant of AwaitPool: a rejection is taken for an end.
AwaitAllSettled ==
  /\ batch = "running"
  /\ ~ InLane
  /\ pool \in {"resolved", "rejected"}
  /\ batch' = "resolved"
  /\ UNCHANGED <<workerVars, poolVars, lane>>

\* await workerPromise
AwaitPool ==
  /\ batch = "running"
  /\ ~ InLane
  /\ pool \in {"resolved", "rejected"}
  /\ batch' = pool
  /\ UNCHANGED <<workerVars, poolVars, lane>>

Next ==
  \/ \E w \in Workers : \/ Load(w) \/ TakeTask(w) \/ Reply(w)
                        \/ Crash(w) \/ SilentExit(w)
                        \/ HandleEvent(w) \/ Terminate(w)
  \/ RunInBand
  \/ SettlePool
  \/ AwaitPool

\* Threads make progress, harness.run returns, and the event loop turns.
Fairness ==
  /\ \A w \in Workers : /\ WF_vars(Load(w)) /\ WF_vars(TakeTask(w)) /\ WF_vars(Reply(w))
                        /\ WF_vars(HandleEvent(w)) /\ WF_vars(Terminate(w))
  /\ WF_vars(RunInBand) /\ WF_vars(SettlePool) /\ WF_vars(AwaitPool)

Spec == Init /\ [][Next]_vars /\ Fairness

-----------------------------------------------------------------------------
(***************************************************************************)
(* Correctness.                                                            *)
(***************************************************************************)

Events == {TaskResult(k) : k \in Tasks} \cup {TaskError, ErrorEvent}

\* The places where a posted task can be.
Queued(w) == {inbox[w][i] : i \in DOMAIN inbox[w]}
Working(w) == {task[w]} \ {NoTask}
Reported(w) == {outbox[w][i].task : i \in DOMAIN outbox[w]} \ {NoTask}
With(w) == Queued(w) \cup Working(w) \cup Reported(w)
Received == {k \in Tasks : results[k] # NoTask}

\* Every task is in one place: not posted yet, with one worker (a dead one
\* too), or received; while the pool is open, a task that is in none of them
\* has failed and its error is on the way.
EachTaskInOnePlace ==
  /\ Received \cap nextTask..TaskCount = {}
  /\ \A w \in Workers : With(w) \cap (Received \cup nextTask..TaskCount) = {}
  /\ \A v, w \in Workers : v # w => With(v) \cap With(w) = {}
  /\ pool = "pending" =>
       \/ Tasks = (nextTask..TaskCount) \cup Received \cup UNION {With(w) : w \in Workers}
       \/ \E w \in Workers : TaskError \in {outbox[w][i] : i \in DOMAIN outbox[w]}

\* Whatever fails, the batch settles, unless a worker exits without an error
\* event: for such an exit the pool has no listener, and may wait for ever.
Settles == <>(batch # "running" \/ \E w \in Workers : thread[w] = "gone")

\* All workers are stopped in the end, even when an in-band target throws and
\* nobody awaits the pool.
WorkersStop == <>[](\/ \A w \in Workers : ~ Alive(w)
                   \/ \E w \in Workers : thread[w] = "gone")

-----------------------------------------------------------------------------

\* The batch as the scheduler sees it: a target has arrived once the main
\* thread has its result.
Arrived == {<<"worker", k>> : k \in Received} \cup {<<"lane", k>> : k \in 1..lane}

AllTargets == {<<"worker", k>> : k \in Tasks} \cup {<<"lane", k>> : k \in 1..LaneCount}

Batch == INSTANCE BatchRun WITH targets <- AllTargets, arrived <- Arrived, state <- batch

ImplementsBatch == Batch!Spec

=============================================================================
