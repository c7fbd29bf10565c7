------------------------------ MODULE RunExecution ------------------------------
(***************************************************************************)
(* One service process that executes Runs: RunService with its thread      *)
(* locks (runtime/runs.py), RunExecutionCoordinator with the lock of each  *)
(* execution (runtime/run_execution.py), ExecutionRegistry                 *)
(* (core/execution.py), ApplicationLifecycle (runtime/lifecycle.py) and    *)
(* RunRecoveryCoordinator (runtime/recovery.py).                           *)
(*                                                                         *)
(* The unit of interleaving is what the event loop runs between two        *)
(* awaits.  A database transaction is one step; it fails when storage is   *)
(* down.  Of the database this module keeps the status of each Run and the *)
(* number of its run_running facts; RunLifecycle has the rest.  The        *)
(* process may crash at any step and lose everything else.                 *)
(***************************************************************************)
EXTENDS Naturals, FiniteSets

CONSTANTS
  Threads, Runs, ThreadOf,
  Ops,         \* calls of RunService that may be in flight at a time
  MaxRounds,   \* bound on the invocations of a Run, for TLC only
  NoOp, NoRun

ASSUME ConstantsAssumption ==
  /\ ThreadOf \in [Runs -> Threads]
  /\ MaxRounds \in Nat \ {0}
  /\ NoOp \notin Ops /\ NoRun \notin Runs
  /\ "free" \notin Ops /\ "task" \notin Ops   \* holders of a lock that are no operation

\* A RunExecution: the run, and which of its invocations (0: none) it executes.
Execs == Runs \X (1..MaxRounds)

VARIABLES
  \* the database
  status,     \* runs.status of each Run
  round,      \* number of committed run_running facts of each Run
  storage,    \* whether a transaction can commit now
  \* the process
  phase,      \* "down", "recovering", "up", "closing" or "stopping"
  registry,   \* ExecutionRegistry: the round installed for a Run, 0 for none
  task,       \* where the asyncio task of an execution is
  outcome,    \* what execute_agent_loop returned, "none" before
  lock,       \* holder of the coordinator's lock of an execution: "free", "task" or an op
  abort,      \* executions whose abort_event is set
  interrupted,\* executions whose task was cancelled by shutdown and has not seen it
  owed,       \* executions with facts committed on their open stream, not yet published
  closed,     \* executions whose stream is closed
  slot,       \* holder of the lock of a thread
  op,         \* the operations
  \* history, never read by an action
  lost        \* executions whose outcome other than FAILED could not be committed

db == <<status, round, storage>>
memory == <<registry, task, outcome, lock, abort, interrupted, owed, closed>>
service == <<slot, op>>
vars == <<db, phase, memory, service, lost>>

Terminal == {"completed", "error", "cancelled"}
Active   == {"running", "interrupted"}

\* The task of an execution.  "created" has not run yet, "graph" is inside
\* execute_agent_loop, "settle" waits for the lock, "settling" has it and is in
\* the transaction, "publish" has it after the commit, "retry" sleeps without it,
\* "finish" waits for it in the finally clause.
Alive == {"created", "graph", "settle", "settling", "publish", "retry", "finish"}

IdleOp == [kind |-> "none", thread |-> NoOp, run |-> NoRun, pc |-> "idle", exec |-> 0, todo |-> {}]

Exec(o) == <<op[o].run, op[o].exec>>
At(o, pc) == op[o].pc = pc
Going(o) == op[o].pc \notin {"idle", "queued"}

Init ==
  /\ status = [r \in Runs |-> "absent"]
  /\ round = [r \in Runs |-> 0]
  /\ storage = TRUE
  /\ phase = "up"
  /\ registry = [r \in Runs |-> 0]
  /\ task = [x \in Execs |-> "none"]
  /\ outcome = [x \in Execs |-> "none"]
  /\ lock = [x \in Execs |-> "free"]
  /\ abort = {} /\ interrupted = {} /\ owed = {} /\ closed = {}
  /\ slot = [t \in Threads |-> NoOp]
  /\ op = [o \in Ops |-> IdleOp]
  /\ lost = {}

-----------------------------------------------------------------------------
(* Closing an execution: _finish, with the lock of the execution.           *)

Close(x) ==
  /\ lock[x] = "free"
  /\ closed' = closed \cup {x}
  \* a late cleanup does not remove a newer execution of the same Run
  /\ registry' = IF registry[x[1]] = x[2] THEN [registry EXCEPT ![x[1]] = 0] ELSE registry

-----------------------------------------------------------------------------
(* Operations of RunService: _accept queues on the lock of the thread.      *)

Goto(o, pc) == op' = [op EXCEPT ![o].pc = pc]

EndOp(o) ==
  /\ op' = [op EXCEPT ![o] = IdleOp]
  /\ slot' = [slot EXCEPT ![op[o].thread] = NoOp]

\* bound: there is a Run left for every start_run that is under way
RunLeft(t) == Cardinality({r \in Runs : ThreadOf[r] = t /\ status[r] = "absent"})
                > Cardinality({o \in Ops : op[o].kind = "start" /\ op[o].thread = t})

\* ApplicationLifecycle.accept: refused once the application is closing
Request(o, kind, t, r) ==
  /\ phase = "up"
  /\ At(o, "idle")
  /\ kind = "start" => RunLeft(t)
  /\ op' = [op EXCEPT ![o] = [IdleOp EXCEPT !.kind = kind, !.thread = t, !.run = r, !.pc = "queued"]]
  /\ UNCHANGED <<db, phase, memory, slot, lost>>

Registered(t) == {x \in Execs : ThreadOf[x[1]] = t /\ registry[x[1]] = x[2]}

\* mutant: the operation does not wait for the lock of its thread
EnterUnlocked(o) ==
  /\ At(o, "queued")
  /\ slot' = [slot EXCEPT ![op[o].thread] = o]
  /\ op' = [op EXCEPT ![o].pc = [start |-> "drain", resume |-> "check", cancel |-> "lock"][op[o].kind],
                      ![o].exec = IF op[o].kind = "cancel" THEN registry[op[o].run] ELSE 0]
  /\ UNCHANGED <<db, phase, memory, lost>>

\* The thread lock is taken and the operation reads the registry.
Enter(o) ==
  /\ At(o, "queued")
  /\ slot[op[o].thread] = NoOp
  /\ slot' = [slot EXCEPT ![op[o].thread] = o]
  /\ \/ /\ op[o].kind = "start"
        /\ op' = [op EXCEPT ![o].pc = "drain", ![o].todo = Registered(op[o].thread)]
     \/ /\ op[o].kind = "resume"
        /\ Goto(o, "check")
     \/ /\ op[o].kind = "cancel"
        /\ op' = [op EXCEPT ![o].pc = "lock", ![o].exec = registry[op[o].run]]
  /\ UNCHANGED <<db, phase, memory, lost>>

\* Any transaction or read of an operation fails when storage is down: the
\* exception ends the operation and nothing was committed.
OpFails(o) ==
  /\ ~storage
  /\ \/ op[o].pc \in {"drain", "check", "reconcile", "accept"}
     \/ At(o, "await") /\ task[Exec(o)] = "done"
  /\ EndOp(o)
  /\ UNCHANGED <<db, phase, memory, lost>>

-----------------------------------------------------------------------------
(* start_run                                                                *)

\* mutant: every registered execution of the thread is drained
DrainEvery(o) ==
  /\ At(o, "drain") /\ storage
  /\ \E x \in op[o].todo :
       op' = [op EXCEPT ![o].pc = "draining", ![o].run = x[1], ![o].exec = x[2]]
  /\ UNCHANGED <<db, phase, memory, slot, lost>>

\* a registered execution of the thread is drained if its Run is terminal
DrainNext(o) ==
  /\ At(o, "drain") /\ storage
  /\ \E x \in op[o].todo :
       IF status[x[1]] \in Terminal
         THEN op' = [op EXCEPT ![o].pc = "draining", ![o].run = x[1], ![o].exec = x[2]]
         ELSE op' = [op EXCEPT ![o].todo = @ \ {x}]
  /\ UNCHANGED <<db, phase, memory, slot, lost>>

Drained(o) ==
  /\ At(o, "draining")
  /\ task[Exec(o)] = "done"
  /\ Close(Exec(o))
  /\ op' = [op EXCEPT ![o].pc = "drain", ![o].todo = @ \ {Exec(o)}]
  /\ UNCHANGED <<db, phase, task, outcome, lock, abort, interrupted, owed, slot, lost>>

ThreadBusy(t) == \E r \in Runs : ThreadOf[r] = t /\ status[r] \in Active

CreateRun(o) ==
  /\ At(o, "drain") /\ op[o].todo = {} /\ storage
  /\ \E r \in Runs :
       /\ ThreadOf[r] = op[o].thread
       /\ status[r] = "absent"
       /\ ~ThreadBusy(op[o].thread)
       /\ status' = [status EXCEPT ![r] = "running"]
       /\ round' = [round EXCEPT ![r] = 1]
       /\ op' = [op EXCEPT ![o].pc = "install", ![o].run = r, ![o].exec = 1]
  /\ UNCHANGED <<storage, phase, memory, slot, lost>>

RefuseBusy(o) ==
  /\ At(o, "drain") /\ op[o].todo = {} /\ storage
  /\ ThreadBusy(op[o].thread)
  /\ EndOp(o)
  /\ UNCHANGED <<db, phase, memory, lost>>

-----------------------------------------------------------------------------
(* resume_run                                                               *)

Check(o) ==
  /\ At(o, "check") /\ storage
  /\ LET r == op[o].run
     IN  IF status[r] # "interrupted" THEN EndOp(o)       \* ApprovalConflict
         ELSE /\ op' = [op EXCEPT ![o].pc = IF registry[r] = 0 THEN "reconcile" ELSE "await",
                                  ![o].exec = registry[r]]
              /\ UNCHANGED slot
  /\ UNCHANGED <<db, phase, memory, lost>>

\* wait_run of the invocation that paused: its task has ended, with its finally
AwaitPrevious(o) ==
  /\ At(o, "await") /\ storage
  /\ task[Exec(o)] = "done"
  /\ Goto(o, "reconcile")
  /\ UNCHANGED <<db, phase, memory, slot, lost>>

\* reconcile_run finds the checkpoint of the pause intact, or gives the Run up
Reconcile(o) ==
  /\ At(o, "reconcile") /\ storage
  /\ \/ /\ status[op[o].run] = "interrupted"
        /\ Goto(o, "accept")
        /\ UNCHANGED <<status, slot>>
     \/ /\ status[op[o].run] = "interrupted"
        /\ status' = [status EXCEPT ![op[o].run] = "error"]
        /\ EndOp(o)
  /\ UNCHANGED <<round, storage, phase, memory, lost>>

\* read_run reconciles a paused Run too, under the thread lock but outside
\* ApplicationLifecycle; it changes something only if it gives the Run up
ReadGivesUp(r) ==
  /\ phase \in {"up", "closing", "stopping"} /\ storage
  /\ slot[ThreadOf[r]] = NoOp
  /\ status[r] = "interrupted"
  /\ status' = [status EXCEPT ![r] = "error"]
  /\ UNCHANGED <<round, storage, phase, memory, service, lost>>

AcceptApproval(o) ==
  /\ At(o, "accept") /\ storage
  /\ LET r == op[o].run
     IN  /\ status[r] = "interrupted"
         /\ status' = [status EXCEPT ![r] = "running"]
         /\ round' = [round EXCEPT ![r] = @ + 1]
         /\ op' = [op EXCEPT ![o].pc = "install", ![o].exec = round[r] + 1]
  /\ UNCHANGED <<storage, phase, memory, slot, lost>>

-----------------------------------------------------------------------------
(* RunExecutionCoordinator.start, after the commit of the caller            *)

Refused(r) == registry[r] # 0 \/ phase = "stopping"

Install(o) ==
  /\ At(o, "install")
  /\ ~Refused(op[o].run)
  /\ registry' = [registry EXCEPT ![op[o].run] = op[o].exec]
  /\ task' = [task EXCEPT ![Exec(o)] = "created"]
  /\ EndOp(o)
  /\ UNCHANGED <<db, phase, outcome, lock, abort, interrupted, owed, closed, lost>>

\* The task of the execution could not be created: another one settles FAILED,
\* and the operation waits for its first attempt.
StartFails(o) ==
  /\ At(o, "install")
  /\ registry' = IF Refused(op[o].run) THEN registry
                 ELSE [registry EXCEPT ![op[o].run] = op[o].exec]
  /\ task' = [task EXCEPT ![Exec(o)] = "settle"]
  /\ outcome' = [outcome EXCEPT ![Exec(o)] = "failed"]
  /\ Goto(o, "attempted")
  /\ UNCHANGED <<db, phase, lock, abort, interrupted, owed, closed, slot, lost>>

Attempted(o) ==
  /\ At(o, "attempted")
  /\ task[Exec(o)] \in {"retry", "done"}
  /\ EndOp(o)
  /\ UNCHANGED <<db, phase, memory, lost>>

-----------------------------------------------------------------------------
(* cancel_run and RunExecutionCoordinator.cancel                            *)

\* mutant: the cancellation does not take the lock of the execution
CancelUnlocked(o) ==
  /\ At(o, "lock")
  /\ Goto(o, "commit")
  /\ UNCHANGED <<db, phase, memory, slot, lost>>

\* the lock of the execution found in the registry, if there was one
LockForCancel(o) ==
  /\ At(o, "lock")
  /\ IF op[o].exec = 0 THEN UNCHANGED lock
     ELSE lock[Exec(o)] = "free" /\ lock' = [lock EXCEPT ![Exec(o)] = o]
  /\ Goto(o, "commit")
  /\ UNCHANGED <<db, phase, registry, task, outcome, abort, interrupted, owed, closed, slot, lost>>

Unlock(x) == lock' = [lock EXCEPT ![x] = "free"]
UnlockOf(o) == IF op[o].exec = 0 THEN UNCHANGED lock ELSE Unlock(Exec(o))

CommitCancel(o) ==
  /\ At(o, "commit") /\ storage
  /\ LET r == op[o].run
     IN  IF status[r] \in Active
           THEN /\ status' = [status EXCEPT ![r] = "cancelled"]
                /\ owed' = IF op[o].exec = 0 \/ Exec(o) \in closed THEN owed
                           ELSE owed \cup {Exec(o)}
           ELSE UNCHANGED <<status, owed>>
  /\ Goto(o, "notify")
  /\ UNCHANGED <<round, storage, phase, registry, task, outcome, lock, abort, interrupted, closed,
                 slot, lost>>

\* mutant: the lock of the execution is not released on the error path
CancelFailsLocked(o) ==
  /\ At(o, "commit") /\ ~storage
  /\ EndOp(o)
  /\ UNCHANGED <<db, phase, memory, lost>>

CancelFails(o) ==
  /\ At(o, "commit") /\ ~storage
  /\ UnlockOf(o)
  /\ EndOp(o)
  /\ UNCHANGED <<db, phase, registry, task, outcome, abort, interrupted, owed, closed, lost>>

\* publish what was committed, then ask the local execution to stop
NotifyCancel(o) ==
  /\ At(o, "notify")
  /\ IF op[o].exec # 0 /\ status[op[o].run] = "cancelled"
       THEN abort' = abort \cup {Exec(o)} /\ owed' = owed \ {Exec(o)}
       ELSE UNCHANGED <<abort, owed>>
  /\ UnlockOf(o)
  /\ EndOp(o)
  /\ UNCHANGED <<db, phase, registry, task, outcome, interrupted, closed, lost>>

-----------------------------------------------------------------------------
(* The task of an execution.                                                *)

Move(x, pc) == task' = [task EXCEPT ![x] = pc]
Result(x, reason) == outcome' = [outcome EXCEPT ![x] = reason] /\ Move(x, "settle")

\* A task that shutdown has cancelled goes on only to see the cancellation.
Free(x) == x \notin interrupted

\* execute_agent_loop does not start a Graph for an aborted execution
Begin(x) ==
  /\ task[x] = "created" /\ Free(x)
  /\ IF x \in abort THEN Result(x, "aborted") ELSE Move(x, "graph") /\ UNCHANGED outcome
  /\ UNCHANGED <<db, phase, registry, lock, abort, interrupted, owed, closed, service, lost>>

\* the Graph ends by itself, whether or not it was asked to stop
GraphEnds(x) ==
  /\ task[x] = "graph" /\ Free(x)
  /\ \E reason \in {"completed", "failed", "interrupted"} :
       /\ reason = "interrupted" => x[2] < MaxRounds     \* bound
       /\ Result(x, reason)
  /\ UNCHANGED <<db, phase, registry, lock, abort, interrupted, owed, closed, service, lost>>

GraphAborts(x) ==
  /\ task[x] = "graph" /\ Free(x)
  /\ x \in abort
  /\ Result(x, "aborted")
  /\ UNCHANGED <<db, phase, registry, lock, abort, interrupted, owed, closed, service, lost>>

LockForSettle(x) ==
  /\ task[x] = "settle" /\ Free(x)
  /\ lock[x] = "free"
  /\ lock' = [lock EXCEPT ![x] = "task"]
  /\ Move(x, "settling")
  /\ UNCHANGED <<db, phase, registry, outcome, abort, interrupted, owed, closed, service, lost>>

Target(reason) == [completed |-> "completed", aborted |-> "cancelled",
                   failed |-> "error", interrupted |-> "interrupted"][reason]

\* settle_execution: only the current invocation, and a status that is no longer
\* "running" is obeyed
Current(x) == x[2] = round[x[1]]

CommitSettle(x) ==
  /\ task[x] = "settling" /\ Free(x) /\ storage
  /\ Current(x)
  /\ IF status[x[1]] = "running"
       THEN status' = [status EXCEPT ![x[1]] = Target(outcome[x])] /\ owed' = owed \cup {x}
       ELSE UNCHANGED <<status, owed>>
  /\ Move(x, "publish")
  /\ UNCHANGED <<round, storage, phase, registry, outcome, lock, abort, interrupted, closed,
                 service, lost>>

\* mutant: a failed settlement of FAILED is not tried again
SettleFailsForGood(x) ==
  /\ task[x] = "settling" /\ Free(x)
  /\ ~storage
  /\ Unlock(x)
  /\ Move(x, "finish")
  /\ lost' = IF outcome[x] = "failed" THEN lost ELSE lost \cup {x}
  /\ UNCHANGED <<db, phase, registry, outcome, abort, interrupted, owed, closed, service>>

\* The transaction raised: FAILED sleeps and tries again, anything else gives up
\* and leaves the Run as it is.
SettleFails(x) ==
  /\ task[x] = "settling" /\ Free(x)
  /\ ~storage \/ ~Current(x)
  /\ Unlock(x)
  /\ IF outcome[x] = "failed"
       THEN Move(x, "retry") /\ UNCHANGED lost
       ELSE Move(x, "finish") /\ lost' = lost \cup {x}
  /\ UNCHANGED <<db, phase, registry, outcome, abort, interrupted, owed, closed, service>>

Publish(x) ==
  /\ task[x] = "publish" /\ Free(x)
  /\ owed' = owed \ {x}
  /\ Unlock(x)
  /\ Move(x, "finish")
  /\ UNCHANGED <<db, phase, registry, outcome, abort, interrupted, closed, service, lost>>

Retry(x) ==
  /\ task[x] = "retry" /\ Free(x)
  /\ Move(x, "settle")
  /\ UNCHANGED <<db, phase, registry, outcome, lock, abort, interrupted, owed, closed, service, lost>>

Finish(x) ==
  /\ task[x] = "finish" /\ Free(x)
  /\ Close(x)
  /\ Move(x, "done")
  /\ UNCHANGED <<db, phase, outcome, lock, abort, interrupted, owed, service, lost>>

\* _on_done, and shutdown itself: a task that ended without its finally clause
CleanUp(x) ==
  /\ task[x] = "done" /\ registry[x[1]] = x[2]
  /\ Close(x)
  /\ UNCHANGED <<db, phase, task, outcome, lock, abort, interrupted, owed, service, lost>>

\* CancelledError arrives at the await the task is at: before its first step the
\* coroutine never runs, in the finally clause the close is skipped, elsewhere
\* the finally clause comes next; a transaction rolls back unless it had committed.
SeeCancellation(x) ==
  /\ x \in interrupted /\ task[x] \in Alive
  /\ interrupted' = interrupted \ {x}
  /\ lock' = IF task[x] \in {"settling", "publish"} THEN [lock EXCEPT ![x] = "free"] ELSE lock
  /\ Move(x, IF task[x] \in {"created", "finish"} THEN "done" ELSE "finish")
  /\ UNCHANGED <<db, phase, registry, outcome, abort, owed, closed, service, lost>>

-----------------------------------------------------------------------------
(* The process.                                                             *)

\* lifecycle.shutdown: nothing new is accepted, what was accepted goes on
BeginShutdown ==
  /\ phase = "up"
  /\ phase' = "closing"
  /\ UNCHANGED <<db, memory, service, lost>>

\* executions.shutdown: abort and cancel every registered execution
StopExecutions ==
  /\ phase = "closing"
  /\ \A o \in Ops : At(o, "idle")
  /\ phase' = "stopping"
  /\ LET all == {x \in Execs : registry[x[1]] = x[2]}
     IN  /\ abort' = abort \cup all
         /\ interrupted' = {x \in all : task[x] \in Alive}
  /\ UNCHANGED <<db, registry, task, outcome, lock, owed, closed, service, lost>>

Forget ==
  /\ registry' = [r \in Runs |-> 0]
  /\ task' = [x \in Execs |-> "none"]
  /\ outcome' = [x \in Execs |-> "none"]
  /\ lock' = [x \in Execs |-> "free"]
  /\ abort' = {} /\ interrupted' = {} /\ owed' = {} /\ closed' = {}
  /\ slot' = [t \in Threads |-> NoOp]
  /\ op' = [o \in Ops |-> IdleOp]

\* everything gathered and removed: the runtime closes its database
Exit ==
  /\ phase = "stopping"
  /\ \A x \in Execs : task[x] \notin Alive
  /\ \A r \in Runs : registry[r] = 0
  /\ phase' = "down"
  /\ Forget
  /\ UNCHANGED <<db, lost>>

Crash ==
  /\ phase # "down"
  /\ phase' = "down"
  /\ Forget
  /\ UNCHANGED <<db, lost>>

Restart ==
  /\ phase = "down"
  /\ phase' = "recovering"
  /\ UNCHANGED <<db, memory, service, lost>>

\* reconcile_all, before any operation: a running Run has lost its execution, a
\* paused one may have lost its checkpoint
Recover(r) ==
  /\ phase = "recovering" /\ storage
  /\ \/ status[r] = "running" /\ registry[r] = 0
     \/ status[r] = "interrupted"
  /\ status' = [status EXCEPT ![r] = "error"]
  /\ UNCHANGED <<round, storage, phase, memory, service, lost>>

Ready ==
  /\ phase = "recovering" /\ storage
  /\ \A r \in Runs : status[r] # "running"
  /\ phase' = "up"
  /\ UNCHANGED <<db, memory, service, lost>>

StorageChanges ==
  /\ storage' = ~storage
  /\ UNCHANGED <<status, round, phase, memory, service, lost>>

-----------------------------------------------------------------------------

OpStep(o) ==
  \/ OpFails(o)
  \/ DrainNext(o) \/ Drained(o) \/ CreateRun(o) \/ RefuseBusy(o)
  \/ Check(o) \/ AwaitPrevious(o) \/ Reconcile(o) \/ AcceptApproval(o)
  \/ Install(o) \/ StartFails(o) \/ Attempted(o)
  \/ LockForCancel(o) \/ CommitCancel(o) \/ CancelFails(o) \/ NotifyCancel(o)

TaskStep(x) ==
  \/ Begin(x) \/ GraphAborts(x) \/ LockForSettle(x) \/ CommitSettle(x) \/ SettleFails(x)
  \/ Publish(x) \/ Retry(x) \/ Finish(x) \/ CleanUp(x) \/ SeeCancellation(x)

Next ==
  \/ \E o \in Ops :
       \/ \E t \in Threads : Request(o, "start", t, NoRun)
       \/ \E r \in Runs, kind \in {"resume", "cancel"} :
            status[r] # "absent" /\ Request(o, kind, ThreadOf[r], r)
       \/ Enter(o)
       \/ OpStep(o)
  \/ \E x \in Execs : TaskStep(x) \/ GraphEnds(x)
  \/ BeginShutdown \/ StopExecutions \/ Exit \/ Crash \/ Restart
  \/ \E r \in Runs : Recover(r) \/ ReadGivesUp(r)
  \/ Ready
  \/ StorageChanges

Spec == Init /\ [][Next]_vars

\* The event loop runs what is ready.  Operations and tasks get strong fairness
\* only because some wait for an asyncio lock, a fair queue, that others take in
\* between; at every other place one of their steps stays enabled.  A transaction
\* commits or fails.  The application is started again, and some start lives long
\* enough to finish its recovery.  Nothing makes a Graph that nobody stops end, a
\* caller call, or storage work.
Fairness ==
  /\ \A o \in Ops : SF_vars(Enter(o) \/ OpStep(o))
  /\ \A x \in Execs : SF_vars(TaskStep(x))
  /\ WF_vars(StopExecutions \/ Exit \/ Restart)
  /\ SF_vars(Ready \/ \E r \in Runs : Recover(r) /\ status[r] = "running")

FairSpec == Spec /\ Fairness

-----------------------------------------------------------------------------
(* Properties.                                                              *)

OpSet == [kind : {"none", "start", "resume", "cancel"}, thread : Threads \cup {NoOp},
          run : Runs \cup {NoRun},
          pc : {"idle", "queued", "drain", "draining", "check", "await", "reconcile", "accept",
                "install", "attempted", "lock", "commit", "notify"},
          exec : 0..MaxRounds, todo : SUBSET Execs]

\* Every variable has its type, and a thread lock is held by the operation that
\* is inside the section it protects (runs.py:466-474).
TypeOK ==
  /\ status \in [Runs -> Terminal \cup Active \cup {"absent"}]
  /\ round \in [Runs -> 0..MaxRounds]
  /\ storage \in BOOLEAN
  /\ phase \in {"down", "recovering", "up", "closing", "stopping"}
  /\ registry \in [Runs -> 0..MaxRounds]
  /\ task \in [Execs -> Alive \cup {"none", "done"}]
  /\ outcome \in [Execs -> {"none", "completed", "aborted", "failed", "interrupted"}]
  /\ lock \in [Execs -> {"free", "task"} \cup Ops]
  /\ abort \cup interrupted \cup owed \cup closed \cup lost \subseteq Execs
  /\ slot \in [Threads -> Ops \cup {NoOp}]
  /\ op \in [Ops -> OpSet]
  /\ \A o \in Ops : Going(o) => slot[op[o].thread] = o

\* The parts of EngineMatchesTables.

\* Never two Graphs on the checkpoint of one thread: cancelling a Run frees its
\* thread at once, but start_run first waits for the old Graph (runs.py:478-482).
OneGraphPerThread ==
  \A x, y \in Execs :
    /\ task[x] \in {"created", "graph"} /\ task[y] \in {"created", "graph"}
    /\ ThreadOf[x[1]] = ThreadOf[y[1]]
    => x = y

\* The registry never loses an execution that still has something to do, so a
\* cancellation always reaches it, and never refuses a new one (execution.py:70-89,
\* runs.py:516-518, lifecycle.py:50-53).
RegistryFindsTheLiving ==
  /\ \A x \in Execs : task[x] \in Alive => registry[x[1]] = x[2]
  /\ \A o \in Ops : At(o, "install") => ~Refused(op[o].run)

\* Whoever executes or settles is the latest invocation of its Run, and a Graph
\* runs on only for a Run that is running or whose cancellation it has been told
\* of, or is about to be (runs.py:181-182, run_execution.py:296-303).
GraphServesItsRun ==
  \A x \in Execs :
    /\ task[x] \in Alive => Current(x)
    /\ task[x] \in {"created", "graph"} /\ status[x[1]] # "running" =>
         /\ status[x[1]] = "cancelled"
         /\ x \in abort \/ \E o \in Ops : At(o, "notify") /\ Exec(o) = x

\* While the process serves, a running Run has an execution, or one is being
\* started, or its outcome was lost: an outcome other than FAILED is given up
\* when it cannot be committed, and then only a cancellation or a restart ends
\* the Run (run_execution.py:258-261).
RunningHasOwner ==
  phase \in {"up", "closing"} =>
    \A r \in Runs : status[r] = "running" =>
      \/ registry[r] = round[r]
      \/ \E o \in Ops : At(o, "install") /\ op[o].run = r
      \/ <<r, round[r]>> \in lost

\* Facts committed while the stream of an execution is open reach it before it is
\* closed, whoever committed them, unless shutdown cut the task off
\* (run_execution.py:234-304, 327-332).
PublishedBeforeClose ==
  phase \in {"up", "closing"} => owed \cap closed = {}

\* What the process holds in memory agrees with the tables, at every step of the
\* operations and tasks that keep the two together: one Graph per thread, which
\* serves the current invocation of a Run that runs, an owner for every running
\* Run, a registry that finds what lives, and no fact that comes too late for its
\* stream (runs.py:466-622, run_execution.py:137-343).
EngineMatchesTables ==
  /\ OneGraphPerThread
  /\ RegistryFindsTheLiving
  /\ GraphServesItsRun
  /\ RunningHasOwner
  /\ PublishedBeforeClose

\* The operation that waits, with the lock of its thread, for the task of an execution:
\* start_run and resume_run for its end, a failed start for its first settlement.
WaitsForTask(o) == op[o].pc \in {"draining", "await", "attempted"}

\* Whoever is waited for is there and comes to an end, in every interleaving of two
\* operations, the tasks, failing transactions and shutdown: the lock of a thread
\* belongs to an operation inside its section, that of an execution to the task or the
\* cancellation inside its transaction or about to publish, which waits for no lock
\* then; and an operation that keeps the lock of its thread while it waits for a task
\* waits for one that exists, and for a Graph only when that was asked to stop: behind
\* that lock its user could not cancel it any more (runs.py:466-482, 516-518,
\* run_execution.py:234-304).
WaitsAreServed ==
  /\ \A t \in Threads : slot[t] # NoOp => Going(slot[t]) /\ op[slot[t]].thread = t
  /\ \A x \in Execs :
       /\ lock[x] = "task" => task[x] \in {"settling", "publish"}
       /\ lock[x] \in Ops => /\ op[lock[x]].pc \in {"commit", "notify"}
                             /\ Exec(lock[x]) = x
  /\ \A o \in Ops : WaitsForTask(o) =>
       /\ task[Exec(o)] # "none"
       /\ task[Exec(o)] \in {"created", "graph"} => Exec(o) \in abort

\* The parts of ExecutionsEnd and OperationsEnd.

\* A cancelled Run's Graph ends (run_execution.py:296-303, loop.py:85-98).
CancelEndsGraph ==
  \A x \in Execs : (task[x] = "graph" /\ status[x[1]] = "cancelled") ~> task[x] # "graph"

StorageRecovers == <>[]storage

\* If storage works in the end, a failed execution is settled: its Run does not
\* stay running (run_execution.py:229-277; recovery.py:94-97 after a crash).
FailureIsSettled ==
  StorageRecovers =>
    \A x \in Execs : (task[x] \in Alive /\ outcome[x] = "failed") ~> (status[x[1]] # "running")

\* If storage works in the end, every accepted operation ends, even one that
\* waits for another execution (lifecycle.py:25-42, runs.py:479-482, 516-518).
AcceptedEnds == StorageRecovers => \A o \in Ops : At(o, "queued") ~> At(o, "idle")

\* If storage works in the end, shutdown comes to an end (lifecycle.py:44-55).
ShutdownEnds == StorageRecovers => (phase = "closing" ~> phase = "down")

\* What no user waits for still ends: the Graph of a cancelled Run, and the Run of
\* an execution that failed, whose settlement is tried until storage takes it.
ExecutionsEnd == CancelEndsGraph /\ FailureIsSettled

\* Nobody waits for ever: an operation that was accepted, with the locks and the
\* executions it waits for, and shutdown, which waits for the operations.
OperationsEnd == AcceptedEnds /\ ShutdownEnds

\* "shutdown can cancel this owner" (run_execution.py:230): while a failed
\* settlement is tried again and again, shutdown gets to the task that does it.
\* It does not when a start_run waits for that very task (runs.py:479-482) and
\* storage stays down: shutdown waits for the operation first (lifecycle.py:50).
ShutdownStopsRetry ==
  \A x \in Execs : (phase = "closing" /\ task[x] = "retry") ~> (phase # "closing")
=============================================================================
