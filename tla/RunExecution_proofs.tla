------------------------- MODULE RunExecution_proofs -------------------------
(***************************************************************************)
(* Machine-checked facts about RunExecution for every number of threads,   *)
(* runs, invocations and operations in flight: what the process holds in   *)
(* memory agrees with the tables at every step, and what an operation      *)
(* waits for is on its way to an end.                                      *)
(***************************************************************************)
EXTENDS RunExecution, TLAPS

-----------------------------------------------------------------------------
(* The inductive invariant.                                                 *)

Serving == phase \in {"up", "closing"}
Graphs  == {"created", "graph"}
Locking == {"settling", "publish"}

\* Operations exist only while the process serves, a cancelled task only once it
\* stops; a process that is not there, or still recovers, executes nothing.
PhaseInv ==
  /\ ~Serving => \A o \in Ops : op[o] = IdleOp
  /\ phase # "stopping" => interrupted = {}
  /\ phase \in {"down", "recovering"} =>
       /\ \A x \in Execs : task[x] = "none" /\ lock[x] = "free"
       /\ \A r \in Runs : registry[r] = 0
       /\ abort = {} /\ owed = {} /\ closed = {}

\* The tables: an invocation more is possible for a paused Run, and the active Run
\* of a thread is the only one.
TableInv ==
  /\ \A r \in Runs : status[r] = "absent" => round[r] = 0
  /\ \A r \in Runs : status[r] = "interrupted" => round[r] < MaxRounds
  /\ \A r, q \in Runs :
       status[r] \in Active /\ status[q] \in Active /\ ThreadOf[r] = ThreadOf[q] => r = q

\* What an operation is about belongs to the thread whose lock it takes.
ScopeOk(o) ==
  /\ op[o].pc = "idle" => op[o] = IdleOp
  /\ op[o].pc # "idle" => op[o].thread \in Threads /\ op[o].kind # "none"
  /\ op[o].kind \in {"resume", "cancel"} => op[o].run \in Runs
  /\ op[o].pc \notin {"idle", "queued", "drain"} => op[o].run \in Runs
  /\ op[o].run \in Runs => ThreadOf[op[o].run] = op[o].thread
  /\ op[o].pc \in {"draining", "await", "install", "attempted"} => op[o].exec # 0
  /\ \A x \in op[o].todo : ThreadOf[x[1]] = op[o].thread

\* A start_run that drains its thread has before it every Graph but the one of a
\* Run that still runs.
DrainOk(o) ==
  op[o].pc \in {"drain", "draining"} =>
    \A x \in Execs : ThreadOf[x[1]] = op[o].thread /\ task[x] \in Graphs =>
      x \in op[o].todo \/ status[x[1]] = "running"

\* What an operation has read stays true until it has used it.
StageOk(o) ==
  /\ op[o].pc = "await" => op[o].exec = round[op[o].run]
  /\ op[o].pc \in {"reconcile", "accept"} => registry[op[o].run] = 0
  /\ op[o].pc = "install" =>
       /\ registry[op[o].run] = 0
       /\ status[op[o].run] = "running"
       /\ op[o].exec = round[op[o].run]
       /\ task[Exec(o)] = "none"
       /\ \A x \in Execs : ThreadOf[x[1]] = op[o].thread => task[x] \notin Graphs
  /\ op[o].pc \in {"lock", "commit", "notify"} =>
       IF op[o].exec = 0 THEN registry[op[o].run] = 0 ELSE op[o].exec = round[op[o].run]

ScopeInv == \A o \in Ops : ScopeOk(o)
DrainInv == \A o \in Ops : DrainOk(o)
StageInv == \A o \in Ops : StageOk(o)

\* The executions: the registry has the latest invocation or nothing, and while the
\* process serves, an execution leaves it as it ends, with its outcome in the table
\* or lost.
TaskOk(x) ==
  /\ task[x] \in Alive => registry[x[1]] = x[2]
  /\ task[x] # "none" => x[2] <= round[x[1]]
  /\ task[x] \in {"settle", "settling", "retry"} => outcome[x] # "none"
  /\ outcome[x] = "interrupted" => x[2] < MaxRounds
  /\ x \in closed => task[x] = "done"
  /\ Serving /\ task[x] = "done" => registry[x[1]] # x[2]
  /\ Serving /\ task[x] \in {"publish", "finish", "done"} /\ Current(x) =>
       status[x[1]] # "running" \/ x \in lost

TaskInv ==
  /\ \A r \in Runs : registry[r] \in {0, round[r]}
  /\ \A x \in Execs : TaskOk(x)

\* A Graph has its thread to itself while a Run of the thread is active, no other
\* Graph is ever on the thread, and it goes on only for a Run that runs or whose
\* cancellation it knows of, or is about to be told.
GraphOk(x) ==
  task[x] \in Graphs =>
    /\ \A r \in Runs : ThreadOf[r] = ThreadOf[x[1]] /\ status[r] \in Active => r = x[1]
    /\ status[x[1]] # "running" =>
         /\ status[x[1]] = "cancelled"
         /\ x \in abort \/ \E o \in Ops : At(o, "notify") /\ Exec(o) = x

GraphInv ==
  /\ \A x \in Execs : GraphOk(x)
  /\ OneGraphPerThread

\* The lock of an execution is held by its task from the transaction to the
\* publication, or by the cancellation that says so.
HasLock(o, x) == op[o].pc \in {"commit", "notify"} /\ op[o].exec # 0 /\ Exec(o) = x

LockOk(x) ==
  /\ lock[x] = "task" <=> task[x] \in Locking
  /\ \A o \in Ops : lock[x] = o <=> HasLock(o, x)

LockInv == \A x \in Execs : LockOk(x)

\* While the process serves, facts are owed only by one who holds the lock of the
\* execution and goes on to publish them, and to no stream that is closed.
OwedOk(x) ==
  \/ task[x] = "publish"
  \/ status[x[1]] = "cancelled" /\ \E o \in Ops : At(o, "notify") /\ HasLock(o, x)

OwedInv ==
  /\ Serving => \A x \in owed : OwedOk(x)
  /\ PublishedBeforeClose

IInv ==
  /\ TypeOK /\ PhaseInv /\ TableInv /\ ScopeInv /\ DrainInv /\ StageInv
  /\ TaskInv /\ GraphInv /\ LockInv /\ OwedInv /\ RunningHasOwner

LEMMA ExecParts ==
  \A x \in Execs : x[1] \in Runs /\ x[2] \in 1..MaxRounds /\ x[2] # 0 /\ x = <<x[1], x[2]>>
  BY DEF Execs

-----------------------------------------------------------------------------
(* What a step of an operation does to the operations, field by field.       *)

Places ==
  {"idle", "queued", "drain", "draining", "check", "await", "reconcile", "accept", "install",
   "attempted", "lock", "commit", "notify"}

\* One operation goes on, the others stay where they are.
Moved(o, r, pc, e, todo) ==
  /\ op' \in [Ops -> OpSet]
  /\ \A p \in Ops : p # o => op'[p] = op[p]
  /\ op'[o].kind = op[o].kind /\ op'[o].thread = op[o].thread
  /\ op'[o].run = r /\ op'[o].pc = pc /\ op'[o].exec = e /\ op'[o].todo = todo

\* One operation ends and gives back the lock of its thread.
Ended(o) ==
  /\ op' \in [Ops -> OpSet]
  /\ \A p \in Ops : p # o => op'[p] = op[p]
  /\ op'[o] = IdleOp
  /\ slot' = [slot EXCEPT ![op[o].thread] = NoOp]

LEMMA MovePc ==
  ASSUME op \in [Ops -> OpSet], NEW o \in Ops, NEW pc \in Places,
         op' = [op EXCEPT ![o].pc = pc]
  PROVE  Moved(o, op[o].run, pc, op[o].exec, op[o].todo)
<1>1. op[o] \in OpSet
  OBVIOUS
<1>2. op'[o] = [op[o] EXCEPT !.pc = pc]
  OBVIOUS
<1>3. op'[o] \in OpSet
  BY <1>1, <1>2 DEF OpSet, Places
<1>4. \A p \in Ops : p # o => op'[p] = op[p]
  OBVIOUS
<1>5. op' \in [Ops -> OpSet]
  BY <1>3, <1>4
<1>6. /\ op'[o].kind = op[o].kind /\ op'[o].thread = op[o].thread
      /\ op'[o].run = op[o].run /\ op'[o].pc = pc
      /\ op'[o].exec = op[o].exec /\ op'[o].todo = op[o].todo
  BY <1>1, <1>2 DEF OpSet
<1> QED BY <1>4, <1>5, <1>6 DEF Moved

LEMMA MoveExec ==
  ASSUME op \in [Ops -> OpSet], NEW o \in Ops, NEW pc \in Places, NEW e \in 0..MaxRounds,
         op' = [op EXCEPT ![o].pc = pc, ![o].exec = e]
  PROVE  Moved(o, op[o].run, pc, e, op[o].todo)
<1>1. op[o] \in OpSet
  OBVIOUS
<1>2. op'[o] = [[op[o] EXCEPT !.pc = pc] EXCEPT !.exec = e]
  OBVIOUS
<1>3. op'[o] \in OpSet
  BY <1>1, <1>2 DEF OpSet, Places
<1>4. \A p \in Ops : p # o => op'[p] = op[p]
  OBVIOUS
<1>5. op' \in [Ops -> OpSet]
  BY <1>3, <1>4
<1>6. /\ op'[o].kind = op[o].kind /\ op'[o].thread = op[o].thread
      /\ op'[o].run = op[o].run /\ op'[o].pc = pc
      /\ op'[o].exec = e /\ op'[o].todo = op[o].todo
  BY <1>1, <1>2 DEF OpSet
<1> QED BY <1>4, <1>5, <1>6 DEF Moved

LEMMA MoveRun ==
  ASSUME op \in [Ops -> OpSet], NEW o \in Ops, NEW pc \in Places, NEW r \in Runs,
         NEW e \in 0..MaxRounds,
         op' = [op EXCEPT ![o].pc = pc, ![o].run = r, ![o].exec = e]
  PROVE  Moved(o, r, pc, e, op[o].todo)
<1>1. op[o] \in OpSet
  OBVIOUS
<1>2. op'[o] = [[[op[o] EXCEPT !.pc = pc] EXCEPT !.run = r] EXCEPT !.exec = e]
  OBVIOUS
<1>3. op'[o] \in OpSet
  BY <1>1, <1>2 DEF OpSet, Places
<1>4. \A p \in Ops : p # o => op'[p] = op[p]
  OBVIOUS
<1>5. op' \in [Ops -> OpSet]
  BY <1>3, <1>4
<1>6. /\ op'[o].kind = op[o].kind /\ op'[o].thread = op[o].thread
      /\ op'[o].run = r /\ op'[o].pc = pc
      /\ op'[o].exec = e /\ op'[o].todo = op[o].todo
  BY <1>1, <1>2 DEF OpSet
<1> QED BY <1>4, <1>5, <1>6 DEF Moved

LEMMA MoveTodo ==
  ASSUME op \in [Ops -> OpSet], NEW o \in Ops, NEW todo \in SUBSET Execs,
         op' = [op EXCEPT ![o].todo = todo]
  PROVE  Moved(o, op[o].run, op[o].pc, op[o].exec, todo)
<1>1. op[o] \in OpSet
  OBVIOUS
<1>2. op'[o] = [op[o] EXCEPT !.todo = todo]
  OBVIOUS
<1>3. op'[o] \in OpSet
  BY <1>1, <1>2 DEF OpSet
<1>4. \A p \in Ops : p # o => op'[p] = op[p]
  OBVIOUS
<1>5. op' \in [Ops -> OpSet]
  BY <1>3, <1>4
<1>6. /\ op'[o].kind = op[o].kind /\ op'[o].thread = op[o].thread
      /\ op'[o].run = op[o].run /\ op'[o].pc = op[o].pc
      /\ op'[o].exec = op[o].exec /\ op'[o].todo = todo
  BY <1>1, <1>2 DEF OpSet
<1> QED BY <1>4, <1>5, <1>6 DEF Moved

LEMMA MovePcTodo ==
  ASSUME op \in [Ops -> OpSet], NEW o \in Ops, NEW pc \in Places, NEW todo \in SUBSET Execs,
         op' = [op EXCEPT ![o].pc = pc, ![o].todo = todo]
  PROVE  Moved(o, op[o].run, pc, op[o].exec, todo)
<1>1. op[o] \in OpSet
  OBVIOUS
<1>2. op'[o] = [[op[o] EXCEPT !.pc = pc] EXCEPT !.todo = todo]
  OBVIOUS
<1>3. op'[o] \in OpSet
  BY <1>1, <1>2 DEF OpSet, Places
<1>4. \A p \in Ops : p # o => op'[p] = op[p]
  OBVIOUS
<1>5. op' \in [Ops -> OpSet]
  BY <1>3, <1>4
<1>6. /\ op'[o].kind = op[o].kind /\ op'[o].thread = op[o].thread
      /\ op'[o].run = op[o].run /\ op'[o].pc = pc
      /\ op'[o].exec = op[o].exec /\ op'[o].todo = todo
  BY <1>1, <1>2 DEF OpSet
<1> QED BY <1>4, <1>5, <1>6 DEF Moved

LEMMA OpEnds ==
  ASSUME op \in [Ops -> OpSet], NEW o \in Ops, EndOp(o)
  PROVE  Ended(o)
<1>1. IdleOp \in OpSet
  BY ConstantsAssumption DEF IdleOp, OpSet
<1>2. op'[o] = IdleOp /\ \A p \in Ops : p # o => op'[p] = op[p]
  BY DEF EndOp
<1>3. op' \in [Ops -> OpSet]
  BY <1>1, <1>2 DEF EndOp
<1> QED BY <1>2, <1>3 DEF Ended, EndOp

\* The field types of an operation.
LEMMA OpParts ==
  ASSUME op \in [Ops -> OpSet]
  PROVE  \A o \in Ops : /\ op[o].pc \in Places /\ op[o].exec \in 0..MaxRounds
                        /\ op[o].run \in Runs \cup {NoRun}
                        /\ op[o].thread \in Threads \cup {NoOp}
                        /\ op[o].todo \subseteq Execs
                        /\ op[o].kind \in {"none", "start", "resume", "cancel"}
  BY DEF OpSet, Places

\* Two operations that go on are in different threads.
LEMMA Apart ==
  ASSUME TypeOK, ScopeInv, NEW o \in Ops, Going(o), NEW p \in Ops, Going(p), p # o
  PROVE  /\ op[p].thread # op[o].thread
         /\ op[p].run \in Runs => ThreadOf[op[p].run] # op[o].thread
         /\ op[p].run \in Runs /\ op[o].run \in Runs => op[p].run # op[o].run
  BY ConstantsAssumption DEF TypeOK, ScopeInv, ScopeOk, Going

\* An operation that goes on has Exec(o) where it works on an execution.
LEMMA ExecOfOp ==
  ASSUME TypeOK, ScopeInv, NEW o \in Ops, op[o].pc \notin {"idle", "queued", "drain"}
  PROVE  /\ op[o].run \in Runs /\ Going(o)
         /\ Exec(o)[1] = op[o].run /\ Exec(o)[2] = op[o].exec
         /\ op[o].exec # 0 => Exec(o) \in Execs
  BY OpParts, ConstantsAssumption DEF TypeOK, ScopeInv, ScopeOk, Going, Exec, Execs

\* A step of one operation that leaves tables, executions and locks alone.
LEMMA OpFrame ==
  ASSUME IInv, NEW o \in Ops,
         op[o].pc \notin {"install", "commit", "notify"}, op'[o].pc \notin {"commit", "notify"},
         \A p \in Ops : p # o => op'[p] = op[p],
         UNCHANGED <<status, round, phase, registry, task, outcome, lock, abort, owed, closed,
                     lost>>
  PROVE  TableInv' /\ TaskInv' /\ GraphInv' /\ LockInv' /\ OwedInv' /\ RunningHasOwner'
<1>1. TableInv' /\ TaskInv'
  BY DEF IInv, TableInv, TaskInv, TaskOk, Serving, Current
<1>2. \A p \in Ops : p # o \/ op[p].pc \notin {"install", "commit", "notify"}
  OBVIOUS
<1>3. GraphInv'
  BY DEF IInv, GraphInv, GraphOk, Graphs, At, Exec, OneGraphPerThread
<1>4. LockInv'
  BY DEF IInv, LockInv, LockOk, HasLock, Locking, Exec
<1>5. OwedInv'
  BY DEF IInv, OwedInv, OwedOk, HasLock, PublishedBeforeClose, Serving, At, Exec
<1>6. RunningHasOwner'
  BY DEF IInv, RunningHasOwner, At
<1> QED BY <1>1, <1>3, <1>4, <1>5, <1>6

\* What is known of an operation that has the lock of its thread.
Working(o) ==
  /\ Serving /\ Going(o)
  /\ op[o].thread \in Threads /\ slot[op[o].thread] = o
  /\ op[o].pc # "drain" =>
       /\ op[o].run \in Runs /\ ThreadOf[op[o].run] = op[o].thread
       /\ Exec(o)[1] = op[o].run /\ Exec(o)[2] = op[o].exec
       /\ op[o].exec # 0 => Exec(o) \in Execs

LEMMA GoingWorks ==
  ASSUME IInv, NEW o \in Ops, Going(o)
  PROVE  Working(o)
<1>1. Serving
  BY DEF IInv, PhaseInv, Going, IdleOp
<1>2. op[o].thread \in Threads /\ slot[op[o].thread] = o
  BY DEF IInv, TypeOK, ScopeInv, ScopeOk, Going
<1>3. ASSUME op[o].pc # "drain"
      PROVE  /\ op[o].run \in Runs /\ ThreadOf[op[o].run] = op[o].thread
             /\ Exec(o)[1] = op[o].run /\ Exec(o)[2] = op[o].exec
             /\ op[o].exec # 0 => Exec(o) \in Execs
  BY <1>3, ExecOfOp DEF IInv, ScopeInv, ScopeOk, Going
<1> QED BY <1>1, <1>2, <1>3 DEF Working

\* A step of an operation is about the thread whose lock it has.
Local(o) ==
  /\ \A p \in Ops : p # o => op'[p] = op[p]
  /\ \A r \in Runs : ThreadOf[r] # op[o].thread =>
       status'[r] = status[r] /\ round'[r] = round[r] /\ registry'[r] = registry[r]
  /\ \A x \in Execs : ThreadOf[x[1]] # op[o].thread => task'[x] = task[x]

\* What the other operations rely on stays.
LEMMA OthersKeep ==
  ASSUME IInv, NEW o \in Ops, Working(o), Local(o), ScopeOk(o)', DrainOk(o)', StageOk(o)'
  PROVE  ScopeInv' /\ DrainInv' /\ StageInv'
<1>1. \A p \in Ops : p # o => op'[p] = op[p]
  BY DEF Local
<1>2. ASSUME NEW p \in Ops, p # o PROVE ScopeOk(p)'
  BY <1>1, <1>2 DEF IInv, ScopeInv, ScopeOk
<1>3. ASSUME NEW p \in Ops, p # o, Going(p)
      PROVE  /\ op[p].thread # op[o].thread
             /\ op[p].pc # "drain" => op[p].run \in Runs /\ ThreadOf[op[p].run] # op[o].thread
             /\ op[p].pc # "drain" /\ op[p].exec # 0 => Exec(p) \in Execs /\ Exec(p)[1] = op[p].run
             /\ op'[p] = op[p] /\ Exec(p)' = Exec(p)
  <2>1. Going(o)
    BY DEF Working
  <2>2. Working(p)
    BY <1>3, GoingWorks
  <2> QED BY <1>1, <1>3, <2>1, <2>2, Apart DEF IInv, Working, Exec
<1>4. ASSUME NEW p \in Ops, p # o, Going(p) PROVE DrainOk(p)'
  <2>1. DrainOk(p) /\ op'[p] = op[p] /\ op[p].thread # op[o].thread
    BY <1>3, <1>4 DEF IInv, DrainInv
  <2>2. ASSUME NEW x \in Execs, ThreadOf[x[1]] = op[p].thread
        PROVE  task'[x] = task[x] /\ status'[x[1]] = status[x[1]]
    BY <2>1, <2>2, ExecParts DEF Local
  <2> QED BY <2>1, <2>2 DEF DrainOk, Graphs
<1>5. ASSUME NEW p \in Ops, p # o, Going(p) PROVE StageOk(p)'
  <2>1. StageOk(p) /\ op'[p] = op[p] /\ op[p].thread # op[o].thread /\ Exec(p)' = Exec(p)
    BY <1>3, <1>5 DEF IInv, StageInv
  <2>2. ASSUME NEW x \in Execs, ThreadOf[x[1]] = op[p].thread PROVE task'[x] = task[x]
    BY <2>1, <2>2 DEF Local
  <2>3. ASSUME op[p].pc # "drain"
        PROVE  /\ status'[op[p].run] = status[op[p].run] /\ round'[op[p].run] = round[op[p].run]
               /\ registry'[op[p].run] = registry[op[p].run]
               /\ op[p].exec # 0 => task'[Exec(p)] = task[Exec(p)]
    BY <1>3, <1>5, <2>3 DEF Local
  <2>4. op[p].pc = "install" => op[p].exec # 0
    BY DEF IInv, ScopeInv, ScopeOk
  <2> QED BY <2>1, <2>2, <2>3, <2>4 DEF StageOk, Graphs
<1>6. ASSUME NEW p \in Ops, p # o, ~Going(p) PROVE DrainOk(p)' /\ StageOk(p)'
  BY <1>1, <1>6 DEF Going, DrainOk, StageOk
<1> QED BY <1>2, <1>4, <1>5, <1>6 DEF ScopeInv, DrainInv, StageInv

\* The lock of a thread is with the operation that works in it.
LEMMA SlotOfOne ==
  ASSUME TypeOK, ScopeInv, NEW o \in Ops, Going(o)
  PROVE  /\ Ended(o) =>
              /\ op' \in [Ops -> OpSet] /\ slot' \in [Threads -> Ops \cup {NoOp}]
              /\ \A p \in Ops : Going(p)' => slot'[op'[p].thread] = p
         /\ \A r, pc, e, todo : Moved(o, r, pc, e, todo) /\ UNCHANGED slot =>
              /\ op' \in [Ops -> OpSet] /\ slot' \in [Threads -> Ops \cup {NoOp}]
              /\ \A p \in Ops : Going(p)' => slot'[op'[p].thread] = p
<1>1. op[o].thread \in Threads
  BY DEF ScopeInv, ScopeOk, Going
<1>2. ASSUME NEW p \in Ops, p # o, Going(p)
      PROVE  slot[op[p].thread] = p /\ op[p].thread # op[o].thread /\ op[p].thread \in Threads
  BY <1>2, Apart DEF TypeOK, ScopeInv, ScopeOk, Going
<1>3. ASSUME Ended(o)
      PROVE  /\ op' \in [Ops -> OpSet] /\ slot' \in [Threads -> Ops \cup {NoOp}]
             /\ \A p \in Ops : Going(p)' => slot'[op'[p].thread] = p
  <2>1. op' \in [Ops -> OpSet] /\ slot' \in [Threads -> Ops \cup {NoOp}]
    BY <1>3 DEF Ended, TypeOK
  <2>2. ASSUME NEW p \in Ops, Going(p)' PROVE slot'[op'[p].thread] = p
    <3>1. p # o
      BY <1>3, <2>2 DEF Ended, IdleOp, Going
    <3>2. op'[p] = op[p] /\ Going(p)
      BY <1>3, <2>2, <3>1 DEF Ended, Going
    <3>3. slot[op[p].thread] = p /\ op[p].thread # op[o].thread /\ op[p].thread \in Threads
      BY <1>2, <3>1, <3>2
    <3> QED BY <1>3, <3>2, <3>3 DEF Ended, TypeOK
  <2> QED BY <2>1, <2>2
<1>4. ASSUME NEW r, NEW pc, NEW e, NEW todo, Moved(o, r, pc, e, todo), UNCHANGED slot
      PROVE  /\ op' \in [Ops -> OpSet] /\ slot' \in [Threads -> Ops \cup {NoOp}]
             /\ \A p \in Ops : Going(p)' => slot'[op'[p].thread] = p
  BY <1>4, <1>2 DEF Moved, TypeOK, Going
<1> QED BY <1>3, <1>4

-----------------------------------------------------------------------------
(* The steps of the operations.                                            *)

LEMMA RequestKeeps ==
  ASSUME IInv, NEW o \in Ops, NEW t, NEW r, NEW kind, Request(o, kind, t, r),
         \/ kind = "start" /\ t \in Threads /\ r = NoRun
         \/ kind \in {"resume", "cancel"} /\ r \in Runs /\ t = ThreadOf[r]
  PROVE  IInv'
<1>1. /\ op[o].pc = "idle" /\ phase = "up"
      /\ op' \in [Ops -> OpSet]
      /\ \A p \in Ops : p # o => op'[p] = op[p]
      /\ op'[o].kind = kind /\ op'[o].thread = t /\ op'[o].run = r
      /\ op'[o].pc = "queued" /\ op'[o].exec = 0 /\ op'[o].todo = {}
      /\ UNCHANGED <<status, round, storage, phase, registry, task, outcome, lock, abort,
                     interrupted, owed, closed, slot, lost>>
  <2> TypeOK /\ ScopeInv /\ TableInv
    BY DEF IInv
  <2>1. op'[o] = [[[[IdleOp EXCEPT !.kind = kind] EXCEPT !.thread = t] EXCEPT !.run = r]
                 EXCEPT !.pc = "queued"]
    BY DEF Request, TypeOK
  <2>2. op'[o] = [kind |-> kind, thread |-> t, run |-> r, pc |-> "queued", exec |-> 0, todo |-> {}]
    BY <2>1 DEF IdleOp
  <2>3. t \in Threads /\ r \in Runs \cup {NoRun} /\ kind \in {"start", "resume", "cancel"}
    BY ConstantsAssumption
  <2>4. op'[o] \in OpSet
    BY <2>2, <2>3, ConstantsAssumption DEF OpSet
  <2>5. \A p \in Ops : p # o => op'[p] = op[p]
    BY DEF Request, TypeOK
  <2>6. op' \in [Ops -> OpSet]
    BY <2>4, <2>5 DEF Request, TypeOK
  <2>7. op[o].pc = "idle" /\ phase = "up" /\ UNCHANGED <<db, phase, memory, slot, lost>>
    BY DEF Request, At
  <2> QED BY <2>2, <2>5, <2>6, <2>7 DEF db, memory
<1>2. TableInv' /\ TaskInv' /\ GraphInv' /\ LockInv' /\ OwedInv' /\ RunningHasOwner'
  BY <1>1, OpFrame
<1>3. Serving
  BY <1>1, ExecOfOp DEF IInv, TypeOK, ScopeInv, ScopeOk, PhaseInv, IdleOp, Going, Serving
<1>4. TypeOK'
  BY <1>1, <1>3, ConstantsAssumption DEF IInv, TypeOK, ScopeInv, Terminal, Active, Alive, Going
<1>5. PhaseInv'
  BY <1>1, <1>3, ConstantsAssumption DEF IInv, PhaseInv, ScopeInv, Serving
<1>6. ScopeInv'
  <2>1. ScopeOk(o)'
    BY <1>1, <1>3, ConstantsAssumption DEF IInv, ScopeInv, ScopeOk
  <2>2. ASSUME NEW p \in Ops, p # o PROVE ScopeOk(p)'
    <3>1. op'[p] = op[p] /\ ScopeOk(p)
      BY <1>1, <2>2 DEF IInv, ScopeInv
    <3> QED BY <3>1 DEF ScopeOk
  <2> QED BY <2>1, <2>2 DEF ScopeInv
<1>7. DrainInv'
  <2>1. DrainOk(o)'
    BY <1>1, <1>3, ConstantsAssumption DEF IInv, DrainInv, ScopeInv, TypeOK, Graphs, Going,
      DrainOk
  <2>2. ASSUME NEW p \in Ops, p # o PROVE DrainOk(p)'
    <3>1. op'[p] = op[p] /\ DrainOk(p)
      BY <1>1, <2>2 DEF IInv, DrainInv
    <3>2. Going(p) /\ Going(o) => op[p].thread # op[o].thread
          /\ (op[p].run \in Runs => /\ ThreadOf[op[p].run] # op[o].thread
                                    /\ (op[o].run \in Runs => op[p].run # op[o].run))
      BY <2>2, Apart DEF IInv
    <3>3. op[p].pc \notin {"idle","queued","drain"} => op[p].run \in Runs
      BY DEF IInv, ScopeInv, ScopeOk
    <3> QED BY <1>1, <1>3, <3>1, <3>2, <3>3 DEF DrainOk, Graphs, Going, TypeOK, IInv
  <2> QED BY <2>1, <2>2 DEF DrainInv
<1>8. StageInv'
  <2>1. StageOk(o)'
    BY <1>1, <1>3, ConstantsAssumption DEF IInv, StageInv, ScopeInv, TypeOK, Graphs, Exec,
      Going, StageOk
  <2>2. ASSUME NEW p \in Ops, p # o PROVE StageOk(p)'
    <3>1. op'[p] = op[p] /\ StageOk(p)
      BY <1>1, <2>2 DEF IInv, StageInv
    <3>2. Going(p) /\ Going(o) => op[p].thread # op[o].thread
          /\ (op[p].run \in Runs => /\ ThreadOf[op[p].run] # op[o].thread
                                    /\ (op[o].run \in Runs => op[p].run # op[o].run))
      BY <2>2, Apart DEF IInv
    <3>3. op[p].pc \notin {"idle","queued","drain"} => op[p].run \in Runs
      BY DEF IInv, ScopeInv, ScopeOk
    <3> QED BY <1>1, <1>3, <3>1, <3>2, <3>3 DEF StageOk, Graphs, Exec, Going, TypeOK, IInv
  <2> QED BY <2>1, <2>2 DEF StageInv
<1> QED BY <1>2, <1>4, <1>5, <1>6, <1>7, <1>8 DEF IInv

LEMMA EnterKeeps ==
  ASSUME IInv, NEW o \in Ops, Enter(o)
  PROVE  IInv'
<1>1. /\ op[o].pc = "queued" /\ slot[op[o].thread] = NoOp
      /\ slot' = [slot EXCEPT ![op[o].thread] = o]
      /\ \/ /\ op[o].kind = "start"
            /\ Moved(o, op[o].run, "drain", op[o].exec, Registered(op[o].thread))
         \/ /\ op[o].kind = "resume"
            /\ Moved(o, op[o].run, "check", op[o].exec, op[o].todo)
         \/ /\ op[o].kind = "cancel"
            /\ Moved(o, op[o].run, "lock", registry[op[o].run], op[o].todo)
      /\ UNCHANGED <<status, round, storage, phase, registry, task, outcome, lock, abort,
                     interrupted, owed, closed, lost>>
  BY MovePc, MoveExec, MovePcTodo DEF IInv, Enter, Goto, At, Registered, TypeOK, ScopeInv,
    ScopeOk, Places, db, memory
<1>2. TableInv' /\ TaskInv' /\ GraphInv' /\ LockInv' /\ OwedInv' /\ RunningHasOwner'
  BY <1>1, OpFrame DEF Moved
<1>3. /\ Serving /\ op[o].thread \in Threads /\ ~Going(o)
      /\ op[o].kind # "start" => op[o].run \in Runs
  BY <1>1, ExecOfOp DEF IInv, TypeOK, ScopeInv, ScopeOk, PhaseInv, IdleOp, Going, Serving
<1>4. TypeOK'
  BY <1>1, <1>3, ConstantsAssumption DEF Moved, IInv, TypeOK, ScopeInv, Terminal, Active, Alive,
    Going, Registered
<1>5. PhaseInv'
  BY <1>1, <1>3, ConstantsAssumption DEF Moved, IInv, PhaseInv, ScopeInv, Serving, Registered
<1>6. ScopeInv'
  <2>1. ScopeOk(o)'
    BY <1>1, <1>3, ConstantsAssumption DEF Moved, IInv, ScopeInv, Registered, ScopeOk
  <2>2. ASSUME NEW p \in Ops, p # o PROVE ScopeOk(p)'
    <3>1. op'[p] = op[p] /\ ScopeOk(p)
      BY <1>1, <2>2 DEF Moved, IInv, ScopeInv
    <3> QED BY <3>1 DEF ScopeOk
  <2> QED BY <2>1, <2>2 DEF ScopeInv
<1>7. DrainInv'
  <2>1. DrainOk(o)'
    <3>1. CASE op[o].kind = "start"
      <4>1. op'[o].todo = Registered(op[o].thread) /\ op'[o].thread = op[o].thread
        BY <1>1, <3>1 DEF Moved
      <4>2. \A x \in Execs : task[x] \in Graphs => registry[x[1]] = x[2]
        BY DEF IInv, TaskInv, TaskOk, Graphs, Alive
      <4> QED BY <1>1, <4>1, <4>2 DEF DrainOk, Registered, Graphs
    <3>2. CASE op[o].kind # "start"
      BY <1>1, <3>2 DEF Moved, DrainOk
    <3> QED BY <3>1, <3>2
  <2>2. ASSUME NEW p \in Ops, p # o PROVE DrainOk(p)'
    <3>1. op'[p] = op[p] /\ DrainOk(p)
      BY <1>1, <2>2 DEF Moved, IInv, DrainInv
    <3> QED BY <1>1, <3>1 DEF DrainOk, Graphs
  <2> QED BY <2>1, <2>2 DEF DrainInv
<1>8. StageInv'
  <2>1. StageOk(o)'
    <3>1. op[o].kind # "start" => registry[op[o].run] \in {0, round[op[o].run]}
      BY <1>3 DEF IInv, TaskInv
    <3> QED BY <1>1, <3>1 DEF Moved, StageOk
  <2>2. ASSUME NEW p \in Ops, p # o PROVE StageOk(p)'
    <3>1. op'[p] = op[p] /\ StageOk(p)
      BY <1>1, <2>2 DEF Moved, IInv, StageInv
    <3> QED BY <1>1, <3>1 DEF StageOk, Graphs, Exec
  <2> QED BY <2>1, <2>2 DEF StageInv
<1> QED BY <1>2, <1>4, <1>5, <1>6, <1>7, <1>8 DEF IInv

LEMMA OpFailsKeeps ==
  ASSUME IInv, NEW o \in Ops, OpFails(o)
  PROVE  IInv'
<1>1. /\ op[o].pc \in {"drain", "check", "reconcile", "accept", "await"} /\ Ended(o)
      /\ UNCHANGED <<status, round, storage, phase, registry, task, outcome, lock, abort,
                     interrupted, owed, closed, lost>>
  BY OpEnds DEF OpFails, At, IInv, TypeOK, db, memory
<1>2. TableInv' /\ TaskInv' /\ GraphInv' /\ LockInv' /\ OwedInv' /\ RunningHasOwner'
  BY <1>1, OpFrame DEF Ended, IdleOp
<1>3. Working(o)
  BY <1>1, GoingWorks DEF Going
<1>4. TypeOK'
  <2> TypeOK /\ ScopeInv /\ op[o].pc \notin {"idle", "queued"}
    BY <1>1 DEF IInv
  <2>1. /\ op' \in [Ops -> OpSet] /\ slot' \in [Threads -> Ops \cup {NoOp}]
        /\ \A p \in Ops : Going(p)' => slot'[op'[p].thread] = p
    BY <1>1, SlotOfOne DEF Going
  <2> QED BY <1>1, <1>3, <2>1 DEF TypeOK, Working, Terminal, Active, Alive
<1>5. PhaseInv'
  BY <1>1, <1>3, ConstantsAssumption DEF Working, Ended, IdleOp, IInv, PhaseInv, ScopeInv, Serving
<1>6. ScopeInv' /\ DrainInv' /\ StageInv'
  <2>1. Local(o)
    BY <1>1, <1>3 DEF Ended, IdleOp, Working, Local, IInv, TypeOK
  <2>2. ScopeOk(o)'
    BY <1>1, <1>3, ConstantsAssumption DEF Working, Ended, IdleOp, IInv, ScopeInv, ScopeOk
  <2>3. DrainOk(o)'
    BY <1>1, <1>3, ConstantsAssumption DEF Working, Ended, IdleOp, IInv, DrainInv, ScopeInv, TypeOK,
      Graphs, Going, DrainOk
  <2>4. StageOk(o)'
    BY <1>1, <1>3, ConstantsAssumption DEF Working, Ended, IdleOp, IInv, StageInv, ScopeInv, TypeOK,
      Graphs, Exec, Going, StageOk
  <2> QED BY <1>3, <2>1, <2>2, <2>3, <2>4, OthersKeep
<1> QED BY <1>2, <1>4, <1>5, <1>6 DEF IInv

LEMMA DrainNextKeeps ==
  ASSUME IInv, NEW o \in Ops, DrainNext(o)
  PROVE  IInv'
<1>1. /\ op[o].pc = "drain"
      /\ \E x \in op[o].todo :
           /\ x \in Execs
           /\ IF status[x[1]] \in Terminal
                THEN Moved(o, x[1], "draining", x[2], op[o].todo)
                ELSE Moved(o, op[o].run, "drain", op[o].exec, op[o].todo \ {x})
      /\ UNCHANGED <<status, round, storage, phase, registry, task, outcome, lock, abort,
                     interrupted, owed, closed, slot, lost>>
  <2> TypeOK /\ ScopeInv /\ TableInv
    BY DEF IInv
  <2>1. op[o].pc = "drain" /\ UNCHANGED <<db, phase, memory, slot, lost>>
    BY DEF DrainNext, At
  <2>2. op \in [Ops -> OpSet] /\ op[o].todo \in SUBSET Execs
    BY DEF TypeOK, OpSet
  <2>3. PICK x \in op[o].todo :
          IF status[x[1]] \in Terminal
            THEN op' = [op EXCEPT ![o].pc = "draining", ![o].run = x[1], ![o].exec = x[2]]
            ELSE op' = [op EXCEPT ![o].todo = @ \ {x}]
    BY DEF DrainNext
  <2>4. x \in Execs /\ x[1] \in Runs /\ x[2] \in 0..MaxRounds
    BY <2>2, ExecParts, ConstantsAssumption
  <2>5. CASE status[x[1]] \in Terminal
    <3>1. op' = [op EXCEPT ![o].pc = "draining", ![o].run = x[1], ![o].exec = x[2]]
      BY <2>3, <2>5
    <3>2. Moved(o, x[1], "draining", x[2], op[o].todo)
      BY <2>2, <2>4, <3>1, MoveRun DEF Places
    <3> QED BY <2>1, <2>4, <2>5, <3>2 DEF db, memory
  <2>6. CASE status[x[1]] \notin Terminal
    <3>1. op' = [op EXCEPT ![o].todo = op[o].todo \ {x}]
      BY <2>3, <2>6
    <3>2. op[o].todo \ {x} \in SUBSET Execs
      BY <2>2
    <3>3. Moved(o, op[o].run, "drain", op[o].exec, op[o].todo \ {x})
      BY <2>1, <2>2, <3>1, <3>2, MoveTodo
    <3> QED BY <2>1, <2>4, <2>6, <3>3 DEF db, memory
  <2> QED BY <2>5, <2>6 DEF db, memory
<1>2. TableInv' /\ TaskInv' /\ GraphInv' /\ LockInv' /\ OwedInv' /\ RunningHasOwner'
  BY <1>1, OpFrame DEF Moved
<1>3. Working(o)
  BY <1>1, GoingWorks DEF Going
<1>a. PICK x \in op[o].todo :
        /\ x \in Execs
        /\ IF status[x[1]] \in Terminal
             THEN Moved(o, x[1], "draining", x[2], op[o].todo)
             ELSE Moved(o, op[o].run, "drain", op[o].exec, op[o].todo \ {x})
  BY <1>1
<1>4. TypeOK'
  <2> TypeOK /\ ScopeInv /\ op[o].pc \notin {"idle", "queued"}
    BY <1>1 DEF IInv
  <2>1. /\ op' \in [Ops -> OpSet] /\ slot' \in [Threads -> Ops \cup {NoOp}]
        /\ \A p \in Ops : Going(p)' => slot'[op'[p].thread] = p
    BY <1>1, SlotOfOne DEF Going
  <2> QED BY <1>1, <1>3, <2>1 DEF TypeOK, Working, Terminal, Active, Alive
<1>5. PhaseInv'
  BY <1>1, <1>3, ConstantsAssumption DEF Working, Moved, IInv, PhaseInv, ScopeInv, Serving
<1>6. ScopeInv' /\ DrainInv' /\ StageInv'
  <2>1. Local(o)
    BY <1>1, <1>3 DEF Moved, Working, Local, IInv, TypeOK
  <2>2. ScopeOk(o)'
    <3>1. ScopeOk(o) /\ x[1] \in Runs /\ x[2] # 0
      BY <1>a, ExecParts DEF IInv, ScopeInv
    <3> QED BY <1>1, <1>a, <3>1 DEF Moved, ScopeOk
  <2>3. DrainOk(o)'
    <3>1. DrainOk(o)
      BY DEF IInv, DrainInv
    <3>2. CASE status[x[1]] \in Terminal
      BY <1>1, <1>a, <3>1, <3>2 DEF Moved, DrainOk, Graphs
    <3>3. CASE status[x[1]] \notin Terminal
      <4>1. task[x] \in Graphs => status[x[1]] = "running"
        BY <1>a, <3>3 DEF IInv, GraphInv, GraphOk, Terminal
      <4>2. op'[o].todo = op[o].todo \ {x} /\ op'[o].thread = op[o].thread
        BY <1>a, <3>3 DEF Moved
      <4> QED BY <1>1, <3>1, <4>1, <4>2 DEF DrainOk, Graphs
    <3> QED BY <3>2, <3>3
  <2>4. StageOk(o)'
    BY <1>1, <1>3, ConstantsAssumption DEF Working, Moved, IInv, StageInv, ScopeInv, TypeOK, Graphs,
      Exec, Going, StageOk
  <2> QED BY <1>3, <2>1, <2>2, <2>3, <2>4, OthersKeep
<1> QED BY <1>2, <1>4, <1>5, <1>6 DEF IInv

LEMMA DrainedKeeps ==
  ASSUME IInv, NEW o \in Ops, Drained(o)
  PROVE  IInv'
<1>1. /\ op[o].pc = "draining" /\ task[Exec(o)] = "done"
      /\ Close(Exec(o))
      /\ Moved(o, op[o].run, "drain", op[o].exec, op[o].todo \ {Exec(o)})
      /\ UNCHANGED <<status, round, storage, phase, task, outcome, lock, abort,
                     interrupted, owed, slot, lost>>
  BY MovePcTodo DEF IInv, Drained, At, TypeOK, Places, OpSet, db, memory
<1>2. TableInv'
  BY <1>1 DEF IInv, TableInv, Current
<1>3. Working(o)
  BY <1>1, GoingWorks DEF Going
<1>a. /\ op[o].exec # 0 /\ Exec(o) \in Execs /\ op[o].run \in Runs
      /\ registry' = registry /\ closed' = closed \cup {Exec(o)}
  <2>1. op[o].exec # 0 /\ Exec(o) \in Execs /\ op[o].run \in Runs /\ Serving
    BY <1>1, <1>3 DEF IInv, ScopeInv, ScopeOk, Working
  <2>2. registry[Exec(o)[1]] # Exec(o)[2]
    BY <1>1, <2>1 DEF IInv, TaskInv, TaskOk
  <2> QED BY <1>1, <2>1, <2>2 DEF Close
<1>4. TypeOK'
  <2> TypeOK /\ ScopeInv /\ op[o].pc \notin {"idle", "queued"}
    BY <1>1 DEF IInv
  <2>1. /\ op' \in [Ops -> OpSet] /\ slot' \in [Threads -> Ops \cup {NoOp}]
        /\ \A p \in Ops : Going(p)' => slot'[op'[p].thread] = p
    BY <1>1, SlotOfOne DEF Going
  <2> QED BY <1>1, <1>3, <1>a, <2>1 DEF TypeOK, Working, Terminal, Active, Alive
<1>5. PhaseInv'
  BY <1>1, <1>3, <1>a, ConstantsAssumption DEF Working, Moved, IInv, PhaseInv, ScopeInv, Serving
<1>6. ScopeInv' /\ DrainInv' /\ StageInv'
  <2>1. Local(o)
    BY <1>1, <1>3, <1>a DEF Moved, Working, Local, IInv, TypeOK
  <2>2. ScopeOk(o)'
    BY <1>1, <1>3, <1>a, ConstantsAssumption DEF Working, Moved, IInv, ScopeInv, ScopeOk
  <2>3. DrainOk(o)'
    BY <1>1, <1>3, <1>a, ConstantsAssumption DEF Working, Moved, IInv, DrainInv, ScopeInv, TypeOK,
      Graphs,
      Going, DrainOk
  <2>4. StageOk(o)'
    BY <1>1, <1>3, <1>a, ConstantsAssumption DEF Working, Moved, IInv, StageInv, ScopeInv, TypeOK,
      Graphs,
      Exec, Going, StageOk
  <2> QED BY <1>3, <2>1, <2>2, <2>3, <2>4, OthersKeep
<1>9. TaskInv'
  BY <1>1, <1>3, <1>a, ConstantsAssumption DEF Working, Moved, IInv, TaskInv, TaskOk, TypeOK,
    StageInv, PhaseInv,
    Alive, Current, Serving, Exec, Graphs
<1>10. GraphInv'
  BY <1>1, <1>3, <1>a, ConstantsAssumption DEF Working, Moved, IInv, GraphInv, GraphOk, TypeOK,
    TableInv, StageInv,
    Graphs, Active, OneGraphPerThread, At, Exec
<1>11. LockInv'
  BY <1>1, <1>3, <1>a, ConstantsAssumption DEF Working, Moved, IInv, LockInv, LockOk, HasLock,
    TypeOK, Locking, Exec
<1>12. OwedInv'
  <2>1. ASSUME NEW x \in owed PROVE OwedOk(x)'
    <3>1. OwedOk(x)
      BY <1>3, <2>1 DEF IInv, OwedInv, Working
    <3>2. \A p \in Ops : At(p, "notify") /\ HasLock(p, x) => At(p, "notify")' /\ HasLock(p, x)'
      BY <1>1 DEF HasLock, Exec, At, Moved
    <3> QED BY <1>1, <3>1, <3>2 DEF OwedOk
  <2>2. Exec(o) \notin owed
    <3>1. \A p \in Ops : At(p, "notify") => Exec(p) # Exec(o)
      <4>1. ASSUME NEW p \in Ops, At(p, "notify") PROVE op[p].run # op[o].run
        <5>1. p # o /\ Going(p) /\ Going(o)
          BY <1>1, <4>1 DEF At, Going
        <5>2. op[p].run \in Runs
          BY <4>1 DEF IInv, ScopeInv, ScopeOk, At
        <5> QED BY <1>a, <5>1, <5>2, Apart DEF IInv
      <4> QED BY <4>1 DEF Exec
    <3>2. ASSUME Exec(o) \in owed PROVE FALSE
      <4>1. OwedOk(Exec(o))
        BY <1>3, <3>2 DEF IInv, OwedInv, Working
      <4> QED BY <1>1, <3>1, <4>1 DEF OwedOk, HasLock
    <3> QED BY <3>2
  <2>3. PublishedBeforeClose'
    BY <1>1, <1>a, <2>2 DEF IInv, OwedInv, PublishedBeforeClose
  <2> QED BY <1>1, <2>1, <2>3 DEF OwedInv, Serving
<1>13. RunningHasOwner'
  BY <1>1, <1>3, <1>a, ConstantsAssumption DEF Working, Moved, IInv, RunningHasOwner, TypeOK,
    StageInv,
    PhaseInv, At, Exec, Current, Serving
<1> QED BY <1>2, <1>4, <1>5, <1>6, <1>9, <1>10, <1>11, <1>12, <1>13 DEF IInv

LEMMA CreateRunKeeps ==
  ASSUME IInv, NEW o \in Ops, CreateRun(o)
  PROVE  IInv'
<1>1. /\ op[o].pc = "drain" /\ op[o].todo = {}
      /\ \E r \in Runs :
           /\ ThreadOf[r] = op[o].thread
           /\ status[r] = "absent"
           /\ \A q \in Runs : ThreadOf[q] = op[o].thread => status[q] \notin Active
           /\ status' = [status EXCEPT ![r] = "running"]
           /\ round' = [round EXCEPT ![r] = 1]
           /\ Moved(o, r, "install", 1, op[o].todo)
      /\ UNCHANGED <<storage, phase, registry, task, outcome, lock, abort, interrupted,
                     owed, closed, slot, lost>>
  <2> TypeOK /\ ScopeInv /\ TableInv
    BY DEF IInv
  <2>1. PICK r \in Runs :
          /\ ThreadOf[r] = op[o].thread
          /\ status[r] = "absent"
          /\ ~ThreadBusy(op[o].thread)
          /\ status' = [status EXCEPT ![r] = "running"]
          /\ round' = [round EXCEPT ![r] = 1]
          /\ op' = [op EXCEPT ![o].pc = "install", ![o].run = r, ![o].exec = 1]
    BY DEF CreateRun
  <2>2. 1 \in 0..MaxRounds
    BY ConstantsAssumption
  <2>3. Moved(o, r, "install", 1, op[o].todo)
    BY <2>1, <2>2, MoveRun DEF TypeOK, Places
  <2>4. \A q \in Runs : ThreadOf[q] = op[o].thread => status[q] \notin Active
    BY <2>1 DEF ThreadBusy
  <2>5. /\ op[o].pc = "drain" /\ op[o].todo = {}
        /\ UNCHANGED <<storage, phase, memory, slot, lost>>
    BY DEF CreateRun, At
  <2> QED BY <2>1, <2>3, <2>4, <2>5 DEF db, memory
<1>2. Working(o)
  BY <1>1, GoingWorks DEF Going
<1>a. PICK r \in Runs :
        /\ ThreadOf[r] = op[o].thread
        /\ status[r] = "absent"
        /\ \A q \in Runs : ThreadOf[q] = op[o].thread => status[q] \notin Active
        /\ status' = [status EXCEPT ![r] = "running"]
        /\ round' = [round EXCEPT ![r] = 1]
        /\ Moved(o, r, "install", 1, op[o].todo)
  BY <1>1
<1>b. /\ registry[r] = 0 /\ round[r] = 0 /\ 1 \in 1..MaxRounds /\ <<r, 1>> \in Execs
      /\ \A q \in Runs : round'[q] = IF q = r THEN 1 ELSE round[q]
      /\ \A q \in Runs : status'[q] = IF q = r THEN "running" ELSE status[q]
  BY <1>a, ConstantsAssumption DEF IInv, TypeOK, TableInv, TaskInv, Execs
<1>c. ASSUME NEW x \in Execs, x[1] = r PROVE task[x] = "none"
  <2>1. TaskOk(x) /\ x[2] # 0 /\ x[2] \in Nat
    BY ExecParts DEF IInv, TaskInv
  <2> QED BY <1>b, <1>c, <2>1 DEF TaskOk
<1>d. \A x \in Execs : ThreadOf[x[1]] = op[o].thread => task[x] \notin Graphs
  BY <1>1, <1>a, ExecParts DEF IInv, DrainInv, DrainOk, Active
<1>3. TypeOK'
  <2> TypeOK /\ ScopeInv /\ op[o].pc \notin {"idle", "queued"}
    BY <1>1 DEF IInv
  <2>1. /\ op' \in [Ops -> OpSet] /\ slot' \in [Threads -> Ops \cup {NoOp}]
        /\ \A p \in Ops : Going(p)' => slot'[op'[p].thread] = p
    BY <1>1, <1>a, SlotOfOne DEF Going
  <2>2. round' \in [Runs -> 0..MaxRounds]
    BY <1>a, <1>b DEF TypeOK
  <2>3. status' \in [Runs -> Terminal \cup Active \cup {"absent"}]
    BY <1>a DEF TypeOK, Active
  <2> QED BY <1>1, <2>1, <2>2, <2>3 DEF TypeOK
<1>4. PhaseInv'
  BY <1>1, <1>2, ConstantsAssumption DEF Working, Moved, IInv, PhaseInv, ScopeInv, Serving
<1>5. TableInv'
  BY <1>1, <1>2, ConstantsAssumption DEF Working, Moved, IInv, TableInv, TypeOK, Active, Terminal
<1>6. ScopeInv' /\ DrainInv' /\ StageInv'
  <2>1. Local(o)
    BY <1>1, <1>2 DEF Moved, Working, Local, IInv, TypeOK
  <2>2. ScopeOk(o)'
    BY <1>1, <1>2, ConstantsAssumption DEF Working, Moved, IInv, ScopeInv, ScopeOk
  <2>3. DrainOk(o)'
    BY <1>1, <1>2, ConstantsAssumption DEF Working, Moved, IInv, DrainInv, ScopeInv, TypeOK, Graphs,
      Going, DrainOk
  <2>4. StageOk(o)'
    <3>1. /\ op'[o].pc = "install" /\ op'[o].run = r /\ op'[o].thread = op[o].thread
          /\ op'[o].exec = 1 /\ Exec(o)' = <<r, 1>>
      BY <1>a DEF Moved, Exec
    <3>2. task[<<r, 1>>] = "none"
      BY <1>b, <1>c
    <3> QED BY <1>1, <1>b, <1>d, <3>1, <3>2 DEF StageOk
  <2> QED BY <1>2, <2>1, <2>2, <2>3, <2>4, OthersKeep
<1>9. TaskInv'
  <2>1. \A q \in Runs : registry'[q] \in {0, round'[q]}
    BY <1>1, <1>b DEF IInv, TaskInv
  <2>2. ASSUME NEW x \in Execs PROVE TaskOk(x)'
    <3>1. TaskOk(x) /\ x[1] \in Runs /\ x[2] \in 1..MaxRounds
      BY ExecParts DEF IInv, TaskInv
    <3>2. CASE x[1] = r
      BY <1>1, <1>b, <1>c, <3>1, <3>2 DEF TaskOk, Alive
    <3>3. CASE x[1] # r
      BY <1>1, <1>b, <3>1, <3>3 DEF TaskOk, Serving, Current
    <3> QED BY <3>2, <3>3
  <2> QED BY <2>1, <2>2 DEF TaskInv
<1>10. GraphInv'
  <2>1. ASSUME NEW x \in Execs, task[x] \in Graphs PROVE GraphOk(x)'
    <3>1. GraphOk(x) /\ x[1] \in Runs /\ x[1] # r /\ ThreadOf[x[1]] # ThreadOf[r]
      BY <1>a, <1>d, <2>1, ExecParts DEF IInv, GraphInv
    <3>2. status'[x[1]] = status[x[1]]
      BY <1>b, <3>1
    <3>3. \A p \in Ops : At(p, "notify") => At(p, "notify")' /\ Exec(p)' = Exec(p)
      BY <1>1, <1>a DEF At, Exec, Moved
    <3> QED BY <1>1, <1>b, <3>1, <3>2, <3>3 DEF GraphOk
  <2>2. ASSUME NEW x \in Execs, task[x] \notin Graphs PROVE GraphOk(x)'
    BY <1>1, <2>2 DEF GraphOk, Graphs
  <2> QED BY <1>1, <2>1, <2>2 DEF IInv, GraphInv, OneGraphPerThread
<1>11. LockInv'
  BY <1>1, <1>2, ConstantsAssumption DEF Working, Moved, IInv, LockInv, LockOk, HasLock, TypeOK,
    Locking, Exec
<1>12. OwedInv'
  BY <1>1, <1>2, ConstantsAssumption DEF Working, Moved, IInv, OwedInv, OwedOk, HasLock, LockInv,
    LockOk, PhaseInv, Serving, At, Exec, PublishedBeforeClose, Locking
<1>13. RunningHasOwner'
  BY <1>1, <1>2, ConstantsAssumption DEF Working, Moved, IInv, RunningHasOwner, TypeOK, StageInv,
    PhaseInv, At, Exec, Current, Serving
<1> QED BY <1>3, <1>4, <1>5, <1>6, <1>9, <1>10, <1>11, <1>12, <1>13 DEF IInv

LEMMA RefuseBusyKeeps ==
  ASSUME IInv, NEW o \in Ops, RefuseBusy(o)
  PROVE  IInv'
<1>1. /\ op[o].pc = "drain" /\ Ended(o)
      /\ UNCHANGED <<status, round, storage, phase, registry, task, outcome, lock, abort,
                     interrupted, owed, closed, lost>>
  BY OpEnds DEF RefuseBusy, At, IInv, TypeOK, db, memory
<1>2. TableInv' /\ TaskInv' /\ GraphInv' /\ LockInv' /\ OwedInv' /\ RunningHasOwner'
  BY <1>1, OpFrame DEF Ended, IdleOp
<1>3. Working(o)
  BY <1>1, GoingWorks DEF Going
<1>4. TypeOK'
  <2> TypeOK /\ ScopeInv /\ op[o].pc \notin {"idle", "queued"}
    BY <1>1 DEF IInv
  <2>1. /\ op' \in [Ops -> OpSet] /\ slot' \in [Threads -> Ops \cup {NoOp}]
        /\ \A p \in Ops : Going(p)' => slot'[op'[p].thread] = p
    BY <1>1, SlotOfOne DEF Going
  <2> QED BY <1>1, <1>3, <2>1 DEF TypeOK, Working, Terminal, Active, Alive
<1>5. PhaseInv'
  BY <1>1, <1>3, ConstantsAssumption DEF Working, Ended, IdleOp, IInv, PhaseInv, ScopeInv, Serving
<1>6. ScopeInv' /\ DrainInv' /\ StageInv'
  <2>1. Local(o)
    BY <1>1, <1>3 DEF Ended, IdleOp, Working, Local, IInv, TypeOK
  <2>2. ScopeOk(o)'
    BY <1>1, <1>3, ConstantsAssumption DEF Working, Ended, IdleOp, IInv, ScopeInv, ScopeOk
  <2>3. DrainOk(o)'
    BY <1>1, <1>3, ConstantsAssumption DEF Working, Ended, IdleOp, IInv, DrainInv, ScopeInv, TypeOK,
      Graphs, Going, DrainOk
  <2>4. StageOk(o)'
    BY <1>1, <1>3, ConstantsAssumption DEF Working, Ended, IdleOp, IInv, StageInv, ScopeInv, TypeOK,
      Graphs, Exec, Going, StageOk
  <2> QED BY <1>3, <2>1, <2>2, <2>3, <2>4, OthersKeep
<1> QED BY <1>2, <1>4, <1>5, <1>6 DEF IInv

LEMMA CheckKeeps ==
  ASSUME IInv, NEW o \in Ops, Check(o)
  PROVE  IInv'
<1>1. /\ op[o].pc = "check"
      /\ \/ /\ status[op[o].run] # "interrupted"
            /\ Ended(o)
         \/ /\ status[op[o].run] = "interrupted" /\ registry[op[o].run] = 0
            /\ Moved(o, op[o].run, "reconcile", 0, op[o].todo) /\ UNCHANGED slot
         \/ /\ status[op[o].run] = "interrupted" /\ registry[op[o].run] # 0
            /\ Moved(o, op[o].run, "await", registry[op[o].run], op[o].todo) /\ UNCHANGED slot
      /\ UNCHANGED <<status, round, storage, phase, registry, task, outcome, lock, abort,
                     interrupted, owed, closed, lost>>
  BY MoveExec, OpEnds DEF IInv, Check, At, TypeOK, Places, ScopeInv, ScopeOk, db, memory
<1>2. TableInv' /\ TaskInv' /\ GraphInv' /\ LockInv' /\ OwedInv' /\ RunningHasOwner'
  BY <1>1, OpFrame DEF Moved, Ended, IdleOp
<1>3. Working(o)
  BY <1>1, GoingWorks DEF Going
<1>4. TypeOK'
  <2> TypeOK /\ ScopeInv /\ op[o].pc \notin {"idle", "queued"}
    BY <1>1 DEF IInv
  <2>1. /\ op' \in [Ops -> OpSet] /\ slot' \in [Threads -> Ops \cup {NoOp}]
        /\ \A p \in Ops : Going(p)' => slot'[op'[p].thread] = p
    BY <1>1, SlotOfOne DEF Going
  <2> QED BY <1>1, <1>3, <2>1 DEF TypeOK, Working, Terminal, Active, Alive
<1>5. PhaseInv'
  BY <1>1, <1>3, ConstantsAssumption DEF Working, Moved, Ended, IdleOp, IInv, PhaseInv, ScopeInv,
    Serving
<1>6. ScopeInv' /\ DrainInv' /\ StageInv'
  <2>1. Local(o)
    BY <1>1, <1>3 DEF Moved, Ended, IdleOp, Working, Local, IInv, TypeOK
  <2>2. ScopeOk(o)'
    BY <1>1, <1>3, ConstantsAssumption DEF Working, Moved, Ended, IdleOp, IInv, ScopeInv, ScopeOk
  <2>3. DrainOk(o)'
    BY <1>1, <1>3, ConstantsAssumption DEF Working, Moved, Ended, IdleOp, IInv, DrainInv, ScopeInv,
      TypeOK, Graphs, Going, DrainOk
  <2>4. StageOk(o)'
    <3>1. op[o].run \in Runs /\ registry[op[o].run] \in {0, round[op[o].run]}
      BY <1>1, <1>3 DEF IInv, TaskInv, Working
    <3> QED BY <1>1, <3>1 DEF StageOk, Moved, Ended, IdleOp
  <2> QED BY <1>3, <2>1, <2>2, <2>3, <2>4, OthersKeep
<1> QED BY <1>2, <1>4, <1>5, <1>6 DEF IInv

LEMMA AwaitPreviousKeeps ==
  ASSUME IInv, NEW o \in Ops, AwaitPrevious(o)
  PROVE  IInv'
<1>1. /\ op[o].pc = "await" /\ task[Exec(o)] = "done"
      /\ Moved(o, op[o].run, "reconcile", op[o].exec, op[o].todo)
      /\ UNCHANGED <<status, round, storage, phase, registry, task, outcome, lock, abort,
                     interrupted, owed, closed, slot, lost>>
  BY MovePc DEF IInv, AwaitPrevious, Goto, At, TypeOK, Places, db, memory
<1>2. TableInv' /\ TaskInv' /\ GraphInv' /\ LockInv' /\ OwedInv' /\ RunningHasOwner'
  BY <1>1, OpFrame DEF Moved
<1>3. Working(o)
  BY <1>1, GoingWorks DEF Going
<1>4. TypeOK'
  <2> TypeOK /\ ScopeInv /\ op[o].pc \notin {"idle", "queued"}
    BY <1>1 DEF IInv
  <2>1. /\ op' \in [Ops -> OpSet] /\ slot' \in [Threads -> Ops \cup {NoOp}]
        /\ \A p \in Ops : Going(p)' => slot'[op'[p].thread] = p
    BY <1>1, SlotOfOne DEF Going
  <2> QED BY <1>1, <1>3, <2>1 DEF TypeOK, Working, Terminal, Active, Alive
<1>5. PhaseInv'
  BY <1>1, <1>3, ConstantsAssumption DEF Working, Moved, IInv, PhaseInv, ScopeInv, Serving
<1>6. ScopeInv' /\ DrainInv' /\ StageInv'
  <2>1. Local(o)
    BY <1>1, <1>3 DEF Moved, Working, Local, IInv, TypeOK
  <2>2. ScopeOk(o)'
    BY <1>1, <1>3, ConstantsAssumption DEF Working, Moved, IInv, ScopeInv, ScopeOk
  <2>3. DrainOk(o)'
    BY <1>1, <1>3, ConstantsAssumption DEF Working, Moved, IInv, DrainInv, ScopeInv, TypeOK, Graphs,
      Going, DrainOk
  <2>4. StageOk(o)'
    <3>1. Exec(o) \in Execs /\ op[o].exec = round[op[o].run] /\ op[o].run \in Runs
      BY <1>1, <1>3 DEF IInv, StageInv, StageOk, ScopeInv, ScopeOk, Working
    <3>2. registry[op[o].run] # op[o].exec
      BY <1>1, <1>3, <3>1 DEF IInv, TaskInv, TaskOk, Working
    <3>3. registry[op[o].run] = 0
      BY <3>1, <3>2 DEF IInv, TaskInv
    <3> QED BY <1>1, <3>3 DEF StageOk, Moved
  <2> QED BY <1>3, <2>1, <2>2, <2>3, <2>4, OthersKeep
<1> QED BY <1>2, <1>4, <1>5, <1>6 DEF IInv

LEMMA ReconcileKeeps ==
  ASSUME IInv, NEW o \in Ops, Reconcile(o)
  PROVE  IInv'
<1>1. /\ op[o].pc = "reconcile" /\ status[op[o].run] = "interrupted"
      /\ \/ /\ Moved(o, op[o].run, "accept", op[o].exec, op[o].todo)
            /\ UNCHANGED <<status, slot>>
         \/ /\ status' = [status EXCEPT ![op[o].run] = "error"]
            /\ Ended(o)
      /\ UNCHANGED <<round, storage, phase, registry, task, outcome, lock, abort,
                     interrupted, owed, closed, lost>>
  BY MovePc, OpEnds DEF IInv, Reconcile, Goto, At, TypeOK, Places, db, memory
<1>2. Working(o)
  BY <1>1, GoingWorks DEF Going
<1>a. /\ op[o].run \in Runs
      /\ \A r \in Runs : \/ status'[r] = status[r]
                         \/ r = op[o].run /\ status'[r] = "error" /\ status[r] = "interrupted"
  BY <1>1, <1>2 DEF IInv, TypeOK, Working
<1>b. \A p \in Ops : \/ p # o /\ op'[p] = op[p]
                     \/ p = o /\ op'[p].pc \in {"idle", "accept"} /\ op[p].pc = "reconcile"
  BY <1>1 DEF Moved, Ended, IdleOp
<1>3. TypeOK'
  <2> TypeOK /\ ScopeInv /\ op[o].pc \notin {"idle", "queued"}
    BY <1>1 DEF IInv
  <2>1. /\ op' \in [Ops -> OpSet] /\ slot' \in [Threads -> Ops \cup {NoOp}]
        /\ \A p \in Ops : Going(p)' => slot'[op'[p].thread] = p
    BY <1>1, SlotOfOne DEF Going
  <2> QED BY <1>1, <1>2, <2>1 DEF TypeOK, Working, Terminal, Active, Alive
<1>4. PhaseInv'
  BY <1>1, <1>2, ConstantsAssumption DEF Working, Moved, Ended, IdleOp, IInv, PhaseInv, ScopeInv,
    Serving
<1>5. TableInv'
  BY <1>1, <1>2, ConstantsAssumption DEF Working, Moved, Ended, IdleOp, IInv, TableInv, TypeOK,
    Active,
    Terminal
<1>6. ScopeInv' /\ DrainInv' /\ StageInv'
  <2>1. Local(o)
    BY <1>1, <1>2 DEF Moved, Ended, IdleOp, Working, Local, IInv, TypeOK
  <2>2. ScopeOk(o)'
    BY <1>1, <1>2, ConstantsAssumption DEF Working, Moved, Ended, IdleOp, IInv, ScopeInv, ScopeOk
  <2>3. DrainOk(o)'
    BY <1>1, <1>2, ConstantsAssumption DEF Working, Moved, Ended, IdleOp, IInv, DrainInv, ScopeInv,
      TypeOK, Graphs, Going, DrainOk
  <2>4. StageOk(o)'
    BY <1>1, <1>2, ConstantsAssumption DEF Working, Moved, Ended, IdleOp, IInv, StageInv, ScopeInv,
      TypeOK, Graphs, Exec, Going, StageOk
  <2> QED BY <1>2, <2>1, <2>2, <2>3, <2>4, OthersKeep
<1>9. TaskInv'
  <2> SUFFICES ASSUME NEW x \in Execs PROVE TaskOk(x)'
    BY <1>1 DEF IInv, TaskInv
  <2>1. TaskOk(x) /\ x[1] \in Runs
    BY ExecParts DEF IInv, TaskInv
  <2>2. status'[x[1]] = "running" => status[x[1]] = "running"
    BY <1>a, <2>1
  <2> QED BY <1>1, <2>1, <2>2 DEF TaskOk, Serving, Current
<1>10. GraphInv'
  <2>1. ASSUME NEW x \in Execs PROVE GraphOk(x)'
    <3>1. GraphOk(x) /\ x[1] \in Runs
      BY ExecParts DEF IInv, GraphInv
    <3>2. \A r \in Runs : status'[r] \in Active => status[r] \in Active
      BY <1>a DEF Active
    <3>3. status[x[1]] \in {"running", "cancelled"} => status'[x[1]] = status[x[1]]
      BY <1>a, <3>1
    <3>4. \A p \in Ops : At(p, "notify") => At(p, "notify")' /\ Exec(p)' = Exec(p)
      BY <1>b DEF At, Exec
    <3> QED BY <1>1, <3>1, <3>2, <3>3, <3>4 DEF GraphOk
  <2> QED BY <1>1, <2>1 DEF IInv, GraphInv, OneGraphPerThread
<1>11. LockInv'
  BY <1>1, <1>2, ConstantsAssumption DEF Working, Moved, Ended, IdleOp, IInv, LockInv, LockOk,
    HasLock, TypeOK, Locking,
    Exec
<1>12. OwedInv'
  <2>1. PublishedBeforeClose'
    BY <1>1 DEF IInv, OwedInv, PublishedBeforeClose
  <2>2. ASSUME NEW x \in owed PROVE OwedOk(x)'
    <3>1. x \in Execs /\ OwedOk(x) /\ x[1] \in Runs
      BY <1>2, ExecParts DEF IInv, OwedInv, TypeOK, Working
    <3>2. \A p \in Ops : At(p, "notify") /\ HasLock(p, x) => At(p, "notify")' /\ HasLock(p, x)'
      BY <1>b DEF HasLock, Exec, At
    <3>3. status[x[1]] = "cancelled" => status'[x[1]] = "cancelled"
      BY <1>a, <3>1
    <3> QED BY <1>1, <3>1, <3>2, <3>3 DEF OwedOk
  <2> QED BY <1>1, <2>1, <2>2 DEF OwedInv
<1>13. RunningHasOwner'
  BY <1>1, <1>2, ConstantsAssumption DEF Working, Moved, Ended, IdleOp, IInv, RunningHasOwner,
    TypeOK,
    StageInv, PhaseInv, At, Exec, Current, Serving
<1> QED BY <1>3, <1>4, <1>5, <1>6, <1>9, <1>10, <1>11, <1>12, <1>13 DEF IInv

LEMMA AcceptApprovalKeeps ==
  ASSUME IInv, NEW o \in Ops, AcceptApproval(o)
  PROVE  IInv'
<1>1. /\ op[o].pc = "accept" /\ status[op[o].run] = "interrupted"
      /\ status' = [status EXCEPT ![op[o].run] = "running"]
      /\ round' = [round EXCEPT ![op[o].run] = @ + 1]
      /\ Moved(o, op[o].run, "install", round[op[o].run] + 1, op[o].todo)
      /\ UNCHANGED <<storage, phase, registry, task, outcome, lock, abort, interrupted,
                     owed, closed, slot, lost>>
  <2> TypeOK /\ ScopeInv /\ TableInv
    BY DEF IInv
  <2>1. /\ op[o].pc = "accept" /\ status[op[o].run] = "interrupted" /\ op[o].run \in Runs
        /\ status' = [status EXCEPT ![op[o].run] = "running"]
        /\ round' = [round EXCEPT ![op[o].run] = @ + 1]
        /\ op' = [op EXCEPT ![o].pc = "install", ![o].exec = round[op[o].run] + 1]
        /\ UNCHANGED <<storage, phase, memory, slot, lost>>
    BY DEF AcceptApproval, At, ScopeInv, ScopeOk
  <2>2. round[op[o].run] + 1 \in 0..MaxRounds
    BY <2>1, ConstantsAssumption DEF TableInv, TypeOK
  <2>3. Moved(o, op[o].run, "install", round[op[o].run] + 1, op[o].todo)
    BY <2>1, <2>2, MoveExec DEF TypeOK, Places
  <2> QED BY <2>1, <2>3 DEF db, memory
<1>2. Working(o)
  BY <1>1, GoingWorks DEF Going
<1>a. /\ op[o].run \in Runs /\ round[op[o].run] \in Nat /\ round[op[o].run] + 1 \in 1..MaxRounds
      /\ registry[op[o].run] = 0 /\ <<op[o].run, round[op[o].run] + 1>> \in Execs
  BY <1>1, <1>2, ConstantsAssumption
  DEF IInv, TypeOK, TableInv, StageInv, StageOk, Working, Execs
<1>b. /\ \A r \in Runs : round'[r] = IF r = op[o].run THEN round[r] + 1 ELSE round[r]
      /\ \A r \in Runs : status'[r] = IF r = op[o].run THEN "running" ELSE status[r]
  BY <1>1 DEF IInv, TypeOK
<1>c. ASSUME NEW x \in Execs, x[1] = op[o].run
      PROVE  /\ x[2] = round[op[o].run] + 1 => task[x] = "none"
             /\ task[x] \notin Alive
  <2>1. TaskOk(x) /\ x[2] # 0 /\ x[2] \in Nat
    BY ExecParts DEF IInv, TaskInv
  <2> QED BY <1>a, <1>c, <2>1 DEF TaskOk
<1>3. TypeOK'
  <2> TypeOK /\ ScopeInv /\ op[o].pc \notin {"idle", "queued"}
    BY <1>1 DEF IInv
  <2>1. /\ op' \in [Ops -> OpSet] /\ slot' \in [Threads -> Ops \cup {NoOp}]
        /\ \A p \in Ops : Going(p)' => slot'[op'[p].thread] = p
    BY <1>1, SlotOfOne DEF Going
  <2>2. round' \in [Runs -> 0..MaxRounds]
    BY <1>1, <1>a DEF TypeOK
  <2>3. status' \in [Runs -> Terminal \cup Active \cup {"absent"}]
    BY <1>1 DEF TypeOK, Active
  <2> QED BY <1>1, <2>1, <2>2, <2>3 DEF TypeOK
<1>4. PhaseInv'
  BY <1>1, <1>2, ConstantsAssumption DEF Working, Moved, IInv, PhaseInv, ScopeInv, Serving
<1>5. TableInv'
  BY <1>1, <1>2, ConstantsAssumption DEF Working, Moved, IInv, TableInv, TypeOK, Active, Terminal
<1>6. ScopeInv' /\ DrainInv' /\ StageInv'
  <2>1. Local(o)
    BY <1>1, <1>2 DEF Moved, Working, Local, IInv, TypeOK
  <2>2. ScopeOk(o)'
    <3>1. round[op[o].run] + 1 # 0
      BY <1>a
    <3>2. ScopeOk(o)
      BY DEF IInv, ScopeInv
    <3> QED BY <1>1, <1>2, <3>1, <3>2 DEF Working, Moved, ScopeOk
  <2>3. DrainOk(o)'
    BY <1>1, <1>2, ConstantsAssumption DEF Working, Moved, IInv, DrainInv, ScopeInv, TypeOK, Graphs,
      Going, DrainOk
  <2>4. StageOk(o)'
    <3>1. task[<<op[o].run, round[op[o].run] + 1>>] = "none"
      BY <1>a, <1>c
    <3>2. ASSUME NEW x \in Execs, ThreadOf[x[1]] = op[o].thread, task[x] \in Graphs PROVE FALSE
      <4>1. op[o].run = x[1]
        BY <1>1, <1>2, <3>2 DEF IInv, GraphInv, GraphOk, Active, Working
      <4> QED BY <1>c, <3>2, <4>1 DEF Graphs, Alive
    <3>3. round'[op[o].run] = round[op[o].run] + 1 /\ status'[op[o].run] = "running"
      BY <1>a, <1>b
    <3>4. /\ op'[o].pc = "install" /\ op'[o].run = op[o].run /\ op'[o].thread = op[o].thread
          /\ op'[o].exec = round[op[o].run] + 1
          /\ Exec(o)' = <<op[o].run, round[op[o].run] + 1>>
      BY <1>1 DEF Moved, Exec
    <3> QED BY <1>1, <1>a, <3>1, <3>2, <3>3, <3>4 DEF StageOk
  <2> QED BY <1>2, <2>1, <2>2, <2>3, <2>4, OthersKeep
<1>9. TaskInv'
  <2>1. \A r \in Runs : registry'[r] \in {0, round'[r]}
    BY <1>1, <1>a, <1>b DEF IInv, TaskInv
  <2>2. ASSUME NEW x \in Execs PROVE TaskOk(x)'
    <3>1. TaskOk(x) /\ x[1] \in Runs /\ x[2] \in Nat
      BY ExecParts DEF IInv, TaskInv
    <3>2. CASE x[1] = op[o].run
      BY <1>1, <1>a, <1>b, <1>c, <3>1, <3>2 DEF TaskOk, Serving, Current
    <3>3. CASE x[1] # op[o].run
      BY <1>1, <1>b, <3>1, <3>3 DEF TaskOk, Serving, Current
    <3> QED BY <3>2, <3>3
  <2> QED BY <2>1, <2>2 DEF TaskInv
<1>10. GraphInv'
  BY <1>1, <1>2, ConstantsAssumption DEF Working, Moved, IInv, GraphInv, GraphOk, TypeOK, TableInv,
    StageInv,
    Graphs, Active, OneGraphPerThread, At, Exec
<1>11. LockInv'
  BY <1>1, <1>2, ConstantsAssumption DEF Working, Moved, IInv, LockInv, LockOk, HasLock, TypeOK,
    Locking, Exec
<1>12. OwedInv'
  BY <1>1, <1>2, ConstantsAssumption DEF Working, Moved, IInv, OwedInv, OwedOk, HasLock, LockInv,
    LockOk, PhaseInv, Serving, At, Exec, PublishedBeforeClose, Locking
<1>13. RunningHasOwner'
  BY <1>1, <1>2, ConstantsAssumption DEF Working, Moved, IInv, RunningHasOwner, TypeOK, StageInv,
    PhaseInv, At, Exec, Current, Serving
<1> QED BY <1>3, <1>4, <1>5, <1>6, <1>9, <1>10, <1>11, <1>12, <1>13 DEF IInv

LEMMA InstallKeeps ==
  ASSUME IInv, NEW o \in Ops, Install(o)
  PROVE  IInv'
<1>1. /\ op[o].pc = "install" /\ Ended(o)
      /\ registry' = [registry EXCEPT ![op[o].run] = op[o].exec]
      /\ task' = [task EXCEPT ![Exec(o)] = "created"]
      /\ UNCHANGED <<status, round, storage, phase, outcome, lock, abort, interrupted,
                     owed, closed, lost>>
  BY OpEnds DEF Install, At, IInv, TypeOK, db, memory
<1>2. TableInv'
  BY <1>1 DEF IInv, TableInv, Current
<1>3. Working(o)
  BY <1>1, GoingWorks DEF Going
<1>a. /\ \A r \in Runs : registry'[r] = IF r = op[o].run THEN op[o].exec ELSE registry[r]
      /\ \A x \in Execs : task'[x] = IF x = Exec(o) THEN "created" ELSE task[x]
  BY <1>1 DEF IInv, TypeOK
<1>b. /\ registry[op[o].run] = 0 /\ status[op[o].run] = "running"
      /\ op[o].exec = round[op[o].run] /\ op[o].exec # 0 /\ task[Exec(o)] = "none"
      /\ \A x \in Execs : ThreadOf[x[1]] = op[o].thread => task[x] \notin Graphs
      /\ op[o].exec \in 0..MaxRounds /\ Exec(o) \in Execs /\ op[o].run \in Runs
  BY <1>1, <1>3, OpParts DEF IInv, StageInv, StageOk, ScopeInv, ScopeOk, Working, TypeOK
<1>c. \A p \in Ops : \/ p # o /\ op'[p] = op[p]
                     \/ p = o /\ op'[p].pc = "idle" /\ op[p].pc = "install"
  BY <1>1 DEF Ended, IdleOp
<1>d. ASSUME NEW x \in Execs, x # Exec(o), x[1] = op[o].run
      PROVE  x[2] # op[o].exec /\ task[x] \notin Alive
  BY <1>b, <1>3, <1>d, ExecParts DEF Exec, IInv, TaskInv, TaskOk
<1>4. TypeOK'
  <2> TypeOK /\ ScopeInv /\ op[o].pc \notin {"idle", "queued"}
    BY <1>1 DEF IInv
  <2>1. /\ op' \in [Ops -> OpSet] /\ slot' \in [Threads -> Ops \cup {NoOp}]
        /\ \A p \in Ops : Going(p)' => slot'[op'[p].thread] = p
    BY <1>1, SlotOfOne DEF Going
  <2>2. registry' \in [Runs -> 0..MaxRounds]
    BY <1>1, <1>b DEF TypeOK
  <2>3. task' \in [Execs -> Alive \cup {"none", "done"}]
    BY <1>1, <1>b DEF TypeOK, Alive
  <2> QED BY <1>1, <2>1, <2>2, <2>3 DEF TypeOK, Terminal, Active
<1>5. PhaseInv'
  BY <1>1, <1>3, ConstantsAssumption DEF Working, Ended, IdleOp, IInv, PhaseInv, ScopeInv, Serving
<1>6. ScopeInv' /\ DrainInv' /\ StageInv'
  <2>1. Local(o)
    BY <1>1, <1>3 DEF Ended, IdleOp, Working, Local, IInv, TypeOK
  <2>2. ScopeOk(o)'
    BY <1>1, <1>3, ConstantsAssumption DEF Working, Ended, IdleOp, IInv, ScopeInv, ScopeOk
  <2>3. DrainOk(o)'
    BY <1>1, <1>3, ConstantsAssumption DEF Working, Ended, IdleOp, IInv, DrainInv, ScopeInv, TypeOK,
      Graphs, Going, DrainOk
  <2>4. StageOk(o)'
    BY <1>1, <1>3, ConstantsAssumption DEF Working, Ended, IdleOp, IInv, StageInv, ScopeInv, TypeOK,
      Graphs, Exec, Going, StageOk
  <2> QED BY <1>3, <2>1, <2>2, <2>3, <2>4, OthersKeep
<1>9. TaskInv'
  <2>1. \A r \in Runs : registry'[r] \in {0, round'[r]}
    BY <1>1, <1>a, <1>b DEF IInv, TaskInv
  <2>2. ASSUME NEW x \in Execs PROVE TaskOk(x)'
    <3> TaskOk(x) /\ x[1] \in Runs /\ x[2] \in 1..MaxRounds
      BY ExecParts DEF IInv, TaskInv
    <3>1. CASE x = Exec(o)
      BY <1>1, <1>3, <1>a, <1>b, <3>1 DEF TaskOk, Working, Alive, Serving, Current, IInv, TypeOK
    <3>2. CASE x # Exec(o)
      <4>1. task'[x] = task[x]
        BY <1>a, <3>2
      <4>2. CASE x[1] = op[o].run
        BY <1>1, <1>a, <1>d, <3>2, <4>1, <4>2 DEF TaskOk, Serving, Current
      <4>3. CASE x[1] # op[o].run
        BY <1>1, <1>a, <4>1, <4>3 DEF TaskOk, Serving, Current
      <4> QED BY <4>2, <4>3
    <3> QED BY <3>1, <3>2
  <2> QED BY <2>1, <2>2 DEF TaskInv
<1>10. GraphInv'
  <2>1. ASSUME NEW x \in Execs PROVE GraphOk(x)'
    <3> GraphOk(x) /\ x[1] \in Runs
      BY ExecParts DEF IInv, GraphInv
    <3>1. CASE x = Exec(o)
      BY <1>1, <1>3, <1>b, <3>1 DEF GraphOk, Working, IInv, TableInv, Active
    <3>2. CASE x # Exec(o)
      <4>1. task'[x] = task[x]
        BY <1>a, <3>2
      <4>2. \A p \in Ops : At(p, "notify") => At(p, "notify")' /\ Exec(p)' = Exec(p)
        BY <1>c DEF At, Exec
      <4> QED BY <1>1, <4>1, <4>2 DEF GraphOk, Graphs
    <3> QED BY <3>1, <3>2
  <2>2. OneGraphPerThread'
    <3>1. \A x \in Execs : task'[x] \in Graphs =>
            x = Exec(o) \/ (task[x] \in Graphs /\ ThreadOf[x[1]] # op[o].thread)
      BY <1>a, <1>b DEF Graphs
    <3>2. ThreadOf[Exec(o)[1]] = op[o].thread
      BY <1>1, <1>3 DEF Working
    <3> QED BY <3>1, <3>2 DEF IInv, GraphInv, OneGraphPerThread, Graphs
  <2> QED BY <2>1, <2>2 DEF GraphInv
<1>11. LockInv'
  <2> SUFFICES ASSUME NEW x \in Execs PROVE LockOk(x)'
    BY DEF LockInv
  <2>1. LockOk(x)
    BY DEF IInv, LockInv
  <2>2. task'[x] \in Locking <=> task[x] \in Locking
    BY <1>a, <1>b DEF Locking
  <2>3. \A p \in Ops : HasLock(p, x)' <=> HasLock(p, x)
    BY <1>c DEF HasLock, Exec
  <2> QED BY <1>1, <2>1, <2>2, <2>3 DEF LockOk
<1>12. OwedInv'
  <2>1. PublishedBeforeClose'
    BY <1>1 DEF IInv, OwedInv, PublishedBeforeClose
  <2>2. ASSUME NEW x \in owed PROVE OwedOk(x)'
    <3>1. x \in Execs /\ OwedOk(x)
      BY <1>3 DEF IInv, OwedInv, TypeOK, Working
    <3>2. \A p \in Ops : At(p, "notify") /\ HasLock(p, x) => At(p, "notify")' /\ HasLock(p, x)'
      BY <1>c DEF HasLock, Exec, At
    <3>3. task[x] = "publish" => task'[x] = "publish"
      BY <1>a, <1>b, <3>1
    <3> QED BY <1>1, <3>1, <3>2, <3>3 DEF OwedOk
  <2> QED BY <1>1, <2>1, <2>2 DEF OwedInv
<1>13. RunningHasOwner'
  <2> SUFFICES ASSUME phase' \in {"up", "closing"}, NEW r \in Runs, status'[r] = "running"
               PROVE  \/ registry'[r] = round'[r]
                      \/ \E p \in Ops : At(p, "install")' /\ op'[p].run = r
                      \/ <<r, round'[r]>> \in lost'
    BY DEF RunningHasOwner
  <2>1. CASE r = op[o].run
    BY <1>1, <1>a, <1>b, <2>1
  <2>2. CASE r # op[o].run
    <3>1. registry'[r] = registry[r]
      BY <1>a, <2>2
    <3>2. \A p \in Ops : At(p, "install") /\ op[p].run = r => At(p, "install")' /\ op'[p].run = r
      BY <1>c, <2>2 DEF At
    <3> QED BY <1>1, <3>1, <3>2 DEF IInv, RunningHasOwner
  <2> QED BY <2>1, <2>2
<1> QED BY <1>2, <1>4, <1>5, <1>6, <1>9, <1>10, <1>11, <1>12, <1>13 DEF IInv

LEMMA StartFailsKeeps ==
  ASSUME IInv, NEW o \in Ops, StartFails(o)
  PROVE  IInv'
<1>1. /\ op[o].pc = "install"
      /\ registry' = IF Refused(op[o].run) THEN registry
                     ELSE [registry EXCEPT ![op[o].run] = op[o].exec]
      /\ task' = [task EXCEPT ![Exec(o)] = "settle"]
      /\ outcome' = [outcome EXCEPT ![Exec(o)] = "failed"]
      /\ Moved(o, op[o].run, "attempted", op[o].exec, op[o].todo)
      /\ UNCHANGED <<status, round, storage, phase, lock, abort, interrupted, owed,
                     closed, slot, lost>>
  BY MovePc DEF IInv, StartFails, Goto, At, TypeOK, Places, db, memory
<1>2. TableInv'
  BY <1>1 DEF IInv, TableInv, Current
<1>3. Working(o)
  BY <1>1, GoingWorks DEF Going
<1>b. /\ registry[op[o].run] = 0 /\ status[op[o].run] = "running"
      /\ op[o].exec = round[op[o].run] /\ op[o].exec # 0 /\ task[Exec(o)] = "none"
      /\ op[o].exec \in 0..MaxRounds /\ Exec(o) \in Execs /\ op[o].run \in Runs
  BY <1>1, <1>3, OpParts DEF IInv, StageInv, StageOk, ScopeInv, ScopeOk, Working, TypeOK
<1>a. /\ registry' = [registry EXCEPT ![op[o].run] = op[o].exec]
      /\ \A r \in Runs : registry'[r] = IF r = op[o].run THEN op[o].exec ELSE registry[r]
      /\ \A x \in Execs : task'[x] = IF x = Exec(o) THEN "settle" ELSE task[x]
      /\ \A x \in Execs : outcome'[x] = IF x = Exec(o) THEN "failed" ELSE outcome[x]
  BY <1>1, <1>3, <1>b DEF IInv, TypeOK, Refused, Working, Serving
<1>c. \A p \in Ops : \/ p # o /\ op'[p] = op[p]
                     \/ p = o /\ op'[p].pc = "attempted" /\ op[p].pc = "install"
  BY <1>1 DEF Moved
<1>d. ASSUME NEW x \in Execs, x # Exec(o), x[1] = op[o].run
      PROVE  x[2] # op[o].exec /\ task[x] \notin Alive
  BY <1>b, <1>3, <1>d, ExecParts DEF Exec, IInv, TaskInv, TaskOk
<1>4. TypeOK'
  <2> TypeOK /\ ScopeInv /\ op[o].pc \notin {"idle", "queued"}
    BY <1>1 DEF IInv
  <2>1. /\ op' \in [Ops -> OpSet] /\ slot' \in [Threads -> Ops \cup {NoOp}]
        /\ \A p \in Ops : Going(p)' => slot'[op'[p].thread] = p
    BY <1>1, SlotOfOne DEF Going
  <2>2. registry' \in [Runs -> 0..MaxRounds]
    BY <1>a, <1>b DEF TypeOK
  <2>3. task' \in [Execs -> Alive \cup {"none", "done"}]
    BY <1>1, <1>b DEF TypeOK, Alive
  <2>4. outcome' \in [Execs -> {"none", "completed", "aborted", "failed", "interrupted"}]
    BY <1>1, <1>b DEF TypeOK
  <2> QED BY <1>1, <2>1, <2>2, <2>3, <2>4 DEF TypeOK, Terminal, Active
<1>5. PhaseInv'
  BY <1>1, <1>3, ConstantsAssumption DEF Working, Moved, IInv, PhaseInv, ScopeInv, Serving
<1>6. ScopeInv' /\ DrainInv' /\ StageInv'
  <2>1. Local(o)
    BY <1>1, <1>3 DEF Moved, Working, Local, IInv, TypeOK
  <2>2. ScopeOk(o)'
    BY <1>1, <1>3, ConstantsAssumption DEF Working, Moved, IInv, ScopeInv, ScopeOk
  <2>3. DrainOk(o)'
    BY <1>1, <1>3, ConstantsAssumption DEF Working, Moved, IInv, DrainInv, ScopeInv, TypeOK, Graphs,
      Going, DrainOk
  <2>4. StageOk(o)'
    BY <1>1, <1>3, ConstantsAssumption DEF Working, Moved, IInv, StageInv, ScopeInv, TypeOK, Graphs,
      Exec, Going, StageOk
  <2> QED BY <1>3, <2>1, <2>2, <2>3, <2>4, OthersKeep
<1>9. TaskInv'
  <2>1. \A r \in Runs : registry'[r] \in {0, round'[r]}
    BY <1>1, <1>a, <1>b DEF IInv, TaskInv
  <2>2. ASSUME NEW x \in Execs PROVE TaskOk(x)'
    <3> TaskOk(x) /\ x[1] \in Runs /\ x[2] \in 1..MaxRounds
      BY ExecParts DEF IInv, TaskInv
    <3>1. CASE x = Exec(o)
      BY <1>1, <1>3, <1>a, <1>b, <3>1 DEF TaskOk, Working, Alive, Serving, Current, IInv, TypeOK
    <3>2. CASE x # Exec(o)
      <4>1. task'[x] = task[x] /\ outcome'[x] = outcome[x]
        BY <1>a, <3>2
      <4>2. CASE x[1] = op[o].run
        BY <1>1, <1>a, <1>d, <3>2, <4>1, <4>2 DEF TaskOk, Serving, Current
      <4>3. CASE x[1] # op[o].run
        BY <1>1, <1>a, <4>1, <4>3 DEF TaskOk, Serving, Current
      <4> QED BY <4>2, <4>3
    <3> QED BY <3>1, <3>2
  <2> QED BY <2>1, <2>2 DEF TaskInv
<1>10. GraphInv'
  BY <1>1, <1>3, ConstantsAssumption DEF Working, Moved, IInv, GraphInv, GraphOk, TypeOK, TableInv,
    StageInv,
    Graphs, Active, OneGraphPerThread, At, Exec
<1>11. LockInv'
  <2> SUFFICES ASSUME NEW x \in Execs PROVE LockOk(x)'
    BY DEF LockInv
  <2>1. LockOk(x)
    BY DEF IInv, LockInv
  <2>2. task'[x] \in Locking <=> task[x] \in Locking
    BY <1>a, <1>b DEF Locking
  <2>3. \A p \in Ops : HasLock(p, x)' <=> HasLock(p, x)
    BY <1>c DEF HasLock, Exec
  <2> QED BY <1>1, <2>1, <2>2, <2>3 DEF LockOk
<1>12. OwedInv'
  <2>1. PublishedBeforeClose'
    BY <1>1 DEF IInv, OwedInv, PublishedBeforeClose
  <2>2. ASSUME NEW x \in owed PROVE OwedOk(x)'
    <3>1. x \in Execs /\ OwedOk(x)
      BY <1>3 DEF IInv, OwedInv, TypeOK, Working
    <3>2. \A p \in Ops : At(p, "notify") /\ HasLock(p, x) => At(p, "notify")' /\ HasLock(p, x)'
      BY <1>c DEF HasLock, Exec, At
    <3>3. task[x] = "publish" => task'[x] = "publish"
      BY <1>a, <1>b, <3>1
    <3> QED BY <1>1, <3>1, <3>2, <3>3 DEF OwedOk
  <2> QED BY <1>1, <2>1, <2>2 DEF OwedInv
<1>13. RunningHasOwner'
  <2> SUFFICES ASSUME phase' \in {"up", "closing"}, NEW r \in Runs, status'[r] = "running"
               PROVE  \/ registry'[r] = round'[r]
                      \/ \E p \in Ops : At(p, "install")' /\ op'[p].run = r
                      \/ <<r, round'[r]>> \in lost'
    BY DEF RunningHasOwner
  <2>1. CASE r = op[o].run
    BY <1>1, <1>a, <1>b, <2>1
  <2>2. CASE r # op[o].run
    <3>1. registry'[r] = registry[r]
      BY <1>a, <2>2
    <3>2. \A p \in Ops : At(p, "install") /\ op[p].run = r => At(p, "install")' /\ op'[p].run = r
      BY <1>c, <2>2 DEF At
    <3> QED BY <1>1, <3>1, <3>2 DEF IInv, RunningHasOwner
  <2> QED BY <2>1, <2>2
<1> QED BY <1>2, <1>4, <1>5, <1>6, <1>9, <1>10, <1>11, <1>12, <1>13 DEF IInv

LEMMA AttemptedKeeps ==
  ASSUME IInv, NEW o \in Ops, Attempted(o)
  PROVE  IInv'
<1>1. /\ op[o].pc = "attempted" /\ Ended(o)
      /\ UNCHANGED <<status, round, storage, phase, registry, task, outcome, lock, abort,
                     interrupted, owed, closed, lost>>
  BY OpEnds DEF Attempted, At, IInv, TypeOK, db, memory
<1>2. TableInv' /\ TaskInv' /\ GraphInv' /\ LockInv' /\ OwedInv' /\ RunningHasOwner'
  BY <1>1, OpFrame DEF Ended, IdleOp
<1>3. Working(o)
  BY <1>1, GoingWorks DEF Going
<1>4. TypeOK'
  <2> TypeOK /\ ScopeInv /\ op[o].pc \notin {"idle", "queued"}
    BY <1>1 DEF IInv
  <2>1. /\ op' \in [Ops -> OpSet] /\ slot' \in [Threads -> Ops \cup {NoOp}]
        /\ \A p \in Ops : Going(p)' => slot'[op'[p].thread] = p
    BY <1>1, SlotOfOne DEF Going
  <2> QED BY <1>1, <1>3, <2>1 DEF TypeOK, Working, Terminal, Active, Alive
<1>5. PhaseInv'
  BY <1>1, <1>3, ConstantsAssumption DEF Working, Ended, IdleOp, IInv, PhaseInv, ScopeInv, Serving
<1>6. ScopeInv' /\ DrainInv' /\ StageInv'
  <2>1. Local(o)
    BY <1>1, <1>3 DEF Ended, IdleOp, Working, Local, IInv, TypeOK
  <2>2. ScopeOk(o)'
    BY <1>1, <1>3, ConstantsAssumption DEF Working, Ended, IdleOp, IInv, ScopeInv, ScopeOk
  <2>3. DrainOk(o)'
    BY <1>1, <1>3, ConstantsAssumption DEF Working, Ended, IdleOp, IInv, DrainInv, ScopeInv, TypeOK,
      Graphs, Going, DrainOk
  <2>4. StageOk(o)'
    BY <1>1, <1>3, ConstantsAssumption DEF Working, Ended, IdleOp, IInv, StageInv, ScopeInv, TypeOK,
      Graphs, Exec, Going, StageOk
  <2> QED BY <1>3, <2>1, <2>2, <2>3, <2>4, OthersKeep
<1> QED BY <1>2, <1>4, <1>5, <1>6 DEF IInv

LEMMA LockForCancelKeeps ==
  ASSUME IInv, NEW o \in Ops, LockForCancel(o)
  PROVE  IInv'
<1>1. /\ op[o].pc = "lock"
      /\ IF op[o].exec = 0 THEN UNCHANGED lock
         ELSE lock[Exec(o)] = "free" /\ lock' = [lock EXCEPT ![Exec(o)] = o]
      /\ Moved(o, op[o].run, "commit", op[o].exec, op[o].todo)
      /\ UNCHANGED <<status, round, storage, phase, registry, task, outcome, abort,
                     interrupted, owed, closed, slot, lost>>
  BY MovePc DEF IInv, LockForCancel, Goto, At, TypeOK, Places, db, memory
<1>2. TableInv' /\ TaskInv'
  BY <1>1 DEF IInv, TableInv, TaskInv, TaskOk, Serving, Current, Exec
<1>3. Working(o)
  BY <1>1, GoingWorks DEF Going
<1>4. TypeOK'
  <2> TypeOK /\ ScopeInv /\ op[o].pc \notin {"idle", "queued"}
    BY <1>1 DEF IInv
  <2>1. /\ op' \in [Ops -> OpSet] /\ slot' \in [Threads -> Ops \cup {NoOp}]
        /\ \A p \in Ops : Going(p)' => slot'[op'[p].thread] = p
    BY <1>1, SlotOfOne DEF Going
  <2> QED BY <1>1, <1>3, <2>1 DEF TypeOK, Working, Terminal, Active, Alive
<1>5. PhaseInv'
  BY <1>1, <1>3, ConstantsAssumption DEF Working, Moved, IInv, PhaseInv, ScopeInv, Serving
<1>6. ScopeInv' /\ DrainInv' /\ StageInv'
  <2>1. Local(o)
    BY <1>1, <1>3 DEF Moved, Working, Local, IInv, TypeOK
  <2>2. ScopeOk(o)'
    BY <1>1, <1>3, ConstantsAssumption DEF Working, Moved, IInv, ScopeInv, ScopeOk
  <2>3. DrainOk(o)'
    BY <1>1, <1>3, ConstantsAssumption DEF Working, Moved, IInv, DrainInv, ScopeInv, TypeOK, Graphs,
      Going, DrainOk
  <2>4. StageOk(o)'
    BY <1>1, <1>3, ConstantsAssumption DEF Working, Moved, IInv, StageInv, ScopeInv, TypeOK, Graphs,
      Exec, Going, StageOk
  <2> QED BY <1>3, <2>1, <2>2, <2>3, <2>4, OthersKeep
<1>9. GraphInv'
  BY <1>1, <1>3, ConstantsAssumption DEF Working, Moved, IInv, GraphInv, GraphOk, TypeOK, TableInv,
    StageInv,
    Graphs, Active, OneGraphPerThread, At, Exec
<1>10. LockInv'
  <2> SUFFICES ASSUME NEW x \in Execs PROVE LockOk(x)'
    BY DEF LockInv
  <2>1. LockOk(x)
    BY DEF IInv, LockInv
  <2>2. \A p \in Ops : p # o => (HasLock(p, x)' <=> HasLock(p, x))
    BY <1>1 DEF HasLock, Exec, Moved
  <2>3. (HasLock(o, x)' <=> op[o].exec # 0 /\ x = Exec(o)) /\ ~HasLock(o, x)
    BY <1>1 DEF HasLock, Moved, Exec
  <2>4. CASE op[o].exec # 0 /\ x = Exec(o)
    <3>1. lock[x] = "free" /\ lock'[x] = o
      BY <1>1, <2>4 DEF IInv, TypeOK
    <3> QED BY <1>1, <2>1, <2>2, <2>3, <2>4, <3>1, ConstantsAssumption DEF LockOk
  <2>5. CASE ~(op[o].exec # 0 /\ x = Exec(o))
    <3>1. lock'[x] = lock[x]
      BY <1>1, <2>5 DEF IInv, TypeOK
    <3> QED BY <1>1, <2>1, <2>2, <2>3, <2>5, <3>1 DEF LockOk
  <2> QED BY <2>4, <2>5
<1>11. OwedInv'
  BY <1>1, <1>3, ConstantsAssumption DEF Working, Moved, IInv, OwedInv, OwedOk, HasLock, LockInv,
    LockOk, PhaseInv, Serving, At, Exec, PublishedBeforeClose, Locking
<1>12. RunningHasOwner'
  BY <1>1, <1>3, ConstantsAssumption DEF Working, Moved, IInv, RunningHasOwner, TypeOK, StageInv,
    PhaseInv, At, Exec, Current, Serving
<1> QED BY <1>2, <1>4, <1>5, <1>6, <1>9, <1>10, <1>11, <1>12 DEF IInv

LEMMA CommitCancelKeeps ==
  ASSUME IInv, NEW o \in Ops, CommitCancel(o)
  PROVE  IInv'
<1>1. /\ op[o].pc = "commit"
      /\ IF status[op[o].run] \in Active
           THEN /\ status' = [status EXCEPT ![op[o].run] = "cancelled"]
                /\ owed' = IF op[o].exec = 0 \/ Exec(o) \in closed THEN owed
                           ELSE owed \cup {Exec(o)}
           ELSE UNCHANGED <<status, owed>>
      /\ Moved(o, op[o].run, "notify", op[o].exec, op[o].todo)
      /\ UNCHANGED <<round, storage, phase, registry, task, outcome, lock, abort,
                     interrupted, closed, slot, lost>>
  BY MovePc DEF IInv, CommitCancel, Goto, At, TypeOK, Places, db, memory
<1>2. Working(o)
  BY <1>1, GoingWorks DEF Going
<1>a. /\ op[o].run \in Runs
      /\ \A r \in Runs : status'[r] = IF r = op[o].run /\ status[r] \in Active THEN "cancelled"
                                      ELSE status[r]
  BY <1>1, <1>2 DEF IInv, TypeOK, Working
<1>b. \A p \in Ops : \/ p # o /\ op'[p] = op[p]
                     \/ p = o /\ op'[p].pc = "notify" /\ op[p].pc = "commit"
  BY <1>1 DEF Moved
<1>c. Exec(o)' = Exec(o) /\ op'[o].exec = op[o].exec
  BY <1>1 DEF Exec, Moved
<1>3. TypeOK'
  <2> TypeOK /\ ScopeInv /\ op[o].pc \notin {"idle", "queued"}
    BY <1>1 DEF IInv
  <2>1. /\ op' \in [Ops -> OpSet] /\ slot' \in [Threads -> Ops \cup {NoOp}]
        /\ \A p \in Ops : Going(p)' => slot'[op'[p].thread] = p
    BY <1>1, SlotOfOne DEF Going
  <2> QED BY <1>1, <1>2, <2>1 DEF TypeOK, Working, Terminal, Active, Alive
<1>4. PhaseInv'
  BY <1>1, <1>2, ConstantsAssumption DEF Working, Moved, IInv, PhaseInv, ScopeInv, Serving
<1>5. TableInv'
  BY <1>1, <1>2, ConstantsAssumption DEF Working, Moved, IInv, TableInv, TypeOK, Active, Terminal
<1>6. ScopeInv' /\ DrainInv' /\ StageInv'
  <2>1. Local(o)
    BY <1>1, <1>2 DEF Moved, Working, Local, IInv, TypeOK
  <2>2. ScopeOk(o)'
    BY <1>1, <1>2, ConstantsAssumption DEF Working, Moved, IInv, ScopeInv, ScopeOk
  <2>3. DrainOk(o)'
    BY <1>1, <1>2, ConstantsAssumption DEF Working, Moved, IInv, DrainInv, ScopeInv, TypeOK, Graphs,
      Going, DrainOk
  <2>4. StageOk(o)'
    BY <1>1, <1>2, ConstantsAssumption DEF Working, Moved, IInv, StageInv, ScopeInv, TypeOK, Graphs,
      Exec, Going, StageOk
  <2> QED BY <1>2, <2>1, <2>2, <2>3, <2>4, OthersKeep
<1>9. TaskInv'
  <2> SUFFICES ASSUME NEW x \in Execs PROVE TaskOk(x)'
    BY <1>1 DEF IInv, TaskInv
  <2>1. TaskOk(x) /\ x[1] \in Runs
    BY ExecParts DEF IInv, TaskInv
  <2>2. status'[x[1]] = "running" => status[x[1]] = "running"
    BY <1>a, <2>1
  <2> QED BY <1>1, <2>1, <2>2 DEF TaskOk, Serving, Current
<1>10. GraphInv'
  <2>1. ASSUME NEW x \in Execs, task[x] \in Graphs, x[1] = op[o].run PROVE Exec(o) = x
    <3>1. registry[op[o].run] = x[2] /\ x[2] # 0 /\ x = <<x[1], x[2]>>
      BY <2>1, ExecParts DEF IInv, TaskInv, TaskOk, Graphs, Alive
    <3>2. registry[op[o].run] \in {0, round[op[o].run]}
      BY <1>a DEF IInv, TaskInv
    <3>3. op[o].exec = round[op[o].run]
      BY <1>1, <3>1 DEF IInv, StageInv, StageOk
    <3> QED BY <2>1, <3>1, <3>2, <3>3 DEF Exec
  <2>2. ASSUME NEW x \in Execs, task[x] \in Graphs PROVE GraphOk(x)'
    <3>1. GraphOk(x) /\ x[1] \in Runs
      BY ExecParts DEF IInv, GraphInv
    <3>2. \A r \in Runs : status'[r] \in Active => status[r] \in Active
      BY <1>a DEF Active
    <3>3. \A p \in Ops : At(p, "notify") => At(p, "notify")' /\ Exec(p)' = Exec(p)
      BY <1>b DEF At, Exec
    <3>4. status[x[1]] = "running" => status'[x[1]] = "running" \/ x[1] = op[o].run
      BY <1>a, <3>1
    <3>5. At(o, "notify")' /\ Exec(o)' = Exec(o)
      BY <1>b, <1>c DEF At
    <3>6. CASE x[1] = op[o].run
      BY <1>1, <1>a, <2>1, <2>2, <3>1, <3>2, <3>3, <3>5, <3>6 DEF GraphOk, Active
    <3>7. CASE x[1] # op[o].run
      BY <1>1, <1>a, <3>1, <3>2, <3>3, <3>7 DEF GraphOk
    <3> QED BY <3>6, <3>7
  <2>3. ASSUME NEW x \in Execs, task[x] \notin Graphs PROVE GraphOk(x)'
    BY <1>1, <2>3 DEF GraphOk, Graphs
  <2> QED BY <1>1, <2>2, <2>3 DEF IInv, GraphInv, OneGraphPerThread
<1>11. LockInv'
  BY <1>1, <1>2, ConstantsAssumption DEF Working, Moved, IInv, LockInv, LockOk, HasLock, TypeOK,
    Locking, Exec
<1>12. OwedInv'
  <2>1. PublishedBeforeClose'
    BY <1>1 DEF IInv, OwedInv, PublishedBeforeClose
  <2>2. ASSUME NEW x \in owed' PROVE OwedOk(x)'
    <3>1. CASE x \in owed
      <4>1. x \in Execs /\ OwedOk(x) /\ x[1] \in Runs
        BY <1>2, <3>1, ExecParts DEF IInv, OwedInv, TypeOK, Working
      <4>2. \A p \in Ops : At(p, "notify") /\ HasLock(p, x) => At(p, "notify")' /\ HasLock(p, x)'
        BY <1>b DEF HasLock, Exec, At
      <4>3. status[x[1]] = "cancelled" => status'[x[1]] = "cancelled"
        BY <1>a, <4>1
      <4> QED BY <1>1, <4>1, <4>2, <4>3 DEF OwedOk
    <3>2. CASE x \notin owed
      <4>1. x = Exec(o) /\ op[o].exec # 0 /\ status[op[o].run] \in Active
        BY <1>1, <2>2, <3>2
      <4>2. status'[x[1]] = "cancelled"
        BY <1>1, <1>2, <1>a, <4>1 DEF Working
      <4>3. At(o, "notify")' /\ HasLock(o, x)'
        BY <1>b, <1>c, <4>1 DEF At, HasLock
      <4> QED BY <4>2, <4>3 DEF OwedOk
    <3> QED BY <3>1, <3>2
  <2> QED BY <1>1, <2>1, <2>2 DEF OwedInv
<1>13. RunningHasOwner'
  BY <1>1, <1>2, ConstantsAssumption DEF Working, Moved, IInv, RunningHasOwner, TypeOK, StageInv,
    PhaseInv, At, Exec, Current, Serving
<1> QED BY <1>3, <1>4, <1>5, <1>6, <1>9, <1>10, <1>11, <1>12, <1>13 DEF IInv

LEMMA CancelFailsKeeps ==
  ASSUME IInv, NEW o \in Ops, CancelFails(o)
  PROVE  IInv'
<1>1. /\ op[o].pc = "commit" /\ Ended(o)
      /\ IF op[o].exec = 0 THEN UNCHANGED lock ELSE lock' = [lock EXCEPT ![Exec(o)] = "free"]
      /\ UNCHANGED <<status, round, storage, phase, registry, task, outcome, abort,
                     interrupted, owed, closed, lost>>
  BY OpEnds DEF CancelFails, At, IInv, TypeOK, UnlockOf, Unlock, db, memory
<1>2. TableInv' /\ TaskInv'
  BY <1>1 DEF IInv, TableInv, TaskInv, TaskOk, Serving, Current, Exec
<1>3. Working(o)
  BY <1>1, GoingWorks DEF Going
<1>4. TypeOK'
  <2> TypeOK /\ ScopeInv /\ op[o].pc \notin {"idle", "queued"}
    BY <1>1 DEF IInv
  <2>1. /\ op' \in [Ops -> OpSet] /\ slot' \in [Threads -> Ops \cup {NoOp}]
        /\ \A p \in Ops : Going(p)' => slot'[op'[p].thread] = p
    BY <1>1, SlotOfOne DEF Going
  <2> QED BY <1>1, <1>3, <2>1 DEF TypeOK, Working, Terminal, Active, Alive
<1>5. PhaseInv'
  BY <1>1, <1>3, ConstantsAssumption DEF Working, Ended, IdleOp, IInv, PhaseInv, ScopeInv, Serving
<1>6. ScopeInv' /\ DrainInv' /\ StageInv'
  <2>1. Local(o)
    BY <1>1, <1>3 DEF Ended, IdleOp, Working, Local, IInv, TypeOK
  <2>2. ScopeOk(o)'
    BY <1>1, <1>3, ConstantsAssumption DEF Working, Ended, IdleOp, IInv, ScopeInv, ScopeOk
  <2>3. DrainOk(o)'
    BY <1>1, <1>3, ConstantsAssumption DEF Working, Ended, IdleOp, IInv, DrainInv, ScopeInv, TypeOK,
      Graphs, Going, DrainOk
  <2>4. StageOk(o)'
    BY <1>1, <1>3, ConstantsAssumption DEF Working, Ended, IdleOp, IInv, StageInv, ScopeInv, TypeOK,
      Graphs, Exec, Going, StageOk
  <2> QED BY <1>3, <2>1, <2>2, <2>3, <2>4, OthersKeep
<1>9. GraphInv'
  BY <1>1, <1>3, ConstantsAssumption DEF Working, Ended, IdleOp, IInv, GraphInv, GraphOk, TypeOK,
    TableInv,
    StageInv, Graphs, Active, OneGraphPerThread, At, Exec
<1>10. LockInv'
  <2> SUFFICES ASSUME NEW x \in Execs PROVE LockOk(x)'
    BY DEF LockInv
  <2>1. LockOk(x)
    BY DEF IInv, LockInv
  <2>2. \A p \in Ops : HasLock(p, x)' <=> p # o /\ HasLock(p, x)
    BY <1>1 DEF HasLock, Exec, Ended, IdleOp
  <2>3. HasLock(o, x) <=> op[o].exec # 0 /\ x = Exec(o)
    BY <1>1 DEF HasLock
  <2>4. lock'[x] = IF HasLock(o, x) THEN "free" ELSE lock[x]
    BY <1>1, <2>3 DEF IInv, TypeOK
  <2>5. \A p \in Ops : HasLock(o, x) /\ HasLock(p, x) => p = o
    BY <2>1 DEF LockOk
  <2> QED BY <1>1, <2>1, <2>2, <2>4, <2>5, ConstantsAssumption DEF LockOk
<1>11. OwedInv'
  BY <1>1, <1>3, ConstantsAssumption DEF Working, Ended, IdleOp, IInv, OwedInv, OwedOk, HasLock,
    LockInv, LockOk, PhaseInv, Serving, At, Exec, PublishedBeforeClose, Locking
<1>12. RunningHasOwner'
  BY <1>1, <1>3, ConstantsAssumption DEF Working, Ended, IdleOp, IInv, RunningHasOwner, TypeOK,
    StageInv,
    PhaseInv, At, Exec, Current, Serving
<1> QED BY <1>2, <1>4, <1>5, <1>6, <1>9, <1>10, <1>11, <1>12 DEF IInv

LEMMA NotifyCancelKeeps ==
  ASSUME IInv, NEW o \in Ops, NotifyCancel(o)
  PROVE  IInv'
<1>1. /\ op[o].pc = "notify" /\ Ended(o)
      /\ IF op[o].exec # 0 /\ status[op[o].run] = "cancelled"
           THEN abort' = abort \cup {Exec(o)} /\ owed' = owed \ {Exec(o)}
           ELSE UNCHANGED <<abort, owed>>
      /\ IF op[o].exec = 0 THEN UNCHANGED lock ELSE lock' = [lock EXCEPT ![Exec(o)] = "free"]
      /\ UNCHANGED <<status, round, storage, phase, registry, task, outcome, interrupted,
                     closed, lost>>
  BY OpEnds DEF NotifyCancel, At, IInv, TypeOK, UnlockOf, Unlock, db, memory
<1>2. TableInv' /\ TaskInv'
  BY <1>1 DEF IInv, TableInv, TaskInv, TaskOk, Serving, Current, Exec
<1>3. Working(o)
  BY <1>1, GoingWorks DEF Going
<1>4. TypeOK'
  <2> TypeOK /\ ScopeInv /\ op[o].pc \notin {"idle", "queued"}
    BY <1>1 DEF IInv
  <2>1. /\ op' \in [Ops -> OpSet] /\ slot' \in [Threads -> Ops \cup {NoOp}]
        /\ \A p \in Ops : Going(p)' => slot'[op'[p].thread] = p
    BY <1>1, SlotOfOne DEF Going
  <2> QED BY <1>1, <1>3, <2>1 DEF TypeOK, Working, Terminal, Active, Alive
<1>5. PhaseInv'
  BY <1>1, <1>3, ConstantsAssumption DEF Working, Ended, IdleOp, IInv, PhaseInv, ScopeInv, Serving
<1>6. ScopeInv' /\ DrainInv' /\ StageInv'
  <2>1. Local(o)
    BY <1>1, <1>3 DEF Ended, IdleOp, Working, Local, IInv, TypeOK
  <2>2. ScopeOk(o)'
    BY <1>1, <1>3, ConstantsAssumption DEF Working, Ended, IdleOp, IInv, ScopeInv, ScopeOk
  <2>3. DrainOk(o)'
    BY <1>1, <1>3, ConstantsAssumption DEF Working, Ended, IdleOp, IInv, DrainInv, ScopeInv, TypeOK,
      Graphs, Going, DrainOk
  <2>4. StageOk(o)'
    BY <1>1, <1>3, ConstantsAssumption DEF Working, Ended, IdleOp, IInv, StageInv, ScopeInv, TypeOK,
      Graphs, Exec, Going, StageOk
  <2> QED BY <1>3, <2>1, <2>2, <2>3, <2>4, OthersKeep
<1>9. GraphInv'
  <2>1. ASSUME NEW x \in Execs PROVE GraphOk(x)'
    <3>1. GraphOk(x) /\ x[2] # 0
      BY ExecParts DEF IInv, GraphInv
    <3>2. \A p \in Ops : At(p, "notify") => p = o \/ (At(p, "notify")' /\ Exec(p)' = Exec(p))
      BY <1>1 DEF At, Exec, Ended
    <3>3. x = Exec(o) /\ status[x[1]] = "cancelled" => x \in abort'
      BY <1>1, <1>3, <3>1 DEF Working
    <3>4. abort \subseteq abort'
      BY <1>1
    <3> QED BY <1>1, <3>1, <3>2, <3>3, <3>4 DEF GraphOk
  <2> QED BY <1>1, <2>1 DEF IInv, GraphInv, OneGraphPerThread
<1>10. LockInv'
  <2> SUFFICES ASSUME NEW x \in Execs PROVE LockOk(x)'
    BY DEF LockInv
  <2>1. LockOk(x)
    BY DEF IInv, LockInv
  <2>2. \A p \in Ops : HasLock(p, x)' <=> p # o /\ HasLock(p, x)
    BY <1>1 DEF HasLock, Exec, Ended, IdleOp
  <2>3. HasLock(o, x) <=> op[o].exec # 0 /\ x = Exec(o)
    BY <1>1 DEF HasLock
  <2>4. lock'[x] = IF HasLock(o, x) THEN "free" ELSE lock[x]
    BY <1>1, <2>3 DEF IInv, TypeOK
  <2>5. \A p \in Ops : HasLock(o, x) /\ HasLock(p, x) => p = o
    BY <2>1 DEF LockOk
  <2> QED BY <1>1, <2>1, <2>2, <2>4, <2>5, ConstantsAssumption DEF LockOk
<1>11. OwedInv'
  BY <1>1, <1>3, ConstantsAssumption DEF Working, Ended, IdleOp, IInv, OwedInv, OwedOk, HasLock,
    LockInv, LockOk, PhaseInv, Serving, At, Exec, PublishedBeforeClose, Locking
<1>12. RunningHasOwner'
  BY <1>1, <1>3, ConstantsAssumption DEF Working, Ended, IdleOp, IInv, RunningHasOwner, TypeOK,
    StageInv,
    PhaseInv, At, Exec, Current, Serving
<1> QED BY <1>2, <1>4, <1>5, <1>6, <1>9, <1>10, <1>11, <1>12 DEF IInv

\* A step of a task that changes no table and leaves the registry alone has to
\* take care of its own execution only.
LEMMA TaskFrame ==
  ASSUME IInv, NEW x \in Execs, task[x] \in Alive,
         UNCHANGED <<status, round, storage, phase, registry, abort, closed, slot, op>>,
         task' \in [Execs -> Alive \cup {"none", "done"}],
         outcome' \in [Execs -> {"none", "completed", "aborted", "failed", "interrupted"}],
         lock' \in [Execs -> {"free", "task"} \cup Ops],
         interrupted' \subseteq interrupted, owed' \subseteq owed,
         lost \subseteq lost', lost' \subseteq Execs,
         \A y \in Execs : y # x =>
           task'[y] = task[y] /\ outcome'[y] = outcome[y] /\ lock'[y] = lock[y],
         task'[x] \in Graphs => task[x] \in Graphs,
         TaskOk(x)', LockOk(x)', Serving /\ x \in owed' => OwedOk(x)'
  PROVE  IInv'
<1>1. TypeOK'
  BY DEF IInv, TypeOK, Going
<1>2. PhaseInv'
  BY DEF IInv, PhaseInv, Serving, Alive
<1>3. TableInv' /\ ScopeInv'
  BY DEF IInv, TableInv, ScopeInv, ScopeOk
<1>4. \A y \in Execs : /\ task'[y] \in Graphs => task[y] \in Graphs
                       /\ task[y] = "none" => task'[y] = "none"
  BY DEF Alive
<1>5. DrainInv'
  BY <1>4 DEF IInv, DrainInv, DrainOk, Graphs
<1>6. StageInv'
  <2> SUFFICES ASSUME NEW o \in Ops PROVE StageOk(o)'
    BY DEF StageInv
  <2>1. StageOk(o)
    BY DEF IInv, StageInv
  <2>2. op[o].pc = "install" => Exec(o) \in Execs
    BY ExecOfOp DEF IInv, ScopeInv, ScopeOk
  <2> QED BY <1>4, <2>1, <2>2 DEF StageOk, Graphs, Exec
<1>7. TaskInv'
  <2>1. ASSUME NEW y \in Execs, y # x PROVE TaskOk(y)'
    BY <2>1 DEF IInv, TaskInv, TaskOk, Serving, Current
  <2> QED BY <2>1 DEF IInv, TaskInv
<1>8. GraphInv'
  <2>1. ASSUME NEW y \in Execs PROVE GraphOk(y)'
    BY <1>4 DEF IInv, GraphInv, GraphOk, At, Exec
  <2> QED BY <1>4, <2>1 DEF IInv, GraphInv, OneGraphPerThread, Graphs
<1>9. LockInv'
  <2>1. ASSUME NEW y \in Execs, y # x PROVE LockOk(y)'
    BY <2>1 DEF IInv, LockInv, LockOk, HasLock, Locking, Exec
  <2> QED BY <2>1 DEF LockInv
<1>10. OwedInv'
  <2>1. ASSUME Serving, NEW y \in owed', y # x PROVE OwedOk(y)'
    BY <2>1 DEF IInv, OwedInv, OwedOk, HasLock, At, Exec, TypeOK
  <2> QED BY <2>1 DEF IInv, OwedInv, PublishedBeforeClose, Serving
<1>11. RunningHasOwner'
  BY DEF IInv, RunningHasOwner, At
<1> QED BY <1>1, <1>2, <1>3, <1>5, <1>6, <1>7, <1>8, <1>9, <1>10, <1>11 DEF IInv

\* A task that is not after its commit owes nothing unless a cancellation does.
LEMMA TaskOwes ==
  ASSUME IInv, NEW x \in Execs, x \in owed, Serving
  PROVE  /\ task[x] # "publish" => OwedOk(x) /\ lock[x] # "task"
         /\ UNCHANGED <<status, op>> /\ task[x] # "publish" => OwedOk(x)'
<1>1. OwedOk(x) /\ LockOk(x)
  BY DEF IInv, OwedInv, LockInv
<1>2. lock[x] = "task" => \A o \in Ops : lock[x] # o
  BY ConstantsAssumption
<1> QED BY <1>1, <1>2 DEF OwedOk, LockOk, HasLock, At, Exec

LEMMA BeginKeeps ==
  ASSUME IInv, NEW x \in Execs, Begin(x)
  PROVE  IInv'
<1>1. /\ task[x] = "created"
      /\ \/ task' = [task EXCEPT ![x] = "settle"] /\ outcome' = [outcome EXCEPT ![x] = "aborted"]
         \/ task' = [task EXCEPT ![x] = "graph"] /\ outcome' = outcome
      /\ UNCHANGED <<status, round, storage, phase, registry, lock, abort, interrupted, owed,
                     closed, slot, op, lost>>
  BY DEF Begin, Result, Move, db, service
<1>2. TaskOk(x)'
  BY <1>1 DEF IInv, TypeOK, TaskInv, TaskOk, Alive
<1>3. LockOk(x)'
  BY <1>1 DEF IInv, TypeOK, LockInv, LockOk, Locking, HasLock, Exec
<1>4. Serving /\ x \in owed' => OwedOk(x)'
  BY <1>1, TaskOwes
<1> QED BY <1>1, <1>2, <1>3, <1>4, TaskFrame DEF IInv, TypeOK, Alive, Graphs

LEMMA GraphEndsKeeps ==
  ASSUME IInv, NEW x \in Execs, GraphEnds(x)
  PROVE  IInv'
<1>1. PICK reason \in {"completed", "failed", "interrupted"} :
        /\ reason = "interrupted" => x[2] < MaxRounds
        /\ task[x] = "graph"
        /\ task' = [task EXCEPT ![x] = "settle"] /\ outcome' = [outcome EXCEPT ![x] = reason]
        /\ UNCHANGED <<status, round, storage, phase, registry, lock, abort, interrupted, owed,
                       closed, slot, op, lost>>
  BY DEF GraphEnds, Result, Move, db, service
<1>2. TaskOk(x)'
  BY <1>1 DEF IInv, TypeOK, TaskInv, TaskOk, Alive
<1>3. LockOk(x)'
  BY <1>1 DEF IInv, TypeOK, LockInv, LockOk, Locking, HasLock, Exec
<1>4. Serving /\ x \in owed' => OwedOk(x)'
  BY <1>1, TaskOwes
<1> QED BY <1>1, <1>2, <1>3, <1>4, TaskFrame DEF IInv, TypeOK, Alive, Graphs

LEMMA GraphAbortsKeeps ==
  ASSUME IInv, NEW x \in Execs, GraphAborts(x)
  PROVE  IInv'
<1>1. /\ task[x] = "graph"
      /\ task' = [task EXCEPT ![x] = "settle"] /\ outcome' = [outcome EXCEPT ![x] = "aborted"]
      /\ UNCHANGED <<status, round, storage, phase, registry, lock, abort, interrupted, owed,
                     closed, slot, op, lost>>
  BY DEF GraphAborts, Result, Move, db, service
<1>2. TaskOk(x)'
  BY <1>1 DEF IInv, TypeOK, TaskInv, TaskOk, Alive
<1>3. LockOk(x)'
  BY <1>1 DEF IInv, TypeOK, LockInv, LockOk, Locking, HasLock, Exec
<1>4. Serving /\ x \in owed' => OwedOk(x)'
  BY <1>1, TaskOwes
<1> QED BY <1>1, <1>2, <1>3, <1>4, TaskFrame DEF IInv, TypeOK, Alive, Graphs

LEMMA LockForSettleKeeps ==
  ASSUME IInv, NEW x \in Execs, LockForSettle(x)
  PROVE  IInv'
<1>1. /\ task[x] = "settle" /\ lock[x] = "free"
      /\ task' = [task EXCEPT ![x] = "settling"] /\ lock' = [lock EXCEPT ![x] = "task"]
      /\ UNCHANGED <<status, round, storage, phase, registry, outcome, abort, interrupted, owed,
                     closed, slot, op, lost>>
  BY DEF LockForSettle, Move, db, service
<1>2. TaskOk(x)'
  BY <1>1 DEF IInv, TypeOK, TaskInv, TaskOk, Alive
<1>3. LockOk(x)'
  <2>1. \A o \in Ops : lock[x] # o /\ ~HasLock(o, x)
    BY <1>1, ConstantsAssumption DEF IInv, LockInv, LockOk
  <2>2. \A o \in Ops : lock'[x] # o /\ ~HasLock(o, x)'
    BY <1>1, <2>1, ConstantsAssumption DEF IInv, TypeOK, HasLock, Exec
  <2> QED BY <1>1, <2>2 DEF IInv, TypeOK, LockOk, Locking
<1>4. Serving /\ x \in owed' => OwedOk(x)'
  BY <1>1, TaskOwes
<1> QED BY <1>1, <1>2, <1>3, <1>4, TaskFrame DEF IInv, TypeOK, Alive, Graphs

\* The task gives the lock of its execution back.
LEMMA TaskUnlocks ==
  ASSUME IInv, NEW x \in Execs, task[x] \in Locking, lock' = [lock EXCEPT ![x] = "free"],
         op' = op, task'[x] \notin Locking
  PROVE  LockOk(x)'
<1>1. lock[x] = "task" /\ \A o \in Ops : ~HasLock(o, x)
  BY ConstantsAssumption DEF IInv, LockInv, LockOk
<1>2. \A o \in Ops : ~HasLock(o, x)'
  BY <1>1 DEF HasLock, Exec
<1>3. lock'[x] = "free"
  BY DEF IInv, TypeOK
<1> QED BY <1>2, <1>3, ConstantsAssumption DEF LockOk

LEMMA SettleFailsKeeps ==
  ASSUME IInv, NEW x \in Execs, SettleFails(x)
  PROVE  IInv'
<1>1. /\ task[x] = "settling" /\ lock' = [lock EXCEPT ![x] = "free"]
      /\ \/ outcome[x] = "failed" /\ task' = [task EXCEPT ![x] = "retry"] /\ lost' = lost
         \/ task' = [task EXCEPT ![x] = "finish"] /\ lost' = lost \cup {x}
      /\ UNCHANGED <<status, round, storage, phase, registry, outcome, abort, interrupted, owed,
                     closed, slot, op>>
  BY DEF SettleFails, Unlock, Move, db, service
<1>2. TaskOk(x)'
  BY <1>1 DEF IInv, TypeOK, TaskInv, TaskOk, Alive
<1>3. LockOk(x)'
  BY <1>1, TaskUnlocks DEF IInv, TypeOK, Locking
<1>4. Serving /\ x \in owed' => OwedOk(x)'
  BY <1>1, TaskOwes
<1> QED BY <1>1, <1>2, <1>3, <1>4, TaskFrame DEF IInv, TypeOK, Alive, Graphs

LEMMA PublishKeeps ==
  ASSUME IInv, NEW x \in Execs, Publish(x)
  PROVE  IInv'
<1>1. /\ task[x] = "publish" /\ lock' = [lock EXCEPT ![x] = "free"]
      /\ task' = [task EXCEPT ![x] = "finish"] /\ owed' = owed \ {x}
      /\ UNCHANGED <<status, round, storage, phase, registry, outcome, abort, interrupted,
                     closed, slot, op, lost>>
  BY DEF Publish, Unlock, Move, db, service
<1>2. TaskOk(x)'
  BY <1>1 DEF IInv, TypeOK, TaskInv, TaskOk, Alive, Serving, Current
<1>3. LockOk(x)'
  BY <1>1, TaskUnlocks DEF IInv, TypeOK, Locking
<1> QED BY <1>1, <1>2, <1>3, TaskFrame DEF IInv, TypeOK, Alive, Graphs

LEMMA RetryKeeps ==
  ASSUME IInv, NEW x \in Execs, Retry(x)
  PROVE  IInv'
<1>1. /\ task[x] = "retry" /\ task' = [task EXCEPT ![x] = "settle"]
      /\ UNCHANGED <<status, round, storage, phase, registry, outcome, lock, abort, interrupted,
                     owed, closed, slot, op, lost>>
  BY DEF Retry, Move, db, service
<1>2. TaskOk(x)'
  BY <1>1 DEF IInv, TypeOK, TaskInv, TaskOk, Alive
<1>3. LockOk(x)'
  BY <1>1 DEF IInv, TypeOK, LockInv, LockOk, Locking, HasLock, Exec
<1>4. Serving /\ x \in owed' => OwedOk(x)'
  BY <1>1, TaskOwes
<1> QED BY <1>1, <1>2, <1>3, <1>4, TaskFrame DEF IInv, TypeOK, Alive, Graphs

LEMMA SeeCancellationKeeps ==
  ASSUME IInv, NEW x \in Execs, SeeCancellation(x)
  PROVE  IInv'
<1>1. /\ x \in interrupted /\ task[x] \in Alive /\ interrupted' = interrupted \ {x}
      /\ lock' = IF task[x] \in Locking THEN [lock EXCEPT ![x] = "free"] ELSE lock
      /\ \/ task' = [task EXCEPT ![x] = "done"]
         \/ task' = [task EXCEPT ![x] = "finish"]
      /\ UNCHANGED <<status, round, storage, phase, registry, outcome, abort, owed, closed, slot,
                     op, lost>>
  BY DEF SeeCancellation, Move, Locking, db, service
<1>2. ~Serving
  BY <1>1 DEF IInv, PhaseInv, Serving
<1>3. TaskOk(x)'
  BY <1>1, <1>2 DEF IInv, TypeOK, TaskInv, TaskOk, Alive, Serving
<1>4. LockOk(x)'
  <2>1. CASE task[x] \in Locking
    BY <1>1, <2>1, TaskUnlocks DEF IInv, TypeOK, Locking
  <2>2. CASE task[x] \notin Locking
    BY <1>1, <2>2 DEF IInv, TypeOK, LockInv, LockOk, Locking, HasLock, Exec
  <2> QED BY <2>1, <2>2
<1> QED BY <1>1, <1>2, <1>3, <1>4, TaskFrame DEF IInv, TypeOK, Alive, Graphs

LEMMA CommitSettleKeeps ==
  ASSUME IInv, NEW x \in Execs, CommitSettle(x)
  PROVE  IInv'
<1>1. /\ task[x] = "settling" /\ task' = [task EXCEPT ![x] = "publish"] /\ x[2] = round[x[1]]
      /\ \/ /\ status[x[1]] = "running"
            /\ status' = [status EXCEPT ![x[1]] = Target(outcome[x])] /\ owed' = owed \cup {x}
         \/ status[x[1]] # "running" /\ status' = status /\ owed' = owed
      /\ UNCHANGED <<round, storage, phase, registry, outcome, lock, abort, interrupted, closed,
                     slot, op, lost>>
  BY DEF CommitSettle, Current, Move, service
<1>2. /\ outcome[x] \in {"completed", "aborted", "failed", "interrupted"}
      /\ outcome[x] = "interrupted" => round[x[1]] < MaxRounds
      /\ registry[x[1]] = x[2] /\ x[1] \in Runs /\ x[2] # 0 /\ x \notin closed
  BY <1>1, ExecParts DEF IInv, TypeOK, TaskInv, TaskOk, Alive
<1>3. /\ Target(outcome[x]) \in {"completed", "cancelled", "error", "interrupted"}
      /\ Target(outcome[x]) = "interrupted" => outcome[x] = "interrupted"
  BY <1>2 DEF Target
<1>4. /\ \A r \in Runs : r # x[1] => status'[r] = status[r]
      /\ status'[x[1]] # "running"
      /\ status[x[1]] # "running" => status'[x[1]] = status[x[1]]
      /\ \A r \in Runs : status'[r] \in Active => status[r] \in Active
      /\ \A y \in Execs : y # x => task'[y] = task[y]
      /\ task'[x] = "publish"
  BY <1>1, <1>2, <1>3 DEF IInv, TypeOK, Active
<1>5. \A y \in Execs : y # x /\ task[y] \in Alive => y[1] # x[1]
  BY <1>2, ExecParts DEF IInv, TaskInv, TaskOk
<1>6. TypeOK'
  <2>1. status' \in [Runs -> Terminal \cup Active \cup {"absent"}]
    BY <1>1, <1>3 DEF IInv, TypeOK, Terminal, Active
  <2>2. task' \in [Execs -> Alive \cup {"none", "done"}]
    BY <1>1 DEF IInv, TypeOK, Alive
  <2> QED BY <1>1, <2>1, <2>2 DEF IInv, TypeOK, Going
<1>7. PhaseInv'
  BY <1>1 DEF IInv, PhaseInv, Serving
<1>8. TableInv'
  <2>1. status'[x[1]] = "absent" => round[x[1]] = 0
    BY <1>1, <1>2, <1>3 DEF IInv, TypeOK, TableInv
  <2>2. status'[x[1]] = "interrupted" => round[x[1]] < MaxRounds
    BY <1>1, <1>2, <1>3 DEF IInv, TypeOK, TableInv
  <2> QED BY <1>1, <1>4, <2>1, <2>2 DEF IInv, TableInv
<1>9. ScopeInv'
  BY <1>1 DEF IInv, ScopeInv, ScopeOk
<1>10. DrainInv'
  <2>1. \A y \in Execs : task'[y] \in Graphs =>
          task[y] \in Graphs /\ status'[y[1]] = status[y[1]]
    BY <1>4, <1>5, ExecParts DEF Graphs, Alive
  <2> QED BY <1>1, <2>1 DEF IInv, DrainInv, DrainOk, Graphs
<1>11. StageInv'
  <2> SUFFICES ASSUME NEW o \in Ops PROVE StageOk(o)'
    BY DEF StageInv
  <2>1. StageOk(o)
    BY DEF IInv, StageInv
  <2>2. op[o].pc = "install" => Exec(o) \in Execs /\ op[o].run \in Runs
    BY ExecOfOp DEF IInv, ScopeInv, ScopeOk
  <2>3. op[o].pc = "install" => op[o].run # x[1]
    BY <1>2, <2>1 DEF StageOk
  <2>4. \A y \in Execs : /\ task'[y] \in Graphs => task[y] \in Graphs
                         /\ task[y] = "none" => task'[y] = "none"
    BY <1>1, <1>4 DEF Graphs
  <2> QED BY <1>1, <1>4, <2>1, <2>2, <2>3, <2>4 DEF StageOk, Graphs, Exec
<1>12. TaskInv'
  <2>1. ASSUME NEW y \in Execs PROVE TaskOk(y)'
    <3>1. TaskOk(y) /\ y[1] \in Runs
      BY ExecParts DEF IInv, TaskInv
    <3>2. CASE y = x
      BY <1>1, <1>2, <1>4, <3>1, <3>2 DEF TaskOk, Alive
    <3>3. CASE y # x
      BY <1>1, <1>4, <3>1, <3>3 DEF TaskOk, Serving, Current
    <3> QED BY <3>2, <3>3
  <2> QED BY <1>1, <2>1 DEF IInv, TaskInv
<1>13. GraphInv'
  <2>1. ASSUME NEW y \in Execs PROVE GraphOk(y)'
    <3>1. GraphOk(y) /\ y[1] \in Runs
      BY ExecParts DEF IInv, GraphInv
    <3>2. task'[y] \in Graphs => task[y] \in Graphs /\ status'[y[1]] = status[y[1]]
      BY <1>4, <1>5, <3>1 DEF Graphs, Alive
    <3> QED BY <1>1, <1>4, <3>1, <3>2 DEF GraphOk, At, Exec
  <2>2. \A y \in Execs : task'[y] \in Graphs => task[y] \in Graphs
    BY <1>4 DEF Graphs
  <2> QED BY <2>1, <2>2 DEF IInv, GraphInv, OneGraphPerThread, Graphs
<1>14. LockInv'
  <2>1. ASSUME NEW y \in Execs PROVE LockOk(y)'
    BY <1>1, <1>4 DEF IInv, LockInv, LockOk, HasLock, Locking, Exec
  <2> QED BY <2>1 DEF LockInv
<1>15. OwedInv'
  <2>1. ASSUME Serving, NEW y \in owed' PROVE OwedOk(y)'
    <3>1. CASE y = x
      BY <1>4, <3>1 DEF OwedOk
    <3>2. CASE y # x
      <4>1. y \in Execs /\ y[1] \in Runs /\ OwedOk(y)
        BY <1>1, <2>1, <3>2, ExecParts DEF IInv, OwedInv, TypeOK
      <4>2. status[y[1]] = "cancelled" => status'[y[1]] = "cancelled"
        BY <1>4, <4>1
      <4> QED BY <1>1, <1>4, <3>2, <4>1, <4>2 DEF OwedOk, HasLock, At, Exec
    <3> QED BY <3>1, <3>2
  <2>2. PublishedBeforeClose'
    BY <1>1, <1>2 DEF IInv, OwedInv, PublishedBeforeClose
  <2> QED BY <1>1, <2>1, <2>2 DEF OwedInv, Serving
<1>16. RunningHasOwner'
  BY <1>1, <1>4 DEF IInv, RunningHasOwner, At
<1> QED BY <1>6, <1>7, <1>8, <1>9, <1>10, <1>11, <1>12, <1>13, <1>14, <1>15, <1>16 DEF IInv

\* An execution that has ended leaves the registry; nobody but its own task or the
\* clean-up after it closes it while the process serves.
LEMMA CloseFrame ==
  ASSUME IInv, NEW x \in Execs, registry[x[1]] = x[2], lock[x] = "free",
         task[x] = "finish" \/ (task[x] = "done" /\ ~Serving),
         task' = [task EXCEPT ![x] = "done"],
         registry' = [registry EXCEPT ![x[1]] = 0], closed' = closed \cup {x},
         UNCHANGED <<status, round, storage, phase, outcome, lock, abort, interrupted, owed, slot,
                     op, lost>>
  PROVE  IInv'
<1>1. /\ x[1] \in Runs /\ x[2] = round[x[1]] /\ x[2] # 0 /\ x = <<x[1], x[2]>>
      /\ TaskOk(x) /\ phase \notin {"down", "recovering"}
  BY ExecParts DEF IInv, TaskInv, PhaseInv
<1>2. /\ \A r \in Runs : registry'[r] = IF r = x[1] THEN 0 ELSE registry[r]
      /\ \A y \in Execs : task'[y] = IF y = x THEN "done" ELSE task[y]
  BY <1>1 DEF IInv, TypeOK
<1>3. \A y \in Execs : y # x /\ y[1] = x[1] => y[2] # x[2]
  BY ExecParts
<1>4. TypeOK'
  <2>1. task' \in [Execs -> Alive \cup {"none", "done"}]
    BY DEF IInv, TypeOK
  <2>2. registry' \in [Runs -> 0..MaxRounds]
    <3>1. 0 \in 0..MaxRounds
      BY ConstantsAssumption
    <3> QED BY <3>1 DEF IInv, TypeOK
  <2> QED BY <2>1, <2>2 DEF IInv, TypeOK, Going
<1>5. PhaseInv' /\ TableInv'
  BY <1>1 DEF IInv, PhaseInv, TableInv, Serving
<1>6. ScopeInv'
  BY DEF IInv, ScopeInv, ScopeOk
<1>7. \A y \in Execs : /\ task'[y] \in Graphs => task[y] \in Graphs
                       /\ task[y] = "none" => task'[y] = "none"
  BY <1>2 DEF Graphs
<1>8. DrainInv'
  BY <1>7 DEF IInv, DrainInv, DrainOk, Graphs
<1>9. StageInv'
  <2> SUFFICES ASSUME NEW o \in Ops PROVE StageOk(o)'
    BY DEF StageInv
  <2>1. StageOk(o)
    BY DEF IInv, StageInv
  <2>2. op[o].pc \notin {"idle", "queued", "drain"} => op[o].run \in Runs
    BY ExecOfOp DEF IInv
  <2>3. op[o].pc = "install" => Exec(o) \in Execs
    BY ExecOfOp DEF IInv, ScopeInv, ScopeOk
  <2> QED BY <1>2, <1>7, <2>1, <2>2, <2>3 DEF StageOk, Graphs, Exec
<1>10. TaskInv'
  <2>1. \A r \in Runs : registry'[r] \in {0, round'[r]}
    BY <1>2 DEF IInv, TaskInv
  <2>2. ASSUME NEW y \in Execs PROVE TaskOk(y)'
    <3>1. TaskOk(y) /\ y[1] \in Runs /\ y[2] # 0
      BY ExecParts DEF IInv, TaskInv
    <3>2. CASE y = x
      BY <1>1, <1>2, <3>2 DEF TaskOk, Serving, Current, Alive
    <3>3. CASE y # x /\ y[1] = x[1]
      BY <1>2, <1>3, <3>1, <3>3 DEF TaskOk, Serving, Current
    <3>4. CASE y[1] # x[1]
      BY <1>2, <3>1, <3>4 DEF TaskOk, Serving, Current
    <3> QED BY <3>2, <3>3, <3>4
  <2> QED BY <2>1, <2>2 DEF TaskInv
<1>11. GraphInv'
  <2>1. ASSUME NEW y \in Execs PROVE GraphOk(y)'
    BY <1>7 DEF IInv, GraphInv, GraphOk, At, Exec
  <2> QED BY <1>7, <2>1 DEF IInv, GraphInv, OneGraphPerThread, Graphs
<1>12. LockInv'
  <2>1. ASSUME NEW y \in Execs PROVE LockOk(y)'
    <3>1. LockOk(y)
      BY DEF IInv, LockInv
    <3> QED BY <1>2, <3>1 DEF LockOk, HasLock, Locking, Exec
  <2> QED BY <2>1 DEF LockInv
<1>13. OwedInv'
  <2>1. \A o \in Ops : ~HasLock(o, x)
    BY ConstantsAssumption DEF IInv, LockInv, LockOk
  <2>2. Serving => x \notin owed
    BY <2>1 DEF IInv, OwedInv, OwedOk
  <2>3. ASSUME Serving, NEW y \in owed PROVE OwedOk(y)'
    BY <2>2, <2>3, <1>2 DEF IInv, OwedInv, OwedOk, HasLock, At, Exec, TypeOK
  <2> QED BY <2>2, <2>3 DEF IInv, OwedInv, PublishedBeforeClose, Serving
<1>14. RunningHasOwner'
  <2> SUFFICES ASSUME phase \in {"up", "closing"}, NEW r \in Runs, status[r] = "running"
               PROVE  \/ registry'[r] = round[r]
                      \/ \E p \in Ops : At(p, "install") /\ op[p].run = r
                      \/ <<r, round[r]>> \in lost
    BY DEF RunningHasOwner, At
  <2>1. CASE r = x[1]
    <3>1. x \in lost
      BY <1>1, <2>1 DEF TaskOk, Serving, Current, IInv, TypeOK, Alive
    <3> QED BY <1>1, <2>1, <3>1
  <2>2. CASE r # x[1]
    BY <1>2, <2>2 DEF IInv, RunningHasOwner
  <2> QED BY <2>1, <2>2
<1> QED BY <1>4, <1>5, <1>6, <1>8, <1>9, <1>10, <1>11, <1>12, <1>13, <1>14 DEF IInv

LEMMA FinishKeeps ==
  ASSUME IInv, NEW x \in Execs, Finish(x)
  PROVE  IInv'
<1>1. /\ task[x] = "finish" /\ Close(x) /\ task' = [task EXCEPT ![x] = "done"]
      /\ UNCHANGED <<status, round, storage, phase, outcome, lock, abort, interrupted, owed, slot,
                     op, lost>>
  BY DEF Finish, Move, db, service
<1>2. registry[x[1]] = x[2]
  BY <1>1 DEF IInv, TaskInv, TaskOk, Alive
<1> QED BY <1>1, <1>2, CloseFrame DEF Close

LEMMA CleanUpKeeps ==
  ASSUME IInv, NEW x \in Execs, CleanUp(x)
  PROVE  IInv'
<1>1. /\ task[x] = "done" /\ registry[x[1]] = x[2] /\ Close(x)
      /\ UNCHANGED <<status, round, storage, phase, task, outcome, lock, abort, interrupted, owed,
                     slot, op, lost>>
  BY DEF CleanUp, db, service
<1>2. ~Serving
  BY <1>1 DEF IInv, TaskInv, TaskOk
<1>3. task' = [task EXCEPT ![x] = "done"]
  BY <1>1 DEF IInv, TypeOK
<1> QED BY <1>1, <1>2, <1>3, CloseFrame DEF Close

-----------------------------------------------------------------------------
(* The steps of the process.                                                *)

\* A step that changes nothing but the phase of the process or the storage.
LEMMA PhaseFrame ==
  ASSUME IInv, UNCHANGED <<status, round, memory, service, lost>>,
         phase' \in {"down", "recovering", "up", "closing", "stopping"}, storage' \in BOOLEAN
  PROVE  /\ TypeOK' /\ TableInv' /\ ScopeInv' /\ DrainInv' /\ StageInv' /\ GraphInv' /\ LockInv'
         /\ (Serving' => Serving) => TaskInv' /\ OwedInv' /\ RunningHasOwner'
<1>1. TypeOK' /\ TableInv'
  BY DEF IInv, TypeOK, TableInv, memory, service, Going
<1>2. ScopeInv' /\ DrainInv' /\ StageInv'
  BY DEF IInv, ScopeInv, ScopeOk, DrainInv, DrainOk, StageInv, StageOk, memory, service, Exec
<1>3. GraphInv'
  BY DEF IInv, GraphInv, GraphOk, OneGraphPerThread, memory, service, At, Exec
<1>4. LockInv'
  BY DEF IInv, LockInv, LockOk, HasLock, memory, service, Exec
<1>5. ASSUME Serving' => Serving PROVE TaskInv' /\ OwedInv' /\ RunningHasOwner'
  <2>1. TaskInv'
    BY <1>5 DEF IInv, TaskInv, TaskOk, memory, Current
  <2>2. OwedInv'
    BY <1>5 DEF IInv, OwedInv, OwedOk, HasLock, PublishedBeforeClose, Serving, memory, service,
      At, Exec
  <2>3. RunningHasOwner'
    BY <1>5 DEF IInv, RunningHasOwner, Serving, memory, service, At
  <2> QED BY <2>1, <2>2, <2>3
<1> QED BY <1>1, <1>2, <1>3, <1>4, <1>5

\* Nothing new is accepted.
LEMMA BeginShutdownKeeps ==
  ASSUME IInv, BeginShutdown
  PROVE  IInv'
<1>1. /\ UNCHANGED <<status, round, memory, service, lost>> /\ phase' = "closing"
      /\ storage' = storage /\ Serving
  BY DEF BeginShutdown, db, Serving
<1>2. storage' \in BOOLEAN
  BY <1>1 DEF IInv, TypeOK
<1>3. PhaseInv'
  BY <1>1 DEF IInv, PhaseInv, BeginShutdown, Serving, memory, service
<1> QED BY <1>1, <1>2, <1>3, PhaseFrame DEF IInv

\* Every operation has ended: what is registered is told to stop.
LEMMA StopExecutionsKeeps ==
  ASSUME IInv, StopExecutions
  PROVE  IInv'
<1>1. /\ UNCHANGED <<status, round, storage, registry, task, outcome, lock, owed, closed>>
      /\ UNCHANGED <<slot, op, lost>> /\ phase' = "stopping"
      /\ abort \subseteq abort' /\ abort' \subseteq abort \cup Execs /\ interrupted' \subseteq Execs
  BY DEF StopExecutions, db, service
<1>2. \A o \in Ops : op[o].pc = "idle" /\ op[o] = IdleOp
  BY DEF StopExecutions, At, IInv, ScopeInv, ScopeOk
<1>3. TypeOK' /\ TableInv'
  BY <1>1 DEF IInv, TypeOK, TableInv, Going
<1>4. PhaseInv'
  BY <1>1, <1>2 DEF PhaseInv
<1>5. ScopeInv' /\ DrainInv' /\ StageInv'
  BY <1>1 DEF IInv, ScopeInv, ScopeOk, DrainInv, DrainOk, StageInv, StageOk, Exec
<1>6. TaskInv'
  BY <1>1 DEF IInv, TaskInv, TaskOk, Current, Serving
<1>7. GraphInv'
  BY <1>1 DEF IInv, GraphInv, GraphOk, OneGraphPerThread, At, Exec
<1>8. LockInv'
  BY <1>1 DEF IInv, LockInv, LockOk, HasLock, Exec
<1>9. OwedInv' /\ RunningHasOwner'
  BY <1>1 DEF OwedInv, PublishedBeforeClose, RunningHasOwner, Serving
<1> QED BY <1>3, <1>4, <1>5, <1>6, <1>7, <1>8, <1>9 DEF IInv

\* The process is gone with everything but the tables.
LEMMA ForgetKeeps ==
  ASSUME IInv, Forget, phase' = "down", UNCHANGED <<db, lost>>
  PROVE  IInv'
<1>1. IdleOp \in OpSet /\ IdleOp.pc = "idle" /\ IdleOp.kind = "none" /\ IdleOp.todo = {}
      /\ IdleOp.run = NoRun
  BY ConstantsAssumption DEF IdleOp, OpSet
<1>2. /\ \A o \in Ops : op'[o] = IdleOp
      /\ \A x \in Execs : task'[x] = "none" /\ outcome'[x] = "none" /\ lock'[x] = "free"
      /\ \A r \in Runs : registry'[r] = 0
      /\ abort' = {} /\ interrupted' = {} /\ owed' = {} /\ closed' = {}
      /\ UNCHANGED <<status, round, storage, lost>>
  BY DEF Forget, db
<1>3. TypeOK'
  <2>1. /\ registry' \in [Runs -> 0..MaxRounds] /\ slot' \in [Threads -> Ops \cup {NoOp}]
        /\ task' \in [Execs -> Alive \cup {"none", "done"}]
        /\ outcome' \in [Execs -> {"none", "completed", "aborted", "failed", "interrupted"}]
        /\ lock' \in [Execs -> {"free", "task"} \cup Ops]
    BY ConstantsAssumption DEF Forget
  <2>2. op' \in [Ops -> OpSet]
    BY <1>1 DEF Forget
  <2>3. \A o \in Ops : ~Going(o)'
    BY <1>1, <1>2 DEF Going
  <2>4. (abort \cup interrupted \cup owed \cup closed \cup lost)' \subseteq Execs
    BY <1>2 DEF IInv, TypeOK
  <2> QED BY <1>2, <2>1, <2>2, <2>3, <2>4 DEF IInv, TypeOK
<1>4. PhaseInv' /\ TableInv'
  BY <1>2 DEF IInv, PhaseInv, TableInv
<1>5. ScopeInv' /\ DrainInv' /\ StageInv'
  BY <1>1, <1>2, ConstantsAssumption
  DEF ScopeInv, DrainInv, StageInv, ScopeOk, DrainOk, StageOk
<1>6. TaskInv'
  BY <1>2, ExecParts DEF TaskInv, TaskOk, Alive
<1>7. GraphInv'
  BY <1>2 DEF GraphInv, GraphOk, OneGraphPerThread, Graphs
<1>8. LockInv'
  BY <1>1, <1>2, ConstantsAssumption DEF LockInv, LockOk, HasLock, Locking
<1>9. OwedInv' /\ RunningHasOwner'
  BY DEF OwedInv, PublishedBeforeClose, RunningHasOwner, Serving
<1> QED BY <1>3, <1>4, <1>5, <1>6, <1>7, <1>8, <1>9 DEF IInv

LEMMA ExitKeeps ==
  ASSUME IInv, Exit
  PROVE  IInv'
  BY ForgetKeeps DEF Exit

LEMMA CrashKeeps ==
  ASSUME IInv, Crash
  PROVE  IInv'
  BY ForgetKeeps DEF Crash

LEMMA RestartKeeps ==
  ASSUME IInv, Restart
  PROVE  IInv'
<1>1. /\ UNCHANGED <<status, round, memory, service, lost>> /\ phase' = "recovering"
      /\ storage' = storage /\ phase = "down"
  BY DEF Restart, db
<1>2. storage' \in BOOLEAN
  BY <1>1 DEF IInv, TypeOK
<1>3. PhaseInv'
  BY <1>1 DEF IInv, PhaseInv, Serving, memory, service
<1>4. ~Serving'
  BY <1>1 DEF Serving
<1> QED BY <1>1, <1>2, <1>3, <1>4, PhaseFrame DEF IInv

\* Recovery has found no Run that runs, and nothing executes.
LEMMA ReadyKeeps ==
  ASSUME IInv, Ready
  PROVE  IInv'
<1>1. /\ UNCHANGED <<status, round, memory, service, lost>> /\ phase' = "up"
      /\ storage' = storage /\ phase = "recovering" /\ \A r \in Runs : status'[r] # "running"
  BY DEF Ready, db
<1>2. /\ \A x \in Execs : task'[x] = "none"
      /\ interrupted' = {} /\ owed' = {} /\ closed' = {}
  BY <1>1 DEF IInv, PhaseInv, memory
<1>3. storage' \in BOOLEAN
  BY <1>1 DEF IInv, TypeOK
<1>4. PhaseInv'
  BY <1>1, <1>2 DEF PhaseInv, Serving
<1>5. TaskInv'
  BY <1>1, <1>2 DEF IInv, TaskInv, TaskOk, memory, Current, Alive
<1>6. OwedInv' /\ RunningHasOwner'
  BY <1>1, <1>2 DEF OwedInv, PublishedBeforeClose, RunningHasOwner
<1> QED BY <1>1, <1>3, <1>4, <1>5, <1>6, PhaseFrame DEF IInv

LEMMA StorageChangesKeeps ==
  ASSUME IInv, StorageChanges
  PROVE  IInv'
<1>1. /\ UNCHANGED <<status, round, memory, service, lost>> /\ phase' = phase
      /\ storage' \in BOOLEAN
  BY DEF StorageChanges
<1>2. phase' \in {"down", "recovering", "up", "closing", "stopping"}
  BY <1>1 DEF IInv, TypeOK
<1>3. PhaseInv'
  BY <1>1 DEF IInv, PhaseInv, Serving, memory, service
<1>4. Serving' => Serving
  BY <1>1 DEF Serving
<1> QED BY <1>1, <1>2, <1>3, <1>4, PhaseFrame DEF IInv

\* An active Run is given up while no operation and no Graph is on its thread.
LEMMA GivesUp ==
  ASSUME IInv, NEW r \in Runs, status[r] \in Active,
         status' = [status EXCEPT ![r] = "error"],
         \A o \in Ops : Going(o) => op[o].thread # ThreadOf[r],
         \A x \in Execs : ThreadOf[x[1]] = ThreadOf[r] => task[x] \notin Graphs,
         UNCHANGED <<round, storage, phase, memory, service, lost>>
  PROVE  IInv'
<1>1. /\ status'[r] = "error" /\ \A q \in Runs : q # r => status'[q] = status[q]
      /\ status' \in [Runs -> Terminal \cup Active \cup {"absent"}]
  BY DEF IInv, TypeOK, Terminal
<1>2. UNCHANGED <<registry, task, outcome, lock, abort, interrupted, owed, closed, slot, op>>
  BY DEF memory, service
<1>3. TypeOK' /\ PhaseInv' /\ ScopeInv' /\ LockInv'
  <2>1. TypeOK'
    BY <1>1, <1>2 DEF IInv, TypeOK, Going
  <2>2. PhaseInv'
    BY <1>2 DEF IInv, PhaseInv, Serving
  <2>3. ScopeInv' /\ LockInv'
    BY <1>2 DEF IInv, ScopeInv, ScopeOk, LockInv, LockOk, HasLock, Exec
  <2> QED BY <2>1, <2>2, <2>3
<1>4. TableInv'
  BY <1>1 DEF IInv, TableInv, Active
<1>5. DrainInv'
  BY <1>1, <1>2, ExecParts DEF IInv, DrainInv, DrainOk, Graphs
<1>6. StageInv'
  <2>1. ASSUME NEW o \in Ops, op[o].pc = "install" PROVE op[o].run \in Runs /\ op[o].run # r
    BY <2>1 DEF IInv, ScopeInv, ScopeOk, Going
  <2> QED BY <1>1, <1>2, <2>1 DEF IInv, StageInv, StageOk, Exec
<1>7. TaskInv'
  <2>1. \A x \in Execs : TaskOk(x)'
    BY <1>1, <1>2, ExecParts DEF IInv, TaskInv, TaskOk, Current, Serving
  <2> QED BY <1>2, <2>1 DEF IInv, TaskInv
<1>8. GraphInv'
  <2>1. ASSUME NEW x \in Execs, task[x] \in Graphs PROVE status'[x[1]] = status[x[1]]
    BY <1>1, <2>1, ExecParts
  <2>2. \A x \in Execs : GraphOk(x)'
    BY <1>1, <1>2, <2>1 DEF IInv, GraphInv, GraphOk, Active, At, Exec
  <2> QED BY <1>2, <2>2 DEF IInv, GraphInv, OneGraphPerThread
<1>9. OwedInv'
  <2>1. ASSUME NEW x \in Execs, status[x[1]] = "cancelled" PROVE status'[x[1]] = "cancelled"
    BY <1>1, <2>1, ExecParts DEF Active
  <2>2. owed \subseteq Execs
    BY DEF IInv, TypeOK
  <2>3. ASSUME NEW x \in owed, Serving PROVE OwedOk(x)'
    BY <1>2, <2>1, <2>2, <2>3 DEF IInv, OwedInv, OwedOk, HasLock, At, Exec
  <2> QED BY <1>2, <2>3 DEF IInv, OwedInv, PublishedBeforeClose, Serving
<1>10. RunningHasOwner'
  BY <1>1, <1>2 DEF IInv, RunningHasOwner, At
<1> QED BY <1>3, <1>4, <1>5, <1>6, <1>7, <1>8, <1>9, <1>10 DEF IInv

LEMMA RecoverKeeps ==
  ASSUME IInv, NEW r \in Runs, Recover(r)
  PROVE  IInv'
<1>1. phase = "recovering" /\ status[r] \in Active
  BY DEF Recover, Active
<1>2. \A o \in Ops : ~Going(o)
  BY <1>1 DEF IInv, PhaseInv, Serving, Going, IdleOp
<1>3. \A x \in Execs : task[x] \notin Graphs
  BY <1>1 DEF IInv, PhaseInv, Graphs
<1> QED BY <1>1, <1>2, <1>3, GivesUp DEF Recover

\* The Graph of a paused Run has ended, and no other is on its thread.
LEMMA ReadGivesUpKeeps ==
  ASSUME IInv, NEW r \in Runs, ReadGivesUp(r)
  PROVE  IInv'
<1>1. status[r] = "interrupted" /\ status[r] \in Active /\ slot[ThreadOf[r]] = NoOp
  BY DEF ReadGivesUp, Active
<1>2. \A o \in Ops : Going(o) => op[o].thread # ThreadOf[r]
  BY <1>1, ConstantsAssumption DEF IInv, TypeOK
<1>3. ASSUME NEW x \in Execs, ThreadOf[x[1]] = ThreadOf[r], task[x] \in Graphs PROVE FALSE
  <2>1. GraphOk(x)
    BY DEF IInv, GraphInv
  <2> QED BY <1>1, <1>3, <2>1 DEF GraphOk
<1> QED BY <1>1, <1>2, <1>3, GivesUp DEF ReadGivesUp

-----------------------------------------------------------------------------
(* The theorems.                                                            *)

\* The process starts with nothing in memory and no Run in the tables.
LEMMA InitHolds ==
  ASSUME Init
  PROVE  IInv
<1>1. IdleOp \in OpSet /\ IdleOp.pc = "idle" /\ IdleOp.kind = "none" /\ IdleOp.todo = {}
      /\ IdleOp.run = NoRun
  BY ConstantsAssumption DEF IdleOp, OpSet
<1>2. \A o \in Ops : op[o] = IdleOp
  BY DEF Init
<1>3. TypeOK
  BY <1>1, ConstantsAssumption DEF Init, TypeOK, Going
<1>4. PhaseInv /\ TableInv
  BY <1>2 DEF Init, PhaseInv, TableInv, Serving, Active
<1>5. ScopeInv /\ DrainInv /\ StageInv
  BY <1>1, <1>2, ConstantsAssumption
  DEF ScopeInv, DrainInv, StageInv, ScopeOk, DrainOk, StageOk
<1>6. TaskInv
  BY ExecParts DEF Init, TaskInv, TaskOk, Alive
<1>7. GraphInv
  BY DEF Init, GraphInv, GraphOk, OneGraphPerThread, Graphs
<1>8. LockInv
  BY <1>1, <1>2, ConstantsAssumption DEF Init, LockInv, LockOk, HasLock, Locking
<1>9. OwedInv /\ RunningHasOwner
  BY DEF Init, OwedInv, PublishedBeforeClose, RunningHasOwner
<1> QED BY <1>3, <1>4, <1>5, <1>6, <1>7, <1>8, <1>9 DEF IInv

LEMMA StutterKeeps ==
  ASSUME IInv, UNCHANGED vars
  PROVE  IInv'
<1> USE DEF vars, db, memory, service
<1>1. TypeOK' /\ PhaseInv' /\ TableInv'
  BY DEF IInv, TypeOK, PhaseInv, TableInv, Serving, Going
<1>2. ScopeInv' /\ DrainInv' /\ StageInv'
  BY DEF IInv, ScopeInv, DrainInv, StageInv, ScopeOk, DrainOk, StageOk, Exec
<1>3. TaskInv' /\ GraphInv'
  BY DEF IInv, TaskInv, TaskOk, GraphInv, GraphOk, OneGraphPerThread, Serving, Current, At, Exec
<1>4. LockInv' /\ OwedInv'
  BY DEF IInv, LockInv, LockOk, HasLock, OwedInv, OwedOk, PublishedBeforeClose, Serving, At, Exec
<1>5. RunningHasOwner'
  BY DEF IInv, RunningHasOwner, At
<1> QED BY <1>1, <1>2, <1>3, <1>4, <1>5 DEF IInv

\* Every step keeps the inductive invariant.
LEMMA StepKeeps ==
  ASSUME IInv, [Next]_vars
  PROVE  IInv'
<1>1. ASSUME NEW o \in Ops, NEW t \in Threads, Request(o, "start", t, NoRun) PROVE IInv'
  BY <1>1, RequestKeeps
<1>2. ASSUME NEW o \in Ops, NEW r \in Runs, NEW kind \in {"resume", "cancel"},
             Request(o, kind, ThreadOf[r], r)
      PROVE  IInv'
  BY <1>2, RequestKeeps
<1>3. ASSUME NEW o \in Ops, Enter(o) \/ OpStep(o) PROVE IInv'
  BY <1>3, EnterKeeps, OpFailsKeeps, DrainNextKeeps, DrainedKeeps, CreateRunKeeps,
    RefuseBusyKeeps, CheckKeeps, AwaitPreviousKeeps, ReconcileKeeps, AcceptApprovalKeeps,
    InstallKeeps, StartFailsKeeps, AttemptedKeeps, LockForCancelKeeps, CommitCancelKeeps,
    CancelFailsKeeps, NotifyCancelKeeps
  DEF OpStep
<1>4. ASSUME NEW x \in Execs, TaskStep(x) \/ GraphEnds(x) PROVE IInv'
  BY <1>4, BeginKeeps, GraphEndsKeeps, GraphAbortsKeeps, LockForSettleKeeps, CommitSettleKeeps,
    SettleFailsKeeps, PublishKeeps, RetryKeeps, FinishKeeps, CleanUpKeeps, SeeCancellationKeeps
  DEF TaskStep
<1>5. ASSUME BeginShutdown \/ StopExecutions \/ Exit \/ Crash \/ Restart \/ Ready \/ StorageChanges
      PROVE  IInv'
  BY <1>5, BeginShutdownKeeps, StopExecutionsKeeps, ExitKeeps, CrashKeeps, RestartKeeps,
    ReadyKeeps, StorageChangesKeeps
<1>6. ASSUME NEW r \in Runs, Recover(r) \/ ReadGivesUp(r) PROVE IInv'
  BY <1>6, RecoverKeeps, ReadGivesUpKeeps
<1> QED BY <1>1, <1>2, <1>3, <1>4, <1>5, <1>6, StutterKeeps DEF Next

\* The inductive invariant holds at every step of every behaviour.
THEOREM Inductive == Spec => []IInv
<1> QED BY InitHolds, StepKeeps, PTL DEF Spec

\* Every variable keeps its type, and only the operation inside a section of a
\* thread holds the lock of that thread (runs.py:466-474).
THEOREM TypeCorrect == Spec => []TypeOK
<1>1. IInv => TypeOK
  BY DEF IInv
<1> QED BY <1>1, Inductive, PTL

\* No thread ever has two Graphs on its checkpoint, not even while the Graph of a
\* cancelled Run still winds down (runs.py:478-482).
THEOREM GraphsApart == Spec => []OneGraphPerThread
<1>1. IInv => OneGraphPerThread
  BY DEF IInv, GraphInv
<1> QED BY <1>1, Inductive, PTL

\* What still has something to do is in the registry, and a committed start or
\* resume is never refused by it (execution.py:70-89, runs.py:516-518).
LEMMA LivingIsFound == IInv => RegistryFindsTheLiving
<1> SUFFICES ASSUME IInv PROVE RegistryFindsTheLiving
  OBVIOUS
<1>1. \A x \in Execs : task[x] \in Alive => registry[x[1]] = x[2]
  BY DEF IInv, TaskInv, TaskOk
<1>2. ASSUME NEW o \in Ops, At(o, "install") PROVE ~Refused(op[o].run)
  <2>1. registry[op[o].run] = 0
    BY <1>2 DEF At, IInv, StageInv, StageOk
  <2>2. Serving
    BY <1>2 DEF At, IInv, PhaseInv, IdleOp
  <2> QED BY <2>1, <2>2 DEF Refused, Serving
<1> QED BY <1>1, <1>2 DEF RegistryFindsTheLiving

\* Whoever executes is the latest invocation, and a Graph goes on only for a Run
\* that runs or whose cancellation reaches it (runs.py:181-182, run_execution.py:296-303).
LEMMA GraphIsServed == IInv => GraphServesItsRun
<1> SUFFICES ASSUME IInv, NEW x \in Execs
             PROVE  /\ task[x] \in Alive => Current(x)
                    /\ task[x] \in {"created", "graph"} /\ status[x[1]] # "running" =>
                         /\ status[x[1]] = "cancelled"
                         /\ x \in abort \/ \E o \in Ops : At(o, "notify") /\ Exec(o) = x
  BY DEF GraphServesItsRun
<1>1. ASSUME task[x] \in Alive PROVE Current(x)
  <2>1. registry[x[1]] = x[2] /\ x[1] \in Runs /\ x[2] # 0
    BY <1>1, ExecParts DEF IInv, TaskInv, TaskOk
  <2>2. registry[x[1]] \in {0, round[x[1]]}
    BY <2>1 DEF IInv, TaskInv
  <2> QED BY <2>1, <2>2 DEF Current
<1> QED BY <1>1 DEF IInv, GraphInv, GraphOk, Graphs

\* What the process holds in memory agrees with the tables at every step: one Graph
\* per thread, which serves the current invocation of a Run that runs, an owner for
\* every running Run, a registry that finds what lives, and no fact that comes too
\* late for its stream (runs.py:466-622, run_execution.py:137-343).
THEOREM EngineAgrees == Spec => []EngineMatchesTables
<1>1. IInv => EngineMatchesTables
  BY LivingIsFound, GraphIsServed DEF IInv, GraphInv, OwedInv, EngineMatchesTables
<1> QED BY <1>1, Inductive, PTL

-----------------------------------------------------------------------------
(* What is waited for.  This invariant stands on the first one.             *)

\* An execution that has begun, and whose Graph, if that still runs, is asked to stop.
Ending(x) == task[x] # "none" /\ (task[x] \in Graphs => x \in abort)

SlotInv ==
  \A t \in Threads : slot[t] # NoOp => Going(slot[t]) /\ op[slot[t]].thread = t

BegunInv ==
  /\ \A r \in Runs : registry[r] # 0 => task[<<r, registry[r]>>] # "none"
  /\ \A o \in Ops : \A x \in op[o].todo : task[x] # "none"

EndingInv == \A o \in Ops : WaitsForTask(o) => Ending(Exec(o))

WaitInv == SlotInv /\ BegunInv /\ EndingInv

\* Executions go on, and none is registered before it has begun.
Onward ==
  /\ \A x \in Execs : /\ task[x] # "none" => task'[x] # "none"
                      /\ task[x] # "none" /\ task[x] \notin Graphs => task'[x] \notin Graphs
  /\ abort \subseteq abort'
  /\ \A r \in Runs : registry'[r] \in {registry[r], 0} \/ task'[<<r, registry'[r]>>] # "none"

\* An execution that is ending stays so, and one that is registered has begun.
LEMMA GoesOn ==
  ASSUME TypeOK, WaitInv, Onward
  PROVE  /\ \A x \in Execs : Ending(x) => Ending(x)'
         /\ \A r \in Runs : registry'[r] # 0 => task'[<<r, registry'[r]>>] # "none"
         /\ \A x \in Execs : task[x] # "none" => task'[x] # "none"
<1>1. ASSUME NEW r \in Runs, registry'[r] # 0 PROVE task'[<<r, registry'[r]>>] # "none"
  <2>1. CASE registry'[r] = registry[r]
    <3>1. <<r, registry[r]>> \in Execs
      BY <1>1, <2>1, ConstantsAssumption DEF TypeOK, Execs
    <3> QED BY <1>1, <2>1, <3>1 DEF WaitInv, BegunInv, Onward
  <2> QED BY <1>1, <2>1 DEF Onward
<1>2. ASSUME NEW x \in Execs, Ending(x) PROVE Ending(x)'
  BY <1>2 DEF Ending, Onward
<1> QED BY <1>1, <1>2 DEF Onward

\* An operation that waits has an execution to wait for.
LEMMA WaitsForExec ==
  ASSUME IInv, NEW o \in Ops, WaitsForTask(o)
  PROVE  Exec(o) \in Execs /\ Going(o)
<1>1. op[o].exec # 0 /\ op[o].pc \notin {"idle", "queued", "drain"}
  BY DEF WaitsForTask, IInv, ScopeInv, ScopeOk
<1> QED BY <1>1, ExecOfOp DEF IInv

LEMMA OthersWait ==
  ASSUME IInv, WaitInv, Onward, NEW p \in Ops, op'[p] = op[p]
  PROVE  /\ \A x \in op'[p].todo : task'[x] # "none"
         /\ WaitsForTask(p)' => Ending(Exec(p))'
<1>1. op[p].todo \subseteq Execs
  BY OpParts DEF IInv, TypeOK
<1>2. \A x \in op'[p].todo : task'[x] # "none"
  BY <1>1, GoesOn DEF IInv, WaitInv, BegunInv
<1>3. ASSUME WaitsForTask(p)' PROVE Ending(Exec(p))'
  <2>1. WaitsForTask(p) /\ Exec(p)' = Exec(p)
    BY <1>3 DEF WaitsForTask, Exec
  <2>2. PICK x \in Execs : x = Exec(p)
    BY <2>1, WaitsForExec
  <2>3. Ending(x)'
    BY <2>1, <2>2, GoesOn DEF IInv, WaitInv, EndingInv
  <2> QED BY <2>1, <2>2, <2>3 DEF Ending
<1> QED BY <1>2, <1>3

\* A step of a task, a Run or the process.
LEMMA FrameWaits ==
  ASSUME IInv, WaitInv, Onward, op' = op, slot' = slot
  PROVE  WaitInv'
<1>1. SlotInv'
  BY DEF WaitInv, SlotInv, Going
<1>2. BegunInv'
  BY GoesOn, OthersWait DEF IInv, BegunInv
<1>3. EndingInv'
  BY OthersWait DEF EndingInv
<1> QED BY <1>1, <1>2, <1>3 DEF WaitInv

LEMMA EndedWaits ==
  ASSUME IInv, WaitInv, Onward, NEW o \in Ops, Going(o), Ended(o)
  PROVE  WaitInv'
<1>1. op'[o] = IdleOp /\ \A p \in Ops : p # o => op'[p] = op[p]
  BY DEF Ended
<1>2. op[o].thread \in Threads /\ slot \in [Threads -> Ops \cup {NoOp}]
  BY GoingWorks DEF Working, IInv, TypeOK
<1>3. SlotInv'
  <2> SUFFICES ASSUME NEW t \in Threads, slot'[t] # NoOp
               PROVE  Going(slot[t])' /\ op'[slot'[t]].thread = t /\ slot'[t] = slot[t]
    BY DEF SlotInv, Going
  <2>1. t # op[o].thread /\ slot'[t] = slot[t]
    BY <1>2 DEF Ended
  <2>2. Going(slot[t]) /\ op[slot[t]].thread = t /\ slot[t] \in Ops
    BY <1>2, <2>1 DEF WaitInv, SlotInv
  <2>3. op'[slot[t]] = op[slot[t]]
    BY <1>1, <2>1, <2>2
  <2> QED BY <2>1, <2>2, <2>3 DEF Going
<1>4. op'[o].todo = {} /\ ~WaitsForTask(o)'
  BY <1>1 DEF IdleOp, WaitsForTask
<1>5. BegunInv'
  <2>1. \A p \in Ops : \A x \in op'[p].todo : task'[x] # "none"
    BY <1>1, <1>4, OthersWait
  <2> QED BY <2>1, GoesOn DEF IInv, BegunInv
<1>6. EndingInv'
  BY <1>1, <1>4, OthersWait DEF EndingInv
<1> QED BY <1>3, <1>5, <1>6 DEF WaitInv

LEMMA MovedWaits ==
  ASSUME IInv, WaitInv, Onward, NEW o \in Ops, Going(o),
         NEW r, NEW pc, NEW e, NEW todo, Moved(o, r, pc, e, todo), slot' = slot,
         pc \notin {"idle", "queued"}, \A x \in todo : task'[x] # "none",
         WaitsForTask(o)' => Ending(Exec(o))'
  PROVE  WaitInv'
<1>1. /\ op'[o].thread = op[o].thread /\ op'[o].pc = pc /\ op'[o].todo = todo
      /\ \A p \in Ops : p # o => op'[p] = op[p]
  BY DEF Moved
<1>2. SlotInv'
  <2> SUFFICES ASSUME NEW t \in Threads, slot'[t] # NoOp
               PROVE  Going(slot[t])' /\ op'[slot[t]].thread = t
    BY DEF SlotInv, Going
  <2>1. Going(slot[t]) /\ op[slot[t]].thread = t /\ slot[t] \in Ops
    BY DEF WaitInv, SlotInv, IInv, TypeOK
  <2> QED BY <1>1, <2>1 DEF Going
<1>3. BegunInv'
  <2>1. \A p \in Ops : \A x \in op'[p].todo : task'[x] # "none"
    BY <1>1, OthersWait
  <2> QED BY <2>1, GoesOn DEF IInv, BegunInv
<1>4. EndingInv'
  BY <1>1, OthersWait DEF EndingInv
<1> QED BY <1>2, <1>3, <1>4 DEF WaitInv

LEMMA Still ==
  ASSUME UNCHANGED <<task, abort, registry>>
  PROVE  Onward
  BY DEF Onward

\* What is waited for is there when an operation begins to wait.
LEMMA GraphIsStopped ==
  ASSUME IInv, NEW o \in Ops, Going(o), op[o].pc # "notify", NEW x \in Execs,
         ThreadOf[x[1]] = op[o].thread, status[x[1]] # "running", task[x] # "none"
  PROVE  Ending(x)
<1> SUFFICES ASSUME task[x] \in Graphs, x \notin abort PROVE FALSE
  BY DEF Ending
<1>1. PICK p \in Ops : At(p, "notify") /\ Exec(p) = x
  BY DEF IInv, GraphInv, GraphOk
<1>2. Going(p) /\ p # o
  BY <1>1 DEF At, Going
<1>3. op[p].run = x[1] /\ op[p].run \in Runs
  BY <1>1, <1>2, GoingWorks DEF At, Working
<1> QED BY <1>2, <1>3, Apart DEF IInv

\* The steps of the operations.
LEMMA RequestWaits ==
  ASSUME IInv, WaitInv, NEW o \in Ops, NEW kind, NEW t, NEW r, Request(o, kind, t, r)
  PROVE  WaitInv'
<1>1. /\ op[o].pc = "idle" /\ UNCHANGED <<task, abort, registry, slot>>
      /\ op' = [op EXCEPT ![o] = [IdleOp EXCEPT !.kind = kind, !.thread = t, !.run = r,
                                                !.pc = "queued"]]
  BY DEF Request, At, memory
<1>2. op \in [Ops -> OpSet]
  BY DEF IInv, TypeOK
<1>3. op'[o].pc = "queued" /\ op'[o].todo = {} /\ \A p \in Ops : p # o => op'[p] = op[p]
  BY <1>1, <1>2 DEF IdleOp
<1>4. Onward
  BY <1>1, Still
<1>5. SlotInv'
  <2> SUFFICES ASSUME NEW t0 \in Threads, slot'[t0] # NoOp
               PROVE  Going(slot[t0])' /\ op'[slot[t0]].thread = t0
    BY <1>1 DEF SlotInv, Going
  <2>1. Going(slot[t0]) /\ op[slot[t0]].thread = t0 /\ slot[t0] \in Ops
    BY <1>1 DEF WaitInv, SlotInv, IInv, TypeOK
  <2> QED BY <1>1, <1>3, <2>1 DEF Going
<1>6. BegunInv'
  <2>1. \A p \in Ops : \A x \in op'[p].todo : task'[x] # "none"
    BY <1>3, <1>4, OthersWait
  <2> QED BY <1>4, <2>1, GoesOn DEF IInv, BegunInv
<1>7. EndingInv'
  BY <1>3, <1>4, OthersWait DEF EndingInv, WaitsForTask
<1> QED BY <1>5, <1>6, <1>7 DEF WaitInv

LEMMA EnterWaits ==
  ASSUME IInv, WaitInv, NEW o \in Ops, Enter(o)
  PROVE  WaitInv'
<1>1. /\ op[o].pc = "queued" /\ slot[op[o].thread] = NoOp
      /\ slot' = [slot EXCEPT ![op[o].thread] = o] /\ UNCHANGED <<task, abort, registry>>
  BY DEF Enter, At, memory
<1>2. PICK pc \in {"drain", "check", "lock"}, e \in 0..MaxRounds, todo \in SUBSET Execs :
        Moved(o, op[o].run, pc, e, todo) /\ (todo = Registered(op[o].thread) \/ todo = op[o].todo)
  <2>1. op \in [Ops -> OpSet] /\ op[o].todo \in SUBSET Execs /\ op[o].exec \in 0..MaxRounds
        /\ Registered(op[o].thread) \in SUBSET Execs
    BY OpParts DEF IInv, TypeOK, Registered
  <2>2. op[o].kind = "cancel" => registry[op[o].run] \in 0..MaxRounds
    BY DEF IInv, ScopeInv, ScopeOk, TypeOK
  <2>3. {"drain", "check", "lock"} \subseteq Places
    BY DEF Places
  <2>4. CASE op' = [op EXCEPT ![o].pc = "drain", ![o].todo = Registered(op[o].thread)]
    BY <2>1, <2>3, <2>4, MovePcTodo
  <2>5. CASE op' = [op EXCEPT ![o].pc = "check"]
    BY <2>1, <2>3, <2>5, MovePc
  <2>6. CASE op[o].kind = "cancel" /\ op' = [op EXCEPT ![o].pc = "lock",
                                                        ![o].exec = registry[op[o].run]]
    BY <2>1, <2>2, <2>3, <2>6, MoveExec
  <2> QED BY <2>4, <2>5, <2>6 DEF Enter, Goto
<1>3. /\ op'[o].pc = pc /\ op'[o].todo = todo /\ op'[o].thread = op[o].thread
      /\ \A p \in Ops : p # o => op'[p] = op[p]
  BY <1>2 DEF Moved
<1>4. Onward
  BY <1>1, Still
<1>5. SlotInv'
  <2> SUFFICES ASSUME NEW t \in Threads, NEW s, s = slot'[t], s # NoOp
               PROVE  op'[s].pc \notin {"idle", "queued"} /\ op'[s].thread = t
    BY DEF SlotInv, Going
  <2>1. CASE t = op[o].thread
    <3>1. s = o
      BY <1>1, <2>1 DEF IInv, TypeOK
    <3> QED BY <1>2, <1>3, <2>1, <3>1
  <2>2. CASE t # op[o].thread
    <3>1. slot'[t] = slot[t]
      BY <1>1, <2>2 DEF IInv, TypeOK
    <3>2. Going(slot[t]) /\ op[slot[t]].thread = t /\ slot[t] \in Ops
      BY <3>1 DEF WaitInv, SlotInv, IInv, TypeOK
    <3>3. slot[t] # o
      BY <1>1, <3>2 DEF Going
    <3>4. op'[s] = op[s]
      BY <1>3, <3>1, <3>2, <3>3
    <3> QED BY <3>1, <3>2, <3>4 DEF Going
  <2> QED BY <2>1, <2>2
<1>6. BegunInv'
  <2>1. \A x \in Registered(op[o].thread) : task[x] # "none"
    BY ExecParts DEF Registered, WaitInv, BegunInv
  <2>2. \A x \in todo : task'[x] # "none"
    BY <1>1, <1>2, <2>1 DEF WaitInv, BegunInv
  <2>3. \A p \in Ops : \A x \in op'[p].todo : task'[x] # "none"
    BY <1>3, <1>4, <2>2, OthersWait
  <2> QED BY <1>4, <2>3, GoesOn DEF IInv, BegunInv
<1>7. EndingInv'
  BY <1>2, <1>3, <1>4, OthersWait DEF EndingInv, WaitsForTask
<1> QED BY <1>5, <1>6, <1>7 DEF WaitInv

\* An operation that ends and changes no execution.
LEMMA EndsWaits ==
  ASSUME IInv, WaitInv, NEW o \in Ops, Going(o), EndOp(o), UNCHANGED <<task, abort, registry>>
  PROVE  WaitInv'
<1>1. Ended(o)
  BY OpEnds DEF IInv, TypeOK
<1> QED BY <1>1, Still, EndedWaits

\* One that goes on and changes no execution.
LEMMA MovesWaits ==
  ASSUME IInv, WaitInv, NEW o \in Ops, Going(o), NEW pc, NEW r, NEW e, NEW todo,
         Moved(o, r, pc, e, todo), todo \subseteq op[o].todo, pc \notin {"idle", "queued"},
         UNCHANGED <<task, abort, registry, slot>>,
         WaitsForTask(o)' => Ending(Exec(o))'
  PROVE  WaitInv'
<1>1. \A x \in todo : task'[x] # "none"
  BY DEF WaitInv, BegunInv
<1> QED BY <1>1, Still, MovedWaits

LEMMA OpFailsWaits ==
  ASSUME IInv, WaitInv, NEW o \in Ops, OpFails(o)
  PROVE  WaitInv'
  BY EndsWaits DEF OpFails, At, Going, memory

LEMMA DrainNextWaits ==
  ASSUME IInv, WaitInv, NEW o \in Ops, DrainNext(o)
  PROVE  WaitInv'
<1>1. op[o].pc = "drain" /\ Going(o) /\ UNCHANGED <<task, abort, registry, slot>>
  BY DEF DrainNext, At, Going, memory
<1>2. op \in [Ops -> OpSet] /\ op[o].todo \in SUBSET Execs
  BY OpParts DEF IInv, TypeOK
<1>3. PICK x \in op[o].todo :
        IF status[x[1]] \in Terminal
          THEN op' = [op EXCEPT ![o].pc = "draining", ![o].run = x[1], ![o].exec = x[2]]
          ELSE op' = [op EXCEPT ![o].todo = @ \ {x}]
  BY DEF DrainNext
<1>4. x \in Execs /\ x[1] \in Runs /\ x[2] \in 0..MaxRounds /\ x = <<x[1], x[2]>>
  BY <1>2, ExecParts DEF Execs
<1>5. CASE status[x[1]] \in Terminal
  <2>1. Moved(o, x[1], "draining", x[2], op[o].todo)
    BY <1>2, <1>3, <1>4, <1>5, MoveRun DEF Places
  <2>2. Exec(o)' = x
    BY <1>4, <2>1 DEF Moved, Exec
  <2>3. Ending(x)
    <3>1. task[x] # "none" /\ ThreadOf[x[1]] = op[o].thread
      BY DEF WaitInv, BegunInv, IInv, ScopeInv, ScopeOk
    <3> QED BY <1>1, <1>4, <1>5, <3>1, GraphIsStopped DEF Terminal
  <2>4. Ending(Exec(o))'
    BY <1>1, <2>2, <2>3 DEF Ending
  <2> QED BY <1>1, <2>1, <2>4, MovesWaits
<1>6. CASE status[x[1]] \notin Terminal
  <2>1. Moved(o, op[o].run, "drain", op[o].exec, op[o].todo \ {x})
    BY <1>1, <1>2, <1>3, <1>6, MoveTodo
  <2>2. ~WaitsForTask(o)'
    BY <2>1 DEF Moved, WaitsForTask
  <2> QED BY <1>1, <2>1, <2>2, MovesWaits
<1> QED BY <1>5, <1>6

LEMMA DrainedWaits ==
  ASSUME IInv, WaitInv, NEW o \in Ops, Drained(o)
  PROVE  WaitInv'
<1>1. op[o].pc = "draining" /\ Going(o) /\ UNCHANGED <<task, abort, slot>>
      /\ op' = [op EXCEPT ![o].pc = "drain", ![o].todo = op[o].todo \ {Exec(o)}]
      /\ Close(Exec(o))
  BY DEF Drained, At, Going
<1>2. op \in [Ops -> OpSet] /\ op[o].todo \in SUBSET Execs
  BY OpParts DEF IInv, TypeOK
<1>3. Moved(o, op[o].run, "drain", op[o].exec, op[o].todo \ {Exec(o)})
  BY <1>1, <1>2, MovePcTodo DEF Places
<1>4. ~WaitsForTask(o)'
  BY <1>3 DEF Moved, WaitsForTask
<1>5. Onward
  BY <1>1 DEF Close, Onward, IInv, TypeOK
<1>6. \A x \in op[o].todo \ {Exec(o)} : task'[x] # "none"
  BY <1>1 DEF WaitInv, BegunInv
<1> QED BY <1>1, <1>3, <1>4, <1>5, <1>6, MovedWaits

LEMMA CreateRunWaits ==
  ASSUME IInv, WaitInv, NEW o \in Ops, CreateRun(o)
  PROVE  WaitInv'
<1>1. op[o].pc = "drain" /\ Going(o) /\ UNCHANGED <<task, abort, registry, slot>>
  BY DEF CreateRun, At, Going, memory
<1>2. PICK r \in Runs : op' = [op EXCEPT ![o].pc = "install", ![o].run = r, ![o].exec = 1]
  BY DEF CreateRun
<1>3. Moved(o, r, "install", 1, op[o].todo)
  <2>1. op \in [Ops -> OpSet] /\ 1 \in 0..MaxRounds /\ "install" \in Places
    BY ConstantsAssumption DEF IInv, TypeOK, Places
  <2> QED BY <1>2, <2>1, MoveRun
<1>4. ~WaitsForTask(o)'
  BY <1>3 DEF Moved, WaitsForTask
<1> QED BY <1>1, <1>3, <1>4, MovesWaits

LEMMA CheckWaits ==
  ASSUME IInv, WaitInv, NEW o \in Ops, Check(o)
  PROVE  WaitInv'
<1>1. op[o].pc = "check" /\ Going(o) /\ UNCHANGED <<task, abort, registry>>
  BY DEF Check, At, Going, memory
<1>2. /\ op \in [Ops -> OpSet] /\ op[o].run \in Runs /\ ThreadOf[op[o].run] = op[o].thread
      /\ registry[op[o].run] \in 0..MaxRounds
  BY <1>1 DEF IInv, TypeOK, ScopeInv, ScopeOk
<1>3. CASE EndOp(o)
  BY <1>1, <1>3, EndsWaits
<1>4. CASE ~EndOp(o)
  <2>1. PICK pc \in {"reconcile", "await"} :
          /\ op' = [op EXCEPT ![o].pc = pc, ![o].exec = registry[op[o].run]]
          /\ pc = "await" => registry[op[o].run] # 0
          /\ status[op[o].run] = "interrupted" /\ slot' = slot
    BY <1>4 DEF Check
  <2>2. Moved(o, op[o].run, pc, registry[op[o].run], op[o].todo)
    BY <1>2, <2>1, MoveExec DEF Places
  <2>3. ASSUME pc = "await" PROVE Ending(Exec(o))'
    <3>1. PICK x \in Execs : x = <<op[o].run, registry[op[o].run]>>
      <4>1. registry[op[o].run] \in 1..MaxRounds
        BY <1>2, <2>1, <2>3, ConstantsAssumption
      <4> QED BY <1>2, <4>1 DEF Execs
    <3>2. task[x] # "none" /\ x[1] = op[o].run
      BY <1>2, <2>1, <2>3, <3>1 DEF WaitInv, BegunInv
    <3>3. Ending(x)
      BY <1>1, <1>2, <2>1, <3>2, GraphIsStopped
    <3>4. Exec(o)' = x
      BY <2>2, <3>1 DEF Moved, Exec
    <3> QED BY <1>1, <3>3, <3>4 DEF Ending
  <2>4. WaitsForTask(o)' => Ending(Exec(o))'
    BY <2>2, <2>3 DEF Moved, WaitsForTask
  <2> QED BY <1>1, <2>1, <2>2, <2>4, MovesWaits
<1> QED BY <1>3, <1>4

LEMMA AcceptApprovalWaits ==
  ASSUME IInv, WaitInv, NEW o \in Ops, AcceptApproval(o)
  PROVE  WaitInv'
<1>1. /\ op[o].pc = "accept" /\ Going(o) /\ UNCHANGED <<task, abort, registry, slot>>
      /\ op' = [op EXCEPT ![o].pc = "install", ![o].exec = round[op[o].run] + 1]
  BY DEF AcceptApproval, At, Going, memory
<1>2. op[o].run \in Runs /\ round[op[o].run] + 1 \in 0..MaxRounds
  <2>1. op[o].run \in Runs
    BY <1>1 DEF IInv, ScopeInv, ScopeOk
  <2>2. round[op[o].run] < MaxRounds
    BY <2>1 DEF AcceptApproval, IInv, TableInv
  <2> QED BY <2>1, <2>2, ConstantsAssumption DEF IInv, TypeOK
<1>3. Moved(o, op[o].run, "install", round[op[o].run] + 1, op[o].todo)
  BY <1>1, <1>2, MoveExec DEF IInv, TypeOK, Places
<1>4. ~WaitsForTask(o)'
  BY <1>3 DEF Moved, WaitsForTask
<1> QED BY <1>1, <1>3, <1>4, MovesWaits

\* A step to another place where nothing is waited for.
LEMMA GotoWaits ==
  ASSUME IInv, WaitInv, NEW o \in Ops, Going(o), UNCHANGED <<task, slot, registry>>,
         abort \subseteq abort', NEW pc \in {"reconcile", "accept", "commit", "notify"}, Goto(o, pc)
  PROVE  WaitInv'
<1>1. Moved(o, op[o].run, pc, op[o].exec, op[o].todo)
  <2>1. op \in [Ops -> OpSet] /\ pc \in Places
    BY DEF IInv, TypeOK, Places
  <2> QED BY <2>1, MovePc DEF Goto
<1>2. ~WaitsForTask(o)'
  BY <1>1 DEF Moved, WaitsForTask
<1>3. Onward
  BY DEF Onward
<1>4. \A x \in op[o].todo : task'[x] # "none"
  BY DEF WaitInv, BegunInv
<1> QED BY <1>1, <1>2, <1>3, <1>4, MovedWaits

LEMMA InstallWaits ==
  ASSUME IInv, WaitInv, NEW o \in Ops, Install(o) \/ StartFails(o)
  PROVE  WaitInv'
<1>1. op[o].pc = "install" /\ Going(o) /\ abort' = abort
  BY DEF Install, StartFails, At, Going
<1>2. Exec(o) \in Execs /\ task[Exec(o)] = "none" /\ op[o].run \in Runs
      /\ Exec(o) = <<op[o].run, op[o].exec>>
  BY <1>1, ExecOfOp DEF IInv, StageInv, StageOk, ScopeInv, ScopeOk, Exec
<1>3. PICK pc \in {"created", "settle"} : task' = [task EXCEPT ![Exec(o)] = pc]
  BY DEF Install, StartFails
<1>4. registry' = registry \/ registry' = [registry EXCEPT ![op[o].run] = op[o].exec]
  BY DEF Install, StartFails
<1>5. /\ task'[Exec(o)] = pc
      /\ \A x \in Execs : x # Exec(o) => task'[x] = task[x]
      /\ \A r \in Runs : r # op[o].run \/ registry'[r] # op[o].exec => registry'[r] = registry[r]
  <2>1. /\ task'[Exec(o)] = pc
        /\ \A x \in Execs : x # Exec(o) => task'[x] = task[x]
    <3>1. PICK x \in Execs : x = Exec(o)
      BY <1>2
    <3>2. task \in [Execs -> Alive \cup {"none", "done"}] /\ task' = [task EXCEPT ![x] = pc]
      BY <1>3, <3>1 DEF IInv, TypeOK
    <3> QED BY <3>1, <3>2
  <2>2. \A r \in Runs : r # op[o].run \/ registry'[r] # op[o].exec => registry'[r] = registry[r]
    <3>1. registry \in [Runs -> 0..MaxRounds]
      BY DEF IInv, TypeOK
    <3>2. CASE registry' = registry
      BY <3>2
    <3>3. CASE registry' = [registry EXCEPT ![op[o].run] = op[o].exec]
      BY <1>2, <3>1, <3>3
    <3> QED BY <1>4, <3>2, <3>3
  <2> QED BY <2>1, <2>2
<1>6. Onward
  BY <1>1, <1>2, <1>3, <1>5 DEF Onward
<1>7. CASE Install(o)
  <2>1. Ended(o)
    BY <1>7, OpEnds DEF Install, IInv, TypeOK
  <2> QED BY <1>1, <1>6, <2>1, EndedWaits
<1>8. CASE StartFails(o)
  <2>1. Moved(o, op[o].run, "attempted", op[o].exec, op[o].todo) /\ slot' = slot
    BY <1>8, MovePc DEF StartFails, Goto, IInv, TypeOK, Places
  <2>2. Exec(o)' = Exec(o) /\ task'[Exec(o)] = "settle"
    BY <1>2, <1>8, <2>1 DEF Moved, Exec, StartFails, IInv, TypeOK
  <2>3. Ending(Exec(o))'
    BY <2>2 DEF Ending, Graphs
  <2>4. \A x \in op[o].todo : task'[x] # "none"
    <3>1. op[o].todo \subseteq Execs
      BY OpParts DEF IInv, TypeOK
    <3> QED BY <1>6, <3>1 DEF Onward, WaitInv, BegunInv
  <2> QED BY <1>1, <1>6, <2>1, <2>3, <2>4, MovedWaits
<1> QED BY <1>7, <1>8

LEMMA CancelWaits ==
  ASSUME IInv, WaitInv, NEW o \in Ops,
         LockForCancel(o) \/ CommitCancel(o) \/ CancelFails(o) \/ NotifyCancel(o)
  PROVE  WaitInv'
<1>1. CASE LockForCancel(o)
  BY <1>1, GotoWaits DEF LockForCancel, At, Going
<1>2. CASE CommitCancel(o)
  BY <1>2, GotoWaits DEF CommitCancel, At, Going
<1>3. CASE CancelFails(o)
  BY <1>3, EndsWaits DEF CancelFails, At, Going
<1>4. CASE NotifyCancel(o)
  <2>1. Going(o) /\ EndOp(o) /\ UNCHANGED <<task, registry>> /\ abort \subseteq abort'
    BY <1>4 DEF NotifyCancel, At, Going
  <2>2. Onward
    BY <2>1 DEF Onward
  <2>3. Ended(o)
    BY <2>1, OpEnds DEF IInv, TypeOK
  <2> QED BY <2>1, <2>2, <2>3, EndedWaits
<1> QED BY <1>1, <1>2, <1>3, <1>4

LEMMA OperationWaits ==
  ASSUME IInv, WaitInv, NEW o \in Ops, OpStep(o)
  PROVE  WaitInv'
<1>1. ASSUME RefuseBusy(o) \/ Attempted(o) PROVE WaitInv'
  BY <1>1, EndsWaits DEF RefuseBusy, Attempted, At, Going, memory
<1>2. ASSUME AwaitPrevious(o) PROVE WaitInv'
  BY <1>2, GotoWaits DEF AwaitPrevious, At, Going, memory
<1>3. ASSUME Reconcile(o) PROVE WaitInv'
  <2>1. Going(o) /\ UNCHANGED <<task, abort, registry>>
    BY <1>3 DEF Reconcile, At, Going, memory
  <2>2. EndOp(o) \/ (Goto(o, "accept") /\ slot' = slot)
    BY <1>3 DEF Reconcile
  <2> QED BY <2>1, <2>2, EndsWaits, GotoWaits
<1> QED BY <1>1, <1>2, <1>3, OpFailsWaits, DrainNextWaits, DrainedWaits, CreateRunWaits,
      CheckWaits, AcceptApprovalWaits, InstallWaits, CancelWaits
    DEF OpStep

\* The steps of the tasks.
LEMMA TaskWaits ==
  ASSUME IInv, WaitInv, NEW x \in Execs, TaskStep(x) \/ GraphEnds(x)
  PROVE  WaitInv'
<1>1. op' = op /\ slot' = slot /\ abort' = abort
  BY DEF TaskStep, Begin, GraphEnds, GraphAborts, LockForSettle, CommitSettle, SettleFails, Publish,
    Retry, Finish, CleanUp, SeeCancellation, service
<1>2. \A r \in Runs : registry'[r] \in {registry[r], 0}
  <2>1. registry' = registry \/ Close(x)
    BY DEF TaskStep, Begin, GraphEnds, GraphAborts, LockForSettle, CommitSettle, SettleFails,
      Publish, Retry, Finish, CleanUp, SeeCancellation
  <2> QED BY <2>1 DEF Close, IInv, TypeOK
<1>3. \/ task' = task
      \/ /\ task[x] # "none"
         /\ \/ task' = [task EXCEPT ![x] = "graph"] /\ task[x] \in Graphs
            \/ \E pc \in Alive \cup {"done"} : pc \notin Graphs /\ task' = [task EXCEPT ![x] = pc]
  <2> DEFINE Goes(pc) == task[x] # "none" /\ task' = [task EXCEPT ![x] = pc]
  <2>1. CASE Begin(x)
    BY <2>1 DEF Begin, Result, Move, Graphs, Alive
  <2>2. CASE GraphEnds(x) \/ GraphAborts(x) \/ Retry(x)
    <3>1. Goes("settle")
      BY <2>2 DEF GraphEnds, GraphAborts, Retry, Result, Move
    <3> QED BY <3>1 DEF Graphs, Alive
  <2>3. CASE LockForSettle(x) \/ CommitSettle(x)
    <3>1. Goes("settling") \/ Goes("publish")
      BY <2>3 DEF LockForSettle, CommitSettle, Move
    <3> QED BY <3>1 DEF Graphs, Alive
  <2>4. CASE SettleFails(x) \/ Publish(x) \/ Finish(x) \/ CleanUp(x)
    <3>1. Goes("retry") \/ Goes("finish") \/ Goes("done") \/ task' = task
      BY <2>4 DEF SettleFails, Publish, Finish, CleanUp, Move
    <3> QED BY <3>1 DEF Graphs, Alive
  <2>5. CASE SeeCancellation(x)
    <3>1. Goes("done") \/ Goes("finish")
      BY <2>5 DEF SeeCancellation, Move, Alive
    <3> QED BY <3>1 DEF Graphs, Alive
  <2> QED BY <2>1, <2>2, <2>3, <2>4, <2>5 DEF TaskStep
<1>4. Onward
  <2>1. ASSUME NEW y \in Execs, task[y] # "none"
        PROVE  task'[y] # "none" /\ (task[y] \notin Graphs => task'[y] \notin Graphs)
    <3>1. task \in [Execs -> Alive \cup {"none", "done"}]
      BY DEF IInv, TypeOK
    <3>2. CASE task' = task
      BY <2>1, <3>2
    <3>3. CASE task' = [task EXCEPT ![x] = "graph"] /\ task[x] \in Graphs
      BY <2>1, <3>1, <3>3
    <3>4. ASSUME NEW pc \in Alive \cup {"done"}, pc \notin Graphs, task' = [task EXCEPT ![x] = pc]
          PROVE  task'[y] # "none" /\ (task[y] \notin Graphs => task'[y] \notin Graphs)
      BY <2>1, <3>1, <3>4 DEF Alive
    <3> QED BY <1>3, <3>2, <3>3, <3>4
  <2> QED BY <1>1, <1>2, <2>1 DEF Onward
<1> QED BY <1>1, <1>4, FrameWaits

\* The steps of the process.
LEMMA ForgetWaits ==
  ASSUME Forget
  PROVE  WaitInv'
<1>1. /\ \A t \in Threads : slot'[t] = NoOp
      /\ \A r \in Runs : registry'[r] = 0
      /\ \A o \in Ops : op'[o] = IdleOp
  BY DEF Forget
<1>2. IdleOp.pc = "idle" /\ IdleOp.todo = {}
  BY DEF IdleOp
<1> QED BY <1>1, <1>2 DEF WaitInv, SlotInv, BegunInv, EndingInv, WaitsForTask

LEMMA ProcessWaits ==
  ASSUME IInv, WaitInv,
         \/ BeginShutdown \/ StopExecutions \/ Exit \/ Crash \/ Restart \/ Ready \/ StorageChanges
         \/ \E r \in Runs : Recover(r) \/ ReadGivesUp(r)
         \/ UNCHANGED vars
  PROVE  WaitInv'
<1>1. CASE Exit \/ Crash
  BY <1>1, ForgetWaits DEF Exit, Crash
<1>2. CASE ~(Exit \/ Crash)
  <2>1. op' = op /\ slot' = slot /\ registry' = registry /\ task' = task /\ abort \subseteq abort'
    BY <1>2 DEF BeginShutdown, StopExecutions, Restart, Ready, StorageChanges, Recover, ReadGivesUp,
      vars, memory, service
  <2>2. Onward
    BY <2>1 DEF Onward
  <2> QED BY <2>1, <2>2, FrameWaits
<1> QED BY <1>1, <1>2

LEMMA WaitsStart ==
  ASSUME Init
  PROVE  WaitInv
<1>1. IdleOp.pc = "idle" /\ IdleOp.todo = {}
  BY DEF IdleOp
<1> QED BY <1>1 DEF Init, WaitInv, SlotInv, BegunInv, EndingInv, WaitsForTask

LEMMA WaitsStep ==
  ASSUME IInv, WaitInv, [Next]_vars
  PROVE  WaitInv'
  BY RequestWaits, EnterWaits, OperationWaits, TaskWaits, ProcessWaits DEF Next

LEMMA WaitsAreWell == IInv /\ WaitInv => WaitsAreServed
<1> SUFFICES ASSUME IInv, WaitInv PROVE WaitsAreServed
  OBVIOUS
<1>1. \A t \in Threads : slot[t] # NoOp => Going(slot[t]) /\ op[slot[t]].thread = t
  BY DEF WaitInv, SlotInv
<1>2. ASSUME NEW x \in Execs
      PROVE  /\ lock[x] = "task" => task[x] \in {"settling", "publish"}
             /\ lock[x] \in Ops => /\ op[lock[x]].pc \in {"commit", "notify"}
                                   /\ Exec(lock[x]) = x
  BY DEF IInv, LockInv, LockOk, HasLock, Locking
<1>3. ASSUME NEW o \in Ops, WaitsForTask(o)
      PROVE  /\ task[Exec(o)] # "none"
             /\ task[Exec(o)] \in {"created", "graph"} => Exec(o) \in abort
  BY <1>3 DEF WaitInv, EndingInv, Ending, Graphs
<1> QED BY <1>1, <1>2, <1>3 DEF WaitsAreServed

\* No lock is left behind and no operation keeps its thread for a Graph that nobody
\* has asked to stop: for any number of threads, Runs and operations, through failing
\* transactions, retried settlements, shutdown and the ends of processes
\* (runs.py:466-482, 516-518, run_execution.py:234-304).
THEOREM WaitingEnds == Spec => []WaitsAreServed
<1>1. Init => IInv /\ WaitInv
  BY InitHolds, WaitsStart
<1>2. (IInv /\ WaitInv) /\ [Next]_vars => (IInv /\ WaitInv)'
  BY StepKeeps, WaitsStep
<1> QED BY <1>1, <1>2, WaitsAreWell, PTL DEF Spec
=============================================================================
