------------------------------- MODULE RunPromise -------------------------------
(***************************************************************************)
(* What the product promises about the Runs of a thread, without tables,   *)
(* sequence numbers of facts or transactions: a Run is started only when   *)
(* its thread is free, moves through its statuses and never leaves a final *)
(* one; a pause offers one approval, which is answered or withdrawn at     *)
(* most once; every invocation is billed at most once.                     *)
(***************************************************************************)
EXTENDS Naturals

CONSTANTS
  Runs, Threads, ThreadOf,
  Pauses,    \* identities of what a Run may wait for a decision on
  NoPause,
  Numbers    \* names of invocations, ordered in time

VARIABLES
  phase,     \* status of each Run
  pending,   \* the pause a Run waits at
  offered,   \* <<run, pause>> ever offered for a decision
  answered,  \* <<run, pause>> decided by the user: the Run went on
  withdrawn, \* <<run, pause>> withdrawn by a cancellation
  begun,     \* <<run, number>> invocations that were started
  billed     \* <<run, number>> invocations whose usage is known

promise == <<phase, pending, offered, answered, withdrawn, begun, billed>>

Busy(t) == \E r \in Runs : ThreadOf[r] = t /\ phase[r] \in {"running", "interrupted"}

Init ==
  /\ phase = [r \in Runs |-> "absent"]
  /\ pending = [r \in Runs |-> NoPause]
  /\ offered = {} /\ answered = {} /\ withdrawn = {}
  /\ begun = {} /\ billed = {}

Become(r, p, at) ==
  /\ phase' = [phase EXCEPT ![r] = p]
  /\ pending' = [pending EXCEPT ![r] = at]

Invoke(r) ==
  \E n \in Numbers : /\ \A b \in begun : b[1] = r => b[2] < n
                     /\ begun' = begun \cup {<<r, n>>}

Latest(r, n) == <<r, n>> \in begun /\ \A b \in begun : b[1] = r => b[2] <= n

\* the usage of the latest invocation becomes known, if it was not
MayBill(r) ==
  \/ UNCHANGED billed
  \/ \E n \in Numbers : Latest(r, n) /\ billed' = billed \cup {<<r, n>>}

Start(r) ==
  /\ phase[r] = "absent"
  /\ ~Busy(ThreadOf[r])
  /\ Become(r, "running", NoPause)
  /\ Invoke(r)
  /\ UNCHANGED <<offered, answered, withdrawn, billed>>

Pause(r) ==
  /\ phase[r] = "running"
  /\ \E c \in Pauses : /\ <<r, c>> \notin offered
                       /\ Become(r, "interrupted", c)
                       /\ offered' = offered \cup {<<r, c>>}
  /\ MayBill(r)
  /\ UNCHANGED <<answered, withdrawn, begun>>

Finish(r) ==
  /\ phase[r] = "running"
  /\ \E p \in {"completed", "error", "cancelled"} : Become(r, p, NoPause)
  /\ MayBill(r)
  /\ UNCHANGED <<offered, answered, withdrawn, begun>>

Answer(r) ==
  /\ phase[r] = "interrupted"
  /\ <<r, pending[r]>> \notin answered \cup withdrawn
  /\ answered' = answered \cup {<<r, pending[r]>>}
  /\ Become(r, "running", NoPause)
  /\ Invoke(r)
  /\ UNCHANGED <<offered, withdrawn, billed>>

Withdraw(r) ==
  /\ phase[r] = "interrupted"
  /\ <<r, pending[r]>> \notin answered \cup withdrawn
  /\ withdrawn' = withdrawn \cup {<<r, pending[r]>>}
  /\ Become(r, "cancelled", NoPause)
  /\ UNCHANGED <<offered, answered, begun, billed>>

\* a pause whose checkpoint is gone cannot be decided any more
Abandon(r) ==
  /\ phase[r] = "interrupted"
  /\ Become(r, "error", NoPause)
  /\ UNCHANGED <<offered, answered, withdrawn, begun, billed>>

\* the usage of an invocation may become known after its Run has moved on
Bill(r) ==
  /\ phase[r] \notin {"absent", "running"}
  /\ MayBill(r)
  /\ UNCHANGED <<phase, pending, offered, answered, withdrawn, begun>>

Next == \E r \in Runs :
  Start(r) \/ Pause(r) \/ Finish(r) \/ Answer(r) \/ Withdraw(r) \/ Abandon(r) \/ Bill(r)

Spec == Init /\ [][Next]_promise
=============================================================================
