---------------------------- MODULE MCRunExecutionLive ----------------------------
(* What must eventually happen in RunExecution, on two small instances that one run *)
(* of TLC explores side by side.  What tells them apart bounds the callers and the  *)
(* Graphs only, which owe nobody a step: every step that Fairness promises is left  *)
(* as it is.                                                                        *)
EXTENDS MCRunExecution

CONSTANTS o1, r1, r2

VARIABLE instance

\* "contention": one Run of two invocations, and two operations that meet at the lock
\* of its thread, at the lock of an execution and at the end of a paused invocation.
\* "drain": two Runs of one invocation, the second started while the task of the first,
\* cancelled or failed, is still under way, and then left to itself.
Requested == {o \in Ops : At(o, "idle") /\ ~At(o, "idle")'}

Contention ==
  \A o \in Requested :
    IF op'[o].kind = "start"
      THEN (\A r \in Runs : status[r] = "absent") /\ (\A p \in Ops : op[p].kind # "start")
      ELSE status[op'[o].run] \in Active

Drain ==
  /\ \A o \in Requested : o = o1 /\ op'[o].kind \in {"start", "cancel"} /\ status[r2] = "absent"
  /\ \A x \in Execs : outcome'[x] # "interrupted"

LiveInit == Init /\ instance \in {"contention", "drain"}

LiveNext ==
  /\ Next
  /\ IF instance = "contention" THEN Contention ELSE Drain
  /\ status'[r2] # "absent" => status'[r1] # "absent"    \* Runs are created in one order
  /\ UNCHANGED instance

LiveSpec == LiveInit /\ [][LiveNext]_<<vars, instance>> /\ Fairness
=============================================================================
