------------------------------ MODULE RunLifecycle ------------------------------
(***************************************************************************)
(* The durable life of a Run: what the SQLite tables may hold after any    *)
(* sequence of committed transactions of RunTransitions                    *)
(* (runtime/runs.py) and of the message writes of EventStore               *)
(* (persistence/event_store.py).                                           *)
(*                                                                         *)
(* ChatStore.transaction holds the connection lock over BEGIN IMMEDIATE    *)
(* ... COMMIT and rolls back on every exception, so one transaction is one *)
(* step and a transaction that raises is no step at all: its check is a    *)
(* guard.  The callers (recovery, coordinator, service, ingestor) are left *)
(* free: any run, any outcome, any earlier invocation, any snapshot read   *)
(* before.  RunExecution restricts them to what the process really does.   *)
(***************************************************************************)
EXTENDS Naturals, FiniteSets

CONSTANTS
  Threads,      \* thread identities
  Runs,         \* run identities, uuid4().hex: fresh for every create_run
  ThreadOf,     \* the thread a run is inserted with; the pair never changes
  Entries,      \* identities of human entry messages
  Messages,     \* identities of ai and tool messages, chosen by the model
  Checkpoints,  \* identities of graph checkpoints a pause may rest on
  Amounts,      \* token amounts one invocation may report
  NoReport,     \* a settlement that carries no usage (UsageData | None)
  NoCheckpoint, \* the checkpoint part of the key of a first run_running fact
  MaxSeq        \* bound on the sequence counter of a thread, for TLC only

ASSUME ConstantsAssumption ==
  /\ ThreadOf \in [Runs -> Threads]
  /\ NoCheckpoint \notin Checkpoints
  /\ NoReport \notin Amounts
  /\ MaxSeq \in Nat

VARIABLES
  threads,   \* rows of table threads
  status,    \* runs.status, "absent" before insert_run
  counter,   \* thread_sequences.value
  facts,     \* rows of run_events
  reserved,  \* rows of message_sequences
  usage,     \* rows of run_usage
  scanned    \* RunSnapshots a recovery has read and may still act upon

vars == <<threads, status, counter, facts, reserved, usage, scanned>>

-----------------------------------------------------------------------------
(* Rows.                                                                    *)

Outcomes  == {"completed", "cancelled", "error", "interrupted"}
Terminal  == {"completed", "error", "cancelled"}
Statuses  == Outcomes \cup {"running"}
Active    == {"running", "interrupted"}

RunTypes      == {"run_running", "run_interrupted", "run_completed", "run_error", "run_cancelled"}
ApprovalTypes == {"approval_required", "approval_resolved", "approval_invalidated"}

\* f"run_{status}"
RunType(s) == [running |-> "run_running", interrupted |-> "run_interrupted",
               completed |-> "run_completed", error |-> "run_error",
               cancelled |-> "run_cancelled"][s]

\* event_key: a prefix and what it identifies within the run (the run id that
\* several keys repeat is the run of the row)
LostCode    == "recovery:invocation_lost"
CorruptCode == "recovery:approval_state_corrupt"

RunningKey(c)        == <<"running", c>>
SettledKey(inv)      == <<"settled", inv>>
CancelledKey         == <<"cancelled", NoCheckpoint>>
RecoveryKey(code)    == <<code, NoCheckpoint>>
RequiredKey(c)       == <<"approval:required", c>>
ResolvedKey(c)       == <<"approval:resolved", c>>
InvalidatedKey(c)    == <<"approval:invalidated", c>>
EntryKey(e)          == <<"human", e>>
MessageKey(m)        == <<"ai", m>>

Fact(r, type, key, seq) == [run |-> r, type |-> type, key |-> key, seq |-> seq]

Category(f) == IF f.type \in RunTypes THEN "lifecycle"
               ELSE IF f.type \in ApprovalTypes THEN "approval" ELSE "message"

FactsOf(r) == {f \in facts : f.run = r}
Facts(r, type) == {f \in facts : f.run = r /\ f.type = type}
OfCategory(r, cat) == {f \in FactsOf(r) : Category(f) = cat}

\* next(e for e in reversed(history) if ...)
IsLast(f, S) == f \in S /\ \A g \in S : g.seq <= f.seq
HasLast(S)   == \E f \in S : IsLast(f, S)
Last(S)      == CHOOSE f \in S : IsLast(f, S)

LastRunning(r)   == Last(Facts(r, "run_running"))
LastApproval(r)  == Last(OfCategory(r, "approval"))
LastLifecycle(r) == Last(OfCategory(r, "lifecycle"))

\* uq_run_events_event_key: the indexed insert of a key already there raises
FreshKey(r, key) == \A f \in facts : f.run = r => f.key # key

\* uq_thread_message_identity, message_by_key
MessageOf(t, key) ==
  {f \in facts : ThreadOf[f.run] = t /\ f.type = "message" /\ f.key = key}

RunsOf(t) == {r \in Runs : ThreadOf[r] = t}
\* mutant: a paused Run gives its thread away
HasRunningRun(t) == \E r \in RunsOf(t) : status[r] = "running"

HasActiveRun(t) == \E r \in RunsOf(t) : status[r] \in Active
UsageRow(r, inv) == {u \in usage : u.run = r /\ u.inv = inv}

\* What get_run returns: updated_at moves with every status change, each of
\* which commits one lifecycle fact, so the seq of that fact stands for it.
Snapshot(r) == [run |-> r, status |-> status[r], updated |-> LastLifecycle(r).seq,
                usage |-> {u \in usage : u.run = r}]

Init ==
  /\ threads = {}
  /\ status = [r \in Runs |-> "absent"]
  /\ counter = [t \in Threads |-> 0]
  /\ facts = {}
  /\ reserved = {}
  /\ usage = {}
  /\ scanned = {}

-----------------------------------------------------------------------------
(* Allocation of sequence numbers and insertion of facts.                   *)

Next1(r) == counter[ThreadOf[r]] + 1
Next2(r) == counter[ThreadOf[r]] + 2

\* room under the model's bound for n more numbers
Room(r, n) == counter[ThreadOf[r]] + n <= MaxSeq

Advance(r, n) == counter' = [counter EXCEPT ![ThreadOf[r]] = @ + n]

\* insert_fact of one fact, of two facts in order, in the open transaction
InsertFact(r, type, key) ==
  /\ FreshKey(r, key)
  /\ Room(r, 1)
  /\ facts' = facts \cup {Fact(r, type, key, Next1(r))}
  /\ Advance(r, 1)

InsertFacts(r, type1, key1, type2, key2) ==
  /\ FreshKey(r, key1)
  /\ FreshKey(r, key2)
  /\ Room(r, 2)
  /\ facts' = facts \cup {Fact(r, type1, key1, Next1(r)), Fact(r, type2, key2, Next2(r))}
  /\ Advance(r, 2)

SetStatus(r, s) == status' = [status EXCEPT ![r] = s]

-----------------------------------------------------------------------------
(* Transactions of RunTransitions.                                          *)

CreateThread(t) ==
  /\ t \notin threads
  /\ threads' = threads \cup {t}
  /\ UNCHANGED <<status, counter, facts, reserved, usage, scanned>>

CreateRun(r, e) ==
  /\ status[r] = "absent"
  /\ ThreadOf[r] \in threads                         \* else ThreadNotFound
  /\ ~HasActiveRun(ThreadOf[r])                      \* else ThreadBusy
  /\ MessageOf(ThreadOf[r], EntryKey(e)) = {}        \* else MessageConflict
  /\ SetStatus(r, "running")
  /\ InsertFacts(r, "run_running", RunningKey(NoCheckpoint), "message", EntryKey(e))
  /\ UNCHANGED <<threads, reserved, usage, scanned>>

\* mutant: whoever settles, settles for the invocation of now
AnyInvocation(r, inv) == inv \in {f.seq : f \in Facts(r, "run_running")}

\* The part of a settlement before the status is looked at: the invocation that
\* settles must be the latest one, and its usage is inserted at most once.
\* usage rows keep the invocation that reported them, which the code never sees.
CurrentInvocation(r, inv) == inv = LastRunning(r).seq

\* mutant: a row is inserted even if nothing was reported
RecordAnyUsage(r, inv, amount) ==
  usage' = IF UsageRow(r, LastRunning(r).seq) # {} THEN usage
           ELSE usage \cup {[run |-> r, inv |-> LastRunning(r).seq, amount |-> amount, by |-> inv]}

RecordUsage(r, inv, amount) ==
  LET row == [run |-> r, inv |-> LastRunning(r).seq, amount |-> amount, by |-> inv]
  IN  IF amount = NoReport
        THEN usage' = usage
        ELSE /\ \A u \in UsageRow(r, row.inv) : u.amount = amount   \* else InvalidRunState
             /\ usage' = IF UsageRow(r, row.inv) = {} THEN usage \cup {row} ELSE usage

\* mutant: the pause is recorded as if its approval already were
SettleRunningKnownPause(r, outcome, inv, amount, c) ==
  /\ status[r] = "running"
  /\ CurrentInvocation(r, inv)
  /\ RecordUsage(r, inv, amount)
  /\ SetStatus(r, outcome)
  /\ LET settled == SettledKey(LastRunning(r).seq)
     IN  IF outcome = "interrupted" /\ FreshKey(r, RequiredKey(c))
           THEN InsertFacts(r, "approval_required", RequiredKey(c), RunType(outcome), settled)
           ELSE InsertFact(r, RunType(outcome), settled)
  /\ UNCHANGED <<threads, reserved, scanned>>

\* mutant: a settlement does not look whether the Run is still running
SettleAnything(r, outcome, inv, amount, c) ==
  /\ status[r] # "absent"
  /\ CurrentInvocation(r, inv)
  /\ RecordUsage(r, inv, amount)
  /\ SetStatus(r, outcome)
  /\ LET settled == SettledKey(LastRunning(r).seq)
     IN  IF outcome = "interrupted"
           THEN InsertFacts(r, "approval_required", RequiredKey(c), RunType(outcome), settled)
           ELSE InsertFact(r, RunType(outcome), settled)
  /\ UNCHANGED <<threads, reserved, scanned>>

SettleRunning(r, outcome, inv, amount, c) ==
  /\ status[r] = "running"
  /\ CurrentInvocation(r, inv)
  /\ RecordUsage(r, inv, amount)
  /\ SetStatus(r, outcome)
  /\ LET settled == SettledKey(LastRunning(r).seq)
     IN  IF outcome = "interrupted"
           THEN InsertFacts(r, "approval_required", RequiredKey(c), RunType(outcome), settled)
           ELSE InsertFact(r, RunType(outcome), settled)
  /\ UNCHANGED <<threads, reserved, scanned>>

\* A settlement that finds the Run already out of "running" obeys what was
\* committed: it only finds the matching fact, and may still add its usage.
MatchingFact(r) ==
  \/ status[r] = "cancelled" /\ ~FreshKey(r, CancelledKey)
  \/ \E f \in FactsOf(r) : /\ f.key = SettledKey(LastRunning(r).seq)
                           /\ f.type = RunType(status[r])
MatchingApproval(r) ==
  \E f \in Facts(r, "approval_required") :
    /\ f.seq > LastRunning(r).seq
    /\ \A g \in Facts(r, "approval_required") : g.seq > LastRunning(r).seq => g = f

SettleLate(r, inv, amount) ==
  /\ status[r] \in Statuses \ {"running"}
  /\ CurrentInvocation(r, inv)
  /\ RecordUsage(r, inv, amount)
  /\ MatchingFact(r)
  /\ status[r] = "interrupted" => MatchingApproval(r)
  /\ UNCHANGED <<threads, status, counter, facts, reserved, scanned>>

CancelRunning(r) ==
  /\ status[r] = "running"
  /\ InsertFact(r, "run_cancelled", CancelledKey)
  /\ SetStatus(r, "cancelled")
  /\ UNCHANGED <<threads, reserved, usage, scanned>>

\* the pause a decision or a cancellation is about; otherwise InvalidRunState
Pending(r) ==
  /\ HasLast(OfCategory(r, "approval"))
  /\ LastApproval(r).type = "approval_required"
PendingCheckpoint(r) == LastApproval(r).key[2]

CancelPaused(r) ==
  /\ status[r] = "interrupted"
  /\ Pending(r)
  /\ InsertFacts(r, "approval_invalidated", InvalidatedKey(PendingCheckpoint(r)),
                    "run_cancelled", CancelledKey)
  /\ SetStatus(r, "cancelled")
  /\ UNCHANGED <<threads, reserved, usage, scanned>>

\* mutant: the decision is recorded and the status forgotten
AcceptApprovalOnly(r) ==
  /\ status[r] = "interrupted"
  /\ Pending(r)
  /\ InsertFacts(r, "approval_resolved", ResolvedKey(PendingCheckpoint(r)),
                    "run_running", RunningKey(PendingCheckpoint(r)))
  /\ UNCHANGED <<threads, status, reserved, usage, scanned>>

AcceptApproval(r) ==
  /\ status[r] = "interrupted"
  /\ Pending(r)
  /\ InsertFacts(r, "approval_resolved", ResolvedKey(PendingCheckpoint(r)),
                    "run_running", RunningKey(PendingCheckpoint(r)))
  /\ SetStatus(r, "running")
  /\ UNCHANGED <<threads, reserved, usage, scanned>>

-----------------------------------------------------------------------------
(* Recovery: a snapshot is read in one transaction and acted upon in        *)
(* another.  Whether the local execution is lost, or the checkpoint no      *)
(* longer matches the pause, is decided outside the database.               *)

Scan(r) ==
  /\ status[r] \in Active
  /\ scanned' = {s \in scanned : s.run # r} \cup {Snapshot(r)}
  /\ UNCHANGED <<threads, status, counter, facts, reserved, usage>>

RecoveryCode(s) == IF s.status = "running" THEN LostCode ELSE CorruptCode

\* mutant: any Run that is not final is given up
StillActive(s) == status[s.run] \in Active

\* the check of fail_recovery on the snapshot it was given
StillExpected(s) == status[s.run] \in Active /\ s = Snapshot(s.run)

\* mutant: a recovery trusts what it has read
FailRecoveryBlindly(s) ==
  /\ InsertFact(s.run, "run_error", RecoveryKey(RecoveryCode(s)))
  /\ SetStatus(s.run, "error")
  /\ scanned' = scanned \ {s}
  /\ UNCHANGED <<threads, reserved, usage>>

FailRecovery(s) ==
  /\ status[s.run] \in Active                         \* else returned as it is
  /\ StillExpected(s)
  /\ InsertFact(s.run, "run_error", RecoveryKey(RecoveryCode(s)))
  /\ SetStatus(s.run, "error")
  /\ scanned' = scanned \ {s}
  /\ UNCHANGED <<threads, reserved, usage>>

-----------------------------------------------------------------------------
(* Message writes of EventStore; neither looks at the status of the run.    *)

Reservation(t, key) == {v \in reserved : ThreadOf[v.run] = t /\ v.key = key}

\* mutant: a number reserved by another run is taken over
WriteMessageOfAny(r, m) ==
  LET t == ThreadOf[r]  key == MessageKey(m)
  IN  /\ status[r] # "absent"
      /\ MessageOf(t, key) = {}
      /\ IF Reservation(t, key) = {}
           THEN InsertFact(r, "message", key)
           ELSE /\ \E v \in Reservation(t, key) :
                     facts' = facts \cup {Fact(r, "message", key, v.seq)}
                /\ UNCHANGED counter
      /\ UNCHANGED <<threads, status, reserved, usage, scanned>>

\* the number a new message gets: reserved_sequence, or a fresh one
WriteMessage(r, m) ==
  LET t == ThreadOf[r]  key == MessageKey(m)
  IN  /\ status[r] # "absent"
      /\ MessageOf(t, key) = {}                       \* else the row that is there
      /\ \A v \in Reservation(t, key) : v.run = r      \* else MessageConflict
      /\ IF Reservation(t, key) = {}
           THEN InsertFact(r, "message", key)
           ELSE /\ \E v \in Reservation(t, key) :
                     facts' = facts \cup {Fact(r, "message", key, v.seq)}
                /\ UNCHANGED counter
      /\ UNCHANGED <<threads, status, reserved, usage, scanned>>

ReserveSequence(r, m) ==
  LET t == ThreadOf[r]  key == MessageKey(m)
  IN  /\ status[r] # "absent"
      /\ MessageOf(t, key) = {}                       \* else MessageConflict
      /\ Reservation(t, key) = {}                     \* else the row that is there
      /\ Room(r, 1)
      /\ reserved' = reserved \cup {[run |-> r, key |-> key, seq |-> Next1(r)]}
      /\ Advance(r, 1)
      /\ UNCHANGED <<threads, status, facts, usage, scanned>>

-----------------------------------------------------------------------------

Invocations(r) == {f.seq : f \in Facts(r, "run_running")}

Settle(r) ==
  \E inv \in Invocations(r), amount \in Amounts \cup {NoReport} :
    \/ \E outcome \in Outcomes, c \in Checkpoints : SettleRunning(r, outcome, inv, amount, c)
    \/ SettleLate(r, inv, amount)

Next ==
  \/ \E t \in Threads : CreateThread(t)
  \/ \E r \in Runs :
       \/ \E e \in Entries : CreateRun(r, e)
       \/ Settle(r)
       \/ CancelRunning(r)
       \/ CancelPaused(r)
       \/ AcceptApproval(r)
       \/ Scan(r)
       \/ \E m \in Messages : WriteMessage(r, m) \/ ReserveSequence(r, m)
  \/ \E s \in scanned : FailRecovery(s)

Spec == Init /\ [][Next]_vars

-----------------------------------------------------------------------------
(* Properties.                                                              *)

KeyKinds == {"running", "settled", "cancelled", LostCode, CorruptCode, "approval:required",
             "approval:resolved", "approval:invalidated", "human", "ai"}
KeyRefs  == Checkpoints \cup {NoCheckpoint} \cup Entries \cup Messages \cup Nat
FactSet == [run : Runs, type : RunTypes \cup ApprovalTypes \cup {"message"},
            key : KeyKinds \X KeyRefs, seq : Nat]
ReservedSet == [run : Runs, key : {"ai"} \X Messages, seq : Nat]
UsageSet == [run : Runs, inv : Nat, amount : Amounts, by : Nat]
SnapshotSet == [run : Runs, status : Active, updated : Nat, usage : SUBSET UsageSet]

\* Every table holds rows of its schema; the snapshots a recovery holds are of
\* Runs that were active (the CHECK and NOT NULL constraints of schema.py).
TypeOK ==
  /\ threads \subseteq Threads
  /\ status \in [Runs -> Statuses \cup {"absent"}]
  /\ counter \in [Threads -> Nat]
  /\ facts \subseteq FactSet
  /\ reserved \subseteq ReservedSet
  /\ usage \subseteq UsageSet
  /\ scanned \subseteq SnapshotSet

\* At most one Run of a thread is not final.  create_run checks has_active_run in
\* its transaction (runs.py:88) and the partial index of schema.py:36 repeats it;
\* a paused Run keeps the slot although nothing executes.
OneActiveRun ==
  \A r, q \in Runs : ThreadOf[r] = ThreadOf[q] /\ r # q
    => ~(status[r] \in Active /\ status[q] \in Active)

\* The status of a Run and its last lifecycle fact never disagree: every
\* transaction that moves one commits the other (runs.py:66-441).
StatusFollowsFacts ==
  \A r \in Runs : status[r] # "absent" =>
    /\ HasLast(OfCategory(r, "lifecycle"))
    /\ LastLifecycle(r).type = RunType(status[r])

\* A paused Run can be both resumed and cancelled: its pending approval was
\* recorded by the settlement that paused it, after the invocation began, and no
\* unique key either transaction will insert is taken (runs.py:330-351, 391-426;
\* recovery.py:111-128 calls anything else corrupt).
PausedIsDecidable ==
  \A r \in Runs : status[r] = "interrupted" =>
    /\ Pending(r)
    /\ LastRunning(r).seq < LastApproval(r).seq
    /\ LastApproval(r).seq < LastLifecycle(r).seq
    /\ \A key \in {ResolvedKey(PendingCheckpoint(r)), RunningKey(PendingCheckpoint(r)),
                   InvalidatedKey(PendingCheckpoint(r)), CancelledKey} : FreshKey(r, key)

\* Usage is booked once per invocation, on an invocation that began, and on the
\* one that measured it, whatever settles late or twice (runs.py:181-193).
UsageOfItsInvocation ==
  /\ \A u \in usage : u.by = u.inv /\ u.inv \in Invocations(u.run)
  /\ \A u, v \in usage : u.run = v.run /\ u.inv = v.inv => u = v

\* Numbers are never shared: two facts of a thread differ in seq, and a number
\* reserved for a message is only ever taken by that message of that run
\* (event_store.py:39-79, 276-283; unique (thread_id, seq) in both tables).
SequencesAreOwned ==
  /\ \A f, g \in facts : ThreadOf[f.run] = ThreadOf[g.run] /\ f.seq = g.seq => f = g
  /\ \A v \in reserved, f \in facts :
       ThreadOf[f.run] = ThreadOf[v.run] /\ f.seq = v.seq => f.run = v.run /\ f.key = v.key

\* A recovery gives up a Run only in the state it has judged: invocation_lost
\* closes an invocation that was running, approval_state_corrupt a pause
\* (runs.py:280-302; the snapshot may be old when the transaction begins).
RecoveryClosesWhatItRead ==
  \A f \in facts :
    LET before == {g \in OfCategory(f.run, "lifecycle") : g.seq < f.seq}
    IN  /\ f.key = RecoveryKey(LostCode) => Last(before).type = "run_running"
        /\ f.key = RecoveryKey(CorruptCode) => Last(before).type = "run_interrupted"

\* A final Run stays as it is: no transaction changes its status or adds a
\* lifecycle or approval fact (runs.py:196-227, 283, 326, 391).
TerminalIsFinal ==
  [][\A r \in Runs : status[r] \in Terminal =>
       /\ status'[r] = status[r]
       /\ \A f \in facts' \ facts : f.run = r => Category(f) = "message"]_vars

-----------------------------------------------------------------------------
(* The tables as the product sees them.                                     *)

Decisions(type) == {<<f.run, f.key[2]>> : f \in {g \in facts : g.type = type}}

Promise == INSTANCE RunPromise WITH
  Pauses    <- Checkpoints,
  NoPause   <- NoCheckpoint,
  Numbers   <- 0..MaxSeq,
  phase     <- status,
  pending   <- [r \in Runs |-> IF status[r] = "interrupted" THEN PendingCheckpoint(r)
                                                          ELSE NoCheckpoint],
  offered   <- Decisions("approval_required"),
  answered  <- Decisions("approval_resolved"),
  withdrawn <- Decisions("approval_invalidated"),
  begun     <- {<<f.run, f.seq>> : f \in {g \in facts : g.type = "run_running"}},
  billed    <- {<<u.run, u.inv>> : u \in usage}

\* Every transaction is a step, or no step, of what RunPromise allows
\* (RunTransitions, runs.py:56-441, as a whole).
KeepsPromise == Promise!Spec
=============================================================================
