--------------------------- MODULE RunLifecycle_proofs ---------------------------
(***************************************************************************)
(* Machine-checked facts about RunLifecycle for every number of threads,   *)
(* runs, messages and checkpoints.                                         *)
(***************************************************************************)
EXTENDS RunLifecycle, TLAPS

-----------------------------------------------------------------------------
(* One Run at a time in a thread.                                           *)

\* The statuses alone, and that a thread has at most one active Run.
SlotInv ==
  /\ status \in [Runs -> Statuses \cup {"absent"}]
  /\ OneActiveRun

\* What a transaction may do to the statuses: nothing, take a free slot, or move
\* one Run that already holds the slot of its thread (runs.py:88, 183-236, 326, 391).
StatusStep ==
  \/ UNCHANGED status
  \/ \E r \in Runs : /\ status[r] = "absent" /\ ~HasActiveRun(ThreadOf[r])
                     /\ status' = [status EXCEPT ![r] = "running"]
  \/ \E r \in Runs, s \in Statuses : /\ status[r] \in Active
                                     /\ status' = [status EXCEPT ![r] = s]

\* Every transaction changes the statuses in one of those three ways.
LEMMA NextStatus == ASSUME scanned \subseteq SnapshotSet, [Next]_vars PROVE StatusStep
<1>1. CASE \E t \in Threads : CreateThread(t)
  BY <1>1 DEF CreateThread, StatusStep
<1>2. ASSUME NEW r \in Runs, NEW e \in Entries, CreateRun(r, e) PROVE StatusStep
  BY <1>2 DEF CreateRun, SetStatus, StatusStep
<1>3. ASSUME NEW r \in Runs, Settle(r) PROVE StatusStep
  <2>1. ASSUME NEW inv, NEW amount, NEW outcome \in Outcomes, NEW c,
               SettleRunning(r, outcome, inv, amount, c) PROVE StatusStep
    BY <2>1 DEF SettleRunning, SetStatus, StatusStep, Statuses, Active
  <2>2. ASSUME NEW inv, NEW amount, SettleLate(r, inv, amount) PROVE StatusStep
    BY <2>2 DEF SettleLate, StatusStep
  <2> QED BY <1>3, <2>1, <2>2 DEF Settle
<1>4. ASSUME NEW r \in Runs, CancelRunning(r) \/ CancelPaused(r) \/ AcceptApproval(r)
      PROVE StatusStep
  BY <1>4 DEF CancelRunning, CancelPaused, AcceptApproval, SetStatus, StatusStep,
              Statuses, Outcomes, Active
<1>5. ASSUME NEW r \in Runs, Scan(r) PROVE StatusStep
  BY <1>5 DEF Scan, StatusStep
<1>6. ASSUME NEW r \in Runs, NEW m \in Messages, WriteMessage(r, m) \/ ReserveSequence(r, m)
      PROVE StatusStep
  BY <1>6 DEF WriteMessage, ReserveSequence, StatusStep
<1>7. ASSUME NEW s \in scanned, FailRecovery(s) PROVE StatusStep
  <2>1. s.run \in Runs
    BY DEF SnapshotSet
  <2> QED BY <2>1, <1>7 DEF FailRecovery, SetStatus, StatusStep, Statuses, Outcomes
<1>8. CASE UNCHANGED vars
  BY <1>8 DEF vars, StatusStep
<1> QED BY <1>1, <1>2, <1>3, <1>4, <1>5, <1>6, <1>7, <1>8 DEF Next

\* The slot stays exclusive under each of the three ways.
LEMMA SlotStep == ASSUME SlotInv, StatusStep PROVE SlotInv'
<1>1. CASE UNCHANGED status
  BY <1>1 DEF SlotInv, OneActiveRun
<1>2. ASSUME NEW r \in Runs, status[r] = "absent", ~HasActiveRun(ThreadOf[r]),
             status' = [status EXCEPT ![r] = "running"]
      PROVE SlotInv'
  <2>1. \A q \in Runs : ThreadOf[q] = ThreadOf[r] => status[q] \notin Active
    BY <1>2 DEF HasActiveRun, RunsOf
  <2> QED BY <1>2, <2>1 DEF SlotInv, OneActiveRun, Statuses, Active
<1>3. ASSUME NEW r \in Runs, NEW s \in Statuses, status[r] \in Active,
             status' = [status EXCEPT ![r] = s]
      PROVE SlotInv'
  BY <1>3 DEF SlotInv, OneActiveRun
<1> QED BY <1>1, <1>2, <1>3 DEF StatusStep

-----------------------------------------------------------------------------
(* Type correctness.                                                        *)

FactType == RunTypes \cup ApprovalTypes \cup {"message"}

LEMMA LastIn == ASSUME NEW S, HasLast(S) PROVE IsLast(Last(S), S)
  BY DEF HasLast, Last

\* An insertion keeps the tables of facts and counters well typed.
LEMMA InsertFactType ==
  ASSUME TypeOK, NEW r \in Runs, NEW type \in FactType, NEW key \in KeyKinds \X KeyRefs,
         InsertFact(r, type, key)
  PROVE  facts' \subseteq FactSet /\ counter' \in [Threads -> Nat]
<1>1. ThreadOf[r] \in Threads
  BY ConstantsAssumption
<1>2. Fact(r, type, key, Next1(r)) \in FactSet
  BY <1>1 DEF Fact, FactSet, FactType, Next1, TypeOK
<1> QED BY <1>1, <1>2 DEF InsertFact, Advance, TypeOK

LEMMA InsertFactsType ==
  ASSUME TypeOK, NEW r \in Runs, NEW type1 \in FactType, NEW key1 \in KeyKinds \X KeyRefs,
         NEW type2 \in FactType, NEW key2 \in KeyKinds \X KeyRefs,
         InsertFacts(r, type1, key1, type2, key2)
  PROVE  facts' \subseteq FactSet /\ counter' \in [Threads -> Nat]
<1>1. ThreadOf[r] \in Threads
  BY ConstantsAssumption
<1>2. Fact(r, type1, key1, Next1(r)) \in FactSet
  BY <1>1 DEF Fact, FactSet, FactType, Next1, TypeOK
<1>3. Fact(r, type2, key2, Next2(r)) \in FactSet
  BY <1>1 DEF Fact, FactSet, FactType, Next2, TypeOK
<1> QED BY <1>1, <1>2, <1>3 DEF InsertFacts, Advance, TypeOK

\* Every key the transactions build is a key of the schema.
LEMMA KeyTypes ==
  /\ \A c \in Checkpoints \cup {NoCheckpoint} :
       {RunningKey(c), RequiredKey(c), ResolvedKey(c), InvalidatedKey(c)}
         \subseteq KeyKinds \X KeyRefs
  /\ \A i \in Nat : SettledKey(i) \in KeyKinds \X KeyRefs
  /\ {CancelledKey, RecoveryKey(LostCode), RecoveryKey(CorruptCode)} \subseteq KeyKinds \X KeyRefs
  /\ \A e \in Entries : EntryKey(e) \in KeyKinds \X KeyRefs
  /\ \A m \in Messages : MessageKey(m) \in KeyKinds \X KeyRefs
  BY DEF KeyKinds, KeyRefs, RunningKey, RequiredKey, ResolvedKey, InvalidatedKey, SettledKey,
         CancelledKey, RecoveryKey, EntryKey, MessageKey, LostCode, CorruptCode

\* A step keeps every table well typed.  Scan is the one step that needs more: the
\* snapshot it takes is dated by the last lifecycle fact, which must exist.
LEMMA TypeStep == ASSUME TypeOK, StatusFollowsFacts, [Next]_vars PROVE TypeOK'
<1> USE DEF FactType
<1>1. ASSUME NEW t \in Threads, CreateThread(t) PROVE TypeOK'
  BY <1>1 DEF CreateThread, TypeOK
<1>2. ASSUME NEW r \in Runs, NEW e \in Entries, CreateRun(r, e) PROVE TypeOK'
  <2>1. facts' \subseteq FactSet /\ counter' \in [Threads -> Nat]
    BY <1>2, KeyTypes, InsertFactsType DEF CreateRun, RunTypes
  <2> QED BY <1>2, <2>1 DEF CreateRun, SetStatus, TypeOK, Statuses
<1>3. ASSUME NEW r \in Runs, Settle(r) PROVE TypeOK'
  <2>1. PICK inv \in Invocations(r), amount \in Amounts \cup {NoReport} :
          \/ \E outcome \in Outcomes, c \in Checkpoints : SettleRunning(r, outcome, inv, amount, c)
          \/ SettleLate(r, inv, amount)
    BY <1>3 DEF Settle
  <2>2. inv \in Nat /\ inv = LastRunning(r).seq
    BY <2>1 DEF Invocations, Facts, TypeOK, FactSet, SettleRunning, SettleLate, CurrentInvocation
  <2>3. usage' \subseteq UsageSet
    BY <2>1, <2>2 DEF SettleRunning, SettleLate, RecordUsage, TypeOK, UsageSet
  <2>4. ASSUME NEW outcome \in Outcomes, NEW c \in Checkpoints,
               SettleRunning(r, outcome, inv, amount, c)
        PROVE TypeOK'
    <3>1. RunType(outcome) \in RunTypes
      BY DEF RunType, RunTypes, Outcomes
    <3>2. facts' \subseteq FactSet /\ counter' \in [Threads -> Nat]
      <4>1. SettledKey(LastRunning(r).seq) \in KeyKinds \X KeyRefs
            /\ RequiredKey(c) \in KeyKinds \X KeyRefs
        BY <2>2, KeyTypes
      <4>2. "approval_required" \in FactType
        BY DEF ApprovalTypes
      <4>3. CASE outcome = "interrupted"
        BY <2>4, <3>1, <4>1, <4>2, <4>3, InsertFactsType DEF SettleRunning
      <4>4. CASE outcome # "interrupted"
        BY <2>4, <3>1, <4>1, <4>4, InsertFactType DEF SettleRunning
      <4> QED BY <4>3, <4>4
    <3> QED BY <2>3, <2>4, <3>2 DEF SettleRunning, SetStatus, TypeOK, Statuses
  <2>5. CASE SettleLate(r, inv, amount)
    BY <2>3, <2>5 DEF SettleLate, TypeOK
  <2> QED BY <2>1, <2>4, <2>5
<1>4. ASSUME NEW r \in Runs, CancelRunning(r) PROVE TypeOK'
  <2>1. facts' \subseteq FactSet /\ counter' \in [Threads -> Nat]
    BY <1>4, KeyTypes, InsertFactType DEF CancelRunning, RunTypes
  <2> QED BY <1>4, <2>1 DEF CancelRunning, SetStatus, TypeOK, Statuses, Outcomes
<1>5. ASSUME NEW r \in Runs, CancelPaused(r) \/ AcceptApproval(r) PROVE TypeOK'
  <2>1. PendingCheckpoint(r) \in KeyRefs
    <3>1. LastApproval(r) \in facts
      BY <1>5, LastIn DEF CancelPaused, AcceptApproval, Pending, LastApproval, IsLast,
                          OfCategory, FactsOf
    <3> QED BY <3>1 DEF PendingCheckpoint, TypeOK, FactSet
  <2>2. {RunningKey(PendingCheckpoint(r)), ResolvedKey(PendingCheckpoint(r)),
         InvalidatedKey(PendingCheckpoint(r)), CancelledKey} \subseteq KeyKinds \X KeyRefs
    BY <2>1, KeyTypes DEF RunningKey, ResolvedKey, InvalidatedKey, KeyKinds
  <2>3. facts' \subseteq FactSet /\ counter' \in [Threads -> Nat]
    BY <1>5, <2>2, InsertFactsType DEF CancelPaused, AcceptApproval, RunTypes, ApprovalTypes
  <2> QED BY <1>5, <2>3 DEF CancelPaused, AcceptApproval, SetStatus, TypeOK, Statuses, Outcomes
<1>6. ASSUME NEW r \in Runs, Scan(r) PROVE TypeOK'
  <2>1. LastLifecycle(r) \in facts
    BY <1>6, LastIn DEF Scan, StatusFollowsFacts, Active, LastLifecycle, IsLast, OfCategory, FactsOf
  <2>2. Snapshot(r) \in SnapshotSet
    BY <1>6, <2>1 DEF Scan, Snapshot, SnapshotSet, TypeOK, FactSet
  <2> QED BY <1>6, <2>2 DEF Scan, TypeOK
<1>7. ASSUME NEW r \in Runs, NEW m \in Messages, WriteMessage(r, m) PROVE TypeOK'
  <2>1. MessageKey(m) \in KeyKinds \X KeyRefs
    BY KeyTypes
  <2>2. facts' \subseteq FactSet /\ counter' \in [Threads -> Nat]
    <3>1. CASE Reservation(ThreadOf[r], MessageKey(m)) = {}
      BY <1>7, <2>1, <3>1, InsertFactType DEF WriteMessage
    <3>2. CASE Reservation(ThreadOf[r], MessageKey(m)) # {}
      BY <1>7, <2>1, <3>2 DEF WriteMessage, Reservation, TypeOK, ReservedSet, Fact, FactSet
    <3> QED BY <3>1, <3>2
  <2> QED BY <1>7, <2>2 DEF WriteMessage, TypeOK
<1>8. ASSUME NEW r \in Runs, NEW m \in Messages, ReserveSequence(r, m) PROVE TypeOK'
  BY <1>8, ConstantsAssumption
     DEF ReserveSequence, Advance, Next1, MessageKey, ReservedSet, TypeOK
<1>9. ASSUME NEW s \in scanned, FailRecovery(s) PROVE TypeOK'
  <2>1. s.run \in Runs
    BY DEF TypeOK, SnapshotSet
  <2>2. RecoveryKey(RecoveryCode(s)) \in KeyKinds \X KeyRefs
    BY KeyTypes DEF RecoveryCode
  <2>3. facts' \subseteq FactSet /\ counter' \in [Threads -> Nat]
    BY <1>9, <2>1, <2>2, InsertFactType DEF FailRecovery, RunTypes
  <2> QED BY <1>9, <2>1, <2>3 DEF FailRecovery, SetStatus, TypeOK, Statuses, Outcomes
<1>10. CASE UNCHANGED vars
  BY <1>10 DEF vars, TypeOK
<1> QED BY <1>1, <1>2, <1>3, <1>4, <1>5, <1>6, <1>7, <1>8, <1>9, <1>10 DEF Next

-----------------------------------------------------------------------------
(* Sequence numbers.                                                        *)

\* Numbers in use are below the counter of their thread; a message row has a
\* message key and no other row has one; a reservation is the only one of its
\* message, and of its number.
Numbered ==
  /\ \A f \in facts : f.seq <= counter[ThreadOf[f.run]]
  /\ \A v \in reserved : v.seq <= counter[ThreadOf[v.run]]
  /\ \A f \in facts : f.type = "message" <=> f.key[1] \in {"human", "ai"}
  /\ \A v, w \in reserved : ThreadOf[v.run] = ThreadOf[w.run] /\ (v.seq = w.seq \/ v.key = w.key)
       => v = w

NumberInv == Numbered /\ SequencesAreOwned

\* Every transaction is one of five kinds of step on statuses and numbered rows.

\* new rows of one run, with new numbers
InsertStep(r, n, new) ==
  /\ new \subseteq FactSet
  /\ facts' = facts \cup new
  /\ counter' = [counter EXCEPT ![ThreadOf[r]] = @ + n]
  /\ UNCHANGED reserved
  /\ \A f \in new : /\ f.run = r
                    /\ counter[ThreadOf[r]] < f.seq
                    /\ f.seq <= counter[ThreadOf[r]] + n
                    /\ f.type = "message" <=> f.key[1] \in {"human", "ai"}
                    /\ \A g \in new : g.seq = f.seq => g = f

\* one run that is not final moves to another status s, and one of the new rows
\* is the fact that says so
MoveStep(r, s, n, new) ==
  /\ InsertStep(r, n, new)
  /\ status[r] \notin Terminal \cup {s}
  /\ status' = [status EXCEPT ![r] = s]
  /\ \E f \in new : /\ f.type = RunType(s)
                    /\ \A g \in new : Category(g) = "lifecycle" => g = f

NoteStep(r, new) ==
  /\ InsertStep(r, 1, new)
  /\ UNCHANGED status
  /\ \A f \in new : f.type = "message"

ReserveStep(r, m) ==
  /\ MessageOf(ThreadOf[r], MessageKey(m)) = {}
  /\ Reservation(ThreadOf[r], MessageKey(m)) = {}
  /\ reserved' = reserved \cup {[run |-> r, key |-> MessageKey(m), seq |-> Next1(r)]}
  /\ Advance(r, 1)
  /\ UNCHANGED <<status, facts>>

\* a message takes the number reserved for it
FillStep(v) ==
  /\ MessageOf(ThreadOf[v.run], v.key) = {}
  /\ facts' = facts \cup {Fact(v.run, "message", v.key, v.seq)}
  /\ UNCHANGED <<status, reserved, counter>>

TableStep ==
  \/ UNCHANGED <<status, facts, reserved, counter>>
  \/ \E r \in Runs, s \in Statuses, n \in Nat, new \in SUBSET FactSet : MoveStep(r, s, n, new)
  \/ \E r \in Runs, new \in SUBSET FactSet : NoteStep(r, new)
  \/ \E r \in Runs, m \in Messages : ReserveStep(r, m)
  \/ \E v \in reserved : FillStep(v)

LEMMA InsertFactStep ==
  ASSUME TypeOK, NEW r \in Runs, NEW type \in FactType, NEW key \in KeyKinds \X KeyRefs,
         InsertFact(r, type, key), UNCHANGED reserved,
         type = "message" <=> key[1] \in {"human", "ai"}
  PROVE  InsertStep(r, 1, {Fact(r, type, key, Next1(r))})
<1>1. ThreadOf[r] \in Threads /\ counter[ThreadOf[r]] \in Nat
  BY ConstantsAssumption DEF TypeOK
<1> QED BY <1>1 DEF InsertStep, InsertFact, Advance, Fact, Next1, FactSet, FactType

LEMMA InsertFactsStep ==
  ASSUME TypeOK, NEW r \in Runs, NEW type1 \in FactType, NEW key1 \in KeyKinds \X KeyRefs,
         NEW type2 \in FactType, NEW key2 \in KeyKinds \X KeyRefs,
         InsertFacts(r, type1, key1, type2, key2), UNCHANGED reserved,
         type1 = "message" <=> key1[1] \in {"human", "ai"},
         type2 = "message" <=> key2[1] \in {"human", "ai"}
  PROVE  InsertStep(r, 2, {Fact(r, type1, key1, Next1(r)), Fact(r, type2, key2, Next2(r))})
<1>1. ThreadOf[r] \in Threads /\ counter[ThreadOf[r]] \in Nat
  BY ConstantsAssumption DEF TypeOK
<1> QED BY <1>1 DEF InsertStep, InsertFacts, Advance, Fact, Next1, Next2, FactSet, FactType

LEMMA RunTypeCategory ==
  \A s \in Statuses : \A f : f.type = RunType(s)
     => RunType(s) \in RunTypes /\ Category(f) = "lifecycle" /\ f.type # "message"
<1> SUFFICES ASSUME NEW s \in Statuses, NEW f, f.type = RunType(s)
             PROVE  RunType(s) \in RunTypes /\ Category(f) = "lifecycle" /\ f.type # "message"
  OBVIOUS
<1>1. RunType(s) \in RunTypes
  BY DEF RunType, RunTypes, Statuses, Outcomes
<1> QED BY <1>1 DEF Category, RunTypes

LEMMA NextTable == ASSUME TypeOK, [Next]_vars PROVE TableStep
<1> USE DEF FactType
<1>1. ASSUME NEW t \in Threads, CreateThread(t) PROVE TableStep
  BY <1>1 DEF CreateThread, TableStep
<1>2. ASSUME NEW r \in Runs, NEW e \in Entries, CreateRun(r, e) PROVE TableStep
  <2> DEFINE f == Fact(r, "run_running", RunningKey(NoCheckpoint), Next1(r))
             g == Fact(r, "message", EntryKey(e), Next2(r))
  <2>1. InsertStep(r, 2, {f, g})
    BY <1>2, KeyTypes, InsertFactsStep DEF CreateRun, RunTypes, RunningKey, EntryKey
  <2>2. MoveStep(r, "running", 2, {f, g})
    BY <1>2, <2>1 DEF MoveStep, Terminal, CreateRun, SetStatus, Fact, RunType, Category, RunTypes,
      ApprovalTypes
  <2> QED BY <2>1, <2>2 DEF TableStep, Statuses, InsertStep
<1>3. ASSUME NEW r \in Runs, Settle(r) PROVE TableStep
  <2>1. PICK inv \in Invocations(r), amount \in Amounts \cup {NoReport} :
          \/ \E outcome \in Outcomes, c \in Checkpoints : SettleRunning(r, outcome, inv, amount, c)
          \/ SettleLate(r, inv, amount)
    BY <1>3 DEF Settle
  <2>2. inv \in Nat /\ inv = LastRunning(r).seq
    BY <2>1 DEF Invocations, Facts, TypeOK, FactSet, SettleRunning, SettleLate, CurrentInvocation
  <2>3. ASSUME NEW outcome \in Outcomes, NEW c \in Checkpoints,
               SettleRunning(r, outcome, inv, amount, c)
        PROVE TableStep
    <3> DEFINE key == SettledKey(LastRunning(r).seq)
    <3>1. outcome \in Statuses /\ RunType(outcome) \in RunTypes /\ RunType(outcome) # "message"
      BY DEF RunType, RunTypes, Outcomes, Statuses
    <3>2. key \in KeyKinds \X KeyRefs /\ key[1] \notin {"human", "ai"}
      BY <2>2, KeyTypes DEF SettledKey
    <3>3. CASE outcome = "interrupted"
      <4> DEFINE f == Fact(r, "approval_required", RequiredKey(c), Next1(r))
                 g == Fact(r, RunType(outcome), key, Next2(r))
      <4>1. InsertFacts(r, "approval_required", RequiredKey(c), RunType(outcome), key)
        BY <2>3, <3>3 DEF SettleRunning
      <4>2. InsertStep(r, 2, {f, g})
        BY <2>3, <3>1, <3>2, <4>1, KeyTypes, InsertFactsStep DEF SettleRunning, ApprovalTypes,
          RequiredKey
      <4>3. Category(f) # "lifecycle" /\ g.type = RunType(outcome)
        BY DEF Category, Fact, RunTypes, ApprovalTypes
      <4>4. MoveStep(r, outcome, 2, {f, g})
        BY <2>3, <4>2, <4>3 DEF MoveStep, Terminal, SettleRunning, SetStatus, Outcomes
      <4> QED BY <3>1, <4>2, <4>4 DEF TableStep, InsertStep
    <3>4. CASE outcome # "interrupted"
      <4> DEFINE g == Fact(r, RunType(outcome), key, Next1(r))
      <4>1. InsertFact(r, RunType(outcome), key)
        BY <2>3, <3>4 DEF SettleRunning
      <4>2. InsertStep(r, 1, {g})
        BY <2>3, <3>1, <3>2, <4>1, InsertFactStep DEF SettleRunning
      <4>3. g.type = RunType(outcome)
        BY DEF Fact
      <4>4. MoveStep(r, outcome, 1, {g})
        BY <2>3, <4>2, <4>3 DEF MoveStep, Terminal, SettleRunning, SetStatus, Outcomes
      <4> QED BY <3>1, <4>2, <4>4 DEF TableStep, InsertStep
    <3> QED BY <3>3, <3>4
  <2>4. CASE SettleLate(r, inv, amount)
    BY <2>4 DEF SettleLate, TableStep
  <2> QED BY <2>1, <2>3, <2>4
<1>4. ASSUME NEW r \in Runs, CancelRunning(r) PROVE TableStep
  <2> DEFINE g == Fact(r, "run_cancelled", CancelledKey, Next1(r))
  <2>1. InsertStep(r, 1, {g})
    BY <1>4, KeyTypes, InsertFactStep DEF CancelRunning, RunTypes, CancelledKey
  <2>2. MoveStep(r, "cancelled", 1, {g})
    BY <1>4, <2>1 DEF MoveStep, Terminal, CancelRunning, SetStatus, Fact, RunType
  <2> QED BY <2>1, <2>2 DEF TableStep, Statuses, Outcomes, InsertStep
<1>5. ASSUME NEW r \in Runs, CancelPaused(r) \/ AcceptApproval(r) PROVE TableStep
  <2> DEFINE c == PendingCheckpoint(r)
  <2>1. c \in KeyRefs
    <3>1. LastApproval(r) \in facts
      BY <1>5, LastIn DEF CancelPaused, AcceptApproval, Pending, LastApproval, IsLast,
                          OfCategory, FactsOf
    <3> QED BY <3>1 DEF PendingCheckpoint, TypeOK, FactSet
  <2>2. {RunningKey(c), ResolvedKey(c), InvalidatedKey(c), CancelledKey} \subseteq KeyKinds \X KeyRefs
        /\ \A k \in {RunningKey(c), ResolvedKey(c), InvalidatedKey(c), CancelledKey} :
             k[1] \notin {"human", "ai"}
    BY <2>1, KeyTypes DEF RunningKey, ResolvedKey, InvalidatedKey, CancelledKey, KeyKinds
  <2>3. CASE CancelPaused(r)
    <3> DEFINE f == Fact(r, "approval_invalidated", InvalidatedKey(c), Next1(r))
               g == Fact(r, "run_cancelled", CancelledKey, Next2(r))
    <3>1. InsertStep(r, 2, {f, g})
      BY <2>2, <2>3, InsertFactsStep DEF CancelPaused, RunTypes, ApprovalTypes
    <3>2. MoveStep(r, "cancelled", 2, {f, g})
      BY <2>3, <3>1 DEF MoveStep, Terminal, CancelPaused, SetStatus, Fact, RunType, Category,
        RunTypes, ApprovalTypes
    <3> QED BY <3>1, <3>2 DEF TableStep, Statuses, Outcomes, InsertStep
  <2>4. CASE AcceptApproval(r)
    <3> DEFINE f == Fact(r, "approval_resolved", ResolvedKey(c), Next1(r))
               g == Fact(r, "run_running", RunningKey(c), Next2(r))
    <3>1. InsertStep(r, 2, {f, g})
      BY <2>2, <2>4, InsertFactsStep DEF AcceptApproval, RunTypes, ApprovalTypes
    <3>2. MoveStep(r, "running", 2, {f, g})
      BY <2>4, <3>1 DEF MoveStep, Terminal, AcceptApproval, SetStatus, Fact, RunType, Category,
        RunTypes, ApprovalTypes
    <3> QED BY <3>1, <3>2 DEF TableStep, Statuses, Outcomes, InsertStep
  <2> QED BY <1>5, <2>3, <2>4
<1>6. ASSUME NEW r \in Runs, Scan(r) PROVE TableStep
  BY <1>6 DEF Scan, TableStep
<1>7. ASSUME NEW r \in Runs, NEW m \in Messages, WriteMessage(r, m) PROVE TableStep
  <2> DEFINE key == MessageKey(m)
  <2>1. key \in KeyKinds \X KeyRefs /\ key[1] = "ai"
    BY KeyTypes DEF MessageKey
  <2>2. CASE Reservation(ThreadOf[r], key) = {}
    <3> DEFINE new == {Fact(r, "message", key, Next1(r))}
    <3>1. InsertStep(r, 1, new)
      BY <1>7, <2>1, <2>2, InsertFactStep DEF WriteMessage
    <3>2. NoteStep(r, new)
      BY <1>7, <3>1 DEF NoteStep, WriteMessage, Fact
    <3> QED BY <3>1, <3>2 DEF TableStep, InsertStep
  <2>3. CASE Reservation(ThreadOf[r], key) # {}
    <3>1. PICK v \in Reservation(ThreadOf[r], key) : facts' = facts \cup {Fact(r, "message", key, v.seq)}
      BY <1>7, <2>3 DEF WriteMessage
    <3>2. v \in reserved /\ v.run = r /\ v.key = key
      BY <1>7, <3>1 DEF WriteMessage, Reservation
    <3>3. FillStep(v)
      BY <1>7, <2>3, <3>1, <3>2 DEF FillStep, WriteMessage
    <3> QED BY <3>2, <3>3 DEF TableStep
  <2> QED BY <2>2, <2>3
<1>8. ASSUME NEW r \in Runs, NEW m \in Messages, ReserveSequence(r, m) PROVE TableStep
  BY <1>8 DEF ReserveSequence, ReserveStep, TableStep
<1>9. ASSUME NEW s \in scanned, FailRecovery(s) PROVE TableStep
  <2> DEFINE key == RecoveryKey(RecoveryCode(s))
             g == Fact(s.run, "run_error", key, Next1(s.run))
  <2>1. s.run \in Runs
    BY DEF TypeOK, SnapshotSet
  <2>2. key \in KeyKinds \X KeyRefs /\ key[1] \notin {"human", "ai"}
    BY KeyTypes DEF RecoveryCode, RecoveryKey, LostCode, CorruptCode
  <2>3. InsertStep(s.run, 1, {g})
    BY <1>9, <2>1, <2>2, InsertFactStep DEF FailRecovery, RunTypes
  <2>4. MoveStep(s.run, "error", 1, {g})
    BY <1>9, <2>3 DEF MoveStep, Terminal, Active, FailRecovery, SetStatus, Fact, RunType
  <2> QED BY <2>1, <2>3, <2>4 DEF TableStep, Statuses, Outcomes, InsertStep
<1>10. CASE UNCHANGED vars
  BY <1>10 DEF vars, TableStep
<1> QED BY <1>1, <1>2, <1>3, <1>4, <1>5, <1>6, <1>7, <1>8, <1>9, <1>10 DEF Next

\* Numbers stay owned under each of the five kinds of step.
LEMMA NumberStep == ASSUME TypeOK, NumberInv, TableStep PROVE NumberInv'
<1> USE ConstantsAssumption
<1>1. CASE UNCHANGED <<status, facts, reserved, counter>>
  BY <1>1 DEF NumberInv, Numbered, SequencesAreOwned
<1>2. ASSUME NEW r \in Runs, NEW n \in Nat, NEW new \in SUBSET FactSet, InsertStep(r, n, new)
      PROVE  NumberInv'
  <2>1. \A t \in Threads : counter[t] <= counter'[t]
    BY <1>2 DEF InsertStep, TypeOK
  <2>2. \A f \in facts, g \in new : ThreadOf[f.run] = ThreadOf[g.run] => f.seq < g.seq
    BY <1>2 DEF InsertStep, TypeOK, FactSet, NumberInv, Numbered
  <2>3. \A v \in reserved, g \in new : ThreadOf[v.run] = ThreadOf[g.run] => v.seq < g.seq
    BY <1>2 DEF InsertStep, TypeOK, FactSet, ReservedSet, NumberInv, Numbered
  <2>4. Numbered'
    <3>1. \A f \in facts' : f.seq <= counter'[ThreadOf[f.run]]
      BY <1>2, <2>1 DEF InsertStep, TypeOK, FactSet, NumberInv, Numbered
    <3>2. \A v \in reserved' : v.seq <= counter'[ThreadOf[v.run]]
      BY <1>2, <2>1 DEF InsertStep, TypeOK, ReservedSet, NumberInv, Numbered
    <3> QED BY <1>2, <3>1, <3>2 DEF InsertStep, NumberInv, Numbered
  <2>5. SequencesAreOwned'
    <3>1. \A f, g \in facts' : ThreadOf[f.run] = ThreadOf[g.run] /\ f.seq = g.seq => f = g
      BY <1>2, <2>2 DEF InsertStep, TypeOK, FactSet, NumberInv, SequencesAreOwned
    <3>2. \A v \in reserved', f \in facts' :
            ThreadOf[f.run] = ThreadOf[v.run] /\ f.seq = v.seq => f.run = v.run /\ f.key = v.key
      BY <1>2, <2>3 DEF InsertStep, TypeOK, FactSet, ReservedSet, NumberInv, SequencesAreOwned
    <3> QED BY <3>1, <3>2 DEF SequencesAreOwned
  <2> QED BY <2>4, <2>5 DEF NumberInv
<1>3. ASSUME NEW r \in Runs, NEW m \in Messages, ReserveStep(r, m) PROVE NumberInv'
  <2> DEFINE w == [run |-> r, key |-> MessageKey(m), seq |-> Next1(r)]
  <2>1. ThreadOf[r] \in Threads /\ counter[ThreadOf[r]] \in Nat /\ w.seq = counter[ThreadOf[r]] + 1
    BY DEF TypeOK, Next1
  <2>2. reserved' = reserved \cup {w} /\ facts' = facts
        /\ counter' = [counter EXCEPT ![ThreadOf[r]] = @ + 1]
    BY <1>3 DEF ReserveStep, Advance
  <2>3. \A v \in reserved : ThreadOf[v.run] = ThreadOf[r] => v.seq < w.seq /\ v.key # w.key
    BY <1>3, <2>1 DEF ReserveStep, Reservation, NumberInv, Numbered, TypeOK, ReservedSet
  <2>4. \A f \in facts : ThreadOf[f.run] = ThreadOf[r] => f.seq < w.seq
    BY <2>1 DEF NumberInv, Numbered, TypeOK, FactSet
  <2>5. \A t \in Threads : counter[t] <= counter'[t]
    BY <2>1, <2>2 DEF TypeOK
  <2>6. Numbered'
    <3>1. \A f \in facts' : f.seq <= counter'[ThreadOf[f.run]]
      BY <2>2, <2>5 DEF TypeOK, FactSet, NumberInv, Numbered
    <3>2. \A v \in reserved' : v.seq <= counter'[ThreadOf[v.run]]
      BY <2>1, <2>2, <2>5 DEF TypeOK, ReservedSet, NumberInv, Numbered
    <3>3. \A v, u \in reserved' : ThreadOf[v.run] = ThreadOf[u.run]
          /\ (v.seq = u.seq \/ v.key = u.key)
            => v = u
      BY <2>1, <2>2, <2>3 DEF TypeOK, ReservedSet, NumberInv, Numbered
    <3> QED BY <2>2, <3>1, <3>2, <3>3 DEF NumberInv, Numbered
  <2>7. SequencesAreOwned'
    BY <2>1, <2>2, <2>4 DEF SequencesAreOwned, NumberInv, TypeOK, FactSet
  <2> QED BY <2>6, <2>7 DEF NumberInv
<1>4. ASSUME NEW v \in reserved, FillStep(v) PROVE NumberInv'
  <2> DEFINE g == Fact(v.run, "message", v.key, v.seq)
  <2>1. v.run \in Runs /\ v.seq \in Nat /\ v.key[1] = "ai"
    BY DEF TypeOK, ReservedSet
  <2>2. facts' = facts \cup {g} /\ reserved' = reserved /\ counter' = counter
    BY <1>4 DEF FillStep
  <2>3. g.run = v.run /\ g.type = "message" /\ g.key = v.key /\ g.seq = v.seq
    BY DEF Fact
  <2>4. \A f \in facts : ThreadOf[f.run] = ThreadOf[v.run] => f.seq # v.seq
    \* a fact on the reserved number would be the message itself, already there
    BY <1>4, <2>1 DEF FillStep, MessageOf, NumberInv, Numbered, SequencesAreOwned
  <2>5. Numbered'
    BY <2>1, <2>2, <2>3 DEF NumberInv, Numbered
  <2>6. SequencesAreOwned'
    BY <2>2, <2>3, <2>4 DEF NumberInv, Numbered, SequencesAreOwned
  <2> QED BY <2>5, <2>6 DEF NumberInv
<1> QED BY <1>1, <1>2, <1>3, <1>4 DEF TableStep, MoveStep, NoteStep

-----------------------------------------------------------------------------
(* Status and facts.                                                        *)

\* The last of a set of numbered facts is unique.
LEMMA LastIs ==
  ASSUME NEW S, NEW f, IsLast(f, S), \A g \in S : g.seq \in Nat,
         \A g, h \in S : g.seq = h.seq => g = h
  PROVE  HasLast(S) /\ Last(S) = f
<1>1. HasLast(S)
  BY DEF HasLast, IsLast
<1>2. IsLast(Last(S), S)
  BY <1>1, LastIn
<1> QED BY <1>1, <1>2 DEF IsLast

\* The fact that says where a run has moved to is its last lifecycle fact, and no
\* other step touches the lifecycle facts of a run.
LEMMA StatusFactStep ==
  ASSUME TypeOK, NumberInv, StatusFollowsFacts, TableStep, TypeOK', NumberInv'
  PROVE  StatusFollowsFacts'
<1> USE ConstantsAssumption
<1>1. ASSUME NEW r \in Runs, OfCategory(r, "lifecycle")' = OfCategory(r, "lifecycle"),
             status'[r] = status[r], status'[r] # "absent"
      PROVE  HasLast(OfCategory(r, "lifecycle"))' /\ (LastLifecycle(r).type = RunType(status[r]))'
  BY <1>1 DEF StatusFollowsFacts, HasLast, LastLifecycle, Last, IsLast
<1>2. ASSUME NEW r \in Runs, NEW s \in Statuses, NEW n \in Nat, NEW new \in SUBSET FactSet,
             MoveStep(r, s, n, new), NEW q \in Runs, status'[q] # "absent"
      PROVE  HasLast(OfCategory(q, "lifecycle"))' /\ (LastLifecycle(q).type = RunType(status[q]))'
  <2>1. CASE q = r
    <3>1. PICK f \in new : f.type = RunType(s) /\ \A g \in new : Category(g) = "lifecycle" => g = f
      BY <1>2 DEF MoveStep
    <3>2. OfCategory(r, "lifecycle")' = OfCategory(r, "lifecycle") \cup {f}
      BY <1>2, <3>1, RunTypeCategory DEF MoveStep, InsertStep, OfCategory, FactsOf, Category
    <3>3. \A g \in OfCategory(r, "lifecycle") : g.seq <= f.seq
      BY <1>2 DEF MoveStep, InsertStep, OfCategory, FactsOf, NumberInv, Numbered, TypeOK, FactSet
    <3>4. IsLast(f, OfCategory(r, "lifecycle")')
      BY <3>2, <3>3 DEF IsLast, FactSet
    <3>5. /\ \A g \in OfCategory(r, "lifecycle")' : g.seq \in Nat
          /\ \A g, h \in OfCategory(r, "lifecycle")' : g.seq = h.seq => g = h
      BY DEF OfCategory, FactsOf, NumberInv, SequencesAreOwned, TypeOK, FactSet
    <3>6. HasLast(OfCategory(r, "lifecycle")') /\ Last(OfCategory(r, "lifecycle")') = f
      BY <3>4, <3>5, LastIs
    <3>7. status'[r] = s
      BY <1>2 DEF MoveStep, TypeOK
    <3> QED BY <2>1, <3>1, <3>6, <3>7 DEF LastLifecycle, HasLast, Last, IsLast, OfCategory, FactsOf
  <2>2. CASE q # r
    <3>1. OfCategory(q, "lifecycle")' = OfCategory(q, "lifecycle")
      BY <1>2, <2>2 DEF MoveStep, InsertStep, OfCategory, FactsOf, Category
    <3>2. status'[q] = status[q]
      BY <1>2, <2>2 DEF MoveStep, TypeOK
    <3> QED BY <1>1, <1>2, <3>1, <3>2
  <2> QED BY <2>1, <2>2
<1>3. ASSUME status' = status, NEW new, facts' = facts \cup new,
             \A f \in new : f.type = "message",
             NEW q \in Runs, status'[q] # "absent"
      PROVE  HasLast(OfCategory(q, "lifecycle"))' /\ (LastLifecycle(q).type = RunType(status[q]))'
  <2>1. OfCategory(q, "lifecycle")' = OfCategory(q, "lifecycle")
    BY <1>3 DEF OfCategory, FactsOf, Category, RunTypes, ApprovalTypes
  <2> QED BY <1>1, <1>3, <2>1
<1>4. CASE UNCHANGED <<status, facts, reserved, counter>>
  BY <1>4 DEF StatusFollowsFacts, HasLast, LastLifecycle, Last, IsLast, OfCategory, FactsOf,
    Category
<1>5. CASE \E r \in Runs, m \in Messages : ReserveStep(r, m)
  BY <1>5 DEF ReserveStep, StatusFollowsFacts, HasLast, LastLifecycle, Last, IsLast, OfCategory,
              FactsOf, Category
<1>6. ASSUME NEW v \in reserved, FillStep(v) PROVE StatusFollowsFacts'
  <2> DEFINE new == {Fact(v.run, "message", v.key, v.seq)}
  <2>1. status' = status /\ facts' = facts \cup new /\ \A f \in new : f.type = "message"
    BY <1>6 DEF FillStep, Fact
  <2> HIDE DEF new
  <2> QED BY <1>3, <2>1 DEF StatusFollowsFacts
<1>7. ASSUME NEW r \in Runs, NEW new \in SUBSET FactSet, NoteStep(r, new) PROVE StatusFollowsFacts'
  BY <1>3, <1>7 DEF NoteStep, InsertStep, StatusFollowsFacts
<1> QED BY <1>2, <1>4, <1>5, <1>6, <1>7 DEF TableStep, StatusFollowsFacts

-----------------------------------------------------------------------------
(* What is final, and what usage is booked on.                              *)

\* Whatever moves a run or adds lifecycle or approval facts leaves final runs alone.
LEMMA FinalStep ==
  ASSUME TypeOK, TableStep, NEW q \in Runs, status[q] \in Terminal
  PROVE  /\ status'[q] = status[q]
         /\ \A f \in facts' \ facts : f.run = q => Category(f) = "message"
<1>1. ASSUME NEW r \in Runs, NEW s \in Statuses, NEW n \in Nat, NEW new \in SUBSET FactSet,
             MoveStep(r, s, n, new)
      PROVE  status'[q] = status[q] /\ \A f \in facts' \ facts : f.run # q
  <2>1. r # q
    BY <1>1 DEF MoveStep
  <2> QED BY <1>1, <2>1 DEF MoveStep, InsertStep, TypeOK
<1>2. ASSUME NEW f, f.type = "message" PROVE Category(f) = "message"
  BY <1>2 DEF Category, RunTypes, ApprovalTypes
<1>3. ASSUME NEW r \in Runs, NEW new \in SUBSET FactSet, NoteStep(r, new)
      PROVE  status' = status /\ \A f \in facts' \ facts : f.type = "message"
  BY <1>3 DEF NoteStep, InsertStep
<1>4. ASSUME NEW v \in reserved, FillStep(v)
      PROVE  status' = status /\ \A f \in facts' \ facts : f.type = "message"
  BY <1>4 DEF FillStep, Fact
<1>5. CASE UNCHANGED <<status, facts, reserved, counter>>
  BY <1>5
<1>6. ASSUME NEW r \in Runs, NEW m \in Messages, ReserveStep(r, m) PROVE UNCHANGED <<status, facts>>
  BY <1>6 DEF ReserveStep
<1> QED BY <1>1, <1>2, <1>3, <1>4, <1>5, <1>6 DEF TableStep

\* A settlement books on the invocation it settles, and nothing else books.
BookStep ==
  \/ UNCHANGED usage
  \/ \E r \in Runs : \E inv \in Invocations(r), amount \in Amounts :
       /\ UsageRow(r, inv) = {}
       /\ usage' = usage \cup {[run |-> r, inv |-> inv, amount |-> amount, by |-> inv]}

LEMMA NextBook == ASSUME [Next]_vars PROVE BookStep
<1>1. ASSUME NEW r \in Runs, Settle(r) PROVE BookStep
  <2>1. PICK inv \in Invocations(r), amount \in Amounts \cup {NoReport} :
          CurrentInvocation(r, inv) /\ RecordUsage(r, inv, amount)
    BY <1>1 DEF Settle, SettleRunning, SettleLate
  <2> QED BY <2>1 DEF CurrentInvocation, RecordUsage, BookStep
<1>2. ASSUME ~\E r \in Runs : Settle(r) PROVE UNCHANGED usage
  BY <1>2 DEF Next, vars, CreateThread, CreateRun, CancelRunning, CancelPaused, AcceptApproval,
              Scan, WriteMessage, ReserveSequence, FailRecovery
<1> QED BY <1>1, <1>2 DEF BookStep

LEMMA BookedStep ==
  ASSUME UsageOfItsInvocation, BookStep, TableStep
  PROVE  UsageOfItsInvocation'
<1>1. facts \subseteq facts'
  BY DEF TableStep, MoveStep, NoteStep, InsertStep, ReserveStep, FillStep
<1>3. \A r : Invocations(r) \subseteq Invocations(r)'
  BY <1>1 DEF Invocations, Facts
<1>4. CASE UNCHANGED usage
  BY <1>3, <1>4 DEF UsageOfItsInvocation
<1>5. ASSUME NEW r \in Runs, NEW inv \in Invocations(r), NEW amount \in Amounts,
             UsageRow(r, inv) = {},
             usage' = usage \cup {[run |-> r, inv |-> inv, amount |-> amount, by |-> inv]}
      PROVE  UsageOfItsInvocation'
  <2> DEFINE row == [run |-> r, inv |-> inv, amount |-> amount, by |-> inv]
  <2>1. row.run = r /\ row.inv = inv /\ row.by = inv
    OBVIOUS
  <2>2. \A u \in usage : ~(u.run = r /\ u.inv = inv)
    BY <1>5 DEF UsageRow
  <2> HIDE DEF row
  <2>3. usage' = usage \cup {row}
    BY <1>5 DEF row
  <2>4. \A u \in usage' : u.by = u.inv /\ u.inv \in Invocations(u.run)'
    BY <1>3, <1>5, <2>1, <2>3 DEF UsageOfItsInvocation
  <2>5. \A u, v \in usage' : u.run = v.run /\ u.inv = v.inv => u = v
    BY <2>1, <2>2, <2>3 DEF UsageOfItsInvocation
  <2> QED BY <2>4, <2>5 DEF UsageOfItsInvocation
<1> QED BY <1>4, <1>5 DEF BookStep

-----------------------------------------------------------------------------
(* What a recovery closes.                                                  *)

RecoveryKeys == {RecoveryKey(LostCode), RecoveryKey(CorruptCode)}
Before(f) == {g \in OfCategory(f.run, "lifecycle") : g.seq < f.seq}
Judged(f) ==
  /\ f.key = RecoveryKey(LostCode) => Last(Before(f)).type = "run_running"
  /\ f.key = RecoveryKey(CorruptCode) => Last(Before(f)).type = "run_interrupted"

\* Only fail_recovery writes a fact that gives a run up.
LEMMA RecoveryFacts ==
  ASSUME [Next]_vars, NEW f \in facts' \ facts, f.key \in RecoveryKeys
  PROVE  \E s \in scanned :
           /\ FailRecovery(s)
           /\ f = Fact(s.run, "run_error", RecoveryKey(RecoveryCode(s)), Next1(s.run))
<1> USE DEF RecoveryKeys, RecoveryKey, LostCode, CorruptCode
<1>1. ASSUME NEW r, NEW type, NEW key, InsertFact(r, type, key), key \notin RecoveryKeys
      PROVE  FALSE
  BY <1>1 DEF InsertFact, Fact
<1>2. ASSUME NEW r, NEW type1, NEW key1, NEW type2, NEW key2,
             InsertFacts(r, type1, key1, type2, key2),
             key1 \notin RecoveryKeys, key2 \notin RecoveryKeys
      PROVE  FALSE
  BY <1>2 DEF InsertFacts, Fact
<1>3. ASSUME NEW r \in Runs, NEW e \in Entries, CreateRun(r, e) PROVE FALSE
  BY <1>2, <1>3 DEF CreateRun, RunningKey, EntryKey
<1>4. ASSUME NEW r \in Runs, Settle(r) PROVE FALSE
  <2>1. \A c : SettledKey(c) \notin RecoveryKeys /\ RequiredKey(c) \notin RecoveryKeys
    BY DEF SettledKey, RequiredKey
  <2>2. ASSUME NEW inv, NEW amount, NEW outcome, NEW c, SettleRunning(r, outcome, inv, amount, c)
        PROVE FALSE
    <3>1. CASE outcome = "interrupted"
      BY <1>2, <2>1, <2>2, <3>1 DEF SettleRunning
    <3>2. CASE outcome # "interrupted"
      BY <1>1, <2>1, <2>2, <3>2 DEF SettleRunning
    <3> QED BY <3>1, <3>2
  <2>3. ASSUME NEW inv, NEW amount, SettleLate(r, inv, amount) PROVE FALSE
    BY <2>3 DEF SettleLate
  <2> QED BY <1>4, <2>2, <2>3 DEF Settle
<1>5. ASSUME NEW r \in Runs, CancelRunning(r) PROVE FALSE
  BY <1>1, <1>5 DEF CancelRunning, CancelledKey
<1>6. ASSUME NEW r \in Runs, CancelPaused(r) \/ AcceptApproval(r) PROVE FALSE
  BY <1>2, <1>6 DEF CancelPaused, AcceptApproval, CancelledKey, InvalidatedKey, ResolvedKey,
    RunningKey
<1>7. ASSUME NEW r \in Runs, NEW m \in Messages, WriteMessage(r, m) PROVE FALSE
  BY <1>1, <1>7 DEF WriteMessage, MessageKey, Fact
<1>8. ASSUME NEW s \in scanned, FailRecovery(s)
      PROVE  f = Fact(s.run, "run_error", RecoveryKey(RecoveryCode(s)), Next1(s.run))
  BY <1>8 DEF FailRecovery, InsertFact
<1> QED BY <1>3, <1>4, <1>5, <1>6, <1>7, <1>8
        DEF Next, vars, CreateThread, Scan, ReserveSequence

\* What came before a lifecycle fact does not change any more.
LEMMA BeforeStays ==
  ASSUME TypeOK, NumberInv, TableStep, NEW f \in facts
  PROVE  Before(f)' = Before(f)
<1> USE ConstantsAssumption
<1>1. f.run \in Runs /\ f.seq \in Nat /\ f.seq <= counter[ThreadOf[f.run]]
      /\ counter[ThreadOf[f.run]] \in Nat
  BY DEF TypeOK, FactSet, NumberInv, Numbered
<1>2. ASSUME NEW r \in Runs, NEW n \in Nat, NEW new \in SUBSET FactSet, InsertStep(r, n, new)
      PROVE  Before(f)' = Before(f)
  <2>1. \A g \in new : g.run = f.run => f.seq < g.seq
    BY <1>1, <1>2 DEF InsertStep, FactSet
  <2>2. \A g \in new : ~(g.run = f.run /\ g.seq < f.seq)
    BY <1>1, <2>1 DEF FactSet
  <2> QED BY <1>2, <2>2 DEF InsertStep, Before, OfCategory, FactsOf, Category
<1>3. ASSUME NEW v \in reserved, FillStep(v) PROVE Before(f)' = Before(f)
  <2>1. Category(Fact(v.run, "message", v.key, v.seq)) = "message"
    BY DEF Category, Fact, RunTypes, ApprovalTypes
  <2> QED BY <1>3, <2>1 DEF FillStep, Before, OfCategory, FactsOf, Category
<1>4. CASE facts' = facts
  BY <1>4 DEF Before, OfCategory, FactsOf, Category
<1> QED BY <1>2, <1>3, <1>4 DEF TableStep, MoveStep, NoteStep, ReserveStep

LEMMA JudgedStep ==
  ASSUME TypeOK, NumberInv, StatusFollowsFacts, TableStep, [Next]_vars, RecoveryClosesWhatItRead
  PROVE  RecoveryClosesWhatItRead'
<1> USE ConstantsAssumption
<1>1. SUFFICES ASSUME NEW f \in facts' PROVE Judged(f)'
  BY DEF RecoveryClosesWhatItRead, Judged, Before
<1>2. CASE f \in facts
  <2>1. Judged(f)
    BY <1>2 DEF RecoveryClosesWhatItRead, Judged, Before
  <2>2. Before(f)' = Before(f)
    BY <1>2, BeforeStays
  <2> QED BY <2>1, <2>2 DEF Judged, Last, IsLast, RecoveryKey
<1>3. CASE f \notin facts /\ f.key \in RecoveryKeys
  <2>1. PICK s \in scanned :
          FailRecovery(s) /\ f = Fact(s.run, "run_error", RecoveryKey(RecoveryCode(s)), Next1(s.run))
    BY <1>3, RecoveryFacts
  <2> DEFINE r == s.run
  <2>2. /\ r \in Runs /\ status[r] \in Active /\ s.status = status[r]
        /\ facts' = facts \cup {f} /\ f.run = r /\ f.type = "run_error" /\ f.seq = Next1(r)
        /\ f.key = RecoveryKey(RecoveryCode(s))
    BY <2>1 DEF FailRecovery, StillExpected, Snapshot, InsertFact, Fact, TypeOK, SnapshotSet
  <2>3. \A g \in facts : g.run = r => g.seq < f.seq
    BY <2>2 DEF NumberInv, Numbered, Next1, TypeOK, FactSet
  <2>4. ~(f.seq < f.seq)
    BY <2>2 DEF Next1, TypeOK
  <2>5. Before(f)' = OfCategory(r, "lifecycle")
    BY <2>2, <2>3, <2>4 DEF Before, OfCategory, FactsOf, Category
  <2>6. Last(OfCategory(r, "lifecycle")).type = RunType(status[r])
    BY <2>2 DEF StatusFollowsFacts, LastLifecycle, Active
  <2>7. Last(Before(f))'.type = RunType(status[r])
    BY <2>5, <2>6 DEF Last, IsLast
  <2>8. /\ f.key = RecoveryKey(LostCode) => status[r] = "running"
        /\ f.key = RecoveryKey(CorruptCode) => status[r] = "interrupted"
    BY <2>2 DEF RecoveryKey, RecoveryCode, LostCode, CorruptCode, Active
  <2> QED BY <2>7, <2>8 DEF Judged, RunType, RecoveryKey, LostCode, CorruptCode
<1>4. CASE f.key \notin RecoveryKeys
  BY <1>4 DEF Judged, RecoveryKeys, RecoveryKey
<1> QED BY <1>2, <1>3, <1>4

-----------------------------------------------------------------------------
(* What a pause can be decided by.                                          *)

Decidable(r) ==
  /\ Pending(r)
  /\ LastRunning(r).seq < LastApproval(r).seq
  /\ LastApproval(r).seq < LastLifecycle(r).seq
  /\ \A key \in {ResolvedKey(PendingCheckpoint(r)), RunningKey(PendingCheckpoint(r)),
                 InvalidatedKey(PendingCheckpoint(r)), CancelledKey} : FreshKey(r, key)
  /\ PendingCheckpoint(r) \in Checkpoints
  /\ LastApproval(r).key = RequiredKey(PendingCheckpoint(r))

\* a key that decides a pause is only there when the pause is
Decides(f) == \/ f.key[1] \in {"approval:resolved", "approval:invalidated"}
              \/ f.key[1] = "running" /\ f.key[2] # NoCheckpoint

DecisionInv ==
  /\ \A r \in Runs : status[r] = "interrupted" => Decidable(r)
  /\ \A f \in facts : Decides(f) => ~FreshKey(f.run, RequiredKey(f.key[2]))
  /\ \A f \in facts : f.key = CancelledKey => status[f.run] = "cancelled"
  /\ \A r \in Runs : status[r] # "absent" => HasLast(Facts(r, "run_running"))

\* A run comes to a pause only by a settlement.
LEMMA PauseBegins ==
  ASSUME TypeOK, [Next]_vars, NEW r \in Runs, status'[r] = "interrupted", status[r] # "interrupted"
  PROVE  \E inv, amount : \E c \in Checkpoints : SettleRunning(r, "interrupted", inv, amount, c)
<1>1. ASSUME NEW q \in Runs, NEW inv, NEW amount, NEW outcome \in Outcomes, NEW c \in Checkpoints,
             SettleRunning(q, outcome, inv, amount, c)
      PROVE  SettleRunning(r, "interrupted", inv, amount, c)
  <2>1. q = r /\ outcome = "interrupted"
    BY <1>1 DEF SettleRunning, SetStatus, TypeOK
  <2> QED BY <1>1, <2>1
<1>2. ASSUME NEW q \in Runs, NEW inv, NEW amount, SettleLate(q, inv, amount) PROVE FALSE
  BY <1>2 DEF SettleLate
<1>3. ASSUME NEW q \in Runs, Settle(q)
      PROVE  \E inv, amount : \E c \in Checkpoints : SettleRunning(r, "interrupted", inv, amount, c)
  BY <1>1, <1>2, <1>3 DEF Settle
<1>4. ASSUME NEW q \in Runs, NEW e \in Entries, CreateRun(q, e) PROVE FALSE
  BY <1>4 DEF CreateRun, SetStatus, TypeOK
<1>5. ASSUME NEW q \in Runs, CancelRunning(q) \/ CancelPaused(q) \/ AcceptApproval(q) PROVE FALSE
  BY <1>5 DEF CancelRunning, CancelPaused, AcceptApproval, SetStatus, TypeOK
<1>6. ASSUME NEW q \in Runs, NEW m \in Messages, WriteMessage(q, m) \/ ReserveSequence(q, m)
      PROVE  FALSE
  BY <1>6 DEF WriteMessage, ReserveSequence
<1>7. ASSUME NEW s \in scanned, FailRecovery(s) PROVE FALSE
  BY <1>7 DEF FailRecovery, SetStatus, TypeOK, SnapshotSet
<1> QED BY <1>3, <1>4, <1>5, <1>6, <1>7 DEF Next, vars, CreateThread, Scan

\* What a settlement that pauses records can be decided.
LEMMA PauseDecidable ==
  ASSUME TypeOK, NumberInv, DecisionInv, TypeOK', NumberInv', NEW r \in Runs,
         NEW inv, NEW amount, NEW c \in Checkpoints, SettleRunning(r, "interrupted", inv, amount, c)
  PROVE  Decidable(r)' /\ PendingCheckpoint(r)' = c
<1> USE ConstantsAssumption
<1> DEFINE f == Fact(r, "approval_required", RequiredKey(c), Next1(r))
           g == Fact(r, "run_interrupted", SettledKey(LastRunning(r).seq), Next2(r))
<1>1. /\ FreshKey(r, RequiredKey(c))
      /\ facts' = facts \cup {f, g}
      /\ status[r] = "running"
  BY DEF SettleRunning, InsertFacts, RunType
<1>2. /\ f.run = r /\ f.type = "approval_required" /\ f.key = RequiredKey(c) /\ f.seq = Next1(r)
      /\ g.run = r /\ g.type = "run_interrupted" /\ g.seq = Next2(r)
      /\ g.key = SettledKey(LastRunning(r).seq)
  BY DEF Fact
<1>3. /\ \A h \in facts : h.run = r => h.seq \in Nat /\ h.seq < Next1(r)
      /\ Next1(r) \in Nat /\ Next2(r) \in Nat /\ Next1(r) < Next2(r)
  BY DEF NumberInv, Numbered, TypeOK, FactSet, Next1, Next2
<1> HIDE DEF f, g
<1>4. /\ OfCategory(r, "approval")' = OfCategory(r, "approval") \cup {f}
      /\ OfCategory(r, "lifecycle")' = OfCategory(r, "lifecycle") \cup {g}
      /\ Facts(r, "run_running")' = Facts(r, "run_running")
  BY <1>1, <1>2 DEF OfCategory, FactsOf, Facts, Category, RunTypes, ApprovalTypes
<1>5. \A S \in SUBSET facts' : (\A h \in S : h.run = r) =>
        /\ \A h \in S : h.seq \in Nat
        /\ \A h, k \in S : h.seq = k.seq => h = k
  BY DEF TypeOK, FactSet, NumberInv, SequencesAreOwned
<1>6. HasLast(OfCategory(r, "approval")') /\ Last(OfCategory(r, "approval")') = f
  <2>1. IsLast(f, OfCategory(r, "approval")')
    BY <1>2, <1>3, <1>4 DEF IsLast, OfCategory, FactsOf
  <2>2. OfCategory(r, "approval")' \subseteq facts'
        /\ \A h \in OfCategory(r, "approval")' : h.run = r
    BY DEF OfCategory, FactsOf
  <2> QED BY <1>5, <2>1, <2>2, LastIs
<1>7. HasLast(OfCategory(r, "lifecycle")') /\ Last(OfCategory(r, "lifecycle")') = g
  <2>1. IsLast(g, OfCategory(r, "lifecycle")')
    BY <1>2, <1>3, <1>4 DEF IsLast, OfCategory, FactsOf
  <2>2. OfCategory(r, "lifecycle")' \subseteq facts'
        /\ \A h \in OfCategory(r, "lifecycle")' : h.run = r
    BY DEF OfCategory, FactsOf
  <2> QED BY <1>5, <2>1, <2>2, LastIs
<1>8. LastApproval(r)' = f /\ LastLifecycle(r)' = g /\ PendingCheckpoint(r)' = c
  <2>1. LastApproval(r)' = f
    BY <1>6 DEF LastApproval, Last, IsLast, OfCategory, FactsOf
  <2>2. LastLifecycle(r)' = g
    BY <1>7 DEF LastLifecycle, Last, IsLast, OfCategory, FactsOf
  <2> QED BY <1>2, <2>1, <2>2 DEF PendingCheckpoint, RequiredKey
<1>9. Pending(r)'
  BY <1>2, <1>6, <1>8 DEF Pending, HasLast, IsLast
<1>10. LastRunning(r)' = LastRunning(r)
  BY <1>4 DEF LastRunning, Last, IsLast
<1>11. LastRunning(r).seq < Next1(r)
  <2>1. HasLast(Facts(r, "run_running"))
    BY <1>1 DEF DecisionInv
  <2> QED BY <1>3, <2>1, LastIn DEF LastRunning, Facts, IsLast
<1>12. \A k \in {ResolvedKey(c), RunningKey(c), InvalidatedKey(c), CancelledKey} : FreshKey(r, k)'
  <2>1. \A h \in facts : h.run = r =>
          h.key \notin {ResolvedKey(c), RunningKey(c), InvalidatedKey(c), CancelledKey}
    BY <1>1 DEF DecisionInv, Decides, ResolvedKey, RunningKey, InvalidatedKey, CancelledKey
  <2>2. {f.key, g.key} \cap {ResolvedKey(c), RunningKey(c), InvalidatedKey(c), CancelledKey} = {}
    BY <1>2 DEF RequiredKey, SettledKey, ResolvedKey, RunningKey, InvalidatedKey, CancelledKey
  <2> QED BY <1>1, <2>1, <2>2 DEF FreshKey, ResolvedKey, RunningKey, InvalidatedKey, CancelledKey
<1> QED BY <1>2, <1>3, <1>8, <1>9, <1>10, <1>11, <1>12
        DEF Decidable, FreshKey, ResolvedKey, RunningKey, InvalidatedKey, CancelledKey, RequiredKey

\* A paused run stays decidable while it is paused: only messages are added to it.
LEMMA DecidableStays ==
  ASSUME TypeOK, NumberInv, TableStep, TypeOK', NumberInv', NEW r \in Runs,
         status[r] = "interrupted", status'[r] = "interrupted", Decidable(r)
  PROVE  Decidable(r)'
<1>1. facts \subseteq facts' /\ \A f \in facts' \ facts : f.run = r => f.type = "message"
  <2>1. ASSUME NEW q \in Runs, NEW s \in Statuses, NEW n \in Nat, NEW new \in SUBSET FactSet,
               MoveStep(q, s, n, new)
        PROVE  facts \subseteq facts' /\ \A f \in facts' \ facts : f.run # r
    <3>1. q # r
      BY <2>1 DEF MoveStep, TypeOK
    <3> QED BY <2>1, <3>1 DEF MoveStep, InsertStep
  <2> QED BY <2>1 DEF TableStep, NoteStep, InsertStep, ReserveStep, FillStep, Fact
<1>2. /\ OfCategory(r, "approval")' = OfCategory(r, "approval")
      /\ OfCategory(r, "lifecycle")' = OfCategory(r, "lifecycle")
      /\ Facts(r, "run_running")' = Facts(r, "run_running")
  BY <1>1 DEF OfCategory, FactsOf, Facts, Category, RunTypes, ApprovalTypes
<1>3. /\ LastApproval(r)' = LastApproval(r)
      /\ LastLifecycle(r)' = LastLifecycle(r)
      /\ LastRunning(r)' = LastRunning(r)
      /\ HasLast(OfCategory(r, "approval"))' = HasLast(OfCategory(r, "approval"))
  BY <1>2 DEF LastApproval, LastLifecycle, LastRunning, Last, HasLast, IsLast
<1>4. PendingCheckpoint(r)' = PendingCheckpoint(r) /\ Pending(r)' = Pending(r)
  BY <1>3 DEF PendingCheckpoint, Pending
<1>5. ASSUME NEW key, key[1] \notin {"human", "ai"}, FreshKey(r, key) PROVE FreshKey(r, key)'
  <2>1. \A f \in facts' \ facts : f.run = r => f.key[1] \in {"human", "ai"}
    BY <1>1 DEF NumberInv, Numbered
  <2> QED BY <1>5, <2>1 DEF FreshKey
<1>6. \A c : \A k \in {ResolvedKey(c), RunningKey(c), InvalidatedKey(c), CancelledKey} :
        k[1] \notin {"human", "ai"}
  BY DEF ResolvedKey, RunningKey, InvalidatedKey, CancelledKey
<1>7. \A k \in {ResolvedKey(PendingCheckpoint(r)), RunningKey(PendingCheckpoint(r)),
                InvalidatedKey(PendingCheckpoint(r)), CancelledKey} : FreshKey(r, k)'
  BY <1>5, <1>6 DEF Decidable
<1> QED BY <1>3, <1>4, <1>7 DEF Decidable, FreshKey, RequiredKey, ResolvedKey, RunningKey,
                              InvalidatedKey, CancelledKey

\* Which facts can decide a pause or cancel a run, and when.
LEMMA DecidingFacts ==
  ASSUME TypeOK, DecisionInv, [Next]_vars, NEW f \in facts' \ facts
  PROVE  /\ Decides(f) => ~FreshKey(f.run, RequiredKey(f.key[2]))
         /\ f.key = CancelledKey => status'[f.run] = "cancelled"
<1> DEFINE Good(h) == /\ Decides(h) => ~FreshKey(h.run, RequiredKey(h.key[2]))
                      /\ h.key = CancelledKey => status'[h.run] = "cancelled"
<1>1. ASSUME NEW r, NEW type, NEW key, InsertFact(r, type, key)
      PROVE  f.run = r /\ f.key = key
  BY <1>1 DEF InsertFact, Fact
<1>2. ASSUME NEW r, NEW type1, NEW key1, NEW type2, NEW key2,
             InsertFacts(r, type1, key1, type2, key2)
      PROVE  f.run = r /\ f.key \in {key1, key2}
  BY <1>2 DEF InsertFacts, Fact
<1>3. \A c : CancelledKey \notin {SettledKey(c), RequiredKey(c), EntryKey(c), MessageKey(c),
                                 RunningKey(NoCheckpoint), RecoveryKey(LostCode),
                                 RecoveryKey(CorruptCode)}
  BY DEF SettledKey, RequiredKey, EntryKey, MessageKey, RunningKey, RecoveryKey, LostCode,
         CorruptCode, CancelledKey
<1>4. \A c : f.key \in {SettledKey(c), RequiredKey(c), EntryKey(c), MessageKey(c),
                        RunningKey(NoCheckpoint), RecoveryKey(LostCode), RecoveryKey(CorruptCode)}
         => Good(f)
  BY <1>3 DEF Decides, SettledKey, RequiredKey, EntryKey, MessageKey, RunningKey, RecoveryKey,
              LostCode, CorruptCode, CancelledKey
<1>5. ASSUME NEW r \in Runs, NEW e \in Entries, CreateRun(r, e) PROVE Good(f)
  BY <1>2, <1>4, <1>5 DEF CreateRun
<1>6. ASSUME NEW r \in Runs, NEW inv, NEW amount, NEW outcome \in Outcomes, NEW c,
             SettleRunning(r, outcome, inv, amount, c)
      PROVE  Good(f)
  <2>1. CASE outcome = "interrupted"
    BY <1>2, <1>4, <1>6, <2>1 DEF SettleRunning
  <2>2. CASE outcome # "interrupted"
    BY <1>1, <1>4, <1>6, <2>2 DEF SettleRunning
  <2> QED BY <2>1, <2>2
<1>7. ASSUME NEW r \in Runs, CancelRunning(r) PROVE Good(f)
  <2>1. f.run = r /\ f.key = CancelledKey
    BY <1>1, <1>7 DEF CancelRunning
  <2> QED BY <1>7, <2>1 DEF CancelRunning, SetStatus, TypeOK, Decides, CancelledKey
<1>8. ASSUME NEW r \in Runs, CancelPaused(r) \/ AcceptApproval(r) PROVE Good(f)
  <2> DEFINE c == PendingCheckpoint(r)
  <2>1. /\ f.run = r
        /\ \/ CancelPaused(r) /\ f.key \in {InvalidatedKey(c), CancelledKey}
           \/ AcceptApproval(r) /\ f.key \in {ResolvedKey(c), RunningKey(c)}
    BY <1>2, <1>8 DEF CancelPaused, AcceptApproval
  <2>2. ~FreshKey(r, RequiredKey(c))
    <3>1. Decidable(r) /\ HasLast(OfCategory(r, "approval"))
      BY <1>8 DEF DecisionInv, CancelPaused, AcceptApproval, Decidable, Pending
    <3>2. LastApproval(r) \in facts /\ LastApproval(r).run = r
      BY <3>1, LastIn DEF LastApproval, IsLast, OfCategory, FactsOf
    <3> QED BY <3>1, <3>2 DEF Decidable, FreshKey
  <2>3. CancelPaused(r) => status'[r] = "cancelled"
    BY DEF CancelPaused, SetStatus, TypeOK
  <2> HIDE DEF c
  <2> QED BY <2>1, <2>2, <2>3 DEF Decides, InvalidatedKey, CancelledKey, ResolvedKey, RunningKey
<1>9. ASSUME NEW r \in Runs, NEW m \in Messages, WriteMessage(r, m) PROVE Good(f)
  <2>1. f.key = MessageKey(m)
    BY <1>1, <1>9 DEF WriteMessage, Fact
  <2> QED BY <1>4, <2>1
<1>10. ASSUME NEW s \in scanned, FailRecovery(s) PROVE Good(f)
  <2>1. f.key = RecoveryKey(RecoveryCode(s))
    BY <1>1, <1>10 DEF FailRecovery
  <2> QED BY <1>4, <2>1 DEF RecoveryCode
<1> QED BY <1>5, <1>6, <1>7, <1>8, <1>9, <1>10
        DEF Next, vars, Settle, SettleLate, CreateThread, Scan, ReserveSequence

\* A run that is there has begun an invocation.
LEMMA RunningFactStep ==
  ASSUME TypeOK, NumberInv, DecisionInv, TableStep, StatusStep, TypeOK', NumberInv',
         NEW q \in Runs, status'[q] # "absent"
  PROVE  HasLast(Facts(q, "run_running"))'
<1> USE ConstantsAssumption
<1>1. ASSUME Facts(q, "run_running")' = Facts(q, "run_running"), status[q] # "absent"
      PROVE  HasLast(Facts(q, "run_running"))'
  BY <1>1 DEF DecisionInv, HasLast, IsLast
<1>2. ASSUME NEW r \in Runs, NEW s \in Statuses, NEW n \in Nat, NEW new \in SUBSET FactSet,
             MoveStep(r, s, n, new)
      PROVE  HasLast(Facts(q, "run_running"))'
  <2>1. PICK f \in new : f.type = RunType(s) /\ \A g \in new : Category(g) = "lifecycle" => g = f
    BY <1>2 DEF MoveStep
  <2>2. \A g : g.type = "run_running" => Category(g) = "lifecycle"
    BY DEF Category, RunTypes
  <2>3. /\ f \in FactSet /\ f.run = r /\ facts' = facts \cup new /\ status'[r] = s
        /\ \A g \in facts : g.run = r => g.seq < f.seq
    BY <1>2, <2>1 DEF MoveStep, InsertStep, TypeOK, FactSet, NumberInv, Numbered
  <2>4. CASE q = r /\ s = "running"
    <3>1. f.type = "run_running"
      BY <2>1, <2>4 DEF RunType
    <3>2. Facts(q, "run_running")' = Facts(q, "run_running") \cup {f}
      BY <1>2, <2>1, <2>2, <2>3, <2>4, <3>1 DEF MoveStep, InsertStep, Facts
    <3>3. IsLast(f, Facts(q, "run_running")')
      BY <2>3, <2>4, <3>2 DEF IsLast, Facts, FactSet, TypeOK
    <3> QED BY <3>3 DEF HasLast, IsLast, Facts
  <2>5. CASE q = r /\ s # "running"
    <3>1. f.type # "run_running"
      BY <2>1, <2>5 DEF RunType, Statuses, Outcomes
    <3>2. \A g \in new : g.type # "run_running"
      BY <2>1, <2>2, <3>1
    <3>3. Facts(q, "run_running")' = Facts(q, "run_running")
      BY <2>3, <3>2 DEF Facts
    <3>4. status[q] # "absent"
      BY <2>3, <2>5 DEF StatusStep, TypeOK, Active, Statuses
    <3> QED BY <1>1, <3>3, <3>4
  <2>6. CASE q # r
    BY <1>1, <1>2, <2>6 DEF MoveStep, InsertStep, Facts, TypeOK
  <2> QED BY <2>4, <2>5, <2>6
<1>3. ASSUME status' = status, \A f \in facts' \ facts : f.type = "message", facts \subseteq facts'
      PROVE  HasLast(Facts(q, "run_running"))'
  <2>1. Facts(q, "run_running")' = Facts(q, "run_running")
    BY <1>3 DEF Facts
  <2> QED BY <1>1, <1>3, <2>1
<1> QED BY <1>2, <1>3 DEF TableStep, NoteStep, InsertStep, ReserveStep, FillStep, Fact

LEMMA DecisionStep ==
  ASSUME TypeOK, NumberInv, DecisionInv, TableStep, StatusStep, [Next]_vars, TypeOK', NumberInv'
  PROVE  DecisionInv'
<1>1. ASSUME NEW r \in Runs, status'[r] = "interrupted" PROVE Decidable(r)'
  <2>1. CASE status[r] = "interrupted"
    BY <1>1, <2>1, DecidableStays DEF DecisionInv
  <2>2. CASE status[r] # "interrupted"
    BY <1>1, <2>2, PauseBegins, PauseDecidable
  <2> QED BY <2>1, <2>2
<1>2. facts \subseteq facts'
  BY DEF TableStep, MoveStep, NoteStep, InsertStep, ReserveStep, FillStep
<1>3. \A r, key : ~FreshKey(r, key) => ~FreshKey(r, key)'
  BY <1>2 DEF FreshKey
<1>4. ASSUME NEW f \in facts', Decides(f) PROVE ~FreshKey(f.run, RequiredKey(f.key[2]))'
  <2>1. ~FreshKey(f.run, RequiredKey(f.key[2]))
    BY <1>4, DecidingFacts DEF DecisionInv
  <2> QED BY <1>3, <2>1
<1>5. ASSUME NEW f \in facts', f.key = CancelledKey PROVE status'[f.run] = "cancelled"
  <2>1. CASE f \in facts
    BY <1>5, <2>1, FinalStep DEF DecisionInv, Terminal, TypeOK, FactSet
  <2>2. CASE f \notin facts
    BY <1>5, <2>2, DecidingFacts
  <2> QED BY <2>1, <2>2
<1>6. \A r \in Runs : status'[r] # "absent" => HasLast(Facts(r, "run_running"))'
  BY RunningFactStep
<1> QED BY <1>1, <1>4, <1>5, <1>6
        DEF DecisionInv, Decides, FreshKey, RequiredKey, CancelledKey

-----------------------------------------------------------------------------
(* The theorems.                                                            *)

LifecycleInv ==
  /\ TypeOK /\ NumberInv /\ StatusFollowsFacts /\ SlotInv
  /\ UsageOfItsInvocation /\ RecoveryClosesWhatItRead /\ DecisionInv

LEMMA LifecycleInvariant == Spec => []LifecycleInv
<1>1. Init => LifecycleInv
  BY ConstantsAssumption DEF Init, LifecycleInv, TypeOK, NumberInv, Numbered, SequencesAreOwned,
                             StatusFollowsFacts, SlotInv, OneActiveRun, Active,
                             UsageOfItsInvocation, RecoveryClosesWhatItRead, DecisionInv
<1>2. LifecycleInv /\ [Next]_vars => LifecycleInv'
  <2> SUFFICES ASSUME LifecycleInv, [Next]_vars PROVE LifecycleInv'
    OBVIOUS
  <2>1. TypeOK'
    BY TypeStep DEF LifecycleInv
  <2>2. TableStep
    BY NextTable DEF LifecycleInv
  <2>3. NumberInv'
    BY <2>2, NumberStep DEF LifecycleInv
  <2>4. StatusFollowsFacts'
    BY <2>1, <2>2, <2>3, StatusFactStep DEF LifecycleInv
  <2>5. SlotInv'
    BY NextStatus, SlotStep DEF LifecycleInv, TypeOK
  <2>6. UsageOfItsInvocation'
    BY <2>2, NextBook, BookedStep DEF LifecycleInv
  <2>7. RecoveryClosesWhatItRead'
    BY <2>2, JudgedStep DEF LifecycleInv
  <2>8. StatusStep
    BY NextStatus DEF LifecycleInv, TypeOK
  <2>9. DecisionInv'
    BY <2>1, <2>2, <2>3, <2>8, DecisionStep DEF LifecycleInv
  <2> QED BY <2>1, <2>3, <2>4, <2>5, <2>6, <2>7, <2>9 DEF LifecycleInv
<1> QED BY <1>1, <1>2, PTL DEF Spec

\* Whatever transactions commit, in whatever order, every table holds rows of its
\* schema (schema.py:14-81).
THEOREM TypeCorrect == Spec => []TypeOK
  BY LifecycleInvariant, PTL DEF LifecycleInv

\* At most one Run of a thread is running or waiting for approval (runs.py:88).
THEOREM OneActive == Spec => []OneActiveRun
  BY LifecycleInvariant, PTL DEF LifecycleInv, SlotInv

\* The status of a Run is the one its last lifecycle fact announced (runs.py:66-441).
THEOREM StatusFactAgreement == Spec => []StatusFollowsFacts
  BY LifecycleInvariant, PTL DEF LifecycleInv

\* No two facts of a thread share a number, and a reserved number belongs to its
\* message (event_store.py:28-79, 276-283).
THEOREM NumbersOwned == Spec => []SequencesAreOwned
  BY LifecycleInvariant, PTL DEF LifecycleInv, NumberInv

\* Usage is booked once for an invocation, on the one that measured it, also when
\* a cancellation or a second settlement came first (runs.py:181-193).
THEOREM UsageBookedOnce == Spec => []UsageOfItsInvocation
  BY LifecycleInvariant, PTL DEF LifecycleInv

\* No transaction moves a final Run or adds a lifecycle or approval fact to it
\* (runs.py:196-227, 283, 326, 391).
THEOREM FinalForGood == Spec => TerminalIsFinal
<1>1. LifecycleInv /\ [Next]_vars =>
        [\A r \in Runs : status[r] \in Terminal =>
           /\ status'[r] = status[r]
           /\ \A f \in facts' \ facts : f.run = r => Category(f) = "message"]_vars
  BY NextTable, FinalStep DEF LifecycleInv
<1> QED BY <1>1, LifecycleInvariant, PTL DEF Spec, TerminalIsFinal

\* A recovery gives up only what it has judged, although the snapshot it acts upon
\* may be old (runs.py:280-302).
THEOREM RecoveryJudges == Spec => []RecoveryClosesWhatItRead
  BY LifecycleInvariant, PTL DEF LifecycleInv

\* A paused Run can be resumed and cancelled: its approval is the last one, later
\* than its invocation, and no key a decision needs is taken, because keys of
\* decisions only ever follow the key of their pause (runs.py:330-351, 391-426).
THEOREM PauseIsDecidable == Spec => []PausedIsDecidable
<1>1. DecisionInv => PausedIsDecidable
  BY DEF DecisionInv, Decidable, PausedIsDecidable
<1> QED BY <1>1, LifecycleInvariant, PTL DEF LifecycleInv

-----------------------------------------------------------------------------
(* The tables keep the promise.                                             *)

\* The promise's pending, begun and billed, read off the tables.
PendingOf == [r \in Runs |-> IF status[r] = "interrupted" THEN PendingCheckpoint(r) ELSE NoCheckpoint]
Begun     == {<<f.run, f.seq>> : f \in {g \in facts : g.type = "run_running"}}
Billed    == {<<u.run, u.inv>> : u \in usage}

\* What a decision fact is about is in its key.
DecisionKeys ==
  \A f \in facts :
    /\ f.type = "approval_required" => f.key = RequiredKey(f.key[2])
    /\ f.type = "approval_resolved" => f.key = ResolvedKey(f.key[2])
    /\ f.type = "approval_invalidated" => f.key = InvalidatedKey(f.key[2])

LEMMA DecisionKeysStep == ASSUME DecisionKeys, [Next]_vars PROVE DecisionKeys'
<1> DEFINE Good(f) == /\ f.type = "approval_required" => f.key = RequiredKey(f.key[2])
                      /\ f.type = "approval_resolved" => f.key = ResolvedKey(f.key[2])
                      /\ f.type = "approval_invalidated" => f.key = InvalidatedKey(f.key[2])
<1> SUFFICES ASSUME NEW f \in facts', f \notin facts PROVE Good(f)
  BY DEF DecisionKeys, RequiredKey, ResolvedKey, InvalidatedKey
<1>1. ASSUME NEW r, NEW type, NEW key, InsertFact(r, type, key)
      PROVE  f.type = type /\ f.key = key
  BY <1>1 DEF InsertFact, Fact
<1>2. ASSUME NEW r, NEW type1, NEW key1, NEW type2, NEW key2,
             InsertFacts(r, type1, key1, type2, key2)
      PROVE  (f.type = type1 /\ f.key = key1) \/ (f.type = type2 /\ f.key = key2)
  BY <1>2 DEF InsertFacts, Fact
<1>3. \A s \in Outcomes : RunType(s) \notin ApprovalTypes
  BY DEF Outcomes, RunType, ApprovalTypes
<1>4. ASSUME f.type \notin ApprovalTypes PROVE Good(f)
  BY <1>4 DEF ApprovalTypes
<1>5. \A c : RequiredKey(c)[2] = c /\ ResolvedKey(c)[2] = c /\ InvalidatedKey(c)[2] = c
  BY DEF RequiredKey, ResolvedKey, InvalidatedKey
<1>6. ASSUME NEW r \in Runs, NEW e \in Entries, CreateRun(r, e) PROVE Good(f)
  BY <1>2, <1>4, <1>6 DEF CreateRun, ApprovalTypes
<1>7. ASSUME NEW r \in Runs, NEW inv, NEW amount, NEW outcome \in Outcomes, NEW c,
             SettleRunning(r, outcome, inv, amount, c)
      PROVE  Good(f)
  <2>1. CASE outcome = "interrupted"
    <3>1. \/ f.type = "approval_required" /\ f.key = RequiredKey(c)
          \/ f.type = RunType(outcome)
      BY <1>2, <1>7, <2>1 DEF SettleRunning
    <3> QED BY <1>3, <1>4, <1>5, <3>1
  <2>2. CASE outcome # "interrupted"
    BY <1>1, <1>3, <1>4, <1>7, <2>2 DEF SettleRunning
  <2> QED BY <2>1, <2>2
<1>8. ASSUME NEW r \in Runs, CancelRunning(r) PROVE Good(f)
  BY <1>1, <1>4, <1>8 DEF CancelRunning, ApprovalTypes
<1>9. ASSUME NEW r \in Runs, CancelPaused(r) PROVE Good(f)
  <2>1. \/ f.type = "approval_invalidated" /\ f.key = InvalidatedKey(PendingCheckpoint(r))
        \/ f.type = "run_cancelled"
    BY <1>2, <1>9 DEF CancelPaused
  <2> QED BY <1>5, <2>1
<1>10. ASSUME NEW r \in Runs, AcceptApproval(r) PROVE Good(f)
  <2>1. \/ f.type = "approval_resolved" /\ f.key = ResolvedKey(PendingCheckpoint(r))
        \/ f.type = "run_running"
    BY <1>2, <1>10 DEF AcceptApproval
  <2> QED BY <1>5, <2>1
<1>11. ASSUME NEW r \in Runs, NEW m \in Messages, WriteMessage(r, m) PROVE Good(f)
  BY <1>1, <1>4, <1>11 DEF WriteMessage, Fact, ApprovalTypes
<1>12. ASSUME NEW s \in scanned, FailRecovery(s) PROVE Good(f)
  BY <1>1, <1>4, <1>12 DEF FailRecovery, ApprovalTypes
<1> QED BY <1>6, <1>7, <1>8, <1>9, <1>10, <1>11, <1>12
        DEF Next, vars, Settle, SettleLate, CreateThread, Scan, ReserveSequence

\* The numbers the model gives out.
Bounded == \A t \in Threads : counter[t] <= MaxSeq

LEMMA BoundedStep == ASSUME TypeOK, Bounded, [Next]_vars PROVE Bounded'
<1>1. ASSUME NEW r, NEW n \in Nat, Room(r, n), Advance(r, n) PROVE Bounded'
  BY <1>1 DEF Room, Advance, Bounded, TypeOK
<1>2. ASSUME UNCHANGED counter PROVE Bounded'
  BY <1>2 DEF Bounded
<1>3. ASSUME NEW r, NEW type, NEW key, InsertFact(r, type, key) PROVE Bounded'
  BY <1>1, <1>3 DEF InsertFact
<1>4. ASSUME NEW r, NEW type1, NEW key1, NEW type2, NEW key2,
             InsertFacts(r, type1, key1, type2, key2)
      PROVE  Bounded'
  BY <1>1, <1>4 DEF InsertFacts
<1>5. ASSUME NEW r \in Runs, Settle(r) PROVE Bounded'
  BY <1>2, <1>3, <1>4, <1>5 DEF Settle, SettleRunning, SettleLate
<1>6. ASSUME NEW r \in Runs, NEW m \in Messages, WriteMessage(r, m) \/ ReserveSequence(r, m)
      PROVE  Bounded'
  BY <1>1, <1>2, <1>3, <1>6 DEF WriteMessage, ReserveSequence
<1>7. ASSUME NEW r \in Runs, NEW e \in Entries, CreateRun(r, e) PROVE Bounded'
  BY <1>4, <1>7 DEF CreateRun
<1>8. ASSUME NEW r \in Runs, CancelRunning(r) \/ CancelPaused(r) \/ AcceptApproval(r) PROVE Bounded'
  BY <1>3, <1>4, <1>8 DEF CancelRunning, CancelPaused, AcceptApproval
<1>9. ASSUME NEW s \in scanned, FailRecovery(s) PROVE Bounded'
  BY <1>3, <1>9 DEF FailRecovery
<1> QED BY <1>2, <1>5, <1>6, <1>7, <1>8, <1>9 DEF Next, vars, CreateThread, Scan

PromiseInv == LifecycleInv /\ DecisionKeys /\ Bounded

LEMMA PromiseInvariant == Spec => []PromiseInv
<1>1. Init => DecisionKeys /\ Bounded
  BY ConstantsAssumption DEF Init, DecisionKeys, Bounded
<1>2. LifecycleInv => TypeOK
  BY DEF LifecycleInv
<1> QED BY <1>1, <1>2, DecisionKeysStep, BoundedStep, LifecycleInvariant, PTL DEF Spec, PromiseInv

\* The decisions and invocations one fact, or two facts, add.
LEMMA FactAdds ==
  ASSUME NEW r, NEW type, NEW key, InsertFact(r, type, key)
  PROVE  /\ \A T : Decisions(T)' = IF T = type THEN Decisions(T) \cup {<<r, key[2]>>} ELSE Decisions(T)
         /\ Begun' = IF type = "run_running" THEN Begun \cup {<<r, Next1(r)>>} ELSE Begun
<1> DEFINE f == Fact(r, type, key, Next1(r))
<1>1. facts' = facts \cup {f} /\ f.run = r /\ f.type = type /\ f.key = key /\ f.seq = Next1(r)
  BY DEF InsertFact, Fact
<1> HIDE DEF f
<1> QED BY <1>1 DEF Decisions, Begun

LEMMA FactsAdd ==
  ASSUME NEW r, NEW type1, NEW key1, NEW type2, NEW key2,
         InsertFacts(r, type1, key1, type2, key2), type1 # type2
  PROVE  /\ \A T : Decisions(T)' = IF T = type1 THEN Decisions(T) \cup {<<r, key1[2]>>}
                                   ELSE IF T = type2 THEN Decisions(T) \cup {<<r, key2[2]>>}
                                   ELSE Decisions(T)
         /\ Begun' = IF type1 = "run_running" THEN Begun \cup {<<r, Next1(r)>>}
                     ELSE IF type2 = "run_running" THEN Begun \cup {<<r, Next2(r)>>}
                     ELSE Begun
<1> DEFINE f == Fact(r, type1, key1, Next1(r))
           g == Fact(r, type2, key2, Next2(r))
<1>1. /\ facts' = facts \cup {f, g}
      /\ f.run = r /\ f.type = type1 /\ f.key = key1 /\ f.seq = Next1(r)
      /\ g.run = r /\ g.type = type2 /\ g.key = key2 /\ g.seq = Next2(r)
  BY DEF InsertFacts, Fact
<1> HIDE DEF f, g
<1> QED BY <1>1 DEF Decisions, Begun

\* Whoever has no new approval still waits for the same one.
LEMMA PendingStays ==
  ASSUME NEW q \in Runs, facts \subseteq facts',
         \A f \in facts' \ facts : f.run = q => Category(f) # "approval"
  PROVE  PendingCheckpoint(q)' = PendingCheckpoint(q)
<1>1. OfCategory(q, "approval")' = OfCategory(q, "approval")
  BY DEF OfCategory, FactsOf, Category
<1> QED BY <1>1 DEF PendingCheckpoint, LastApproval, Last, IsLast

\* A Run that moves changes what it waits for, and no other Run does.
LEMMA PendingMoves ==
  ASSUME TypeOK, NEW r \in Runs, NEW s \in Statuses, status' = [status EXCEPT ![r] = s],
         facts \subseteq facts', \A f \in facts' \ facts : f.run = r
  PROVE  /\ s # "interrupted" => PendingOf' = [PendingOf EXCEPT ![r] = NoCheckpoint]
         /\ \A c : s = "interrupted" /\ PendingCheckpoint(r)' = c
                  => PendingOf' = [PendingOf EXCEPT ![r] = c]
<1>1. ASSUME NEW q \in Runs, q # r PROVE PendingOf'[q] = PendingOf[q]
  <2>1. PendingCheckpoint(q)' = PendingCheckpoint(q)
    BY <1>1, PendingStays
  <2>2. status'[q] = status[q]
    BY <1>1
  <2> QED BY <2>1, <2>2 DEF PendingOf
<1>2. status'[r] = s
  BY DEF TypeOK
<1>3. /\ s # "interrupted" => PendingOf'[r] = NoCheckpoint
      /\ s = "interrupted" => PendingOf'[r] = PendingCheckpoint(r)'
  BY <1>2 DEF PendingOf
<1>4. PendingOf' = [q \in Runs |-> PendingOf'[q]] /\ PendingOf = [q \in Runs |-> PendingOf[q]]
  BY DEF PendingOf
<1> QED BY <1>1, <1>3, <1>4

LEMMA PendingUnmoved ==
  ASSUME status' = status, facts \subseteq facts',
         \A f \in facts' \ facts : Category(f) # "approval"
  PROVE  PendingOf' = PendingOf
<1>1. \A q \in Runs : PendingCheckpoint(q)' = PendingCheckpoint(q)
  BY PendingStays
<1> QED BY <1>1 DEF PendingOf

\* A settlement bills the latest invocation, or nothing.
LEMMA SettleBills ==
  ASSUME TypeOK, DecisionInv, NEW r \in Runs, status[r] # "absent", NEW inv, NEW amount,
         inv = LastRunning(r).seq, LastRunning(r).seq <= MaxSeq, RecordUsage(r, inv, amount)
  PROVE  \/ UNCHANGED Billed
         \/ \E n \in 0..MaxSeq : /\ <<r, n>> \in Begun /\ \A b \in Begun : b[1] = r => b[2] <= n
                                 /\ Billed' = Billed \cup {<<r, n>>}
<1>1. CASE usage' = usage
  BY <1>1 DEF Billed
<1>2. ASSUME NEW row, row.run = r, row.inv = inv, usage' = usage \cup {row}
      PROVE  Billed' = Billed \cup {<<r, inv>>}
  BY <1>2 DEF Billed
<1>3. IsLast(LastRunning(r), Facts(r, "run_running"))
  BY LastIn DEF DecisionInv, LastRunning
<1>4. LastRunning(r) \in facts /\ LastRunning(r).run = r /\ LastRunning(r).type = "run_running"
  BY <1>3 DEF IsLast, Facts
<1>5. inv \in 0..MaxSeq
  BY <1>4 DEF TypeOK, FactSet
<1>6. <<r, inv>> \in Begun
  BY <1>4 DEF Begun
<1>7. \A b \in Begun : b[1] = r => b[2] <= inv
  BY <1>3 DEF Begun, IsLast, Facts
<1>8. CASE usage' # usage
  <2> DEFINE row == [run |-> r, inv |-> inv, amount |-> amount, by |-> inv]
  <2>1. usage' = usage \cup {row} /\ row.run = r /\ row.inv = inv
    BY <1>8 DEF RecordUsage
  <2> HIDE DEF row
  <2> QED BY <1>2, <1>5, <1>6, <1>7, <2>1
<1> QED BY <1>1, <1>8

\* Numbers that are given out next are later than every invocation of the Run.
LEMMA NextIsLater ==
  ASSUME PromiseInv, NEW r \in Runs, NEW n \in {1, 2}, Room(r, n) \/ Room(r, 2)
  PROVE  /\ counter[ThreadOf[r]] + n \in 0..MaxSeq
         /\ \A b \in Begun : b[1] = r => b[2] < counter[ThreadOf[r]] + n
<1>1. counter[ThreadOf[r]] \in Nat /\ MaxSeq \in Nat
  BY ConstantsAssumption DEF PromiseInv, LifecycleInv, TypeOK
<1>2. \A f \in facts : f.run = r => f.seq \in Nat /\ f.seq < counter[ThreadOf[r]] + n
  BY <1>1 DEF PromiseInv, LifecycleInv, TypeOK, FactSet, NumberInv, Numbered
<1> QED BY <1>1, <1>2 DEF Begun, Room

LEMMA CreateRunStarts ==
  ASSUME PromiseInv, NEW r \in Runs, NEW e \in Entries, CreateRun(r, e)
  PROVE  Promise!Start(r)
<1>1. status[r] = "absent" /\ ~Promise!Busy(ThreadOf[r])
  BY DEF CreateRun, HasActiveRun, RunsOf, Active, Promise!Busy
<1>2. /\ status' = [status EXCEPT ![r] = "running"] /\ usage' = usage
      /\ InsertFacts(r, "run_running", RunningKey(NoCheckpoint), "message", EntryKey(e))
  BY DEF CreateRun, SetStatus
<1>3. facts \subseteq facts' /\ \A f \in facts' \ facts : f.run = r
  BY <1>2 DEF InsertFacts, Fact
<1>4. PendingOf' = [PendingOf EXCEPT ![r] = NoCheckpoint]
  <2>1. TypeOK /\ "running" \in Statuses /\ "running" # "interrupted"
    BY DEF PromiseInv, LifecycleInv, Statuses
  <2> QED BY <1>2, <1>3, <2>1, PendingMoves
<1>5. Begun' = Begun \cup {<<r, Next1(r)>>} /\ UNCHANGED <<Decisions("approval_required"),
        Decisions("approval_resolved"), Decisions("approval_invalidated"), Billed>>
  BY <1>2, FactsAdd DEF Billed
<1>6. Room(r, 2)
  BY <1>2 DEF InsertFacts
<1>7. Next1(r) \in 0..MaxSeq /\ \A b \in Begun : b[1] = r => b[2] < Next1(r)
  BY <1>6, NextIsLater DEF Next1
<1>8. Promise!Become(r, "running", NoCheckpoint)
  BY <1>2, <1>4 DEF Promise!Become, PendingOf
<1>9. Promise!Invoke(r)
  BY <1>5, <1>7 DEF Promise!Invoke, Begun
<1> QED BY <1>1, <1>5, <1>8, <1>9 DEF Promise!Start, Billed

\* A paused Run waits for a pause that was neither answered nor withdrawn.
LEMMA PauseIsOpen ==
  ASSUME PromiseInv, NEW r \in Runs, status[r] = "interrupted"
  PROVE  /\ PendingOf[r] = PendingCheckpoint(r)
         /\ <<r, PendingCheckpoint(r)>> \notin Decisions("approval_resolved")
         /\ <<r, PendingCheckpoint(r)>> \notin Decisions("approval_invalidated")
<1> DEFINE c == PendingCheckpoint(r)
<1>1. FreshKey(r, ResolvedKey(c)) /\ FreshKey(r, InvalidatedKey(c))
  BY DEF PromiseInv, LifecycleInv, DecisionInv, Decidable
<1>2. PendingOf[r] = c
  BY DEF PendingOf
<1> HIDE DEF c
<1>3. \A f \in facts : f.run = r /\ f.key[2] = c =>
        f.type \notin {"approval_resolved", "approval_invalidated"}
  BY <1>1 DEF FreshKey, PromiseInv, DecisionKeys
<1>4. <<r, c>> \notin Decisions("approval_resolved")
      /\ <<r, c>> \notin Decisions("approval_invalidated")
  BY <1>3 DEF Decisions
<1> QED BY <1>2, <1>4 DEF c

LEMMA AcceptApprovalAnswers ==
  ASSUME PromiseInv, NEW r \in Runs, AcceptApproval(r)
  PROVE  Promise!Answer(r)
<1> DEFINE c == PendingCheckpoint(r)
<1>1. /\ status[r] = "interrupted" /\ usage' = usage
      /\ status' = [status EXCEPT ![r] = "running"]
      /\ InsertFacts(r, "approval_resolved", ResolvedKey(c), "run_running", RunningKey(c))
  BY DEF AcceptApproval, SetStatus
<1>2. /\ PendingOf[r] = c
      /\ <<r, c>> \notin Decisions("approval_resolved")
      /\ <<r, c>> \notin Decisions("approval_invalidated")
  BY <1>1, PauseIsOpen
<1> HIDE DEF c
<1>3. facts \subseteq facts' /\ \A f \in facts' \ facts : f.run = r
  BY <1>1 DEF InsertFacts, Fact
<1>4. PendingOf' = [PendingOf EXCEPT ![r] = NoCheckpoint]
  <2>1. TypeOK /\ "running" \in Statuses /\ "running" # "interrupted"
    BY DEF PromiseInv, LifecycleInv, Statuses
  <2> QED BY <1>1, <1>3, <2>1, PendingMoves
<1>5. /\ Begun' = Begun \cup {<<r, Next2(r)>>} /\ Billed' = Billed
      /\ Decisions("approval_resolved")' = Decisions("approval_resolved") \cup {<<r, c>>}
      /\ UNCHANGED <<Decisions("approval_required"), Decisions("approval_invalidated")>>
  <2>1. ResolvedKey(c)[2] = c
    BY DEF ResolvedKey
  <2> QED BY <1>1, <2>1, FactsAdd DEF Billed
<1>6. Room(r, 2)
  BY <1>1 DEF InsertFacts
<1>7. Next2(r) \in 0..MaxSeq /\ \A b \in Begun : b[1] = r => b[2] < Next2(r)
  BY <1>6, NextIsLater DEF Next2
<1>8. Promise!Become(r, "running", NoCheckpoint)
  BY <1>1, <1>4 DEF Promise!Become, PendingOf
<1>9. Promise!Invoke(r)
  BY <1>5, <1>7 DEF Promise!Invoke, Begun
<1> QED BY <1>1, <1>2, <1>5, <1>8, <1>9 DEF Promise!Answer, PendingOf, Billed

LEMMA CancelPausedWithdraws ==
  ASSUME PromiseInv, NEW r \in Runs, CancelPaused(r)
  PROVE  Promise!Withdraw(r)
<1> DEFINE c == PendingCheckpoint(r)
<1>1. /\ status[r] = "interrupted" /\ usage' = usage
      /\ status' = [status EXCEPT ![r] = "cancelled"]
      /\ InsertFacts(r, "approval_invalidated", InvalidatedKey(c), "run_cancelled", CancelledKey)
  BY DEF CancelPaused, SetStatus
<1>2. /\ PendingOf[r] = c
      /\ <<r, c>> \notin Decisions("approval_resolved")
      /\ <<r, c>> \notin Decisions("approval_invalidated")
  BY <1>1, PauseIsOpen
<1> HIDE DEF c
<1>3. facts \subseteq facts' /\ \A f \in facts' \ facts : f.run = r
  BY <1>1 DEF InsertFacts, Fact
<1>4. PendingOf' = [PendingOf EXCEPT ![r] = NoCheckpoint]
  <2>1. TypeOK /\ "cancelled" \in Statuses /\ "cancelled" # "interrupted"
    BY DEF PromiseInv, LifecycleInv, Statuses, Outcomes
  <2> QED BY <1>1, <1>3, <2>1, PendingMoves
<1>5. /\ Begun' = Begun /\ Billed' = Billed
      /\ Decisions("approval_invalidated")' = Decisions("approval_invalidated") \cup {<<r, c>>}
      /\ UNCHANGED <<Decisions("approval_required"), Decisions("approval_resolved")>>
  <2>1. InvalidatedKey(c)[2] = c
    BY DEF InvalidatedKey
  <2> QED BY <1>1, <2>1, FactsAdd DEF Billed
<1>6. Promise!Become(r, "cancelled", NoCheckpoint)
  BY <1>1, <1>4 DEF Promise!Become, PendingOf
<1> QED BY <1>1, <1>2, <1>5, <1>6 DEF Promise!Withdraw, PendingOf, Billed, Begun

\* A lifecycle fact alone decides nothing and begins nothing.
LEMMA EndMoves ==
  ASSUME PromiseInv, NEW r \in Runs, NEW s \in Terminal, NEW type, NEW key,
         status' = [status EXCEPT ![r] = s], InsertFact(r, type, key),
         type \in {"run_completed", "run_error", "run_cancelled"}
  PROVE  /\ Promise!Become(r, s, NoCheckpoint)
         /\ UNCHANGED <<Decisions("approval_required"), Decisions("approval_resolved"),
                        Decisions("approval_invalidated"), Begun>>
<1>1. facts \subseteq facts' /\ \A f \in facts' \ facts : f.run = r
  BY DEF InsertFact, Fact
<1>2. PendingOf' = [PendingOf EXCEPT ![r] = NoCheckpoint]
  <2>1. TypeOK /\ s \in Statuses /\ s # "interrupted"
    BY DEF PromiseInv, LifecycleInv, Statuses, Outcomes, Terminal
  <2> QED BY <1>1, <2>1, PendingMoves
<1>3. Promise!Become(r, s, NoCheckpoint)
  BY <1>2 DEF Promise!Become, PendingOf
<1> QED BY <1>3, FactAdds

LEMMA CancelRunningFinishes ==
  ASSUME PromiseInv, NEW r \in Runs, CancelRunning(r)
  PROVE  Promise!Finish(r)
<1>1. /\ status[r] = "running" /\ usage' = usage
      /\ status' = [status EXCEPT ![r] = "cancelled"]
      /\ InsertFact(r, "run_cancelled", CancelledKey) /\ "cancelled" \in Terminal
  BY DEF CancelRunning, SetStatus, Terminal
<1>2. /\ Promise!Become(r, "cancelled", NoCheckpoint)
      /\ UNCHANGED <<Decisions("approval_required"), Decisions("approval_resolved"),
                     Decisions("approval_invalidated"), Begun>>
  BY <1>1, EndMoves
<1>3. Promise!MayBill(r)
  BY <1>1 DEF Promise!MayBill
<1> QED BY <1>1, <1>2, <1>3 DEF Promise!Finish, Begun

\* A recovery ends a Run that runs, or gives up a pause.
LEMMA FailRecoveryEnds ==
  ASSUME PromiseInv, NEW s \in scanned, FailRecovery(s)
  PROVE  s.run \in Runs /\ (Promise!Finish(s.run) \/ Promise!Abandon(s.run))
<1>1. s.run \in Runs
  BY DEF PromiseInv, LifecycleInv, TypeOK, SnapshotSet
<1>2. /\ status[s.run] \in {"running", "interrupted"} /\ usage' = usage
      /\ status' = [status EXCEPT ![s.run] = "error"]
      /\ InsertFact(s.run, "run_error", RecoveryKey(RecoveryCode(s))) /\ "error" \in Terminal
  BY DEF FailRecovery, SetStatus, Terminal, Active
<1>3. /\ Promise!Become(s.run, "error", NoCheckpoint)
      /\ UNCHANGED <<Decisions("approval_required"), Decisions("approval_resolved"),
                     Decisions("approval_invalidated"), Begun>>
  BY <1>1, <1>2, EndMoves
<1>4. Promise!MayBill(s.run) /\ Billed' = Billed
  BY <1>2 DEF Promise!MayBill, Billed
<1> QED BY <1>1, <1>2, <1>3, <1>4 DEF Promise!Finish, Promise!Abandon, Begun, Billed

\* What a settlement may do to the bill.
LEMMA SettleMayBill ==
  ASSUME PromiseInv, NEW r \in Runs, status[r] # "absent", NEW inv, NEW amount,
         CurrentInvocation(r, inv), RecordUsage(r, inv, amount)
  PROVE  Promise!MayBill(r)
<1>1. TypeOK /\ DecisionInv /\ inv = LastRunning(r).seq
  BY DEF PromiseInv, LifecycleInv, CurrentInvocation
<1>2. LastRunning(r).seq <= MaxSeq
  <2>1. LastRunning(r) \in facts /\ LastRunning(r).run = r
    BY <1>1, LastIn DEF DecisionInv, LastRunning, IsLast, Facts
  <2>2. LastRunning(r).seq <= counter[ThreadOf[r]]
    BY <2>1 DEF PromiseInv, LifecycleInv, NumberInv, Numbered
  <2> QED BY <1>1, <2>1, <2>2, ConstantsAssumption DEF PromiseInv, Bounded, TypeOK, FactSet
<1>3. \/ UNCHANGED Billed
      \/ \E n \in 0..MaxSeq : /\ <<r, n>> \in Begun /\ \A b \in Begun : b[1] = r => b[2] <= n
                              /\ Billed' = Billed \cup {<<r, n>>}
  BY <1>1, <1>2, SettleBills
<1> QED BY <1>3 DEF Promise!MayBill, Promise!Latest, Begun, Billed

LEMMA SettlePauses ==
  ASSUME PromiseInv, PromiseInv', NEW r \in Runs, NEW inv, NEW amount, NEW c \in Checkpoints,
         SettleRunning(r, "interrupted", inv, amount, c)
  PROVE  Promise!Pause(r)
<1>1. /\ status[r] = "running"
      /\ status' = [status EXCEPT ![r] = "interrupted"]
      /\ InsertFacts(r, "approval_required", RequiredKey(c), RunType("interrupted"),
                        SettledKey(LastRunning(r).seq))
      /\ CurrentInvocation(r, inv) /\ RecordUsage(r, inv, amount)
  BY DEF SettleRunning, SetStatus
<1>2. facts \subseteq facts' /\ \A f \in facts' \ facts : f.run = r
  BY <1>1 DEF InsertFacts, Fact
<1>3. PendingCheckpoint(r)' = c
  BY PauseDecidable DEF PromiseInv, LifecycleInv
<1>4. PendingOf' = [PendingOf EXCEPT ![r] = c]
  <2>1. TypeOK /\ "interrupted" \in Statuses
    BY DEF PromiseInv, LifecycleInv, Statuses, Outcomes
  <2> QED BY <1>1, <1>2, <1>3, <2>1, PendingMoves
<1>5. Promise!Become(r, "interrupted", c)
  BY <1>1, <1>4 DEF Promise!Become, PendingOf
<1>6. <<r, c>> \notin Decisions("approval_required")
  <2>1. FreshKey(r, RequiredKey(c))
    BY <1>1 DEF InsertFacts
  <2>2. \A f \in facts : f.run = r /\ f.key[2] = c => f.type # "approval_required"
    BY <2>1 DEF FreshKey, PromiseInv, DecisionKeys
  <2> QED BY <2>2 DEF Decisions
<1>7. /\ Decisions("approval_required")' = Decisions("approval_required") \cup {<<r, c>>}
      /\ UNCHANGED <<Decisions("approval_resolved"), Decisions("approval_invalidated"), Begun>>
  <2>1. RequiredKey(c)[2] = c /\ RunType("interrupted") = "run_interrupted"
    BY DEF RequiredKey, RunType
  <2> QED BY <1>1, <2>1, FactsAdd
<1>8. Promise!MayBill(r)
  BY <1>1, SettleMayBill
<1> QED BY <1>1, <1>5, <1>6, <1>7, <1>8 DEF Promise!Pause, Begun

LEMMA SettleFinishes ==
  ASSUME PromiseInv, NEW r \in Runs, NEW outcome \in Outcomes, outcome # "interrupted",
         NEW inv, NEW amount, NEW c, SettleRunning(r, outcome, inv, amount, c)
  PROVE  Promise!Finish(r)
<1>1. /\ status[r] = "running" /\ outcome \in Terminal
      /\ status' = [status EXCEPT ![r] = outcome]
      /\ InsertFact(r, RunType(outcome), SettledKey(LastRunning(r).seq))
      /\ CurrentInvocation(r, inv) /\ RecordUsage(r, inv, amount)
      /\ RunType(outcome) \in {"run_completed", "run_error", "run_cancelled"}
  BY DEF SettleRunning, SetStatus, Outcomes, Terminal, RunType
<1>2. /\ Promise!Become(r, outcome, NoCheckpoint)
      /\ UNCHANGED <<Decisions("approval_required"), Decisions("approval_resolved"),
                     Decisions("approval_invalidated"), Begun>>
  BY <1>1, EndMoves
<1>3. Promise!MayBill(r)
  BY <1>1, SettleMayBill
<1> QED BY <1>1, <1>2, <1>3 DEF Promise!Finish, Begun, Terminal

LEMMA SettleLateBills ==
  ASSUME PromiseInv, NEW r \in Runs, NEW inv, NEW amount, SettleLate(r, inv, amount)
  PROVE  Promise!Bill(r)
<1>1. /\ status[r] \notin {"absent", "running"}
      /\ CurrentInvocation(r, inv) /\ RecordUsage(r, inv, amount)
      /\ UNCHANGED <<status, facts>>
  BY DEF SettleLate, Statuses, Outcomes
<1>2. Promise!MayBill(r)
  BY <1>1, SettleMayBill
<1>3. PendingOf' = PendingOf
  BY <1>1, PendingUnmoved
<1> QED BY <1>1, <1>2, <1>3 DEF Promise!Bill, Decisions, Begun, PendingOf

\* Threads, snapshots and numbers reserved are none of the promise's business, and
\* a message is not either.
LEMMA MessagesAreNoMove ==
  ASSUME UNCHANGED <<status, usage>>,
         UNCHANGED facts \/ \E r, key, seq : facts' = facts \cup {Fact(r, "message", key, seq)}
  PROVE  UNCHANGED Promise!promise
<1>1. facts \subseteq facts' /\ \A f \in facts' \ facts : f.type = "message"
  BY DEF Fact
<1>2. PendingOf' = PendingOf
  BY <1>1, PendingUnmoved DEF Category, RunTypes, ApprovalTypes
<1>3. /\ \A T : T # "message" => {g \in facts : g.type = T}' = {g \in facts : g.type = T}
  BY <1>1
<1>4. UNCHANGED <<Decisions("approval_required"), Decisions("approval_resolved"),
                  Decisions("approval_invalidated"), Begun, Billed>>
  BY <1>3 DEF Decisions, Begun, Billed
<1> QED BY <1>2, <1>4 DEF Promise!promise, PendingOf, Begun, Billed

LEMMA PromiseStep ==
  ASSUME PromiseInv, PromiseInv', [Next]_vars
  PROVE  [Promise!Next]_(Promise!promise)
<1>1. ASSUME NEW r \in Runs, NEW e \in Entries, CreateRun(r, e) PROVE Promise!Next
  BY <1>1, CreateRunStarts DEF Promise!Next
<1>2. ASSUME NEW r \in Runs, Settle(r) PROVE Promise!Next
  <2>1. PICK inv \in Invocations(r), amount \in Amounts \cup {NoReport} :
          \/ \E outcome \in Outcomes, c \in Checkpoints : SettleRunning(r, outcome, inv, amount, c)
          \/ SettleLate(r, inv, amount)
    BY <1>2 DEF Settle
  <2>2. ASSUME NEW outcome \in Outcomes, NEW c \in Checkpoints,
               SettleRunning(r, outcome, inv, amount, c)
        PROVE  Promise!Finish(r) \/ Promise!Pause(r)
    BY <2>2, SettlePauses, SettleFinishes
  <2> QED BY <2>1, <2>2, SettleLateBills DEF Promise!Next
<1>3. ASSUME NEW r \in Runs, CancelRunning(r) \/ CancelPaused(r) \/ AcceptApproval(r)
      PROVE  Promise!Next
  BY <1>3, CancelRunningFinishes, CancelPausedWithdraws, AcceptApprovalAnswers DEF Promise!Next
<1>4. ASSUME NEW s \in scanned, FailRecovery(s) PROVE Promise!Next
  BY <1>4, FailRecoveryEnds DEF Promise!Next
<1>5. ASSUME NEW r \in Runs, NEW m \in Messages, WriteMessage(r, m) PROVE UNCHANGED Promise!promise
  BY <1>5, MessagesAreNoMove DEF WriteMessage, InsertFact
<1>6. ASSUME NEW r \in Runs, NEW m \in Messages, ReserveSequence(r, m)
      PROVE  UNCHANGED Promise!promise
  BY <1>6, MessagesAreNoMove DEF ReserveSequence
<1>7. ASSUME \/ \E t \in Threads : CreateThread(t)
             \/ \E r \in Runs : Scan(r)
             \/ UNCHANGED vars
      PROVE  UNCHANGED Promise!promise
  BY <1>7, MessagesAreNoMove DEF CreateThread, Scan, vars
<1> QED BY <1>1, <1>2, <1>3, <1>4, <1>5, <1>6, <1>7 DEF Next

\* The tables implement what the product promises: every transaction is a step, or
\* no step, of RunPromise (RunTransitions, runs.py:56-441).
THEOREM PromiseKept == Spec => KeepsPromise
<1>1. Init => Promise!Init
  BY DEF Init, Promise!Init, Decisions
<1>2. PromiseInv /\ PromiseInv' /\ [Next]_vars => [Promise!Next]_(Promise!promise)
  BY PromiseStep
<1> QED BY <1>1, <1>2, PromiseInvariant, PTL DEF Spec, KeepsPromise, Promise!Spec
=============================================================================
