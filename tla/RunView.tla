------------------------------- MODULE RunView -------------------------------
(***************************************************************************)
(* What the window knows of one Run: ConversationStore of                  *)
(* frontend/src/conversation-state.ts, with RunProjection, the recovery of *)
(* observations and the coordinator of usage reads.  The handlers of one   *)
(* Run are modelled; choosing conversations and sending is Conversation.   *)
(*                                                                         *)
(* The Run can be read in three ways that race: the frames of a stream     *)
(* (GET, or the answer of an approval), one shared GET of a snapshot, and  *)
(* the answer of a cancel POST.  A handler runs to its next await, so it   *)
(* is a function from the state of the store to the next one.              *)
(*                                                                         *)
(* RunFieldVersion is only ever compared with the copy a request took      *)
(* when it was sent: "stale" of a request is the set of versions that have *)
(* moved since.  Likewise "same" says that the write object is still the   *)
(* one the request found.  Deadlines are left out: a wait ends some time.  *)
(***************************************************************************)
EXTENDS Integers, Sequences, FiniteSets

CONSTANTS
  MaxStage,     \* bound on how often the Run is resumed
  MaxFailures,  \* bound on the connections and requests that fail
  MaxAsks,      \* bound on what the user asks for
  MaxTries,     \* retries of one read (3 in the code)
  MaxRequests   \* automatic usage reads of one stage (12 in the code)

ASSUME RunViewConstants ==
  /\ MaxStage \in Nat /\ MaxFailures \in Nat /\ MaxAsks \in Nat
  /\ MaxTries \in Nat /\ MaxRequests \in Nat \ {0}

VARIABLES
  srv,      \* the backend's Run: status, stage, settled (no usage outstanding)
  wire,     \* frames of the open stream, not received yet
  late,     \* POSTs whose connection is gone, and that the backend may still handle
  c,        \* the store
  failures, asks,
  known,    \* history: the backend was read since the last POST was lost
  forgotten \* history: the window was closed on a cancel of unknown outcome

vars == <<srv, wire, late, c, failures, asks, known, forgotten>>

Stages == 0..MaxStage
Statuses == {"running", "interrupted", "done"}
Pendings == {"null", "yes", "no"}
Versions == {"stage", "usage", "status"}

-----------------------------------------------------------------------------
(* The store. *)

NoAttempt == [kind |-> "none", meta |-> FALSE, pause |-> -1]
NoWrite == [kind |-> "none", phase |-> "none", verified |-> FALSE, verifying |-> FALSE]
NoPost == [kind |-> "none", at |-> "none", stale |-> {}, ans |-> "none"]
NoAnswer == [status |-> "none", pending |-> "none", at |-> 0]
NoRead == [phase |-> "none", auto |-> FALSE, started |-> FALSE, again |-> FALSE,
           second |-> FALSE, charge |-> FALSE, exec |-> 0, tries |-> 0, stale |-> {},
           same |-> FALSE, fresh |-> FALSE, ans |-> NoAnswer]
\* The round of automatic reads of the execution stage on show: no earlier one is on show again.
NoRound == [requests |-> 0, pause |-> "none"]
\* The record of ApprovalDrafts on disk: of which pause, and what became of its decision.
NoBackup == [pause |-> -1, status |-> "none"]

Ended(status) == status \in {"interrupted", "done"}

\* Mutant of Eligible: the usage of a paused Run is not verified.
EligibleWhenDone(s) == s.verified /\ s.run.status = "done" /\ s.run.pending = "yes"

\* isEligible of the usage target.
Eligible(s) == s.verified /\ Ended(s.run.status) /\ s.run.pending = "yes"

\* A version moved: every request that is out has an older copy.
Moved(s, versions) ==
  LET Out(r, phases) == IF r \in phases THEN versions ELSE {}
  IN  [s EXCEPT !.read.stale = @ \cup Out(s.read.phase, {"sent", "answer"}),
                !.post.stale = @ \cup Out(s.post.kind, {"cancel"})]

\* One partial update of the Run, with the versions it moves.
Merged(s, m) ==
  LET resumed == s.run.status = "interrupted" /\ m.status = "running"
      changed == s.run.status # m.status
      moved == (IF resumed THEN {"stage", "usage"} ELSE {})
               \cup (IF changed THEN {"status"} ELSE {})
               \cup (IF m.pending # "none" \/ m.usage THEN {"usage"} ELSE {})
      pending == IF m.pending # "none" THEN m.pending
                 ELSE IF resumed THEN "null" ELSE s.run.pending
      useAt == IF pending = "null" THEN 0 ELSE IF m.pending # "none" THEN m.useAt
               ELSE s.run.useAt
  IN  Moved([s EXCEPT !.run = [status |-> m.status, pending |-> pending, useAt |-> useAt],
                      !.exec = @ + (IF resumed THEN 1 ELSE 0),
                      !.round = IF resumed THEN NoRound ELSE @], moved)

\* metadata(): a terminal status never changes.
Metadata(s, m) ==
  IF s.run.status = "done" /\ m.status # "done" THEN s ELSE Merged(s, m)

\* beginObservation(): a new GET stream may be of another stage.
BeginObservation(s) ==
  Moved([s EXCEPT !.run.pending = "null", !.run.useAt = 0], {"stage", "usage"})

\* Mutant of StaleUsage: every answer is believed.
NeverStale(stale) == FALSE
StaleUsage(stale) == stale \cap {"stage", "usage"} # {}

\* applySnapshot(): what the versions or the authority forbid is dropped.
ApplySnapshot(s, ans, stale, preserve, isWrite) ==
  LET keep == preserve \/ s.run.status = "done" \/ (~isWrite /\ "status" \in stale)
  IN  Metadata(s, [status |-> IF keep THEN s.run.status ELSE ans.status,
                   pending |-> IF StaleUsage(stale) THEN "none" ELSE ans.pending,
                   usage |-> FALSE, useAt |-> ans.at])

-----------------------------------------------------------------------------
(* The one shared GET, and the automatic reads of outstanding usage. *)

\* The task of a GET ended: the verification of a cancel that awaited it goes on.
Unread(s) ==
  [s EXCEPT !.read = NoRead,
            !.write.verifying = @ /\ s.write.kind # "cancel",
            !.writing = IF @ = "verify" THEN "none" ELSE @,
            !.problem = FALSE]

\* refreshRunDetails, queryStatus, the timer: all triggers join one task.
ReadSnapshot(s, boundary, auto) ==
  IF s.read.phase # "none"
  THEN [s EXCEPT !.read.again = @ \/ (boundary /\ s.read.started)]
  ELSE [s EXCEPT !.problem = FALSE, !.read = [NoRead EXCEPT !.phase = "wait", !.auto = auto,
                                         !.charge = auto, !.exec = s.exec]]

\* A new stage, or usage that is settled, ends the automatic GET and its retries.
AutoEnds(s) ==
  /\ s.read.phase # "none" /\ s.read.auto
  /\ s.read.exec # s.exec \/ s.run.pending = "no"

\* syncUsageTarget: a supplement that a boundary asked for is still read.
SyncUsage(s) ==
  IF ~AutoEnds(s) THEN s
  ELSE IF s.run.pending = "no" /\ s.read.exec = s.exec /\ s.read.again
       THEN ReadSnapshot(Unread(s), FALSE, FALSE)
       ELSE Unread(s)

\* updateView: a terminal Run ends an approval that waits, never a cancel.
Publish(s) ==
  SyncUsage(IF s.run.status # "done" THEN s
            ELSE [s EXCEPT !.write = IF @.kind = "approval" THEN NoWrite ELSE @,
                           !.draft = -1, !.backup = NoBackup])

\* completeRead: the round of the stage on show, and only for a read of that stage.
EndRead(s, failed) ==
  LET pause == IF s.round.requests >= MaxRequests THEN "limit"
               ELSE IF failed THEN "error" ELSE "none"
      counted == [s EXCEPT !.round.pause = IF s.read.exec = s.exec THEN pause ELSE @]
  IN  Publish([Unread(counted) EXCEPT !.problem = failed])

HasBudget(s) == Eligible(s) => s.round.requests < MaxRequests
MustCharge(s) == s.read.charge \/ (s.read.tries > 0 /\ s.read.exec = s.exec)
Charge(s) ==
  IF MustCharge(s) /\ Eligible(s) THEN [s EXCEPT !.round.requests = @ + 1] ELSE s

\* Changing the write object, whatever is changed in it.
SetWrite(s, write) == [s EXCEPT !.write = write, !.read.same = FALSE]

\* markSubmissionUnknown, acceptSubmission.
Mark(s, from, status) ==
  IF s.backup.status \in from THEN [s EXCEPT !.backup.status = status] ELSE s
MarkUnknown(s) == Mark(s, {"pending", "unknown"}, "unknown")

\* updateView: a request for approval finds what its backup knows of its decision.
Restore(s) ==
  LET mine == s.draft # -1 /\ s.backup.pause = s.draft
      free == s.write = NoWrite \/ (s.write.kind = "approval" /\ s.decided # s.draft)
      unknown == [NoWrite EXCEPT !.kind = "approval", !.phase = "unknown"]
  IN  IF mine /\ s.backup.status = "accepted" THEN [s EXCEPT !.accepted = s.draft]
      ELSE IF mine /\ s.backup.status # "none" /\ free
           THEN [SetWrite(s, unknown) EXCEPT !.decided = s.draft]
      ELSE s

\* applyWriteSnapshot: the answer of a cancel, or of a GET that verifies a write.
ApplyWrite(s, ans, stale) ==
  LET seen == ApplySnapshot(s, ans, stale, FALSE, TRUE)
      terminal == seen.run.status = "done"
      write == IF terminal \/ s.write = NoWrite THEN NoWrite
               ELSE [s.write EXCEPT !.phase = "unknown", !.verified = TRUE, !.verifying = FALSE]
      told == SetWrite(seen, write)
  IN  [told EXCEPT !.verified = TRUE,
                   !.appr = IF terminal THEN [pause |-> -1, verified |-> FALSE] ELSE @]

\* Mutant of CanVerifyWrite: any answer verifies an unknown write.
CanVerifyAnyWrite(s) == s.write.phase = "unknown"

\* Only a write object that the GET found, unknown, is verified by its answer.
CanVerifyWrite(s) == s.read.same /\ s.write.phase = "unknown"

\* The answer of an ordinary read.
ApplyRead(s) ==
  LET seen == ApplySnapshot(s, s.read.ans, s.read.stale, s.attempt.kind # "none", FALSE)
  IN  [seen EXCEPT !.verified = TRUE,
                   !.appr.verified = @ /\ seen.run.status = "interrupted"]

NeedsFresh(s) ==
  StaleUsage(s.read.stale) \/ (~CanVerifyWrite(s) /\ s.write.phase = "unknown")

\* At most one fresh read: what was asked for, or what this one could not decide.
ContinueRead(s, stale) ==
  LET charge == s.read.auto /\ ~s.read.again
      wanted == ~s.read.second /\ (stale \/ s.read.again)
  IN  IF wanted /\ (charge => s.run.pending # "no")
      THEN [s EXCEPT !.read = [@ EXCEPT !.phase = "wait", !.second = TRUE, !.again = FALSE,
                                        !.charge = charge, !.tries = 0]]
      ELSE EndRead(s, FALSE)

\* The awaits of the GET: sent when its deadline and the budget allow it.
SendRead ==
  /\ c.read.phase = "wait"
  /\ IF MustCharge(c) /\ ~HasBudget(c)
     THEN c' = EndRead(c, c.read.tries > 0)
     ELSE c' = [Charge(c) EXCEPT !.read = [@ EXCEPT !.phase = "sent", !.started = TRUE, !.stale = {},
                                                    !.same = c.write.phase = "unknown",
                                                    !.fresh = c.write.phase = "unknown"]]
  /\ UNCHANGED <<srv, wire, late, failures, asks, known, forgotten>>

Pending(settled) == IF settled THEN "no" ELSE "yes"
Snapshot == [status |-> srv.status, pending |-> Pending(srv.settled), at |-> srv.stage]

AnswerRead ==
  /\ c.read.phase = "sent"
  /\ c' = [c EXCEPT !.read.phase = "answer", !.read.ans = Snapshot]
  /\ UNCHANGED <<srv, wire, late, failures, asks, known, forgotten>>

ReceiveRead ==
  /\ c.read.phase = "answer"
  /\ LET verifies == CanVerifyWrite(c)
         stale == NeedsFresh(c)
         seen == IF verifies THEN ApplyWrite(c, c.read.ans, c.read.stale) ELSE ApplyRead(c)
     IN  c' = IF AutoEnds(seen) THEN Publish(seen) ELSE ContinueRead(Publish(seen), stale)
  /\ known' = (known \/ c.read.fresh)
  /\ UNCHANGED <<srv, wire, late, failures, asks, forgotten>>

\* A recoverable failure is tried again, at most MaxTries times and within the budget.
FailRead(recoverable) ==
  /\ c.read.phase \in {"sent", "answer"}
  /\ failures < MaxFailures /\ failures' = failures + 1
  /\ c' = IF recoverable /\ c.read.tries < MaxTries /\ HasBudget(c)
          THEN [c EXCEPT !.read.phase = "wait", !.read.tries = @ + 1]
          ELSE EndRead(c, TRUE)
  /\ UNCHANGED <<srv, wire, late, asks, known, forgotten>>

\* The timer of the coordinator, armed while usage is outstanding and nothing reads.
UsageTimer ==
  /\ Eligible(c) /\ c.read.phase = "none" /\ c.round.pause = "none"
  /\ c' = ReadSnapshot(c, FALSE, TRUE)
  /\ UNCHANGED <<srv, wire, late, failures, asks, known, forgotten>>

\* continueVerification, then refreshRunDetails.
ContinueUsage ==
  /\ Eligible(c) /\ c.read.phase = "none" /\ c.round.pause # "none"
  /\ asks < MaxAsks /\ asks' = asks + 1
  /\ c' = ReadSnapshot([c EXCEPT !.round = NoRound], FALSE, FALSE)
  /\ UNCHANGED <<srv, wire, late, failures, known, forgotten>>

-----------------------------------------------------------------------------
(* Streams: createFrameReceiver, finishObservation, ObservationRecovery. *)

\* A GET observation begins; its frames are received by this attempt only.
Connect(s) ==
  [BeginObservation(s) EXCEPT !.obs = "connecting", !.recovering = TRUE,
     !.attempt = [NoAttempt EXCEPT !.kind = "get"]]

\* ObservationRecovery.run after a failure: wait and try again, or stop for good.
Recover(s, recoverable) ==
  LET again == recoverable /\ s.tries < MaxTries
  IN  [s EXCEPT !.attempt = NoAttempt, !.obs = IF again THEN "wait" ELSE "failed",
                !.recovering = again, !.verified = FALSE, !.appr.verified = FALSE,
                !.write.verifying = @ /\ (again \/ s.write.kind # "approval")]

\* observeRun: at once, or after the failure that the stream of a POST ended with.
ObserveRun(s, failed) ==
  LET fresh == [s EXCEPT !.tries = 0]
  IN  IF failed THEN Recover(fresh, TRUE) ELSE Connect(fresh)

\* The server's side of a stream: what there is to tell, and its end.
Meta(status, pending, at) == [kind |-> "meta", status |-> status, pending |-> pending, at |-> at]
Required(at) == [kind |-> "required", at |-> at]
Resolved(at) == [kind |-> "resolved", at |-> at]
End == [kind |-> "eof"]
Replay == (IF srv.stage > 0 THEN <<Resolved(srv.stage - 1)>> ELSE <<>>)
          \o (IF srv.status = "interrupted" THEN <<Required(srv.stage)>> ELSE <<>>)

OpenGet ==
  /\ c.obs = "connecting" /\ c.attempt.kind = "get" /\ wire = <<>>
  /\ wire' = <<Meta(srv.status, Pending(srv.settled), srv.stage)>> \o Replay
             \o (IF Ended(srv.status) THEN <<End>> ELSE <<>>)
  /\ c' = [c EXCEPT !.obs = "open"]
  /\ UNCHANGED <<srv, late, failures, asks, known, forgotten>>

\* What the execution publishes while a stream follows it.
Published(frames) ==
  wire' = IF c.obs = "open" /\ End \notin {wire[k] : k \in 1..Len(wire)} THEN wire \o frames ELSE wire

\* An observation waited long enough, and begins again.
Reconnected ==
  /\ c.obs = "wait"
  /\ c' = Publish(Connect([c EXCEPT !.tries = @ + 1]))
  /\ UNCHANGED <<srv, wire, late, failures, asks, known, forgotten>>

\* Thirty seconds of a healthy connection give the whole budget of retries back.
Stable ==
  /\ c.obs = "open" /\ c.attempt.meta /\ c.tries > 0
  /\ c' = [c EXCEPT !.tries = 0]
  /\ UNCHANGED <<srv, wire, late, failures, asks, known, forgotten>>

\* The first metadata of the POST of an approval is its acceptance.
Accept(s) ==
  IF s.attempt.kind = "post" /\ s.write.kind = "approval" /\ s.write.phase = "pending"
  THEN [SetWrite(Mark(s, {"pending"}, "accepted"), NoWrite)
          EXCEPT !.writing = "none", !.accepted = s.decided]
  ELSE s

OnMetadata(s, f) ==
  LET seen == Metadata(s, [status |-> f.status, pending |-> f.pending, usage |-> f.kind = "usage",
                           useAt |-> f.at])
  IN  Publish(Accept(Publish([seen EXCEPT !.attempt.meta = TRUE, !.verified = TRUE,
                                !.appr = [pause |-> s.attempt.pause, verified |-> FALSE]])))

\* A request for approval is remembered, and only a finished GET replay verifies it.
\* A decision whose own pause is over has nothing left to wait for.
OnApproval(s, f) ==
  LET pause == IF f.kind = "required" THEN f.at ELSE -1
      resolved == f.kind = "resolved"
      draft == IF pause # -1 THEN pause ELSE IF resolved /\ s.draft = f.at THEN -1 ELSE s.draft
      over == s.write.kind = "approval" /\ (IF resolved THEN s.decided = f.at ELSE s.decided # f.at)
      backup == IF resolved /\ s.backup.pause = f.at THEN NoBackup ELSE s.backup
  IN  Restore([(IF over THEN SetWrite(s, NoWrite) ELSE s)
                 EXCEPT !.attempt.pause = pause, !.appr = [pause |-> pause, verified |-> FALSE],
                        !.draft = draft, !.backup = backup])

\* finishObservation, and what its caller does after it.
Finish(s) ==
  LET get == s.attempt.kind = "get"
      normal == Ended(s.run.status)
      confirms == get /\ s.write.kind = "approval" /\ s.write.phase = "unknown"
      write == [s.write EXCEPT !.verified = TRUE, !.verifying = FALSE]
      paused == s.run.status = "interrupted"
      closed == [(IF confirms THEN SetWrite(s, write) ELSE s)
                   EXCEPT !.appr = [pause |-> IF paused THEN s.attempt.pause ELSE -1,
                                    verified |-> get /\ paused]]
      read == Publish(ReadSnapshot(closed, TRUE, FALSE))
      ended == [read EXCEPT !.obs = "closed", !.recovering = FALSE, !.attempt = NoAttempt,
                           !.tries = 0]
  IN  IF ~normal THEN Recover(IF get THEN s ELSE [s EXCEPT !.tries = 0], TRUE)
      ELSE IF ~get /\ paused THEN ObserveRun(ended, FALSE)
      ELSE ended

ReceiveFrame ==
  /\ c.obs = "open" /\ wire # <<>> /\ wire' = Tail(wire)
  /\ LET f == Head(wire)
     IN  /\ c' = CASE f.kind \in {"meta", "usage"} -> OnMetadata(c, f)
                   [] f.kind \in {"required", "resolved"} -> OnApproval(c, f)
                   [] f.kind = "eof" -> Finish(c)
         /\ known' = (known \/ (f.kind = "eof" /\ c.attempt.kind = "get" /\ Ended(c.run.status)))
  /\ UNCHANGED <<srv, late, failures, asks, forgotten>>

\* The POST of an approval is out, and not accepted.
Undecided == c.attempt.kind = "post" /\ c.write.kind = "approval" /\ c.write.phase = "pending"

\* A connection is lost, or the stream tells of a failure: recoverable or not.
\* The POST of an approval that was not accepted becomes unknown, and is verified by a GET.
BreakStream(recoverable) ==
  /\ c.obs \in {"connecting", "open"}
  /\ failures < MaxFailures /\ failures' = failures + 1
  /\ wire' = <<>>
  /\ LET lost == Undecided
         unknown == [c.write EXCEPT !.phase = "unknown", !.verifying = TRUE]
         unsure == [SetWrite(MarkUnknown(c), unknown) EXCEPT !.writing = "none", !.verified = FALSE,
                                                !.read.fresh = FALSE]
     IN  /\ c' = Publish(IF lost THEN ObserveRun(unsure, FALSE)
                         ELSE IF c.attempt.kind = "post" THEN Recover([c EXCEPT !.tries = 0], recoverable)
                         ELSE Recover(c, recoverable))
         /\ known' = IF lost THEN FALSE ELSE known
         /\ late' = IF lost /\ c.obs = "connecting" THEN late \cup {[kind |-> "approval", at |-> c.decided]}
                    ELSE late
  /\ UNCHANGED <<srv, asks, forgotten>>

-----------------------------------------------------------------------------
(* What the user asks for. *)

Ask == asks < MaxAsks /\ asks' = asks + 1

\* Mutant of StopSelection: the write that was out stays pending.
StopReaders(s) ==
  [s EXCEPT !.read = NoRead, !.writing = "none", !.post = NoPost, !.attempt = NoAttempt,
            !.recovering = FALSE, !.tries = 0, !.obs = "paused", !.verified = FALSE,
            !.appr.verified = FALSE]

\* stopSelection: every reader and writer is aborted; a write that was out is unknown.
StopSelection(s) ==
  LET write == IF s.write = NoWrite THEN NoWrite
               ELSE [s.write EXCEPT !.phase = "unknown", !.verified = FALSE, !.verifying = FALSE]
  IN  [(IF s.write.kind = "approval" /\ s.write.phase = "pending" THEN MarkUnknown(s) ELSE s)
         EXCEPT !.read = NoRead, !.write = write, !.writing = "none", !.post = NoPost,
                !.attempt = NoAttempt, !.recovering = FALSE, !.tries = 0, !.obs = "paused",
                !.verified = FALSE, !.appr.verified = FALSE]

\* The POSTs that stopSelection abandons; the backend may have them already.
Abandoned ==
  (IF c.post.kind = "cancel" /\ c.post.at = "server" THEN {[kind |-> "cancel", at |-> 0]} ELSE {})
  \cup (IF Undecided /\ c.obs = "connecting"
        THEN {[kind |-> "approval", at |-> c.decided]} ELSE {})
Abandon ==
  /\ late' = late \cup Abandoned
  /\ known' = IF c.write.phase = "pending" THEN FALSE ELSE known
  /\ wire' = <<>>

CanCancel ==
  /\ c.verified /\ c.run.status \in {"running", "interrupted"}
  /\ c.write = NoWrite \/ (c.write.phase = "unknown" /\ c.write.verified /\ ~c.write.verifying)

CanSubmitApproval ==
  /\ c.verified /\ c.run.status = "interrupted" /\ c.appr.verified
  /\ c.accepted # c.appr.pause
  /\ c.write = NoWrite \/ (c.write.kind = "approval" /\ c.write.phase = "unknown"
                           /\ c.write.verified /\ ~c.write.verifying)

\* cancel(): the streams go on.
Cancel ==
  /\ Ask /\ CanCancel
  /\ c' = [SetWrite(c, [NoWrite EXCEPT !.kind = "cancel", !.phase = "pending"])
             EXCEPT !.writing = "post", !.post = [NoPost EXCEPT !.kind = "cancel", !.at = "server"]]
  /\ UNCHANGED <<srv, wire, late, failures, known, forgotten>>

\* submitApproval(): the answer is a stream, so everything else stops.
SubmitApproval ==
  /\ Ask /\ CanSubmitApproval
  /\ c' = [StopSelection(c) EXCEPT
             !.write = [NoWrite EXCEPT !.kind = "approval", !.phase = "pending"],
             !.writing = "post", !.decided = c.appr.pause,
             !.backup = [pause |-> c.appr.pause, status |-> "pending"], !.obs = "connecting",
             !.attempt = [NoAttempt EXCEPT !.kind = "post"]]
  /\ wire' = <<>>
  /\ UNCHANGED <<srv, late, failures, known, forgotten>>

\* verifyCancellation(): one GET decides what became of a cancel.
VerifyCancellation(s) ==
  IF s.write.phase = "unknown" /\ s.write.kind = "cancel" /\ ~s.write.verifying /\ s.writing = "none"
  THEN ReadSnapshot([SetWrite(s, [s.write EXCEPT !.verifying = TRUE]) EXCEPT !.writing = "verify"],
                    FALSE, FALSE)
  ELSE s

\* reconnect(), from queryStatus too when an approval is unknown.
Reconnect ==
  /\ Ask
  /\ c.writing = "none" /\ ~c.recovering /\ c.attempt.kind = "none"
  /\ c' = Publish(ObserveRun(StopSelection(c), FALSE))
  /\ Abandon
  /\ UNCHANGED <<srv, failures, forgotten>>

QueryStatus ==
  /\ Ask /\ ~(c.write.phase = "unknown" /\ c.write.kind = "approval")
  /\ c' = IF c.write.phase = "unknown" THEN VerifyCancellation(c)
          ELSE IF c.recovering \/ c.attempt.kind # "none" THEN c
          ELSE ReadSnapshot(c, FALSE, FALSE)
  /\ UNCHANGED <<srv, wire, late, failures, known, forgotten>>

\* openSelected, with a history that tells the status, and restoreSelectedRun.
Opened(s) ==
  LET told == Publish(Metadata(s, [status |-> srv.status, pending |-> "none", usage |-> FALSE,
                                   useAt |-> 0]))
      read == Publish(ReadSnapshot(told, FALSE, FALSE))
  IN  Publish(IF read.run.status = "done" THEN [read EXCEPT !.obs = "closed"]
              ELSE ObserveRun(read, FALSE))

Reload ==
  /\ Ask
  /\ c' = Opened(StopSelection(c))
  /\ Abandon
  /\ UNCHANGED <<srv, failures, forgotten>>

\* The Run as it is before anything is read of it; only the backup outlives the window.
Unknown(backup) ==
  [run |-> [status |-> "running", pending |-> "null", useAt |-> 0],
   exec |-> 0, verified |-> FALSE, obs |-> "paused", attempt |-> NoAttempt, tries |-> 0,
   recovering |-> FALSE, appr |-> [pause |-> -1, verified |-> FALSE], draft |-> -1,
   accepted |-> -1, decided |-> -1, backup |-> backup, write |-> NoWrite, writing |-> "none",
   post |-> NoPost, read |-> NoRead, round |-> NoRound,
   problem |-> FALSE]

\* The application is closed, at any moment, and opened again (readApprovalBackup).
Restart ==
  /\ Ask
  /\ c' = Opened(Unknown(MarkUnknown(c).backup))
  /\ Abandon
  /\ forgotten' = (forgotten \/ c.write.kind = "cancel")
  /\ UNCHANGED <<srv, failures>>

-----------------------------------------------------------------------------
(* The answers of the POSTs. *)

\* A settlement with usage tells it before the status it settles.
Used(settled) ==
  IF settled THEN <<[Meta("running", "none", srv.stage) EXCEPT !.kind = "usage"]>> ELSE <<>>

Finished(settled) ==
  /\ srv' = [srv EXCEPT !.status = "done", !.settled = settled]
  /\ Published(Used(settled) \o <<Meta("done", "none", srv.stage), End>>)

\* cancel_run of the backend: a Run that is over stays what it is.
ServeCancel ==
  /\ c.post.kind = "cancel" /\ c.post.at = "server"
  /\ IF srv.status = "done" THEN UNCHANGED <<srv, wire>> ELSE Finished(FALSE)
  /\ c' = [c EXCEPT !.post.at = "answer", !.post.ans = Pending(srv'.settled)]
  /\ UNCHANGED <<late, failures, asks, known, forgotten>>

ReceiveCancel ==
  /\ c.post.kind = "cancel" /\ c.post.at = "answer"
  /\ LET ans == [status |-> "done", pending |-> c.post.ans, at |-> srv.stage]
         told == Publish(ApplyWrite(c, ans, c.post.stale))
         again == StaleUsage(c.post.stale) \/ told.read.started
         free == [told EXCEPT !.post = NoPost, !.writing = "none"]
     IN  c' = IF again THEN Publish(ReadSnapshot(free, TRUE, FALSE)) ELSE free
  /\ UNCHANGED <<srv, wire, late, failures, asks, known, forgotten>>

\* A cancel without an answer is unknown; it is verified, never sent again by itself.
FailCancel ==
  /\ c.post.kind = "cancel"
  /\ failures < MaxFailures /\ failures' = failures + 1
  /\ late' = IF c.post.at = "server" THEN late \cup {[kind |-> "cancel", at |-> 0]} ELSE late
  /\ c' = LET unknown == [c.write EXCEPT !.phase = "unknown"]
              lost == [SetWrite(c, unknown) EXCEPT !.post = NoPost, !.writing = "none",
                                                   !.verified = FALSE, !.read.fresh = FALSE]
          IN  VerifyCancellation(Publish(lost))
  /\ known' = FALSE
  /\ UNCHANGED <<srv, wire, asks, forgotten>>

\* The backend takes a decision only for the pause it is in.
CanResume(at) == srv.status = "interrupted" /\ srv.stage = at /\ srv.stage < MaxStage
Resumed == [status |-> "running", stage |-> srv.stage + 1, settled |-> FALSE]

ServeApproval ==
  /\ Undecided /\ c.obs = "connecting"
  /\ CanResume(c.decided)
  /\ srv' = Resumed
  /\ wire' = <<Meta("running", "none", srv.stage + 1), Resolved(srv.stage)>>
  /\ c' = [c EXCEPT !.obs = "open"]
  /\ UNCHANGED <<late, failures, asks, known, forgotten>>

\* A pause that is over, or decided: 409, and the client is as unsure as after a lost answer.
RefuseApproval ==
  /\ Undecided /\ c.obs = "connecting" /\ ~CanResume(c.decided)
  /\ c' = Publish(ObserveRun([SetWrite(MarkUnknown(c), [c.write EXCEPT !.phase = "unknown", !.verifying = TRUE])
                                EXCEPT !.writing = "none", !.verified = FALSE, !.read.fresh = FALSE], FALSE))
  /\ known' = FALSE
  /\ UNCHANGED <<srv, wire, late, failures, asks, forgotten>>

\* A POST whose client is gone may still arrive.
ServeLate ==
  /\ \E p \in late :
       /\ late' = late \ {p}
       /\ IF p.kind = "cancel" /\ srv.status # "done" THEN Finished(FALSE)
          ELSE IF p.kind = "approval" /\ CanResume(p.at) THEN srv' = Resumed /\ UNCHANGED wire
          ELSE UNCHANGED <<srv, wire>>
  /\ UNCHANGED <<c, failures, asks, known, forgotten>>

-----------------------------------------------------------------------------
(* The backend by itself: the Run pauses or ends, and its usage is settled. *)

Pause(settled) ==
  /\ srv.status = "running" /\ srv.stage < MaxStage
  /\ srv' = [srv EXCEPT !.status = "interrupted", !.settled = settled]
  /\ Published(Used(settled) \o
       <<Required(srv.stage), Meta("interrupted", "none", srv.stage), End>>)
  /\ UNCHANGED <<late, c, failures, asks, known, forgotten>>

Complete(settled) ==
  /\ srv.status = "running"
  /\ Finished(settled)
  /\ UNCHANGED <<late, c, failures, asks, known, forgotten>>

Settle ==
  /\ srv.status # "running" /\ ~srv.settled
  /\ srv' = [srv EXCEPT !.settled = TRUE]
  /\ UNCHANGED <<wire, late, c, failures, asks, known, forgotten>>

-----------------------------------------------------------------------------
(* The specification. *)

Init ==
  /\ srv = [status |-> "running", stage |-> 0, settled |-> FALSE]
  /\ wire = <<>> /\ late = {}
  /\ c = ObserveRun(ReadSnapshot(Unknown(NoBackup), FALSE, FALSE), FALSE)
  /\ failures = 0 /\ asks = 0 /\ known = FALSE /\ forgotten = FALSE

Window ==
  \/ SendRead \/ AnswerRead \/ ReceiveRead \/ UsageTimer
  \/ OpenGet \/ Reconnected \/ ReceiveFrame
  \/ ServeCancel \/ ReceiveCancel \/ ServeApproval \/ RefuseApproval
Failure ==
  \/ \E recoverable \in BOOLEAN : FailRead(recoverable) \/ BreakStream(recoverable)
  \/ FailCancel
User == ContinueUsage \/ Cancel \/ SubmitApproval \/ Reconnect \/ QueryStatus \/ Reload \/ Restart
Backend == (\E settled \in BOOLEAN : Pause(settled) \/ Complete(settled)) \/ Settle \/ ServeLate
Next == Window \/ Stable \/ Failure \/ User \/ Backend

Spec == Init /\ [][Next]_vars

-----------------------------------------------------------------------------
(* Properties. *)

\* The shape of the store, and how its readers and writers exclude each other.
TypeOK ==
  /\ srv \in [status : Statuses, stage : Stages, settled : BOOLEAN]
  /\ c.run.status \in Statuses /\ c.run.pending \in Pendings /\ c.exec \in Nat
  /\ c.attempt.kind # "none" => c.obs \in {"connecting", "open"}
  /\ c.read.phase \in {"none", "wait", "sent", "answer"} /\ c.read.stale \subseteq Versions
  /\ c.write.phase = "pending" <=> (c.post.kind = "cancel" \/ Undecided)
  /\ c.write.kind = "none" <=> c.write.phase = "none"
  /\ c.write.kind = "approval" => (c.backup.pause = c.decided /\ c.backup.status # "none")
  /\ late \subseteq [kind : {"cancel", "approval"}, at : Stages]

\* The answer of a GET or of a cancel never replaces usage by usage of an earlier stage
\* (the versions compared in RunProjection.applySnapshot; a frame has no version to compare).
NoOlderUsage ==
  [][wire' # wire \/ c'.run.pending = "null" \/ c'.run.useAt >= c.run.useAt]_vars

\* A write whose outcome is unknown is sent again only after the backend was read by a
\* request that began after the outcome was lost (canVerifyWrite, finishObservation).
NoBlindRepeat ==
  [][(c.write.phase = "unknown" /\ c'.write.phase = "pending") => known]_vars

\* A Run shown as over stays so: no answer that was under way shows it as going on.
OverIsOver == [][c.run.status = "done" => c'.run.status = "done"]_vars

\* What the window has learned of a Run, of its usage or its end, no late answer takes back.
NothingIsTakenBack == NoOlderUsage /\ OverIsOver

\* The window shows what the backend has: the status, the request for approval that waits,
\* and of the usage that it is settled or that it does not know ("null", which it says
\* itself: a boundary that comes while the second GET of a task is out is not read again).
Agrees ==
  /\ c.run.status = srv.status
  /\ srv.status = "interrupted" => c.appr.pause = srv.stage
  /\ srv.settled => c.run.pending # "yes"

\* A GET answered between two pauses and received after the second is the last word if it
\* is the second of its task, or an automatic one (its own answer begins a new stage,
\* which ends it): the window shows the paused Run as going on, and follows no stream.
Unfollowed ==
  /\ c.run.status = "running" /\ c.obs = "closed"
  /\ srv.status = "interrupted" /\ c.appr.pause = srv.stage

\* What the window says when it stopped trying by itself, or cannot know.
GaveUp ==
  \/ c.obs = "failed" \/ c.problem \/ c.write.phase = "unknown"
  \/ c.round.pause # "none"

\* Nothing is under way any more: no frame, no answer, no timer, no late POST.
AtRest ==
  /\ wire = <<>> /\ late = {} /\ ~forgotten /\ srv.status # "running"
  /\ c.read.phase = "none" /\ c.post = NoPost
  /\ c.obs \notin {"connecting", "wait"} /\ c.attempt.kind = "none"
  /\ ~(Eligible(c) /\ c.round.pause = "none")

\* When everything has come to rest, the window shows what the backend has, or says that
\* it stopped trying: but for the case above no answer that lost a race is the last word
\* (shouldReadAgain, the one fresh read, the timer of the usage).
RestAgrees == AtRest => (Agrees \/ GaveUp \/ Unfollowed)
=============================================================================
