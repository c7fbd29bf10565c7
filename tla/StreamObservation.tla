---------------------------- MODULE StreamObservation ----------------------------
(***************************************************************************)
(* Watching a Run: the event stream each execution keeps (core/stream.py), *)
(* what is published on it after each commit (runtime/run_events.py and    *)
(* run_execution.py), and an observer that joins at any time, by the       *)
(* handle of an execution or by rebuilding "persistent prefix, then the    *)
(* current execution" (runtime/run_observation.py, RunService.observe_run).*)
(*                                                                         *)
(* One Run.  A commit and the publication of what it committed are two     *)
(* steps.  A message whose number was reserved for its preview is          *)
(* committed after facts with higher numbers, so the numbers in the        *)
(* database are no watermark.  "gate" is the lock of the thread.           *)
(*                                                                         *)
(* A Run may pause while it holds numbers that have no message yet.  The   *)
(* Graph, which is not part of the repository, generates new messages in   *)
(* every invocation, so no later one goes on with these; a failure or a    *)
(* cancellation makes messages of them.                                    *)
(*                                                                         *)
(* A stream carries frames: a fact, or one piece of the text of a message  *)
(* that is still being produced.  pieces[n] is how much of the text at the *)
(* number n was produced: all of it, once the message is committed.        *)
(***************************************************************************)
EXTENDS Naturals, SequencesExt

CONSTANTS
  MaxRounds,   \* bound on the invocations of the Run, for TLC only
  MaxSeq,      \* bound on its sequence numbers, for TLC only
  MaxMessages, \* bound on the messages the Graph produces, for TLC only
  MaxPieces    \* bound on the pieces one message is produced in, for TLC only

ASSUME ConstantsAssumption ==
  MaxRounds \in Nat \ {0} /\ MaxSeq \in Nat /\ MaxMessages \in Nat /\ MaxPieces \in Nat \ {0}

Rounds == 1..MaxRounds

VARIABLES
  \* the database
  status, facts, counter, reserved,
  pieces,
  \* the process
  gate,      \* who has the lock of the thread: "free", "op", "cancel" or "read"
  round,     \* the latest invocation
  stage,     \* where its execution is
  installed, \* the round that is in the ExecutionRegistry, 0 for none
  start,     \* replay_start_seq of each execution
  stream,    \* the frames published on the stream of each execution
  closed,    \* executions whose stream is closed
  owed,      \* facts committed and not published yet, by who has to publish them
  \* the observer
  obs,
  \* history, never read by an action
  broken     \* executions whose start failed

db == <<status, facts, counter, reserved, pieces>>
exec == <<round, stage, installed, start, stream, closed, owed>>
vars == <<db, gate, exec, obs, broken>>

Active == {"running", "interrupted"}

NothingOwed == [initial |-> {}, task |-> {}, cancel |-> {}]
Watching(pc, s, r, got) == [pc |-> pc, status |-> s, round |-> r, got |-> got, next |-> 1]

Init ==
  /\ status = "absent" /\ facts = {} /\ counter = 0 /\ reserved = {}
  /\ pieces = [n \in 1..MaxSeq |-> 0]
  /\ gate = "free"
  /\ round = 0 /\ stage = "none" /\ installed = 0
  /\ start = [k \in Rounds |-> 0] /\ stream = [k \in Rounds |-> <<>>]
  /\ closed = {} /\ owed = NothingOwed
  /\ obs = Watching("idle", "none", 0, <<>>)
  /\ broken = {}

-----------------------------------------------------------------------------
(* Commits and publications.                                                *)

\* facts are written for the invocation whose stream will carry them, 0 for none
Write(seqs, via) == facts' = facts \cup {[seq |-> n, via |-> via] : n \in seqs}
Fresh(n) == {counter + i : i \in 1..n}
Take(n) == counter + n <= MaxSeq /\ counter' = counter + n

Numbers(F) == {f.seq : f \in F}
InOrder(S) ==
  [i \in 1..Cardinality(S) |-> CHOOSE n \in S : Cardinality({m \in S : m <= n}) = i]

\* frames: a fact, or a piece of the text of its preview
Piece(n, p) == [seq |-> n, piece |-> p]
Facts(S) == LET order == InOrder(S) IN [i \in DOMAIN order |-> Piece(order[i], 0)]
FactsIn(frames) == {f.seq : f \in {g \in Range(frames) : g.piece = 0}}

\* Stream.publish, by those who may find it closed: a closed stream takes nothing
Send(k, frames) ==
  stream' = IF k \in closed THEN stream ELSE [stream EXCEPT ![k] = @ \o frames]

\* RunEventIngestor.publish: every fact once
Publish(k, seqs) == Send(k, Facts(seqs \ FactsIn(stream[k])))

-----------------------------------------------------------------------------
(* An invocation.                                                           *)

\* create_run or accept_approval_decisions, by an operation that has waited for
\* the previous execution
Begin ==
  /\ gate = "free"
  /\ status \in {"absent", "interrupted"}
  /\ stage \in {"none", "done"}
  /\ round < MaxRounds
  /\ Take(2)
  /\ Write(Fresh(2), round + 1)
  /\ status' = "running"
  /\ round' = round + 1
  /\ start' = [start EXCEPT ![round + 1] = counter + 1]
  /\ owed' = [owed EXCEPT !.initial = Fresh(2)]
  /\ stage' = "begun"
  /\ gate' = "op"
  /\ UNCHANGED <<reserved, pieces, installed, stream, closed, obs, broken>>

Install ==
  /\ stage = "begun"
  /\ installed' = round
  /\ stage' = "created"
  /\ gate' = "free"
  /\ UNCHANGED <<db, round, start, stream, closed, owed, obs, broken>>

\* the task cannot be created: another settles FAILED, and the first facts of the
\* invocation are published by nobody
StartFails ==
  /\ stage = "begun"
  /\ installed' = round
  /\ stage' = "settle"
  /\ owed' = NothingOwed
  /\ broken' = broken \cup {round}
  /\ UNCHANGED <<db, gate, round, start, stream, closed, obs>>

\* its first attempt, successful or not, ends the operation
StartAttempted ==
  /\ gate = "op" /\ stage # "begun"
  /\ gate' = "free"
  /\ UNCHANGED <<db, exec, obs, broken>>

TaskBegins ==
  /\ stage = "created"
  /\ Publish(round, owed.initial)
  /\ owed' = [owed EXCEPT !.initial = {}]
  /\ stage' = "graph"
  /\ UNCHANGED <<db, gate, round, installed, start, closed, obs, broken>>

MayProduce == Cardinality({n \in 1..counter : pieces[n] > 0}) < MaxMessages

\* a preview takes a number and its first piece is published, with the lock of the
\* preview; nothing is taken for a Run that is sealed
Reserve ==
  /\ stage = "graph" /\ status = "running"
  /\ MayProduce
  /\ Take(1)
  /\ reserved' = reserved \cup Fresh(1)
  /\ pieces' = [pieces EXCEPT ![counter + 1] = 1]
  /\ Send(round, <<Piece(counter + 1, 1)>>)
  /\ UNCHANGED <<status, facts, gate, round, stage, installed, start, closed, owed, obs, broken>>

\* numbers that messages of this invocation hold
Held == {n \in reserved : n >= start[round]}

\* another piece
Speak ==
  /\ stage = "graph" /\ status = "running"
  /\ \E n \in Held :
       /\ pieces[n] < MaxPieces
       /\ pieces' = [pieces EXCEPT ![n] = @ + 1]
       /\ Send(round, <<Piece(n, pieces[n] + 1)>>)
  /\ UNCHANGED <<status, facts, counter, reserved, gate, round, stage, installed, start,
                 closed, owed, obs, broken>>

\* a whole message, at the number of its preview or at a new one
Ingest ==
  /\ stage = "graph" /\ status = "running"
  /\ \E n \in Held \cup Fresh(1) :
       /\ IF n \in Held THEN UNCHANGED counter ELSE MayProduce /\ Take(1)
       /\ reserved' = reserved \ {n}
       /\ pieces' = [pieces EXCEPT ![n] = Max({1, @})]
       /\ Write({n}, round)
       /\ owed' = [owed EXCEPT !.task = {n}]
  /\ stage' = "ingested"
  /\ UNCHANGED <<status, gate, round, installed, start, stream, closed, obs, broken>>

GraphEnds ==
  /\ stage = "graph"
  /\ stage' = "settle"
  /\ UNCHANGED <<db, gate, round, installed, start, stream, closed, owed, obs, broken>>

\* settle_execution, with the lock of the execution until it is published: a
\* failed Run keeps its previews as messages, those of the invocations before its
\* pauses included, a paused one keeps them as they are, and a Run that was
\* cancelled meanwhile gives back the fact that is there
Settle ==
  /\ stage = "settle"
  /\ gate # "cancel"
  /\ IF status # "running"
       THEN /\ owed' = [owed EXCEPT !.task = {Max(Numbers(facts))}]
            /\ UNCHANGED db
       ELSE \/ \E kept \in {{}, reserved} :
                 /\ Take(1)
                 /\ status' = "final"
                 /\ Write(kept \cup Fresh(1), round)
                 /\ reserved' = {}
                 /\ owed' = [owed EXCEPT !.task = kept \cup Fresh(1)]
            \/ /\ round \notin broken
               /\ Take(2)
               /\ status' = "interrupted"
               /\ Write(Fresh(2), round)
               /\ owed' = [owed EXCEPT !.task = Fresh(2)]
               /\ UNCHANGED reserved
  /\ stage' = "settled"
  /\ UNCHANGED <<pieces, gate, round, installed, start, stream, closed, obs, broken>>

\* an outcome other than FAILED that cannot be committed is given up
LoseOutcome ==
  /\ stage = "settle" /\ round \notin broken
  /\ stage' = "finish"
  /\ UNCHANGED <<db, gate, round, installed, start, stream, closed, owed, obs, broken>>

PublishTask ==
  /\ stage \in {"ingested", "settled"}
  /\ Publish(round, owed.task)
  /\ owed' = [owed EXCEPT !.task = {}]
  /\ stage' = IF stage = "ingested" THEN "graph" ELSE "finish"
  /\ UNCHANGED <<db, gate, round, installed, start, closed, obs, broken>>

\* mutant: the stream is closed without the lock of the execution
FinishUnlocked ==
  /\ stage = "finish"
  /\ closed' = closed \cup {round}
  /\ installed' = 0
  /\ stage' = "done"
  /\ UNCHANGED <<db, gate, round, start, stream, owed, obs, broken>>

\* _finish, with the lock of the execution
Finish ==
  /\ stage = "finish"
  /\ gate # "cancel"
  /\ closed' = closed \cup {round}
  /\ installed' = 0
  /\ stage' = "done"
  /\ UNCHANGED <<db, gate, round, start, stream, owed, obs, broken>>

-----------------------------------------------------------------------------
(* cancel_run: with an execution, its lock is held until the publication.   *)

CancelCommits ==
  /\ gate = "free"
  /\ status \in Active
  /\ stage \notin {"ingested", "settled"}   \* the locks of the preview, of the execution
  /\ LET new == IF status = "interrupted" THEN 2 ELSE 1
         written == reserved \cup Fresh(new)
     IN  /\ Take(new)
         /\ Write(written, installed)
         /\ owed' = [owed EXCEPT !.cancel = IF installed = 0 THEN {} ELSE written]
  /\ status' = "final"
  /\ reserved' = {}
  /\ gate' = IF installed = 0 THEN "free" ELSE "cancel"
  /\ UNCHANGED <<pieces, round, stage, installed, start, stream, closed, obs, broken>>

CancelPublishes ==
  /\ gate = "cancel"
  /\ Publish(round, owed.cancel)
  /\ owed' = [owed EXCEPT !.cancel = {}]
  /\ gate' = "free"
  /\ UNCHANGED <<db, round, stage, installed, start, closed, obs, broken>>

\* fail_recovery, by a read or a resume that finds the pause broken: it writes its
\* fact and publishes nothing
FailRecovery ==
  /\ gate = "free"
  /\ status = "interrupted"
  /\ Take(1)
  /\ Write(Fresh(1), 0)
  /\ status' = "final"
  /\ UNCHANGED <<reserved, pieces, gate, exec, obs, broken>>

-----------------------------------------------------------------------------
(* The observer.                                                            *)

\* RunObservation.from_execution: the caller of start_run or resume_run watches
\* the execution it was handed, which may have ended since
Attach ==
  /\ obs.pc = "idle"
  /\ stage # "begun"
  /\ \E k \in 1..round : obs' = Watching("attached", "running", k, <<>>)
  /\ UNCHANGED <<db, gate, exec, broken>>

\* observe_run reads the status with the lock of the thread ...
ReadRun ==
  /\ obs.pc \in {"idle", "again"}
  /\ gate = "free"
  /\ status # "absent"
  /\ obs' = Watching(IF obs.pc = "idle" THEN "read" ELSE "reread", status, 0, <<>>)
  /\ gate' = "read"
  /\ UNCHANGED <<db, exec, broken>>

\* ... and looks for the execution of a running Run, which may have ended since:
\* then the status is read again
Lookup ==
  /\ obs.pc \in {"read", "reread"}
  /\ obs' = CASE obs.status # "running"                   -> [obs EXCEPT !.pc = "list"]
              [] obs.pc = "reread"                        -> [obs EXCEPT !.pc = "unavailable"]
              [] obs.status = "running" /\ installed # 0  -> [obs EXCEPT !.pc = "list", !.round = installed]
              [] OTHER                                    -> [obs EXCEPT !.pc = "again"]
  /\ gate' = "free"
  /\ UNCHANGED <<db, exec, broken>>

\* mutant: what is in the database already needs not come from the stream
HighestNumber(k) == counter + 1

\* the number from which on the stream has everything
Boundary(k) == start[k]

\* rebuild: the subscription is there, the history is read and cut
List ==
  /\ obs.pc = "list"
  /\ LET history == IF obs.round = 0 THEN facts
                    ELSE {f \in facts : f.seq < Boundary(obs.round)}
     IN  obs' = [obs EXCEPT !.got = Facts(Numbers(history)),
                            !.pc = IF obs.round = 0 THEN "done" ELSE "follow"]
  /\ UNCHANGED <<db, gate, exec, broken>>

Following == obs.pc \in {"follow", "attached"}

Deliver ==
  /\ Following
  /\ obs.next <= Len(stream[obs.round])
  /\ obs' = [obs EXCEPT !.got = Append(@, stream[obs.round][obs.next]), !.next = @ + 1]
  /\ UNCHANGED <<db, gate, exec, broken>>

EndOfStream ==
  /\ Following
  /\ obs.next > Len(stream[obs.round]) /\ obs.round \in closed
  /\ obs' = [obs EXCEPT !.pc = IF @ = "follow" THEN "done" ELSE "detached"]
  /\ UNCHANGED <<db, gate, exec, broken>>

-----------------------------------------------------------------------------

Next ==
  \/ Begin \/ Install \/ StartFails \/ StartAttempted \/ TaskBegins
  \/ Reserve \/ Speak \/ Ingest \/ GraphEnds \/ Settle \/ LoseOutcome \/ PublishTask \/ Finish
  \/ CancelCommits \/ CancelPublishes \/ FailRecovery
  \/ Attach \/ ReadRun \/ Lookup \/ List \/ Deliver \/ EndOfStream

Spec == Init /\ [][Next]_vars

-----------------------------------------------------------------------------
(* Properties.                                                              *)

Frames == [seq : 1..MaxSeq, piece : 0..MaxPieces]
Stages == {"none", "begun", "created", "graph", "ingested", "settle", "settled", "finish", "done"}

\* Every variable has its type; whoever cancels with the lock of an execution
\* finds it registered until that lock is free (run_execution.py:279-304, 327-330).
TypeOK ==
  /\ status \in Active \cup {"absent", "final"}
  /\ facts \subseteq [seq : 1..MaxSeq, via : 0..MaxRounds]
  /\ counter \in 0..MaxSeq /\ reserved \subseteq 1..counter
  /\ gate \in {"free", "op", "cancel", "read"}
  /\ round \in 0..MaxRounds /\ stage \in Stages
  /\ installed \in {0, round} /\ (gate = "cancel" => installed # 0)
  /\ start \in [Rounds -> 0..MaxSeq]
  /\ pieces \in [1..MaxSeq -> 0..MaxPieces]
  /\ \A k \in Rounds : stream[k] \in Seq(Frames)
  /\ closed \cup broken \subseteq Rounds
  /\ owed \in [initial : SUBSET (1..MaxSeq), task : SUBSET (1..MaxSeq),
               cancel : SUBSET (1..MaxSeq)]
  /\ obs.round \in 0..MaxRounds /\ obs.got \in Seq(Frames)

ViaOf(n) == (CHOOSE f \in facts : f.seq = n).via

\* A fact that was numbered before the invocation the observer watches and committed
\* by none of the earlier ones: a preview a Run carried over its pause, which became
\* a message when a later invocation failed or the Run was cancelled.
Carried(n) == n < start[obs.round] /\ ViaOf(n) \notin 1..(obs.round - 1)

\* How many of the observer's frames came with the history.
FromHistory == Len(obs.got) - (obs.next - 1)

\* The parts of ObserverGetsAll.

\* An observer gets no frame twice, whatever was committed between the reads it is
\* built from and whoever publishes a fact again; it gets the facts of one invocation
\* after those of the other, and the pieces of a text in order and before the message
\* (run_observation.py:85-89, run_events.py:108-145, 301-306).  Carried facts are
\* excepted: their numbers are below the start of the invocation that publishes them,
\* so one may come with the history as well as by the stream, once each, and stands
\* in the history where it was numbered; receivers tell facts by their numbers
\* (run_events.py:46-50).
EveryFrameOnce ==
  \A i, j \in 1..Len(obs.got) : i < j =>
    LET a == obs.got[i]  b == obs.got[j]
    IN  /\ a = b => a.piece = 0 /\ obs.round # 0 /\ Carried(a.seq)
                      /\ i <= FromHistory /\ FromHistory < j
        /\ a.seq = b.seq /\ a # b => a.piece # 0 /\ (b.piece = 0 \/ b.piece > a.piece)
        /\ /\ obs.round # 0 /\ a.piece = 0 /\ b.piece = 0
           /\ ~Carried(a.seq) /\ ~Carried(b.seq)
           => ViaOf(a.seq) <= ViaOf(b.seq)

\* An observer that has come to the end has missed nothing: by its handle it got
\* exactly the facts of that execution; rebuilt, every fact of the Run up to the end
\* of that execution, and else only facts that were numbered before it; and of a
\* final Run all there is (run_observation.py:71-104, runs.py:603-622).  An execution
\* whose start failed is excepted: the facts its operation committed are on no stream
\* (run_execution.py:137-175, 193).
NothingMissed ==
  obs.round \notin broken =>
    LET got == FactsIn(obs.got)
        upTo(k) == Numbers({f \in facts : f.via \in 1..k})
    IN  /\ obs.pc = "detached" => got = Numbers({f \in facts : f.via = obs.round})
        /\ obs.pc = "done" /\ obs.round # 0 =>
             /\ upTo(obs.round) \subseteq got
             /\ \A n \in got \ upTo(obs.round) : n < start[obs.round]
        /\ obs.pc = "done" /\ obs.status = "final" => got = Numbers(facts)

\* The join of database and stream that observe_run makes is exact: what it gives
\* an observer leaves nothing out and repeats nothing but what a Run carried over a
\* pause (run_observation.py:71-104).
ObserverGetsAll == EveryFrameOnce /\ NothingMissed
=============================================================================
