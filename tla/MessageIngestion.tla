---------------------------- MODULE MessageIngestion ----------------------------
(***************************************************************************)
(* How the messages of a Graph become facts of a Run: RunEventIngestor     *)
(* (runtime/run_events.py) between the event stream of the Graph           *)
(* (core/loop.py, core/graph_events.py), the message rows of EventStore,   *)
(* and the settlement or cancellation that seals the Run.                  *)
(*                                                                         *)
(* One thread, whose Runs follow each other and, as RunExecution shows,    *)
(* have at most one Graph at a time.  The lock of a preview state is held  *)
(* over the transaction of an ingestion, hence the places "reserve" and    *)
(* "append"; cancellation and settlement take it for a single transaction. *)
(* The Graph is not part of the repository: it generates messages, streams *)
(* the text of some, saves whole ones in the checkpoint of the thread      *)
(* before their values event is consumed, and begins every invocation with *)
(* a values event of all that is saved.                                    *)
(***************************************************************************)
EXTENDS Naturals, FiniteSets

CONSTANTS
  Runs,
  Ids,     \* identities of the messages Graphs of this thread generate
  Texts,   \* ai messages with text: they are previewed; the others are not
  NoRun, NoId

ASSUME ConstantsAssumption ==
  /\ Texts \subseteq Ids
  /\ NoRun \notin Runs /\ NoId \notin Ids

VARIABLES
  \* the database
  status, rows, reserved, counter,
  \* the Graph and its checkpoint
  author,    \* the Run whose Graph generated a message, NoRun before
  saved,     \* whole messages in the checkpoint of the thread
  \* the process
  up,
  exec,      \* the Run that has a local execution
  pc,        \* where its task is, and the message it works on
  outcome,   \* what the agent loop returned
  abort,     \* abort_event of the execution
  live,      \* messages generated in this invocation
  seen,      \* GraphEventAdapter._seen of this invocation
  preview,   \* RunEventIngestor._previews; an absent state is a fresh one
  \* history, never read by an action
  shown,     \* previews published to observers
  conflicts, \* <<run, message>> that ended an invocation with MessageConflict
  cut,       \* Runs that were not final when a process ended
  givenup    \* Runs that a recovery failed in their pause

db == <<status, rows, reserved, counter>>
graph == <<author, saved>>
task == <<exec, pc, outcome, abort, live, seen>>
history == <<shown, conflicts, cut, givenup>>
vars == <<db, graph, up, task, preview, history>>

Terminal == {"completed", "error", "cancelled"}
Active   == {"running", "interrupted"}

Fresh == [sequences |-> {}, text |-> {}, committed |-> {}, sealed |-> FALSE]

At(place) == pc.at = place
Place(place, m) == [at |-> place, id |-> m]
Idle == Place("idle", NoId)

Init ==
  /\ status = [r \in Runs |-> "absent"]
  /\ rows = {} /\ reserved = {} /\ counter = 0
  /\ author = [m \in Ids |-> NoRun] /\ saved = {}
  /\ up = TRUE
  /\ exec = NoRun /\ pc = Idle /\ outcome = "none" /\ abort = FALSE
  /\ live = {} /\ seen = {}
  /\ preview = [r \in Runs |-> Fresh]
  /\ shown = {} /\ conflicts = {} /\ cut = {} /\ givenup = {}

-----------------------------------------------------------------------------
(* Invocations.                                                             *)

Invoke(r) ==
  /\ status' = [status EXCEPT ![r] = "running"]
  /\ exec' = r /\ pc' = Place("consume", NoId) /\ outcome' = "none" /\ abort' = FALSE
  /\ live' = {} /\ seen' = {}
  /\ UNCHANGED <<rows, reserved, counter, graph, up, preview, history>>

StartRun(r) ==
  /\ up /\ exec = NoRun
  /\ status[r] = "absent"
  /\ \A q \in Runs : status[q] \notin Active
  /\ Invoke(r)

ResumeRun(r) ==
  /\ up /\ exec = NoRun
  /\ status[r] = "interrupted"
  /\ Invoke(r)

-----------------------------------------------------------------------------
(* The Graph (external).                                                    *)

GraphAlive == pc.at \in {"consume", "reserve", "append"}

Generate(m) ==
  /\ GraphAlive
  /\ author[m] = NoRun
  /\ author' = [author EXCEPT ![m] = exec]
  /\ live' = live \cup {m}
  /\ UNCHANGED <<db, saved, up, exec, pc, outcome, abort, seen, preview, history>>

Save(m) ==
  /\ GraphAlive
  /\ m \in live \ saved
  /\ saved' = saved \cup {m}
  /\ UNCHANGED <<db, author, up, task, preview, history>>

-----------------------------------------------------------------------------
(* Message rows of EventStore, inside a transaction.                        *)

Row(m) == {f \in rows : f.id = m}
Reservation(m) == {v \in reserved : v.id = m}

OwnReservation(r, m) == \A v \in Reservation(m) : v.run = r   \* else MessageConflict

SeqOf(m) == IF Reservation(m) = {} THEN counter + 1
            ELSE (CHOOSE v \in Reservation(m) : TRUE).seq

WriteRow(r, m, gen) ==
  /\ rows' = rows \cup {[id |-> m, run |-> r, seq |-> SeqOf(m), gen |-> gen]}
  /\ counter' = IF Reservation(m) = {} THEN counter + 1 ELSE counter

-----------------------------------------------------------------------------
(* The consumer of the Graph's events.                                      *)

Here == preview[exec]
Back == Place("consume", NoId)
Outcome(o) == outcome' = o /\ pc' = Place("settle", NoId)

\* MessageConflict leaves the agent loop as FAILED
Conflict(m) ==
  /\ Outcome("failed")
  /\ conflicts' = conflicts \cup {<<exec, m>>}

Show(m, seq) ==
  /\ preview' = [preview EXCEPT ![exec].text = @ \cup {m},
                                ![exec].sequences = @ \cup {[id |-> m, seq |-> seq]}]
  /\ shown' = shown \cup {[id |-> m, run |-> exec, seq |-> seq]}

\* mutant: messages without text are previewed too
DeltaOfAny(m) ==
  /\ At("consume")
  /\ m \in live \ seen
  /\ ~Here.sealed
  /\ pc' = Place("reserve", m)
  /\ UNCHANGED <<db, graph, up, exec, outcome, abort, live, seen, preview, history>>

\* ingest_delta up to the reservation; a sealed state drops the delta
Delta(m) ==
  /\ At("consume")
  /\ m \in (live \cap Texts) \ seen
  /\ ~Here.sealed
  /\ LET known == {s \in Here.sequences : s.id = m}
     IN  IF m \in Here.committed
           THEN Conflict(m) /\ UNCHANGED <<preview, shown>>
           ELSE /\ IF known = {}
                     THEN pc' = Place("reserve", m) /\ UNCHANGED <<preview, shown>>
                     ELSE (\E s \in known : Show(m, s.seq)) /\ UNCHANGED pc
                /\ UNCHANGED <<outcome, conflicts>>
  /\ UNCHANGED <<db, graph, up, exec, abort, live, seen, cut, givenup>>

\* reserve_message_sequence, and the preview it allows
Reserve ==
  /\ At("reserve")
  /\ LET m == pc.id
     IN  IF Row(m) # {} \/ ~OwnReservation(exec, m)
           THEN Conflict(m) /\ UNCHANGED <<reserved, counter, preview, shown>>
           ELSE /\ IF Reservation(m) # {} THEN UNCHANGED <<reserved, counter>>
                   ELSE /\ reserved' = reserved \cup {[id |-> m, run |-> exec, seq |-> counter + 1]}
                        /\ counter' = counter + 1
                /\ Show(m, SeqOf(m))
                /\ pc' = Back
                /\ UNCHANGED <<outcome, conflicts>>
  /\ UNCHANGED <<status, rows, graph, up, exec, abort, live, seen, cut, givenup>>

\* a values event brings every saved message the adapter has not seen yet;
\* a sealed state drops it
Value(m) ==
  /\ At("consume")
  /\ m \in saved \ seen
  /\ seen' = seen \cup {m}
  /\ pc' = IF Here.sealed THEN pc ELSE Place("append", m)
  /\ UNCHANGED <<db, graph, up, exec, outcome, abort, live, preview, history>>

\* a row that is there has the same content, or a text sealed earlier that must
\* not be overwritten; both are kept
Append ==
  /\ At("append")
  /\ LET m == pc.id
         sealed_before == \E f \in Row(m) : f.gen # "complete"
     IN  IF Row(m) = {} /\ ~OwnReservation(exec, m)
           THEN Conflict(m) /\ UNCHANGED <<rows, counter, preview>>
           ELSE /\ IF Row(m) = {} THEN WriteRow(exec, m, "complete")
                                  ELSE UNCHANGED <<rows, counter>>
                /\ preview' = IF sealed_before THEN preview
                              ELSE [preview EXCEPT ![exec].committed = @ \cup {m},
                                                   ![exec].text = @ \ {m}]
                /\ pc' = Back
                /\ UNCHANGED <<outcome, conflicts>>
  /\ UNCHANGED <<status, reserved, graph, up, exec, abort, live, seen, shown, cut, givenup>>

\* the Graph raises, or storage does under an ingestion
ConsumerFails ==
  /\ GraphAlive
  /\ Outcome("failed")
  /\ UNCHANGED <<db, graph, up, exec, abort, live, seen, preview, history>>

ConsumerAborts ==
  /\ GraphAlive
  /\ abort
  /\ Outcome("aborted")
  /\ UNCHANGED <<db, graph, up, exec, abort, live, seen, preview, history>>

\* the stream ends when all is consumed, at the end of the Graph or at a pause
StreamEnds ==
  /\ At("consume")
  /\ saved \subseteq seen
  /\ \E o \in {"completed", "interrupted"} : Outcome(o)
  /\ UNCHANGED <<db, graph, up, exec, abort, live, seen, preview, history>>

-----------------------------------------------------------------------------
(* Sealing: settlement and cancellation with the lock of the preview state. *)

\* _write_buffered_messages: every text that has no message yet becomes one
Buffered(r) == {m \in preview[r].text : m \notin preview[r].committed /\ Row(m) = {}}
WriteBuffered(r, gen) ==
  rows' = rows \cup {[id |-> m, run |-> r, seq |-> SeqOf(m), gen |-> gen] : m \in Buffered(r)}

Seal(r) == preview' = [preview EXCEPT ![r].sealed = TRUE, ![r].text = {}]

Target == [completed |-> "completed", interrupted |-> "interrupted",
           failed |-> "error", aborted |-> "cancelled"]

\* mutant: a failed Run is settled without its buffered texts
SettleDropping ==
  /\ At("settle")
  /\ status' = IF status[exec] = "running" THEN [status EXCEPT ![exec] = Target[outcome]] ELSE status
  /\ IF status'[exec] \in Terminal THEN Seal(exec) ELSE UNCHANGED preview
  /\ pc' = Place("finish", NoId)
  /\ UNCHANGED <<rows, reserved, counter, graph, up, exec, outcome, abort, live, seen, history>>

Settle ==
  /\ At("settle")
  /\ IF status[exec] = "running"
       THEN /\ status' = [status EXCEPT ![exec] = Target[outcome]]
            /\ IF outcome = "failed" THEN WriteBuffered(exec, "error") ELSE UNCHANGED rows
       ELSE UNCHANGED <<status, rows>>
  /\ IF status'[exec] \in Terminal THEN Seal(exec) ELSE UNCHANGED preview
  /\ pc' = Place("finish", NoId)
  /\ UNCHANGED <<reserved, counter, graph, up, exec, outcome, abort, live, seen, history>>

\* the transaction raised: FAILED tries again, anything else is given up
SettleFails ==
  /\ At("settle") /\ outcome # "failed"
  /\ pc' = Place("finish", NoId)
  /\ UNCHANGED <<db, graph, up, exec, outcome, abort, live, seen, preview, history>>

\* release: a sealed state is dropped with its execution
Finish ==
  /\ At("finish")
  /\ preview' = IF Here.sealed THEN [preview EXCEPT ![exec] = Fresh] ELSE preview
  /\ exec' = NoRun /\ pc' = Idle
  /\ UNCHANGED <<db, graph, up, outcome, abort, live, seen, history>>

\* mutant: a cancellation does not wait for the ingestion that is under way
CancelRunUnlocked(r) ==
  /\ up
  /\ status[r] \in Active
  /\ status' = [status EXCEPT ![r] = "cancelled"]
  /\ WriteBuffered(r, "cancelled")
  /\ IF exec = r THEN Seal(r) /\ abort' = TRUE
                 ELSE preview' = [preview EXCEPT ![r] = Fresh] /\ UNCHANGED abort
  /\ UNCHANGED <<reserved, counter, graph, up, exec, pc, outcome, live, seen, history>>

CancelRun(r) ==
  /\ up
  /\ status[r] \in Active
  /\ exec = r => pc.at \notin {"reserve", "append"}    \* the lock of the preview state
  /\ status' = [status EXCEPT ![r] = "cancelled"]
  /\ WriteBuffered(r, "cancelled")
  /\ IF exec = r THEN Seal(r) /\ abort' = TRUE
                 ELSE preview' = [preview EXCEPT ![r] = Fresh] /\ UNCHANGED abort
  /\ UNCHANGED <<reserved, counter, graph, up, exec, pc, outcome, live, seen, history>>

-----------------------------------------------------------------------------
(* Recovery.  A read or a resume of a paused Run may find its approval or    *)
(* its checkpoint broken (outside the model: at any time) and fails the Run. *)
(* It takes no part in the ingestion: the state is neither written out nor   *)
(* sealed nor dropped.                                                       *)

FailRecovery(r) ==
  /\ up
  /\ status[r] = "interrupted"
  /\ status' = [status EXCEPT ![r] = "error"]
  /\ givenup' = givenup \cup {r}
  /\ UNCHANGED <<rows, reserved, counter, graph, up, task, preview, shown, conflicts, cut>>

(* The process ends at any step, by a crash or by a shutdown that cancels    *)
(* the task; the next one gives up what was running, and any pause it finds  *)
(* broken.                                                                   *)

Stop ==
  /\ up
  /\ up' = FALSE
  /\ exec' = NoRun /\ pc' = Idle /\ outcome' = "none" /\ abort' = FALSE
  /\ live' = {} /\ seen' = {}
  /\ preview' = [r \in Runs |-> Fresh]
  /\ cut' = cut \cup {r \in Runs : status[r] \in Active}
  /\ UNCHANGED <<db, graph, shown, conflicts, givenup>>

Restart ==
  /\ ~up
  /\ up' = TRUE
  /\ \E broken \in SUBSET {r \in Runs : status[r] = "interrupted"} :
       /\ status' = [r \in Runs |-> IF status[r] = "running" \/ r \in broken THEN "error"
                                                                          ELSE status[r]]
       /\ givenup' = givenup \cup broken
  /\ UNCHANGED <<rows, reserved, counter, graph, task, preview, shown, conflicts, cut>>

-----------------------------------------------------------------------------

Next ==
  \/ \E r \in Runs : StartRun(r) \/ ResumeRun(r) \/ CancelRun(r) \/ FailRecovery(r)
  \/ \E m \in Ids : Generate(m) \/ Save(m) \/ Delta(m) \/ Value(m)
  \/ Reserve \/ Append \/ ConsumerFails \/ ConsumerAborts \/ StreamEnds
  \/ Settle \/ SettleFails \/ Finish
  \/ Stop \/ Restart

Spec == Init /\ [][Next]_vars

-----------------------------------------------------------------------------
(* Properties.                                                              *)

Places == {"idle", "consume", "reserve", "append", "settle", "finish"}
Gens   == {"complete", "error", "cancelled"}

\* Every variable has its type; only messages with text are ever previewed and
\* get their number reserved (graph_events.py:44-46, run_events.py:144-149).
TypeOK ==
  /\ status \in [Runs -> Terminal \cup Active \cup {"absent"}]
  /\ rows \subseteq [id : Ids, run : Runs, seq : Nat, gen : Gens]
  /\ reserved \subseteq [id : Texts, run : Runs, seq : Nat]
  /\ counter \in Nat
  /\ author \in [Ids -> Runs \cup {NoRun}] /\ saved \subseteq Ids
  /\ up \in BOOLEAN /\ abort \in BOOLEAN
  /\ exec \in Runs \cup {NoRun}
  /\ pc \in [at : Places, id : Ids \cup {NoId}]
  /\ outcome \in {"none", "completed", "interrupted", "failed", "aborted"}
  /\ live \subseteq Ids /\ seen \subseteq Ids
  /\ preview \in [Runs -> [sequences : SUBSET [id : Texts, seq : Nat], text : SUBSET Texts,
                           committed : SUBSET Ids, sealed : BOOLEAN]]
  /\ shown \subseteq [id : Texts, run : Runs, seq : Nat]
  /\ conflicts \subseteq Runs \X Ids /\ cut \subseteq Runs /\ givenup \subseteq Runs

\* The parts of MessagesAreWhole.

\* What observers have been shown as a preview becomes, if it becomes a message at
\* all, the message of the same Run at the same number, so that it takes the place
\* of its preview (run_events.py:140-154, event_store.py:39-51, 276-283).
PreviewIsTheMessage ==
  \A p \in shown, f \in rows : f.id = p.id => f.run = p.run /\ f.seq = p.seq

\* No text that was shown is lost when its Run fails or is cancelled, however the
\* settlement, the cancellation and the ingestion interleave or fail: a message
\* holds it, complete or sealed (run_events.py:84-108, 222-279).  Two kinds of Run
\* are excepted: those under which a process has ended and taken the buffer with it,
\* and those a recovery failed in their pause.  fail_recovery writes no messages
\* (runs.py:274-306), so what such a Run had shown and not finished before its pause
\* stays in a buffer that nothing reads again.
ShownTextIsKept ==
  \A p \in shown : status[p.run] \in {"cancelled", "error"} /\ p.run \notin cut \cup givenup
    => Row(p.id) # {}

\* A Run that ended well, is paused, or was given up in its pause has every message
\* its Graph saved, as its own: none is left for the next Run to find (loop.py:48-64,
\* run_events.py:199-220).
Whole(r) == status[r] \in {"completed", "interrupted"} \/ r \in givenup

FinishedRunIsWhole ==
  \A m \in saved : Whole(author[m])
    => \E f \in Row(m) : f.run = author[m] /\ f.gen = "complete"

\* Old messages that come back from the checkpoint, sealed ones included, never
\* fail a later invocation (run_events.py:180-188), except those of a Run that a
\* process left unfinished.
ConflictNeedsLoss == \A c \in conflicts : author[c[2]] \in cut

\* Nothing a Run has said gets lost between the Graph's events, the checkpoint and
\* the tables, nor stands in the way of what is said next: a preview turns into its
\* own message, text that was shown outlives a failure or a cancellation, a Run that
\* ended well or paused has all its messages, and old messages fail no later Run
\* (run_events.py:84-279, loop.py:48-64).
MessagesAreWhole ==
  PreviewIsTheMessage /\ ShownTextIsKept /\ FinishedRunIsWhole /\ ConflictNeedsLoss

\* Once a Run is final nothing is shown, reserved or written for it: the state is
\* sealed before its lock is released (run_events.py:94-107, 137, 175, 232-247).
NothingAfterTerminal ==
  [][\A e \in (shown' \ shown) \cup (reserved' \ reserved) \cup (rows' \ rows) :
       status[e.run] \notin Terminal]_vars

\* "same identity, same content: a replay keeps its original run_id, seq and time"
\* (docs/project.md:128): a message the checkpoint brings back is no conflict.  It
\* is one when its number was reserved by a Run whose process ended between the
\* checkpoint and the row (event_store.py:49-50), in every later Run of the thread.
ReplayIsAccepted == conflicts = {}

\* "messages first seen in this invocation must not all be put down to the current
\* Run" (docs/project.md:111): every message is the Run's whose Graph generated it.
\* One that was saved, but not consumed, when its Run was cancelled or failed goes
\* to the Run that replays it (run_events.py:199-207).
MessagesStayWithTheirRun == \A f \in rows : f.run = author[f.id]
=============================================================================
