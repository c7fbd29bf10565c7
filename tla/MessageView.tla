------------------------------ MODULE MessageView ------------------------------
(***************************************************************************)
(* The messages of a Run in the window: RunProjection of                   *)
(* frontend/src/run-projection.ts, as the receiver of the frames and the   *)
(* reads of conversation-state.ts fill it, at the other end of what        *)
(* StreamObservation gives an observer.                                    *)
(*                                                                         *)
(* The observer of StreamObservation is one connection of this window.  A  *)
(* connection may break at any frame, and the next is served from the      *)
(* start.  The text of an unfinished message comes in pieces; the message  *)
(* itself comes by the stream, or by a read of the messages that are       *)
(* saved, of the thread or of a Run that has ended.  Frames in transit are *)
(* frames not delivered yet, and the history that precedes the stream of   *)
(* an execution is received as a whole.                                    *)
(*                                                                         *)
(* The text of a number is the sequence of the pieces it is made of.       *)
(* The window may learn that the Run has ended at any moment after it has, *)
(* by a frame or a snapshot: RunView has how.                              *)
(***************************************************************************)
EXTENDS StreamObservation

CONSTANTS
  MaxConnections, \* bound on the connections of the window
  MaxReads        \* bound on its reads of what is saved

ASSUME MessageViewConstants == MaxConnections \in Nat /\ MaxReads \in Nat

VARIABLES
  view,        \* the projection: texts, messages that are facts, facts
  ask,         \* the read that is out, and the numbers in its answer
  saved,       \* savedContent
  connections, reads

window == <<view, ask, saved, connections, reads>>
allVars == <<vars, window>>

NoAsk == [kind |-> "none", seqs |-> {}]

ViewInit ==
  /\ Init
  /\ view = [text |-> [n \in 1..MaxSeq |-> <<>>], whole |-> {}, events |-> {},
             conflict |-> FALSE]
  /\ ask = NoAsk /\ saved = "idle"
  /\ connections = 0 /\ reads = 0

-----------------------------------------------------------------------------
(* The projection. *)

\* of the Graph; the user's have no preview and are facts like the others
IsMessage(n) == pieces[n] > 0
Text(n) == [i \in 1..pieces[n] |-> i]
Previews(v) == {n \in 1..MaxSeq : v.text[n] # <<>> /\ n \notin v.whole}

\* sameFact
Contradicts(v, n) == n \in v.whole /\ v.text[n] # Text(n)

\* mergeMessages: a message replaces its preview, and never another message
MergeMessages(v, seqs) ==
  [v EXCEPT !.text = [n \in 1..MaxSeq |-> IF n \in seqs THEN Text(n) ELSE @[n]],
            !.whole = @ \cup seqs,
            !.conflict = @ \/ \E n \in seqs : Contradicts(v, n)]

\* mergeEvent, mergeEvents: a fact that is known is not merged again, and the number
\* of a message is the number of no other fact
MergeEvents(v, seqs) ==
  LET new == seqs \ v.events
      merged == MergeMessages(v, {n \in new : IsMessage(n)})
  IN  [merged EXCEPT !.events = @ \cup new,
                     !.conflict = @ \/ \E n \in new : ~IsMessage(n) /\ v.text[n] # <<>>]

\* delta: a late piece of a message that is there is dropped
Delta(v, n, p) ==
  IF n \in v.whole THEN v
  ELSE [v EXCEPT !.text[n] = Append(@, p), !.conflict = @ \/ n \in v.events]

\* Mutant of ResetPreview: what the last connection previewed stays.
KeepPreview(v) == v

ResetPreview(v) ==
  [v EXCEPT !.text = [n \in 1..MaxSeq |-> IF n \in v.whole THEN @[n] ELSE <<>>]]

-----------------------------------------------------------------------------
(* A connection. *)

\* the first frame, of a Run the window knew or of one it started
OnMetadata(v, known) == IF known THEN ResetPreview(v) ELSE v

\* session.observe: GET of the stream
Connect ==
  /\ IF obs.pc = "again" THEN UNCHANGED connections
     ELSE connections < MaxConnections /\ connections' = connections + 1
  /\ ReadRun
  /\ UNCHANGED <<view, ask, saved, reads>>

Answer == Lookup /\ UNCHANGED window

OpenRebuilt ==
  /\ List
  /\ view' = MergeEvents(OnMetadata(view, TRUE), FactsIn(obs'.got))
  /\ UNCHANGED <<ask, saved, connections, reads>>

\* the answer of the POST that started the Run, or that decided its approval
OpenPosted ==
  /\ connections < MaxConnections
  /\ Attach
  /\ obs'.round = 1 => connections = 0
  /\ view' = OnMetadata(view, obs'.round > 1)
  /\ connections' = connections + 1
  /\ UNCHANGED <<ask, saved, reads>>

Receive ==
  /\ Deliver
  /\ LET f == Last(obs'.got)
     IN  view' = IF f.piece = 0 THEN MergeEvents(view, {f.seq}) ELSE Delta(view, f.seq, f.piece)
  /\ UNCHANGED <<ask, saved, connections, reads>>

End == EndOfStream /\ UNCHANGED window

\* the connection breaks, or has ended and is given up; what was shown stays
Disconnect ==
  /\ obs.pc \notin {"idle", "read", "reread", "again"}
  /\ connections < MaxConnections
  /\ obs' = Watching("idle", "none", 0, <<>>)
  /\ UNCHANGED <<db, gate, exec, broken, window>>

-----------------------------------------------------------------------------
(* Reads of what is saved.  A read is asked for at the moment the backend reads its *)
(* tables; the time it was on its way is the time it was not asked for yet.         *)

Ask(kind, seqs) ==
  /\ ask.kind = "none" /\ reads < MaxReads
  /\ ask' = [kind |-> kind, seqs |-> seqs]
  /\ reads' = reads + 1
  /\ UNCHANGED <<vars, view, connections>>

SavedMessages == {n \in Numbers(facts) : IsMessage(n)}

\* readCommittedHistory: at any time
AskCommitted == Ask("history", SavedMessages) /\ UNCHANGED saved

\* readSavedContent: once by itself when the Run is over, and again by hand
AskSaved ==
  /\ status = "final"
  /\ Ask("saved", SavedMessages)
  /\ saved' = "reading"

\* saved messages that leave a preview are not the whole reply
SavedAfter(v) == IF Previews(v) # {} THEN "error" ELSE "ready"

MergeAnswer ==
  /\ ask.kind # "none"
  /\ view' = MergeMessages(view, ask.seqs)
  /\ saved' = IF ask.kind = "saved" THEN SavedAfter(view') ELSE saved
  /\ ask' = NoAsk
  /\ UNCHANGED <<vars, connections, reads>>

\* the read of the saved messages fails; a failure of the others changes nothing, as
\* if it was never answered
FailSaved ==
  /\ ask.kind = "saved"
  /\ saved' = "error"
  /\ ask' = NoAsk
  /\ UNCHANGED <<vars, view, connections, reads>>

-----------------------------------------------------------------------------

Backend ==
  /\ \/ Begin \/ Install \/ StartFails \/ StartAttempted \/ TaskBegins
     \/ Reserve \/ Speak \/ Ingest \/ GraphEnds \/ Settle \/ LoseOutcome \/ PublishTask \/ Finish
     \/ CancelCommits \/ CancelPublishes \/ FailRecovery
  /\ UNCHANGED window

ViewNext ==
  \/ Backend
  \/ Connect \/ Answer \/ OpenRebuilt \/ OpenPosted \/ Receive \/ End \/ Disconnect
  \/ AskCommitted \/ AskSaved \/ MergeAnswer \/ FailSaved

ViewSpec == ViewInit /\ [][ViewNext]_allVars

-----------------------------------------------------------------------------
(* Properties. *)

\* Every variable has its type, and what the window takes for facts is committed
\* (run-projection.ts:36-42, conversation-state.ts:860-892).
ViewTypeOK ==
  /\ TypeOK
  /\ view.text \in [1..MaxSeq -> Seq(1..MaxPieces)]
  /\ view.whole \cup view.events \subseteq Numbers(facts)
  /\ view.conflict \in BOOLEAN
  /\ ask.kind \in {"none", "history", "saved"} /\ ask.seqs \subseteq Numbers(facts)
  /\ saved \in {"idle", "reading", "ready", "error"}
  /\ connections \in 0..MaxConnections /\ reads \in 0..MaxReads

Connected == obs.pc \in {"follow", "attached", "done", "detached"}

\* the pieces of a number that the present connection has brought
Brought(n) == {f.piece : f \in {g \in Range(obs.got) : g.seq = n /\ g.piece # 0}}

\* What is on show of a reply is a part of it: a message has its whole text, however
\* late the pieces of its preview come; a preview is the beginning of the text, on an
\* open connection exactly what that connection brought, so none is doubled by a
\* replay or left over from before.  No two sources of a message contradict each
\* other, what a connection brought as a fact is on show as one, and content that
\* counts as saved has every message of the Run
\* (run-projection.ts:148-219, conversation-state.ts:860-892, 1231-1255).
ReplyIsShown ==
  /\ ~view.conflict
  /\ \A n \in view.whole : view.text[n] = Text(n)
  /\ \A n \in Previews(view) :
       /\ IsPrefix(view.text[n], Text(n))
       /\ Connected => Range(view.text[n]) = Brought(n)
  /\ view.events \cap SavedMessages \subseteq view.whole
  /\ Connected => FactsIn(obs.got) \subseteq view.events
  /\ saved = "ready" => SavedMessages \subseteq view.whole
=============================================================================
