------------------------------ MODULE Workspace ------------------------------
(***************************************************************************)
(* The window around a conversation: the address of the backend that the   *)
(* desktop shell leases to it (backend-state, BackendClient), its overlays *)
(* (App.tsx), the images of the workspace that the messages show           *)
(* (workspace-images), the files it asks the shell to open                 *)
(* (workspace-file-open, and src-tauri's workspace_file_open.rs), and the  *)
(* events of the Run that its details show (run-event-history).            *)
(*                                                                         *)
(* A snapshot of the backend's state is the startup that it names as       *)
(* ready, or 0.  Its revision is its place in "host"; when the newest one  *)
(* was received the revisions and startups begin anew, since they are only *)
(* compared.  All references name one file, and a version of that file is  *)
(* a resource of its own.  Another conversation is told apart only by what *)
(* its timeline shows.  Images, intents to open and events read nothing of *)
(* each other, so a behaviour follows one of the three.  Of the events of  *)
(* a Run only its boundaries are told apart: the pauses and the end.       *)
(***************************************************************************)
EXTENDS Integers, Sequences, FiniteSets

CONSTANTS
  Refs,      \* references to the file in the messages of a conversation
  MaxRev,    \* bound on the snapshots that are on their way
  MaxFile,   \* bound on the versions of the file
  MaxOpen,   \* bound on the intents to open that are in use at one time
  MaxCalls,  \* bound on the commands to the shell that are under way at one time
  MaxEnds    \* bound on the boundaries of a Run

ASSUME WorkspaceConstants ==
  MaxRev \in Nat \ {0} /\ MaxFile \in Nat \ {0} /\ MaxOpen \in Nat \ {0}
  /\ MaxCalls \in Nat \ {0} /\ MaxEnds \in Nat \ {0}

VARIABLES
  host,      \* the snapshots of the backend, oldest first
  seen,      \* the revision of the newest one that the window received
  asking,    \* get_backend_state has not been answered
  session,   \* the startup whose address the window may use, or 0
  visible,   \* the window can be seen
  file,      \* the version of the file on the disk
  focus,     \* what the behaviour follows: "images", "files" or "details"
  shown,     \* the references that the timeline shows
  query, readers, urls,     \* WorkspaceImages: workspaceQuery, the readers, the live Blob URLs
  opening,   \* WorkspaceFileOpening
  ledger,    \* the shell's intent to open, and the request that is active
  calls,     \* commands between the window and the shell
  events,    \* RunEventHistoryReader, with the boundaries of the Run that it reads
  ui,        \* the overlay and the question before a cancellation
  void       \* history: intents that were used, closed or overtaken

chatVars == <<host, seen, asking, session, visible, file, focus, shown, query, readers, urls,
              opening, ledger, calls, events, ui, void>>

Versions == 1..MaxFile
OpenIds == 1..MaxOpen
HostNow == host[Len(host)]
Top(set) == CHOOSE x \in set : \A y \in set : y <= x

-----------------------------------------------------------------------------
(* Images. *)

NoReader == [phase |-> "none", stage |-> "none", res |-> 0]
Loading(stage) == [phase |-> "loading", stage |-> stage, res |-> 0]
Unreadable == [phase |-> "error", stage |-> "none", res |-> 0]
Holders(rs, v) == {r \in Refs : rs[r].res = v}

\* loadImage(): without a session a reader fails at once.
Load == IF session = 0 THEN Unreadable ELSE Loading(IF query = "read" THEN "resolve" ELSE "workspace")
QueryFor(rs) ==
  IF query = "none" /\ \E r \in Refs : rs[r].stage = "workspace" THEN "reading" ELSE query

\* Mutant of Revoked: a reader that goes away leaves its URL behind.
KeepUrls(rs) == urls

\* releaseImage(): the URL of an image goes with its last reader.
Revoked(rs) == {v \in urls : Holders(rs, v) # {}}
SetReaders(rs) == readers' = rs /\ urls' = Revoked(rs) /\ query' = QueryFor(rs)

\* The provider makes new WorkspaceImages: those of before are disposed, all readers begin anew.
Rescope(s, seenBy, refs) ==
  /\ readers' = [r \in Refs |-> IF ~(seenBy /\ focus = "images") \/ r \notin refs THEN NoReader
                                ELSE IF s = 0 THEN Unreadable ELSE Loading("workspace")]
  /\ urls' = {}
  /\ query' = IF seenBy /\ focus = "images" /\ s # 0 /\ refs # {} THEN "reading" ELSE "none"
Timeline(refs) ==
  LET rs == [r \in Refs |-> IF r \notin refs \/ ~(visible /\ focus = "images") THEN NoReader
                            ELSE IF r \in shown THEN readers[r] ELSE Load]
  IN  shown' = refs /\ SetReaders(rs)
SameImages == UNCHANGED <<query, readers, urls>>

WorkspaceAnswers ==
  /\ query = "reading"
  /\ \E ok \in BOOLEAN :
       /\ query' = IF ok THEN "read" ELSE "none"
       /\ readers' = [r \in Refs |-> IF readers[r].stage # "workspace" THEN readers[r]
                                     ELSE IF ok THEN Loading("resolve") ELSE Unreadable]
  /\ UNCHANGED urls
\* The resource that a reference names: its image may have been read already.
Resolved(r) ==
  /\ readers[r].stage = "resolve"
  /\ \/ SetReaders([readers EXCEPT ![r] = Unreadable])
     \/ SetReaders([readers EXCEPT ![r] =
          IF file \in urls THEN [phase |-> "ready", stage |-> "none", res |-> file]
          ELSE [phase |-> "loading", stage |-> "image", res |-> file]])
\* One GET serves all readers of a resource; it fails when the file has another version.
ImageRead(v) ==
  LET waiting == {r \in Refs : readers[r].stage = "image" /\ readers[r].res = v}
  IN  /\ waiting # {}
      /\ \/ /\ v = file /\ urls' = urls \cup {v}
            /\ readers' = [r \in Refs |-> IF r \in waiting
                 THEN [phase |-> "ready", stage |-> "none", res |-> v] ELSE readers[r]]
            /\ UNCHANGED query
         \/ SetReaders([r \in Refs |-> IF r \in waiting THEN Unreadable ELSE readers[r]])
RetryImage(r) ==
  readers[r].phase \in {"ready", "error"} /\ SetReaders([readers EXCEPT ![r] = Load])

-----------------------------------------------------------------------------
(* Files to open. *)

IdleView == [phase |-> "idle", ref |-> "none", n |-> 0, ver |-> 0]
NoFile == [n |-> 0, ver |-> 0, lease |-> 0, used |-> FALSE]
Call(kind, n, ver, lease) ==
  [kind |-> kind, n |-> n, ver |-> ver, held |-> 0, lease |-> lease, at |-> "sent",
   stale |-> FALSE]

\* discardIntent() tells the shell of an intent that the window drops.
Dropped == IF opening.ver = 0 THEN {} ELSE {Call("discard", opening.n, 0, 0)}
Close == opening' = IdleView /\ calls' = calls \cup Dropped
FreeIds == {n \in OpenIds : n # ledger.n /\ n # opening.n /\ \A c \in calls : c.n # n}
Prepare(ref) ==
  \E n \in FreeIds :
    /\ \A m \in FreeIds : n <= m
    /\ opening' = [IdleView EXCEPT !.phase = "preparing", !.ref = ref, !.n = n]
    /\ calls' = calls \cup Dropped \cup {Call("prepare", n, 0, session)}
    /\ Cardinality(calls') <= MaxCalls
    /\ void' = void \ {n}
SameFiles == UNCHANGED <<opening, calls>>

\* The reply to a command finds the window where it was, or is not looked at.
Awaited(c) ==
  opening.n = c.n /\ opening.phase = (IF c.kind = "prepare" THEN "preparing" ELSE "opening")
Refused(c) ==
  /\ calls' = calls \ {c}
  /\ opening' = IF Awaited(c) THEN [opening EXCEPT !.phase = "error"] ELSE opening

\* prepareFileOpen() goes on: an answer that came too late is discarded at the shell.
PrepareReply(c) ==
  /\ c.kind = "prepare" /\ c.at = "done"
  /\ IF Awaited(c)
     THEN opening' = [opening EXCEPT !.phase = "prepared", !.ver = c.ver] /\ calls' = calls \ {c}
     ELSE UNCHANGED opening /\ calls' = (calls \ {c}) \cup {Call("discard", c.n, 0, 0)}
\* A question whose message is gone was closed with it: see MessagesChange.
ConfirmFile ==
  /\ opening.phase = "prepared" /\ opening.ref \in shown
  /\ opening' = [opening EXCEPT !.phase = "opening"]
  /\ calls' = calls \cup {Call("open", opening.n, opening.ver, 0)}
OpenReply(c) ==
  /\ c.kind = "open" /\ c.at = "done" /\ calls' = calls \ {c}
  /\ opening' = IF Awaited(c) THEN [opening EXCEPT !.phase = "accepted"] ELSE opening

Outdated(c) == [c EXCEPT !.stale = TRUE]
With(c, d) == calls' = (calls \ {c}) \cup {d} /\ UNCHANGED opening
\* A step of the ledger's epoch: what was begun before it does not end.
Overtake(c, d) == calls' = {Outdated(b) : b \in calls \ {c}} \cup d /\ UNCHANGED opening
InvalidateIntents ==
  ledger' = NoFile /\ calls' = {Outdated(c) : c \in calls} /\ void' = OpenIds

\* prepare_file_open(): a fresh click replaces any older intent.
PrepareBegins(c) ==
  /\ c.kind = "prepare" /\ c.at = "sent"
  /\ IF c.lease # HostNow \/ HostNow = 0 \/ ~visible
     THEN Refused(c) /\ UNCHANGED <<ledger, void>>
     ELSE /\ ledger' = NoFile /\ void' = OpenIds \ {c.n}
          /\ Overtake(c, {[c EXCEPT !.at = "busy", !.stale = FALSE]})
PrepareEnds(c) ==
  /\ c.kind = "prepare" /\ c.at = "busy"
  /\ \/ Refused(c) /\ UNCHANGED ledger
     \/ /\ ~c.stale /\ c.lease = HostNow
        /\ ledger' = [n |-> c.n, ver |-> file, lease |-> c.lease, used |-> FALSE]
        /\ With(c, [c EXCEPT !.at = "done", !.ver = file])
\* open_prepared_file(): the intent is consumed before anything is looked at.
OpenBegins(c) ==
  /\ c.kind = "open" /\ c.at = "sent"
  /\ IF ledger.n # c.n \/ ledger.used \/ ledger.lease # HostNow
     THEN Refused(c)
     ELSE With(c, [c EXCEPT !.at = "busy", !.stale = FALSE, !.lease = ledger.lease,
                            !.held = ledger.ver])
  /\ ledger' = IF ledger.n = c.n THEN [ledger EXCEPT !.used = TRUE] ELSE ledger

\* Mutant of MayDispatch: what was read last is not compared with the intent.
MayDispatchUnread(c) == ~c.stale /\ c.lease = HostNow /\ visible
\* Before the dispatch the file is read again and compared with what was prepared.
\* The last read, the check of the ledger and the dispatch are one step: on Windows the
\* open handle of guard_file_target lets nobody write or replace the file in between.
\* Elsewhere that handle excludes nothing, and a change in between is not modelled.
MayDispatch(c) == ~c.stale /\ c.lease = HostNow /\ visible /\ file = c.held

OpenEnds(c) ==
  /\ c.kind = "open" /\ c.at = "busy"
  /\ \/ Refused(c) /\ UNCHANGED void
     \/ /\ MayDispatch(c)
        /\ With(c, [c EXCEPT !.at = "done"]) /\ void' = void \cup {c.n}
DiscardArrives(c) ==
  /\ c.kind = "discard"
  /\ IF ledger.n # c.n THEN calls' = calls \ {c} /\ UNCHANGED <<opening, ledger>>
     ELSE ledger' = NoFile /\ Overtake(c, {})
  /\ void' = void \cup {c.n}

-----------------------------------------------------------------------------
(* Events.  boundaryRevision is the number of boundaryKeys.  A key names a boundary; one that *)
(* is told again under another stage of the observation reads once more, and is left out.     *)

\* "paused" is isEventReadPaused, "got" the boundaries among the events that were merged;
\* "stored" and "heard" of the Run are what the backend has, and what the window was told of;
\* history: a boundary "missed" was told of during the supplement.
NoEvents ==
  [target |-> FALSE, paused |-> TRUE, keys |-> {}, phase |-> "none", read |-> 0, second |-> FALSE,
   ans |-> 0, shown |-> "idle", got |-> 0, stored |-> 0, heard |-> 0, missed |-> FALSE]
Revision(e) == Cardinality(e.keys)

\* refreshHistory(): one request at a time; it may have to wait for a deadline first.
Refresh(e) ==
  IF ~e.target \/ e.phase # "none" THEN e
  ELSE [e EXCEPT !.phase = "wait", !.second = FALSE, !.shown = "reading", !.missed = FALSE]

\* setTarget(): the events of another Run, or under another address, begin anew.
SetTarget(e, on) ==
  IF e.target = on THEN e
  ELSE Refresh([e EXCEPT !.target = on, !.keys = {}, !.phase = "none", !.shown = "idle"])

\* syncEventTarget(), which follows every change of the view.
Follow(e) ==
  events' = IF focus # "details" THEN events
            ELSE SetTarget(e, /\ ui'.overlay = "details" /\ ~e.paused
                              /\ session' # 0 /\ visible')
\* stopSelection(), and another Run on show.
Stopped(e) == [SetTarget(e, FALSE) EXCEPT !.paused = TRUE]
OtherRun(e) == [SetTarget(e, FALSE) EXCEPT !.got = 0, !.stored = 0, !.heard = 0]

\* restoreSelectedRun(): the conversation was read under the address in use.
Resume ==
  /\ events.paused /\ session # 0 /\ visible /\ Follow([events EXCEPT !.paused = FALSE])
\* notifyBoundary(), of a stream that ended, or a cancellation that was answered.
HearBoundary ==
  /\ ~events.paused /\ session # 0 /\ visible
  /\ \E k \in 1..events.stored :
       LET told == [events EXCEPT !.heard = Top({k, @})]
       IN  /\ k >= events.heard
           /\ events' = IF ~events.target \/ k \in events.keys THEN told
                        ELSE Refresh([told EXCEPT !.keys = @ \cup {k},
                                                  !.missed = @ \/ (events.phase # "none" /\ events.second)])
StoreBoundary == events.stored < MaxEnds /\ events' = [events EXCEPT !.stored = @ + 1]
AskEvents == ui.overlay = "details" /\ events' = Refresh(events)
SendEvents ==
  /\ events.phase = "wait"
  /\ events' = [events EXCEPT !.phase = "sent", !.read = Revision(events)]
AnswerEvents ==
  /\ events.phase = "sent"
  /\ events' = [events EXCEPT !.phase = "answer", !.ans = events.stored]

\* Mutant of Outrun: what was told of during a read is left for the next one.
NotOutrun(e) == FALSE

\* The one supplement, when a boundary was told of since the request was sent.
Outrun(e) == ~e.second /\ e.read < Revision(e)

ReceiveEvents ==
  /\ events.phase = "answer"
  /\ LET merged == [events EXCEPT !.got = Top({events.ans, @}), !.ans = 0]
     IN  events' = IF Outrun(events) THEN [merged EXCEPT !.phase = "wait", !.second = TRUE]
                   ELSE [merged EXCEPT !.phase = "none", !.shown = "ready"]
\* A read that fails waits and is sent again, or is given up.
FailEvents ==
  /\ events.phase = "sent"
  /\ \/ events' = [events EXCEPT !.phase = "wait"]
     \/ events' = [events EXCEPT !.phase = "none", !.shown = "error"]

-----------------------------------------------------------------------------
(* Overlays: of the three things that may be in front at most one is. *)

NoOverlay == [overlay |-> "none", image |-> 0, cancel |-> FALSE]
Bare == ui = NoOverlay /\ opening.phase = "idle"
Reachable == Bare \/ ui.overlay = "commands"
Viewed(kind) == [NoOverlay EXCEPT !.overlay = kind]
\* A bound: the details, and the question before a cancellation, are opened where events are
\* followed; an intent to open is none of theirs, since Bare keeps them apart.
Overlays == IF focus = "details" THEN {"commands", "details"} ELSE {"commands"}

\* The effects on "session" and "visible", on the conversation and on the Run.
WithoutImage(u) == IF u.overlay = "image" THEN NoOverlay ELSE u
Uncancelled(u) == [u EXCEPT !.cancel = FALSE]
AfterRun(u) ==
  IF u.overlay = "details" THEN u ELSE [u EXCEPT !.overlay = "none", !.image = 0]

\* Another address or another visibility: a new controller, new images, and no old question.
NewScope(s, seenBy) ==
  Rescope(s, seenBy, shown) /\ opening' = IdleView /\ ui' = Uncancelled(WithoutImage(ui))

OpenOverlay ==
  /\ Bare /\ \E kind \in Overlays : ui' = Viewed(kind)
  /\ \E paused \in {events.paused, FALSE} :
       /\ paused # events.paused => ui'.overlay = "details" /\ visible
       /\ Follow([events EXCEPT !.paused = paused])
  /\ SameImages /\ SameFiles /\ UNCHANGED <<shown, void>>
OpenImage(r) ==
  /\ Bare /\ readers[r].phase = "ready"
  /\ ui' = [Viewed("image") EXCEPT !.image = readers[r].res]
  /\ SameImages /\ SameFiles /\ UNCHANGED <<shown, void>>
CloseOverlay ==
  /\ ui # NoOverlay /\ ui' = NoOverlay /\ Follow(events)
  /\ SameImages /\ SameFiles /\ UNCHANGED <<shown, void>>
RequestCancel ==
  /\ Bare /\ focus = "details" /\ session # 0 /\ visible /\ ui' = [NoOverlay EXCEPT !.cancel = TRUE] /\ Follow(events)
  /\ SameImages /\ SameFiles /\ UNCHANGED <<shown, void>>
\* The Run that is shown is another one, or it ended: its question is withdrawn.
RunMoves ==
  /\ \/ ui' = AfterRun(Uncancelled(ui)) /\ Follow(OtherRun(events))
     \/ ui' = Uncancelled(ui) /\ Follow(events)
  /\ SameImages /\ SameFiles /\ UNCHANGED <<shown, void>>

\* requestFileOpen(): also from the overlay that shows an image.
RequestFile(r) ==
  /\ Bare \/ ui.overlay = "image"
  /\ session # 0 /\ visible /\ r \in shown /\ focus = "files"
  /\ Prepare(r) /\ ui' = NoOverlay
  /\ SameImages /\ UNCHANGED shown
PrepareAgain ==
  /\ opening.phase = "error" /\ Prepare(opening.ref)
  /\ SameImages /\ UNCHANGED <<shown, ui>>
CloseFile == opening.phase # "idle" /\ Close /\ SameImages /\ UNCHANGED <<shown, ui, void>>
Confirm == ConfirmFile /\ SameImages /\ UNCHANGED <<shown, ui, void>>

\* What a conversation may show: a file to open is one of one reference.
Timelines ==
  {refs \in SUBSET Refs : focus = "images" \/ refs = {} \/ (focus = "files" /\ Cardinality(refs) = 1)}

\* Messages come and go; the one that a file was asked for takes the question with it.
MessagesChange ==
  \E refs \in Timelines \ {shown} :
    /\ Timeline(refs) /\ UNCHANGED <<ui, void>>
    /\ IF opening.phase # "idle" /\ opening.ref \notin refs THEN Close ELSE SameFiles
\* select() and create(), also from the palette of commands.
ChangeConversation ==
  /\ Reachable
  /\ \E refs \in Timelines : shown' = refs /\ Rescope(session, visible, refs)
  /\ Close /\ ui' = NoOverlay /\ Follow(OtherRun(Stopped(events))) /\ UNCHANGED void

-----------------------------------------------------------------------------
(* The shell: snapshots of the backend, and the visibility of the window. *)

Publish ==
  /\ Len(host) < MaxRev
  /\ \E next \in {0, HostNow, 1 + Top({session} \cup {host[i] : i \in 1..Len(host)})} :
       host' = Append(host, next)
  /\ InvalidateIntents
  /\ SameImages /\ UNCHANGED <<seen, asking, session, visible, file, shown, opening, events, ui>>

\* accept() lets a newer snapshot through, and BackendClient.update() follows it: of an event, of
\* the answer to get_backend_state, or of the one to retry_backend.  The newest one of all makes
\* the revisions begin anew.
Renewed(s) == IF s = 0 \/ s # HostNow THEN 0 ELSE 1
Renumbered(set) == {[c EXCEPT !.lease = Renewed(@)] : c \in set}
Newer(r) == r > seen

Newest(r) == r = Len(host) /\ Newer(r)
Receive(r) ==
  LET changed == Newer(r) /\ host[r] # session
      left == calls \cup (IF changed THEN Dropped ELSE {})
  IN  /\ IF changed THEN NewScope(host[r], visible) ELSE SameImages /\ UNCHANGED <<opening, ui>>
      /\ IF Newest(r)
         THEN /\ host' = <<Renewed(HostNow)>> /\ seen' = 1 /\ session' = Renewed(HostNow)
              /\ calls' = Renumbered(left) /\ ledger' = [ledger EXCEPT !.lease = Renewed(@)]
         ELSE /\ seen' = (IF Newer(r) THEN r ELSE seen) /\ calls' = left
              /\ session' = (IF Newer(r) THEN host[r] ELSE session) /\ UNCHANGED <<host, ledger>>
  /\ asking' \in {asking, FALSE}
  /\ UNCHANGED <<visible, file, shown, void>>
  /\ Follow(IF changed THEN Stopped(events) ELSE events)
\* onError: the window gives its address up, although the shell may still lease it.
AskFails ==
  /\ asking /\ asking' = FALSE /\ session' = 0
  /\ IF session # 0 THEN NewScope(0, visible) /\ calls' = calls \cup Dropped
     ELSE SameImages /\ UNCHANGED <<opening, calls, ui>>
  /\ UNCHANGED <<host, seen, visible, file, shown, ledger, void>>
  /\ Follow(Stopped(events))
HideOrShow ==
  /\ visible' = ~visible
  /\ NewScope(session, visible') /\ ledger' = NoFile /\ void' = OpenIds
  /\ calls' = {Outdated(c) : c \in calls} \cup Dropped
  /\ UNCHANGED <<host, seen, asking, session, file, shown>>
  /\ Follow(Stopped(events))
FileChanges ==
  /\ file < MaxFile /\ file' = file + 1 /\ focus # "details"
  /\ SameImages /\ SameFiles
  /\ UNCHANGED <<host, seen, asking, session, visible, shown, ledger, events, ui, void>>

-----------------------------------------------------------------------------

ChatInit ==
  /\ host \in {<<0>>, <<1>>} /\ seen = 0 /\ session = 0 /\ visible = TRUE
  /\ file = 1 /\ focus \in {"images", "files", "details"} /\ asking = (focus # "files")
  /\ shown = {}
  /\ query = "none" /\ readers = [r \in Refs |-> NoReader] /\ urls = {}
  /\ opening = IdleView /\ ledger = NoFile /\ calls = {} /\ events = NoEvents
  /\ ui = NoOverlay /\ void = OpenIds

ImageSteps ==
  /\ WorkspaceAnswers \/ \E r \in Refs : Resolved(r) \/ (Bare /\ RetryImage(r))
     \/ \E v \in Versions : ImageRead(v)
  /\ SameFiles /\ UNCHANGED <<shown, ledger, events, ui, void>>
FileAnswers ==
  /\ \E c \in calls : PrepareReply(c) \/ OpenReply(c)
  /\ SameImages /\ UNCHANGED <<shown, ledger, events, ui, void>>
WindowSteps ==
  /\ \/ OpenOverlay \/ CloseOverlay \/ RequestCancel \/ RunMoves \/ ChangeConversation
     \/ /\ PrepareAgain \/ CloseFile \/ Confirm \/ MessagesChange
           \/ \E r \in Refs : OpenImage(r) \/ RequestFile(r)
        /\ UNCHANGED events
  /\ UNCHANGED ledger
EventSteps ==
  /\ focus = "details" /\ SameImages /\ SameFiles /\ UNCHANGED <<shown, ledger, ui, void>>
  /\ Resume \/ HearBoundary \/ StoreBoundary \/ AskEvents \/ SendEvents \/ AnswerEvents
     \/ ReceiveEvents \/ FailEvents
FileCommands ==
  /\ \E c \in calls : \/ PrepareBegins(c)
                      \/ PrepareEnds(c) /\ UNCHANGED void
                      \/ OpenBegins(c) /\ UNCHANGED void
                      \/ OpenEnds(c) /\ UNCHANGED ledger
                      \/ DiscardArrives(c)
  /\ SameImages /\ UNCHANGED <<shown, events, ui>>
ShellSteps == Publish \/ (\E r \in 1..Len(host) : Receive(r)) \/ AskFails \/ HideOrShow \/ FileChanges

ChatSteps ==
  /\ \/ /\ UNCHANGED <<host, seen, asking, session, visible, file>>
        /\ ImageSteps \/ FileAnswers \/ WindowSteps \/ FileCommands \/ EventSteps
     \/ ShellSteps
  /\ UNCHANGED focus

-----------------------------------------------------------------------------
(* Correctness. *)

WorkspaceTypeOK ==
  /\ seen \in 0..Len(host) /\ Len(host) \in 1..MaxRev /\ void \subseteq OpenIds
  /\ query \in {"none", "reading", "read"} /\ urls \subseteq Versions
  \* One thing is in front, and what is asked there is about the address in use.
  /\ opening.phase # "idle" =>
       ui = NoOverlay /\ session # 0 /\ visible /\ opening.ref \in shown
  /\ ui.cancel => ui.overlay = "none" /\ session # 0 /\ visible
  /\ ui.overlay = "image" => session # 0 /\ visible
  \* Events are read for the details in front, and nobody waits for events that nothing reads.
  /\ events.target =>
       ui.overlay = "details" /\ session # 0 /\ visible /\ ~events.paused
  /\ events.phase # "none" => events.target
  /\ events.target <=> events.shown # "idle"
  /\ events.shown = "reading" <=> events.phase # "none"

\* An image that is shown has a live URL, a URL is live only while a reader shows or awaits it
\* under the address in use, and no reader waits for an answer that nobody was asked for.
HandlesAreLive ==
  /\ \A r \in Refs : readers[r].phase = "ready" => readers[r].res \in urls
  /\ \A v \in urls : session # 0 /\ visible /\ Holders(readers, v) # {}
  /\ \A r \in Refs : /\ readers[r].phase # "none" <=> visible /\ focus = "images" /\ r \in shown
                     /\ readers[r].stage = "workspace" => query = "reading"
\* Events that the details call complete hold every boundary that the window was told of, but
\* for one told of while the supplement was read: that one is not read until the next asks.
EventsAreComplete ==
  events.shown = "ready" => events.got >= events.heard \/ events.missed
\* A file that the system is told to open is at the version that the user confirmed, and the
\* confirmation was not used, closed, hidden or overtaken by another address before that.
OpensWhatWasConfirmed ==
  [][\A c \in calls : c.kind = "open" /\ c.at = "busy" /\ [c EXCEPT !.at = "done"] \in calls' =>
        c.n \notin void /\ c.ver = file /\ visible]_chatVars

=============================================================================
