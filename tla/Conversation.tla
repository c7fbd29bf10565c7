------------------------------ MODULE Conversation ------------------------------
(***************************************************************************)
(* The conversations of the window: ConversationStore of                   *)
(* frontend/src/conversation-state.ts with MessageDrafts, the thread list, *)
(* the history of RunProjection, and the session of BackendClient.  What   *)
(* follows a Run once it is chosen is RunView; here a followed Run only    *)
(* tells that it runs or is over, and which messages it has.               *)
(*                                                                         *)
(* A handler runs to its next await with the microtasks it queued, so it   *)
(* is a function from the state of the store to the next one.  A request   *)
(* that is aborted is gone; a POST that is aborted may still be handled.   *)
(* statusVersions is only compared with the copy a list request took:      *)
(* "stale" of a request is the set of threads that moved since.            *)
(* Runs and messages are numbered by thread in the order of the backend.   *)
(* Deadlines are left out: a wait ends some time.                          *)
(***************************************************************************)
EXTENDS Integers, Sequences, FiniteSets, FiniteSetsExt

CONSTANTS
  Threads,      \* the conversations
  New,          \* no conversation is chosen: the page of a new one
  PageSize,     \* conversations of one page of the list (20 in the code)
  MaxSends,     \* bound on the messages sent
  MaxTexts,     \* bound on the texts typed
  MaxEvents,    \* bound on the texts, on what else the user asks for and on what fails
  MaxMessages   \* bound on the messages of a conversation that Runs store into

ASSUME ConversationConstants ==
  /\ IsFiniteSet(Threads) /\ New \notin Threads /\ PageSize \in Nat \ {0}
  /\ MaxSends \in Nat /\ MaxTexts \in Nat /\ MaxEvents \in Nat
  /\ MaxMessages \in Nat \ {0}

VARIABLES
  srv,   \* the backend: stamp (updated_at), Runs and messages of every thread
  late,  \* POSTs whose connection is gone: a message, or 0 for a new thread
  c,     \* the store
  disk,  \* the record of MessageDrafts, as it was saved last
  log    \* history: what was asked, what failed, what the user typed and knows

vars == <<srv, late, c, disk, log>>

Sends == 1..MaxSends
Texts == SUBSET (1..MaxTexts)
RunIds == 0..(1 + MaxSends)

-----------------------------------------------------------------------------
(* The backend. *)

Made(t) == srv[t].stamp > 0
Last(t) == Len(srv[t].runs)
Over(t, run) == srv[t].runs[run].over
Busy(t) == Last(t) > 0 /\ ~Over(t, Last(t))
Owner(t, seq) == srv[t].msgs[seq]
Owned(t, run) == {seq \in 1..Len(srv[t].msgs) : Owner(t, seq) = run}
Now == 1 + Max({srv[t].stamp : t \in Threads})

\* create_run: a thread has one active Run, which is committed with the message it answers.
Started(t, send) ==
  [srv EXCEPT ![t] = [stamp |-> Now, runs |-> Append(@.runs, [send |-> send, over |-> FALSE]),
                      msgs |-> Append(@.msgs, Last(t) + 1)]]

\* The summary of a thread, of its last Run.
Summary(t) ==
  [run |-> Last(t), over |-> Last(t) > 0 /\ Over(t, Last(t)), stamp |-> srv[t].stamp]

\* list_threads: the threads changed last, before the cursor (the one with that stamp).
Page(cursor) ==
  LET below == {t \in Threads : Made(t) /\ (cursor > 0 => srv[t].stamp < cursor)}
      After(t) == {u \in below : srv[u].stamp > srv[t].stamp}
      data == {t \in below : Cardinality(After(t)) < PageSize}
  IN  [items |-> [t \in data |-> Summary(t)],
       next |-> IF data = below \/ Cardinality(data) < PageSize THEN 0
                ELSE Min({srv[t].stamp : t \in data})]

-----------------------------------------------------------------------------
(* The store. *)

NoItem == [run |-> 0, over |-> FALSE, stamp |-> -1]
NoPage == [items |-> [t \in {} |-> NoItem], next |-> 0]
NoRequest == [phase |-> "none", stale |-> {}, ans |-> NoPage, cursor |-> 0]
NoHistory == [n |-> 0, over |-> {}]
NoRead == [phase |-> "none", ans |-> NoHistory]
NoPost == [send |-> 0, run |-> 0]
NoCreation == [phase |-> "none", here |-> FALSE, first |-> FALSE, text |-> {}, version |-> 0,
               copy |-> {}, thread |-> New]
NoDraft == [text |-> {}, version |-> 0]
NoSubmission == [id |-> 0, text |-> {}, version |-> 0, prev |-> 0, status |-> "none", run |-> 0]
NoView == [run |-> 0, over |-> FALSE, history |-> "idle", verified |-> FALSE]
NoProjection == [run |-> 0, over |-> {}, floor |-> 0, seqs |-> {}]

\* What MessageDrafts keeps.
Inputs(s) == [drafts |-> s.drafts, new |-> s.new, subs |-> s.subs]

\* update, updateNewConversationDraft: a draft of another text is of another version.
Redrafted(draft, text) ==
  IF draft.text = text THEN draft ELSE [text |-> text, version |-> draft.version + 1]
Update(s, t, text) == [s EXCEPT !.drafts[t] = Redrafted(@, text)]
UpdateNew(s, text) == [s EXCEPT !.new = Redrafted(@, text)]

\* transferNewConversationDraft.
Transfer(s, t) == [s EXCEPT !.drafts[t] = s.new, !.new = [text |-> {}, version |-> @.version + 1]]

\* begin: the submission replaces the one before.
BeginSubmission(s, t, text, version, n) ==
  [s EXCEPT !.subs[t] = [id |-> n, text |-> text, version |-> version, prev |-> s.view[t].run,
                         status |-> "pending", run |-> 0]]

\* Mutant of MarkUnknown: a submission whose POST is gone stays pending.
KeepPending(s, t) == s

\* markSubmissionUnknown.
MarkUnknown(s, t) ==
  IF t # New /\ s.subs[t].status = "pending" THEN [s EXCEPT !.subs[t].status = "unknown"] ELSE s

\* Mutant of ClearSubmittedDraft: whatever the draft is now, it is empty after.
ClearDraft(s, t) == Update(s, t, {})

\* clearSubmittedDraft: only the draft that was submitted, and not edited since.
ClearSubmittedDraft(s, t) ==
  LET d == s.drafts[t]
      sub == s.subs[t]
  IN  IF d.version = sub.version /\ d.text = sub.text THEN Update(s, t, {}) ELSE s

\* accept, of the submission that was sent; confirm; rejected.
Accept(s, t, id, run) ==
  IF s.subs[t].id # id \/ s.subs[t].status # "pending" THEN s
  ELSE [ClearSubmittedDraft(s, t) EXCEPT !.subs[t].status = "accepted", !.subs[t].run = run]
Confirm(s, t) ==
  IF s.subs[t].status # "unknown" THEN s
  ELSE [ClearSubmittedDraft(s, t) EXCEPT !.subs[t] = NoSubmission]
Rejected(s, t) == IF s.subs[t].status # "pending" THEN s ELSE [s EXCEPT !.subs[t] = NoSubmission]

\* stopSelection: every reader and writer of the chosen conversation is aborted.
StopSelection(s) ==
  LET t == s.active
      idle(v) == [v EXCEPT !.verified = FALSE,
                           !.history = IF @ = "loading" THEN "idle" ELSE @]
  IN  [MarkUnknown(s, t) EXCEPT
         !.read = NoRead, !.summary = NoRead, !.target = <<New, 0>>,
         !.post = NoPost, !.follow = "none", !.meta = FALSE, !.snap = FALSE,
         !.commit = FALSE, !.chain = FALSE,
         !.view = [u \in Threads |-> IF u = t THEN idle(@[u]) ELSE @[u]]]

\* loadThreads: one request of the first page at a time, unless the list is reloaded.
LoadThreads(s, reset) ==
  IF ~s.up \/ (s.list.phase # "none" /\ ~reset) THEN s
  ELSE [s EXCEPT !.list = [NoRequest EXCEPT !.phase = "sent"], !.listError = FALSE,
                 !.more = IF reset THEN NoRequest ELSE @, !.reset = reset \/ ~s.loaded]

\* openSelected, to its first await.
Open(s) ==
  [StopSelection(s) EXCEPT !.view[s.active].history = "loading",
                           !.read = [NoRead EXCEPT !.phase = "sent"]]

\* enter: what the microtask reads, of the latest conversation.
Enter(s, list) ==
  LET listed == IF list THEN LoadThreads(s, FALSE) ELSE s
  IN  IF ~s.up THEN s ELSE IF s.active # New THEN Open(listed) ELSE listed

Reload(s) == Enter(StopSelection(s), TRUE)

\* The end of create(): the text to copy goes where it was created (copyDraftToNewConversation).
EndCreation(s) ==
  LET k == s.creation.copy
      to == s.creation.thread
      done == [s EXCEPT !.creation = NoCreation]
  IN  IF s.creation.phase = "listing" /\ k # {}
      THEN Update(done, to, done.drafts[to].text \cup k) ELSE done

\* create() waits for the list.
EndListing(s) == IF s.creation.phase = "listing" THEN EndCreation(s) ELSE s

\* revoke: the session ended or the window is hidden.
Revoke(s) ==
  LET stopped == StopSelection(EndCreation(s))
  IN  [stopped EXCEPT !.up = FALSE, !.list = NoRequest, !.more = NoRequest,
         !.view = [t \in Threads |-> [@[t] EXCEPT !.verified = FALSE]]]

\* syncRun: the list shows what a stream said, and older answers shall not undo it.
SyncRun(s, t, run, over) ==
  LET Moved(r) == IF r.phase = "none" THEN r ELSE [r EXCEPT !.stale = @ \cup {t}]
  IN  [s EXCEPT !.list = Moved(@), !.more = Moved(@),
                !.items[t] = IF @ = NoItem THEN @ ELSE [@ EXCEPT !.run = run, !.over = over]]

-----------------------------------------------------------------------------
(* The thread list. *)

\* Mutant of Protected: an answer is believed unless it reopens a Run that is over.
ProtectedIfOver(s, t, item, stale) ==
  s.items[t].run = item.run /\ s.items[t].over /\ ~item.over

\* mergeThreads: what the list knows better than the answer of a request.
Protected(s, t, item, stale) ==
  \/ s.meta /\ s.active = t
  \/ t \in stale
  \/ s.items[t].run = item.run /\ s.items[t].over /\ ~item.over

MergeItem(s, t, item, stale) ==
  LET old == s.items[t]
  IN  IF old = NoItem THEN item
      ELSE IF old.stamp > 0 /\ item.stamp < old.stamp THEN old
      ELSE IF Protected(s, t, item, stale) THEN [old EXCEPT !.stamp = item.stamp]
      ELSE item

MergeThreads(s, request) ==
  LET got == request.ans.items
  IN  [s EXCEPT !.items = [t \in Threads |->
         IF t \in DOMAIN got THEN MergeItem(s, t, got[t], request.stale) ELSE @[t]]]

\* reconcileSummary: the list tells of another Run, so the history is read again.
ReconcileSummary(s, t, run) ==
  LET told == IF s.target = <<t, run>> THEN s
              ELSE [s EXCEPT !.summary = NoRead, !.target = <<t, run>>]
      v == s.view[t]
      wanted == run # 0 /\ run # v.run /\ v.history = "ready"
                /\ ~(s.post # NoPost /\ ~s.meta) /\ told.summary.phase = "none"
  IN  IF wanted THEN [told EXCEPT !.summary = [NoRead EXCEPT !.phase = "sent"]] ELSE told

SelectedIsNews(s) ==
  /\ s.active \in DOMAIN s.list.ans.items /\ s.active \notin s.list.stale
  /\ LET item == s.list.ans.items[s.active]
     IN  s.items[s.active].stamp <= 0 \/ item.stamp >= s.items[s.active].stamp

ReceiveList ==
  /\ c.list.phase = "answer"
  /\ LET told == IF SelectedIsNews(c)
                 THEN ReconcileSummary(c, c.active, c.list.ans.items[c.active].run) ELSE c
         merged == MergeThreads(told, c.list)
     IN  c' = EndListing([merged EXCEPT !.list = NoRequest, !.loaded = TRUE, !.reset = FALSE,
                            !.cursor = IF c.reset THEN c.list.ans.next ELSE @,
                            !.pageError = @ /\ ~c.reset])
  /\ UNCHANGED <<srv, late, log>>

ReceiveMore ==
  /\ c.more.phase = "answer"
  /\ c' = [MergeThreads(c, c.more) EXCEPT !.more = NoRequest, !.cursor = c.more.ans.next]
  /\ UNCHANGED <<srv, late, log>>

AnswerList ==
  /\ \/ c.list.phase = "sent" /\ c' = [c EXCEPT !.list.phase = "answer", !.list.ans = Page(0)]
     \/ c.more.phase = "sent"
        /\ c' = [c EXCEPT !.more.phase = "answer", !.more.ans = Page(c.more.cursor)]
  /\ UNCHANGED <<srv, late, log>>

\* The timer of the list.  A poll that would find nothing new is left out.
Poll ==
  /\ c.up /\ c.list.phase = "none"
  /\ \E t \in DOMAIN Page(0).items : c.items[t] # Summary(t)
  /\ c' = LoadThreads(c, FALSE)
  /\ UNCHANGED <<srv, late, log>>

-----------------------------------------------------------------------------
(* History: openSelected, reconcileSummary, readCommittedHistory. *)

\* metadata(): a Run that is over does not begin again; of another Run, what was known of
\* messages before is below its floor.
Metadata(p, run, over) ==
  LET known == [p EXCEPT !.over = IF over THEN @ \cup {run} ELSE @]
  IN  IF run \in p.over /\ ~over THEN p
      ELSE IF p.run = run THEN known
      ELSE [known EXCEPT !.run = run, !.floor = Max({0} \cup p.seqs)]

MergeMessages(p, seqs) == [p EXCEPT !.seqs = @ \cup seqs]

\* mergeHistory: the Run of the last message, unless it is older than the Run on show.
MergeHistory(p, t, ans) ==
  LET merged == MergeMessages(p, 1..ans.n)
      latest == Max({0} \cup merged.seqs)
      run == IF latest = 0 THEN 0 ELSE Owner(t, latest)
      found == \E seq \in 1..ans.n : Owner(t, seq) = run
  IN  IF found /\ (p.run = 0 \/ run = p.run \/ latest > p.floor)
      THEN Metadata(merged, run, run \in ans.over) ELSE merged

\* Publishing the projection of a thread.
Publish(s, t) ==
  LET run == s.proj[t].run
  IN  [s EXCEPT !.view[t].run = run, !.view[t].over = run \in s.proj[t].over]

\* restoreSelectedRun: a Run that goes on is observed, any Run is read once.
Restore(s, t) ==
  LET run == s.proj[t].run
      shown == [Publish(s, t) EXCEPT !.view[t].history = "ready", !.view[t].verified = run = 0]
  IN  IF run = 0 THEN shown
      ELSE [shown EXCEPT !.snap = TRUE, !.follow = IF shown.view[t].over THEN "none" ELSE "get"]

History(t) ==
  [n |-> Len(srv[t].msgs), over |-> {run \in 1..Last(t) : Over(t, run)}]

AnswerHistory ==
  /\ c.active # New
  /\ \/ c.read.phase = "sent"
        /\ c' = [c EXCEPT !.read = [phase |-> "answer", ans |-> History(c.active)]]
     \/ c.summary.phase = "sent"
        /\ c' = [c EXCEPT !.summary = [phase |-> "answer", ans |-> History(c.active)]]
  /\ UNCHANGED <<srv, late, log>>

\* The store once openSelected has read the history of the conversation on show.
HistoryRead ==
  [c EXCEPT !.proj[c.active] = MergeHistory(@, c.active, c.read.ans), !.read = NoRead]

\* An accepted message whose Run the history does not have, or has not made the last.  The
\* GET of that Run is left out: no history is without it (NeverLooksUp).
MustLookUp(s, t) ==
  s.subs[t].status = "accepted" /\ s.proj[t].run \in {0, s.subs[t].prev}

ReceiveHistory ==
  /\ c.read.phase = "answer"
  /\ c' = Restore(HistoryRead, c.active)
  /\ UNCHANGED <<srv, late, log>>

ReceiveSummary ==
  /\ c.summary.phase = "answer"
  /\ LET t == c.active
         ans == c.summary.ans
         prev == c.view[t].run
         merged == [c EXCEPT !.proj[t] = MergeMessages(@, 1..ans.n), !.summary = NoRead]
         last == IF ans.n = 0 THEN 0 ELSE Owner(t, ans.n)
         told == IF last = prev THEN merged
                 ELSE [merged EXCEPT !.proj[t] = MergeHistory(@, t, ans)]
         shown == Publish(told, t)
     IN  c' = IF told.proj[t].run = prev THEN shown ELSE Restore(StopSelection(shown), t)
  /\ UNCHANGED <<srv, late, log>>

\* After the end of a send the messages are read, found or not, and then the list.
EndCommit(s) ==
  LET read == [s EXCEPT !.commit = FALSE]
  IN  IF s.chain /\ s.follow = "none" THEN LoadThreads([read EXCEPT !.chain = FALSE], FALSE) ELSE read

\* readCommittedHistory: messages only.
ReceiveCommitted ==
  /\ c.commit
  /\ LET t == c.active
         told == [c EXCEPT !.proj[t] = MergeMessages(@, 1..Len(srv[t].msgs))]
     IN  c' = EndCommit([Publish(told, t) EXCEPT !.view[t].history = "ready"])
  /\ UNCHANGED <<srv, late, log>>

\* readSavedContent: the messages of a Run that is over.
ReceiveSaved ==
  /\ c.up /\ c.active # New
  /\ LET t == c.active
         v == c.view[t]
     IN  /\ v.verified /\ v.over /\ ~(Owned(t, v.run) \subseteq c.proj[t].seqs)
         /\ c' = [c EXCEPT !.proj[t] = MergeMessages(@, Owned(t, v.run))]
  /\ UNCHANGED <<srv, late, log>>

\* The GET of the Run on show (readSnapshot); a connected stream keeps its own status.
ReceiveSnapshot ==
  /\ c.snap
  /\ \E preserve \in {c.meta, c.follow # "none"} :
       LET t == c.active
           run == c.proj[t].run
           told == IF preserve THEN c ELSE [c EXCEPT !.proj[t] = Metadata(@, run, Over(t, run))]
           shown == [Publish(told, t) EXCEPT !.snap = FALSE, !.view[t].verified = TRUE]
       IN  c' = SyncRun(shown, t, run, shown.view[t].over)
  /\ UNCHANGED <<srv, late, log>>

-----------------------------------------------------------------------------
(* Sending, and the stream of the Run. *)

Sending(s) == s.post.send # 0 /\ ~s.meta

\* startSend: the submission is kept before the POST leaves.
StartSend(s, t, text, version, n) ==
  [BeginSubmission(StopSelection(s), t, text, version, n)
     EXCEPT !.post = [send |-> n, run |-> 0], !.follow = "post", !.chain = TRUE]

\* The backend handles the POST.
ServePost ==
  /\ c.post.send # 0 /\ c.post.run = 0 /\ ~Busy(c.active)
  /\ srv' = Started(c.active, c.post.send)
  /\ c' = [c EXCEPT !.post.run = Last(c.active) + 1]
  /\ UNCHANGED <<late, log>>

\* The first metadata of the POST is its acceptance.
AcceptSend ==
  /\ c.post.run # 0 /\ ~c.meta
  /\ LET t == c.active
         run == c.post.run
         told == SyncRun([c EXCEPT !.proj[t] = Metadata(@, run, FALSE), !.meta = TRUE], t, run, FALSE)
         shown == [Publish(told, t) EXCEPT !.view[t].verified = TRUE]
     IN  c' = Accept(shown, t, c.post.send, run)
  /\ log' = [log EXCEPT !.known = @ \cup {c.post.send}]
  /\ UNCHANGED <<srv, late>>

\* The first metadata of a GET stream.
OpenStream ==
  /\ c.follow = "get" /\ ~c.meta
  /\ LET t == c.active
         run == c.proj[t].run
         told == [c EXCEPT !.proj[t] = Metadata(@, run, Over(t, run)), !.meta = TRUE]
         shown == [Publish(told, t) EXCEPT !.view[t].verified = TRUE]
     IN  c' = SyncRun(shown, t, run, shown.view[t].over)
  /\ UNCHANGED <<srv, late, log>>

\* The messages of the Run, as they come by its stream.
StreamMessages ==
  /\ c.meta
  /\ LET t == c.active
     IN  /\ ~(Owned(t, c.proj[t].run) \subseteq c.proj[t].seqs)
         /\ c' = [c EXCEPT !.proj[t] = MergeMessages(@, Owned(t, c.proj[t].run))]
  /\ UNCHANGED <<srv, late, log>>

\* The stream ends with its Run (finishObservation): the Run is read once more, and after
\* a send the history and the list as well.
EndStream ==
  /\ c.meta /\ Over(c.active, c.proj[c.active].run)
  /\ LET t == c.active
         run == c.proj[t].run
         told == [c EXCEPT !.proj[t] = Metadata(@, run, TRUE), !.meta = FALSE, !.follow = "none",
                           !.post = NoPost, !.snap = TRUE, !.commit = @ \/ c.chain]
     IN  c' = SyncRun(Publish(told, t), t, run, TRUE)
  /\ UNCHANGED <<srv, late, log>>

-----------------------------------------------------------------------------
(* What goes wrong. *)

Event == log.events < MaxEvents /\ log' = [log EXCEPT !.events = @ + 1]

\* Mutant of Refused: an answer of any status is taken for a refusal.
Answered(status) == TRUE

\* The statuses that tell a message was not taken.
Refused(status) == status \in {400, 409, 422}

\* The POST fails before its first metadata: refused, or nobody knows (status 0).  The
\* history is read then; the POST is not sent again, but may still be handled.
FailSend(status) ==
  /\ Sending(c)
  /\ Refused(status) => c.post.run = 0
  /\ IF status = 409 THEN Busy(c.active) /\ UNCHANGED log ELSE Event
  /\ c' = Reload(IF Refused(status) THEN Rejected(c, c.active) ELSE MarkUnknown(c, c.active))
  /\ late' = late \cup (IF status = 0 /\ c.post.run = 0 THEN {c.post.send} ELSE {})
  /\ UNCHANGED srv

\* A stream breaks after its first metadata, or a GET before: it is opened again, or given up.
\* After an accepted send the messages are read meanwhile.
BreakStream ==
  /\ c.follow # "none" /\ ~Sending(c)
  /\ Event
  /\ \E follow \in {"get", "none"} :
       c' = [c EXCEPT !.follow = follow, !.post = NoPost, !.meta = FALSE,
               !.commit = @ \/ (c.chain /\ c.follow = "post"),
               !.chain = @ /\ follow = "get", !.view[c.active].verified = FALSE]
  /\ UNCHANGED <<srv, late>>

\* A request of the list, of a page or of the Run fails.
FailRead ==
  /\ Event
  /\ \/ c.list.phase # "none" /\ c' = EndListing([c EXCEPT !.list = NoRequest, !.listError = TRUE])
     \/ c.more.phase # "none" /\ c' = [c EXCEPT !.more = NoRequest, !.pageError = TRUE]
     \/ c.summary.phase # "none" /\ c' = [c EXCEPT !.summary = NoRead]
     \/ c.snap /\ c' = [c EXCEPT !.snap = FALSE]
     \/ c.commit /\ c' = EndCommit(c)
  /\ UNCHANGED <<srv, late>>

\* openSelected fails: what is shown is not verified.
FailHistory ==
  /\ c.read.phase # "none"
  /\ Event
  /\ c' = [c EXCEPT !.read = NoRead, !.view[c.active].history = "error",
                    !.view[c.active].verified = FALSE]
  /\ UNCHANGED <<srv, late>>

-----------------------------------------------------------------------------
(* What the user asks for. *)

\* An aborted POST that was not handled yet may still be.
Aborts ==
  late' = late \cup (IF c.post.run = 0 /\ c'.post.send # c.post.send THEN {c.post.send} \ {0} ELSE {})
               \cup (IF c.creation.phase = "sent" /\ c'.creation.phase = "none" THEN {0} ELSE {})

\* updateDraft: a text of his own in the draft on show; the one it replaces he gave up.  A
\* draft that nobody read yet is not replaced (a bound).
Type ==
  /\ log.texts < MaxTexts /\ log.events < MaxEvents
  /\ LET n == log.texts + 1
         old == IF c.active = New THEN c.new ELSE c.drafts[c.active]
         others == UNION ({c.drafts[t].text : t \in Threads \ {c.active}}
                           \cup IF c.active = New THEN {} ELSE {c.new.text})
         out == c.creation # NoCreation \/ (c.active # New /\ c.subs[c.active].id # 0)
     IN  /\ old.text = {} \/ out
         /\ c' = IF c.active = New THEN UpdateNew(c, {n}) ELSE Update(c, c.active, {n})
         /\ log' = [log EXCEPT !.texts = n, !.events = @ + 1, !.mine = (@ \ (old.text \ others)) \cup {n}]
  /\ UNCHANGED <<srv, late>>

\* activateConversation: a creation that is under way is not followed any more.
Activate(s, t) == [StopSelection(s) EXCEPT !.active = t, !.creation.here = FALSE]

\* select.
Select(t) ==
  /\ c.items[t] # NoItem
  /\ Event
  /\ c' = Enter(Activate(c, t), FALSE)
  /\ Aborts /\ UNCHANGED srv

\* openNewConversation.
OpenNew ==
  /\ c.active # New
  /\ Event
  /\ c' = Activate(c, New)
  /\ Aborts /\ UNCHANGED srv

AskReload ==
  /\ c.up /\ Event
  /\ c' = Reload(c)
  /\ Aborts /\ UNCHANGED srv

\* reloadThreads: the list from its first page.
ReloadThreads ==
  /\ c.up /\ Event
  /\ c' = LoadThreads(EndListing(c), TRUE)
  /\ UNCHANGED <<srv, late>>

LoadMore ==
  /\ c.up /\ c.cursor # 0 /\ c.more.phase = "none" /\ c.list.phase = "none" /\ ~c.listError
  /\ Event
  /\ c' = [c EXCEPT !.more = [NoRequest EXCEPT !.phase = "sent", !.cursor = c.cursor],
                    !.pageError = FALSE]
  /\ UNCHANGED <<srv, late>>

\* The window is hidden, or its backend is gone.
Hide ==
  /\ c.up /\ Event
  /\ c' = Revoke(c)
  /\ Aborts /\ UNCHANGED srv

\* setSession, setVisible.
Show ==
  /\ ~c.up
  /\ c' = Enter([c EXCEPT !.up = TRUE], TRUE)
  /\ UNCHANGED <<srv, late, log>>

CanStartRun ==
  /\ c.up /\ c.active # New
  /\ LET v == c.view[c.active]
     IN  v.history = "ready" /\ v.verified /\ (v.run = 0 \/ v.over)
  /\ ~Sending(c) /\ c.creation = NoCreation

CanCreate == c.up /\ c.creation = NoCreation /\ c.list.phase = "none"

NewSend(t, text, explicit) ==
  log' = [log EXCEPT !.sent = Append(@, [thread |-> t, text |-> text, explicit |-> explicit])]

CanAskSend == Len(log.sent) < MaxSends

\* send, in a conversation.
Send ==
  /\ CanAskSend /\ CanStartRun
  /\ LET t == c.active
         d == c.drafts[t]
     IN  /\ d.text # {} /\ c.subs[t].status \in {"none", "accepted"}
         /\ c' = StartSend(c, t, d.text, d.version, Len(log.sent) + 1)
         /\ NewSend(t, d.text, FALSE)
  /\ Aborts /\ UNCHANGED srv

\* sendAsNewTask: the user sends again what nobody knows of.
SendAsNewTask ==
  /\ CanAskSend /\ CanStartRun
  /\ LET t == c.active
         sub == c.subs[t]
     IN  /\ sub.status = "unknown"
         /\ c' = StartSend(c, t, sub.text, sub.version, Len(log.sent) + 1)
         /\ NewSend(t, sub.text, TRUE)
  /\ Aborts /\ UNCHANGED srv

\* confirmSend: the user finds his message among those read.  A wrong one he gives up.
ConfirmSend ==
  /\ c.up /\ c.active # New
  /\ LET t == c.active
         sub == c.subs[t]
     IN  /\ sub.status = "unknown" /\ c.view[t].history = "ready" /\ c.view[t].verified
         /\ \E seq \in c.proj[t].seqs :
              log' = [log EXCEPT !.known = @ \cup {sub.id},
                        !.mine = IF srv[t].runs[Owner(t, seq)].send = sub.id THEN @ ELSE @ \ sub.text]
         /\ c' = Confirm(c, t)
  /\ UNCHANGED <<srv, late>>

\* create: the first message of a new conversation, or a copy of a draft.
Create(first, text, version, copy) ==
  c' = [c EXCEPT !.creation = [phase |-> "sent", here |-> TRUE, first |-> first, text |-> text,
                               version |-> version, copy |-> copy, thread |-> New]]

SendFirst ==
  /\ CanAskSend /\ CanCreate
  /\ c.active = New /\ c.new.text # {}
  /\ Create(TRUE, c.new.text, c.new.version, {})
  /\ UNCHANGED <<srv, late, log>>

CopyDraft ==
  /\ c.active # New /\ CanCreate
  /\ LET t == c.active
         text == IF c.drafts[t].text # {} THEN c.drafts[t].text ELSE c.subs[t].text
     IN  text # {} /\ Create(FALSE, {}, 0, text)
  /\ Event
  /\ UNCHANGED <<srv, late>>

MadeThread(t) == [srv EXCEPT ![t].stamp = Now]

ServeCreate ==
  /\ c.creation.phase = "sent"
  /\ \E t \in Threads :
       /\ ~Made(t) /\ srv' = MadeThread(t)
       /\ c' = [c EXCEPT !.creation.phase = "made", !.creation.thread = t]
  /\ UNCHANGED <<late, log>>

\* The list is read last; a request of it that is out is not waited for.
ListCreation(s) ==
  IF s.list.phase # "none" THEN EndCreation(s) ELSE LoadThreads(s, FALSE)

\* The new conversation is shown if the user did not turn elsewhere: with its first message
\* sent as it was, and the draft as it is now.
ReceiveCreate ==
  /\ c.creation.phase = "made"
  /\ LET k == c.creation
         t == k.thread
         listed == [c EXCEPT !.creation.phase = "listing",
                             !.items[t] = IF @ = NoItem THEN [@ EXCEPT !.stamp = 0] ELSE @]
         moved == Activate(Transfer(listed, t), t)
         ready == [moved EXCEPT !.view[t].history = "ready", !.view[t].verified = TRUE]
     IN  IF k.here /\ k.first
         THEN /\ c' = ListCreation(StartSend(ready, t, k.text, k.version, Len(log.sent) + 1))
              /\ NewSend(t, k.text, FALSE)
         ELSE /\ c' = ListCreation(IF k.here THEN Enter(Activate(listed, t), FALSE) ELSE listed)
              /\ UNCHANGED log
  /\ Aborts /\ UNCHANGED srv

\* Nobody knows whether the conversation was made: it is not made again.
FailCreate ==
  /\ c.creation.phase \in {"sent", "made"}
  /\ Event
  /\ c' = ListCreation([c EXCEPT !.creation.phase = "listing", !.creation.copy = {}])
  /\ late' = late \cup (IF c.creation.phase = "sent" THEN {0} ELSE {})
  /\ UNCHANGED srv

\* save() fails: from now on nothing is saved, and the user is told.
BreakStorage ==
  /\ c.saves /\ Event
  /\ c' = [c EXCEPT !.saves = FALSE]
  /\ UNCHANGED <<srv, late>>

NoStore(inputs) ==
  [up |-> FALSE, active |-> New, view |-> [t \in Threads |-> NoView],
   proj |-> [t \in Threads |-> NoProjection], items |-> [t \in Threads |-> NoItem],
   list |-> NoRequest, more |-> NoRequest, reset |-> FALSE, loaded |-> FALSE, cursor |-> 0,
   listError |-> FALSE, pageError |-> FALSE, read |-> NoRead,
   summary |-> NoRead, target |-> <<New, 0>>, post |-> NoPost, follow |-> "none", meta |-> FALSE,
   snap |-> FALSE, commit |-> FALSE, chain |-> FALSE, creation |-> NoCreation, saves |-> TRUE,
   drafts |-> inputs.drafts, new |-> inputs.new,
   subs |-> [t \in Threads |-> [inputs.subs[t] EXCEPT !.status = IF @ = "pending" THEN "unknown" ELSE @]]]

\* The application is opened again (the constructor of MessageDrafts).
Restart ==
  /\ log.events < MaxEvents
  /\ log' = [log EXCEPT !.events = @ + 1, !.forgotten = @ \/ disk # Inputs(c)]
  /\ c' = NoStore(disk)
  /\ Aborts /\ UNCHANGED srv

-----------------------------------------------------------------------------
(* The backend on its own. *)

ServeLate ==
  \E x \in late :
    /\ late' = late \ {x}
    /\ IF x = 0 THEN \E t \in Threads : ~Made(t) /\ srv' = MadeThread(t)
       ELSE ~Busy(log.sent[x].thread) /\ srv' = Started(log.sent[x].thread, x)
    /\ UNCHANGED <<c, log>>

RunStores(t) ==
  /\ Busy(t) /\ Len(srv[t].msgs) < MaxMessages
  /\ srv' = [srv EXCEPT ![t].msgs = Append(@, Last(t))]
  /\ UNCHANGED <<late, c, log>>

RunEnds(t) ==
  /\ Busy(t)
  /\ srv' = [srv EXCEPT ![t].runs[Last(t)].over = TRUE, ![t].stamp = Now]
  /\ UNCHANGED <<late, c, log>>

-----------------------------------------------------------------------------

Init ==
  /\ \E stamp \in [Threads -> 0..Cardinality(Threads)] :
       /\ \E t \in Threads : stamp[t] # 0
       /\ \A t, u \in Threads : t # u /\ stamp[t] = stamp[u] => stamp[t] = 0
       /\ {stamp[t] : t \in Threads} \ {0} = 1..Cardinality({t \in Threads : stamp[t] # 0})
       /\ srv = [t \in Threads |-> IF stamp[t] # 0
                   THEN [stamp |-> stamp[t], runs |-> <<[send |-> 0, over |-> TRUE]>>, msgs |-> <<1>>]
                   ELSE [stamp |-> 0, runs |-> <<>>, msgs |-> <<>>]]
  /\ late = {}
  /\ disk = [drafts |-> [t \in Threads |-> NoDraft], new |-> NoDraft,
             subs |-> [t \in Threads |-> NoSubmission]]
  /\ c = NoStore(disk)
  /\ log = [events |-> 0, texts |-> 0, sent |-> <<>>, mine |-> {}, known |-> {},
            forgotten |-> FALSE]

Answers == AnswerList \/ AnswerHistory \/ ServePost \/ ServeCreate \/ ServeLate
           \/ \E t \in Threads : RunStores(t) \/ RunEnds(t)

Receives == ReceiveList \/ ReceiveMore \/ Poll \/ ReceiveHistory
            \/ ReceiveSummary \/ ReceiveCommitted \/ ReceiveSaved \/ ReceiveSnapshot
            \/ AcceptSend \/ OpenStream \/ StreamMessages \/ EndStream \/ ReceiveCreate

Fails == (\E status \in {0, 409, 422} : FailSend(status)) \/ BreakStream \/ FailRead
         \/ FailHistory \/ FailCreate \/ BreakStorage

Asks == Type \/ (\E t \in Threads : Select(t)) \/ OpenNew \/ AskReload \/ ReloadThreads
        \/ LoadMore \/ Hide \/ Show \/ Send \/ SendAsNewTask \/ ConfirmSend \/ SendFirst
        \/ CopyDraft \/ Restart

\* Every change of the drafts and submissions is saved at once (save).
Next ==
  /\ Answers \/ Receives \/ Fails \/ Asks
  /\ disk' = IF c'.saves THEN Inputs(c') ELSE disk

Spec == Init /\ [][Next]_vars

-----------------------------------------------------------------------------
(* Properties. *)

DraftType == [text : Texts, version : Nat]

SubmissionType ==
  [id : 0..MaxSends, text : Texts, version : Nat, prev : RunIds, run : RunIds,
   status : {"none", "pending", "unknown", "accepted"}]

RequestType(r) ==
  r.phase \in {"none", "sent", "answer"} /\ r.stale \subseteq Threads /\ r.cursor \in Nat

\* Type invariant: a submission is pending only while its POST is out and not accepted,
\* and what is shown of a thread is what its projection says.
TypeOK ==
  /\ late \subseteq 0..MaxSends
  /\ c.active \in Threads \cup {New}
  /\ c.drafts \in [Threads -> DraftType] /\ c.new \in DraftType
  /\ c.subs \in [Threads -> SubmissionType]
  /\ RequestType(c.list) /\ RequestType(c.more)
  /\ c.follow \in {"none", "get", "post"} /\ (c.meta => c.follow # "none")
  /\ c.creation.phase \in {"none", "sent", "made", "listing"}
  /\ \A t \in Threads :
       /\ c.view[t].run <= Last(t) /\ (c.view[t].history = "ready" => c.view[t].run = c.proj[t].run)
       /\ c.subs[t].status = "pending" => t = c.active /\ Sending(c) /\ c.post.send = c.subs[t].id
       /\ c.view[t].verified => t = c.active /\ c.up

Ran(n) == \E run \in 1..Last(log.sent[n].thread) : srv[log.sent[n].thread].runs[run].send = n

\* The user sent it again himself, as a new task, by the time of send m.
SentAgain(n, m) ==
  \E k \in n+1..m : log.sent[k].explicit /\ log.sent[k].thread = log.sent[n].thread

\* The GET of an accepted Run (openSelected) is for a history without it: there is none.
NeverLooksUp == c.read.phase = "answer" => ~MustLookUp(HistoryRead, c.active)

\* A message that became a Run is never sent again but at the user's explicit wish, and what
\* he knows of it is never lost: he saw it accepted, or found it, or is still asked to look.
\* While it is the accepted one, what is shown is its Run or a later one, and the history
\* that openSelected reads never lacks it (NeverLooksUp).
SendsAreAccountedFor ==
  ~log.forgotten =>
    /\ \A n \in DOMAIN log.sent :
         Ran(n) => \/ c.subs[log.sent[n].thread].id >= n
                   \/ n \in log.known \/ SentAgain(n, Len(log.sent))
    /\ \A n, m \in DOMAIN log.sent :
         n < m /\ log.sent[n].thread = log.sent[m].thread /\ Ran(n)
           => log.sent[n].text \cap log.sent[m].text = {} \/ SentAgain(n, m)
    /\ \A t \in Threads :
         c.view[t].history = "ready" /\ c.subs[t].status = "accepted"
           => c.view[t].run >= c.subs[t].run
    /\ NeverLooksUp

\* What the user typed and did not replace himself is never lost: it is in a draft, in a
\* submission, in the conversation being created, or it is a Run -- through every failure,
\* every change of the conversation on show and every restart with a storage that works.
TextIsKept ==
  ~log.forgotten =>
    log.mine \subseteq
      c.new.text \cup c.creation.text
      \cup (UNION {c.drafts[t].text \cup c.subs[t].text : t \in Threads})
      \cup (UNION {log.sent[n].text : n \in {k \in DOMAIN log.sent : Ran(k)}})

\* What the window shows never goes back to an earlier Run, and a Run that it shows as over
\* does not go on again: in a conversation, whatever answers come late, and in the list for
\* all conversations but the one on show, whose stream has the last word (syncRun).
Forward(old, new) ==
  /\ new.run >= old.run
  /\ old.over /\ new.run = old.run => new.over

NothingGoesBack ==
  [][\/ \A t \in Threads :
          /\ Forward(c.view[t], c'.view[t])
          /\ t # c'.active => Forward(c.items[t], c'.items[t])
     \/ c' = NoStore(disk)]_vars

=============================================================================
