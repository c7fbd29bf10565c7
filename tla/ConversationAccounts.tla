-------------------------- MODULE ConversationAccounts --------------------------
(***************************************************************************)
(* What is always true of the conversations of the window: the inductive   *)
(* invariant of Conversation.  ConversationInv is about what is shown and  *)
(* what is under way, AccountsInv keeps account of what was typed and of   *)
(* what was sent.  Conversation_proofs proves both and what follows.       *)
(***************************************************************************)
EXTENDS Conversation

-----------------------------------------------------------------------------
(* Types.  "b" stands for the backend, "s" for a store, wherever they are arguments. *)

Items == [run : Nat, over : BOOLEAN, stamp : Int]
Views == [run : Nat, over : BOOLEAN, history : {"idle", "loading", "ready", "error"},
          verified : BOOLEAN]
Projections == [run : Nat, over : SUBSET Nat, floor : Nat, seqs : SUBSET Nat]
Histories == [n : Nat, over : SUBSET Nat]
Reads == [phase : {"none", "sent", "answer"}, ans : Histories]
Pages == [items : UNION {[S -> Items] : S \in SUBSET Threads}, next : Nat]
Requests == [phase : {"none", "sent", "answer"}, stale : SUBSET Threads, ans : Pages, cursor : Nat]
Creations == [phase : {"none", "sent", "made", "listing"}, here : BOOLEAN, first : BOOLEAN,
              text : Texts, version : Nat, copy : Texts, thread : Threads \cup {New}]
Submissions ==
  [id : Nat, text : Texts, version : Nat, prev : Nat, run : Nat,
   status : {"none", "pending", "unknown", "accepted"}]
InputType == [drafts : [Threads -> DraftType], new : DraftType, subs : [Threads -> Submissions]]
Targets == (Threads \cup {New}) \X Nat
Posts == [send : Nat, run : Nat]
Store ==
  [up : BOOLEAN, active : Threads \cup {New}, view : [Threads -> Views],
   proj : [Threads -> Projections], items : [Threads -> Items], list : Requests, more : Requests,
   reset : BOOLEAN, loaded : BOOLEAN, cursor : Nat, listError : BOOLEAN, pageError : BOOLEAN,
   read : Reads, summary : Reads, target : Targets,
   post : Posts, follow : {"none", "get", "post"}, meta : BOOLEAN,
   snap : BOOLEAN, commit : BOOLEAN, chain : BOOLEAN, creation : Creations, saves : BOOLEAN,
   drafts : [Threads -> DraftType], new : DraftType, subs : [Threads -> Submissions]]

SameShown(s, r) ==
  /\ r.up = s.up /\ r.active = s.active /\ r.view = s.view /\ r.proj = s.proj /\ r.read = s.read
  /\ r.summary = s.summary /\ r.post = s.post /\ r.follow = s.follow /\ r.meta = s.meta
  /\ r.snap = s.snap /\ r.commit = s.commit
SameWork(s, r) ==
  /\ r.up = s.up /\ r.active = s.active /\ r.summary = s.summary /\ r.post = s.post
  /\ r.follow = s.follow /\ r.meta = s.meta /\ r.snap = s.snap /\ r.commit = s.commit
SameList(s, r) == r.items = s.items /\ r.list = s.list /\ r.more = s.more
SameInputs(s, r) ==
  /\ r.drafts = s.drafts /\ r.new = s.new /\ r.subs = s.subs
  /\ r.creation = s.creation /\ r.saves = s.saves

-----------------------------------------------------------------------------
(* What is true of the backend. *)

Sent == [thread : Threads, text : Texts, explicit : BOOLEAN]
Logs == [events : Nat, texts : 0..MaxTexts, sent : Seq(Sent), mine : Texts, known : SUBSET Nat,
         forgotten : BOOLEAN]
Histrs == [stamp : Nat, runs : Seq([send : Nat, over : BOOLEAN]), msgs : Seq(Nat)]
Backends == [Threads -> Histrs]

\* A conversation: its Runs but the last are over, its messages are in the order of the
\* Runs, and the last is of the last Run.
HistoryOK(h) ==
  /\ Len(h.runs) = 0 <=> Len(h.msgs) = 0
  /\ Len(h.msgs) > 0 => h.stamp > 0 /\ h.msgs[Len(h.msgs)] = Len(h.runs)
  /\ \A i \in 1..Len(h.runs) : i < Len(h.runs) => h.runs[i].over
  /\ \A i \in 1..Len(h.msgs) : h.msgs[i] \in 1..Len(h.runs)
  /\ \A i, j \in 1..Len(h.msgs) : i <= j => h.msgs[i] <= h.msgs[j]
BackendOK(b) == b \in Backends /\ \A t \in Threads : HistoryOK(b[t])

IsOver(h, run) == run \in 1..Len(h.runs) /\ h.runs[run].over
SumOf(h) == [run |-> Len(h.runs), over |-> IsOver(h, Len(h.runs)), stamp |-> h.stamp]

\* What may become of a conversation.
Grows(h, k) ==
  /\ h.stamp <= k.stamp /\ Len(h.runs) <= Len(k.runs) /\ Len(h.msgs) <= Len(k.msgs)
  /\ \A i \in 1..Len(h.runs) : k.runs[i].send = h.runs[i].send /\ (h.runs[i].over => k.runs[i].over)
  /\ \A i \in 1..Len(h.msgs) : k.msgs[i] = h.msgs[i]
  /\ k.stamp = h.stamp => SumOf(k) = SumOf(h)

-----------------------------------------------------------------------------
(* The conversation on show. *)

\* What is known of a conversation is so, and what is shown of it is known.
KnownOK(p, h) ==
  /\ p.run <= Len(h.runs) /\ p.seqs \subseteq 1..Len(h.msgs)
  /\ \A run \in p.over : run <= p.run /\ IsOver(h, run)
ThreadOK(v, p, h) ==
  /\ KnownOK(p, h) /\ (p.run = 0 => p.seqs = {})
  /\ v.run <= p.run /\ (v.over => v.run \in p.over)
  /\ v.history = "ready" => v.run = p.run

\* An answer has the messages of the Run that was known then, and later ones.
AnswerOK(ans, p, h) ==
  /\ ans.n <= Len(h.msgs)
  /\ p.run # 0 => ans.n > 0 /\ p.run <= h.msgs[ans.n]
  /\ \A run \in ans.over : IsOver(h, run)

Quiet(s) ==
  /\ s.summary.phase = "none" /\ s.post = NoPost /\ s.follow = "none"
  /\ ~s.meta /\ ~s.snap /\ ~s.commit

\* What is under way for the conversation on show.
UnderWay(s) ==
  /\ ~s.up \/ s.active = New => s.read.phase = "none" /\ Quiet(s)
  /\ s.read.phase # "none" => Quiet(s) /\ s.view[s.active].history = "loading"
  /\ ~Quiet(s) => s.view[s.active].history = "ready"
  /\ s.follow = "get" \/ s.snap \/ s.meta \/ s.commit => s.proj[s.active].run # 0
  /\ s.meta => s.follow # "none"
  /\ s.follow = "post" <=> s.post.send # 0
  /\ s.post.send = 0 => s.post.run = 0
  /\ s.meta /\ s.post.send # 0 => s.post.run # 0
  /\ Sending(s) => s.summary.phase = "none"
  /\ s.list.phase # "none" => s.up

\* A Run that was not accepted yet is later than what is known.
Ahead(s, b) ==
  s.post.run # 0 /\ ~s.meta =>
    s.proj[s.active].run < s.post.run /\ s.post.run <= Len(b[s.active].runs)

ViewOK(s, b) ==
  /\ \A t \in Threads : ThreadOK(s.view[t], s.proj[t], b[t])
  /\ \A t \in Threads : s.view[t].verified => t = s.active /\ s.up
  /\ UnderWay(s) /\ Ahead(s, b)
  /\ s.read.phase = "answer" => AnswerOK(s.read.ans, s.proj[s.active], b[s.active])
  /\ s.summary.phase = "answer" => AnswerOK(s.summary.ans, s.proj[s.active], b[s.active])

-----------------------------------------------------------------------------
(* The list. *)

\* An answer for one conversation was so once, and is no older than the list but for what
\* the list has learned since the request.
EntryOK(a, stale, i, h) ==
  /\ 1 <= a.stamp /\ a.stamp <= h.stamp
  /\ Forward(a, SumOf(h))
  /\ a.stamp = h.stamp => a = SumOf(h)
  /\ stale \/ a.stamp < i.stamp \/ Forward(i, a)
RequestOK(r, is, b) ==
  r.phase = "answer" =>
    \A t \in DOMAIN r.ans.items : EntryOK(r.ans.items[t], t \in r.stale, is[t], b[t])
InOrder(r, q) ==
  r.phase = "answer" /\ q.phase = "answer" =>
    \A t \in DOMAIN r.ans.items \cap DOMAIN q.ans.items :
      r.ans.items[t].stamp <= q.ans.items[t].stamp => Forward(r.ans.items[t], q.ans.items[t])
ListOK(is, r, q, b) ==
  /\ \A t \in Threads : Forward(is[t], SumOf(b[t]))
  /\ RequestOK(r, is, b) /\ RequestOK(q, is, b)
  /\ InOrder(r, q) /\ InOrder(q, r)

-----------------------------------------------------------------------------
(* Where things come from. *)

Unsent(g, t) == \A n \in 1..Len(g.sent) : g.sent[n].thread # t

\* The POST that is out is for the conversation on show.
PostOK(s, g) ==
  s.post.send # 0 => s.post.send <= Len(g.sent) /\ g.sent[s.post.send].thread = s.active

\* Nobody has sent anything to a conversation that is on its way to the window.
CreationOK(k, up, b, g) ==
  /\ k.phase # "none" => up
  /\ k.phase = "made" \/ (k.phase = "listing" /\ k.copy # {}) => k.thread \in Threads
  /\ k.phase = "made" => b[k.thread].stamp > 0 /\ b[k.thread].runs = <<>> /\ Unsent(g, k.thread)

\* A conversation that is not made is not listed, not on show, and nothing was sent to it.
UnmadeOK(s, b, g) ==
  \A t \in Threads : b[t].stamp = 0 => Unsent(g, t) /\ s.items[t] = NoItem /\ s.active # t

Fine(s, b, g) ==
  /\ ViewOK(s, b) /\ ListOK(s.items, s.list, s.more, b)
  /\ PostOK(s, g) /\ CreationOK(s.creation, s.up, b, g) /\ UnmadeOK(s, b, g)

DiskOK(d, s) == d \in InputType /\ (s.saves => d = Inputs(s))

ConversationInv ==
  /\ c \in Store /\ log \in Logs /\ BackendOK(srv) /\ DiskOK(disk, c)
  /\ Fine(c, srv, log) /\ late \subseteq 0..Len(log.sent)

-----------------------------------------------------------------------------
(* The account of what was typed and sent. *)

\* The submission that is pending is that of the POST that is out.
PendingOK(s) ==
  \A t \in Threads : s.subs[t].status = "pending" =>
    t = s.active /\ Sending(s) /\ s.post.send = s.subs[t].id

\* A creation that is on its way to the window, and a copy that is.
Leaving(k) == k.phase \in {"sent", "made"}
Copies(k) == k.phase \in {"made", "listing"} /\ k.copy # {}

\* Of a conversation of which nothing is known nothing is on show.
Dark(s, t) == s.proj[t].run = 0 /\ s.view[t].history # "ready"

\* The messages that became a Run, and those that still may.
RunsOf(b, g) ==
  {n \in 1..Len(g.sent) :
     \E i \in 1..Len(b[g.sent[n].thread].runs) : b[g.sent[n].thread].runs[i].send = n}
Waits(l, p, g) == {n \in 1..Len(g.sent) : n \in l \/ (p.send = n /\ p.run = 0)}
Taken(b, l, p, g) == RunsOf(b, g) \cup Waits(l, p, g)

\* A Run answers the message that was sent to its conversation, and no two Runs the same one;
\* the first Run of a conversation may be from before.
HistorySends(h, t, g) ==
  /\ \A i \in 1..Len(h.runs) :
       IF h.runs[i].send = 0 THEN i = 1
       ELSE h.runs[i].send <= Len(g.sent) /\ g.sent[h.runs[i].send].thread = t
  /\ \A i, j \in 1..Len(h.runs) : h.runs[i].send = h.runs[j].send => i = j

\* A POST that is still to be handled became no Run, and is out once.
WaitingOK(p, t, b, l, g) ==
  /\ \A n \in l : n # 0 => n \notin RunsOf(b, g)
  /\ p.send # 0 =>
       IF p.run = 0 THEN p.send \notin RunsOf(b, g) /\ p.send \notin l
       ELSE p.run <= Len(b[t].runs) /\ b[t].runs[p.run].send = p.send

\* No more is sent than may be.
BoundOK(k, b, g) ==
  /\ Len(g.sent) <= MaxSends
  /\ k.first => k.copy = {} /\ (Leaving(k) => Len(g.sent) < MaxSends)
  /\ Copies(k) => k.thread \in Threads /\ b[k.thread].stamp > 0 /\ Unsent(g, k.thread)

\* A submission is of a message that was sent to its conversation.
SubOK(sub, t, b, g) ==
  /\ sub.status = "none" <=> sub.id = 0
  /\ sub.id # 0 => /\ sub.id <= Len(g.sent)
                   /\ g.sent[sub.id].thread = t /\ g.sent[sub.id].text = sub.text
  /\ sub.prev <= Len(b[t].runs) /\ sub.run <= Len(b[t].runs)
  /\ sub.status = "accepted" => sub.prev < sub.run
SubsOK(subs, b, g) == \A t \in Threads : SubOK(subs[t], t, b, g)

\* The Run on show is no earlier than when the send that is out left.
SinceOK(s) ==
  \A t \in Threads : s.subs[t].status = "pending" => s.subs[t].prev <= s.view[t].run

\* What the user knows of what he sent, and what he may send again.
Unsettled(sub) == sub.status \in {"pending", "unknown"}
SameOrApart(d, e) == (d.version = e.version /\ d.text = e.text) \/ d.text \cap e.text = {}
AgainIn(g, n, m) == \E k \in n+1..m : g.sent[k].explicit /\ g.sent[k].thread = g.sent[n].thread
ThreadBooks(t, sub, d, M, g) ==
  /\ sub.status = "accepted" => sub.id \in g.known
  /\ Unsettled(sub) => SameOrApart(d, sub)
  /\ \A n \in M : g.sent[n].thread = t =>
       /\ sub.id = n \/ n \in g.known \/ AgainIn(g, n, Len(g.sent))
       /\ \/ d.text \cap g.sent[n].text = {} \/ AgainIn(g, n, Len(g.sent))
          \/ sub.id = n /\ Unsettled(sub)

\* Two messages of a conversation of which the first became a Run, or may, have no text in
\* common but at the user's wish.
Apart(M, g) ==
  \A n \in M : \A m \in n+1..Len(g.sent) : g.sent[m].thread = g.sent[n].thread =>
    g.sent[n].text \cap g.sent[m].text = {} \/ AgainIn(g, n, m)
BooksOK(s, M, g) ==
  ~g.forgotten =>
    (\A t \in Threads : ThreadBooks(t, s.subs[t], s.drafts[t], M, g)) /\ Apart(M, g)

\* Every text was typed before.
Typed(d, g) ==
  /\ d.new.text \subseteq 1..g.texts
  /\ \A t \in Threads : d.drafts[t].text \subseteq 1..g.texts /\ d.subs[t].text \subseteq 1..g.texts
TypedOK(s, g) ==
  /\ Typed(s, g)
  /\ \A n \in 1..Len(g.sent) : g.sent[n].text \subseteq 1..g.texts
  /\ s.creation.text \subseteq 1..g.texts /\ s.creation.copy \subseteq 1..g.texts

\* A conversation that is not made has no draft.
Unmade(d, b) == \A t \in Threads : b[t].stamp = 0 => d.drafts[t].text = {}

\* Nor has one that is made and will be shown: it gets the draft it was made from, which is
\* its first message or has nothing in common with it.
NewOK(s) ==
  /\ s.creation.phase = "made" /\ s.creation.here =>
       s.active # s.creation.thread /\ s.drafts[s.creation.thread].text = {}
  /\ s.creation.first /\ Leaving(s.creation) => SameOrApart(s.new, s.creation)

\* What is shown of an accepted message is its Run or a later one, and so is what is being read.
AcceptedOK(s, b) ==
  /\ \A t \in Threads : s.subs[t].status = "accepted" =>
       Dark(s, t) \/ s.view[t].run >= s.subs[t].run
  /\ \A t \in Threads : s.read.phase = "answer" /\ t = s.active /\ s.subs[t].status = "accepted" =>
       s.read.ans.n > 0 /\ b[t].msgs[s.read.ans.n] >= s.subs[t].run

\* What the user typed is in a draft or in a Run.
Held(d) == d.new.text \cup UNION {d.drafts[t].text : t \in Threads}
Answered0(b, g) == UNION {g.sent[n].text : n \in RunsOf(b, g)}
KeptOK(s, b, g) == ~g.forgotten => g.mine \subseteq Held(s) \cup Answered0(b, g)

Accounts(s, b, l, g) ==
  /\ \A t \in Threads : HistorySends(b[t], t, g)
  /\ WaitingOK(s.post, s.active, b, l, g)
  /\ BoundOK(s.creation, b, g) /\ SubsOK(s.subs, b, g) /\ PendingOK(s) /\ SinceOK(s)
  /\ BooksOK(s, Taken(b, l, s.post, g), g) /\ TypedOK(s, g) /\ Unmade(s, b) /\ NewOK(s)
  /\ AcceptedOK(s, b) /\ KeptOK(s, b, g)
DiskAccounts(d, b, g) == SubsOK(d.subs, b, g) /\ Typed(d, g) /\ Unmade(d, b)

AccountsInv == Accounts(c, srv, late, log) /\ DiskAccounts(disk, srv, log)

\* All of it.
Booked == ConversationInv /\ AccountsInv

=============================================================================
