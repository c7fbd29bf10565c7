-------------------------- MODULE Conversation_proofs --------------------------
(***************************************************************************)
(* For any finite number of conversations and whatever the bounds: what    *)
(* the window shows of conversations never goes back, what was sent is     *)
(* accounted for, and what was typed is kept.                              *)
(***************************************************************************)
EXTENDS ConversationAccounts, FiniteSetTheorems, WellFoundedInduction, TLAPS

-----------------------------------------------------------------------------
(* What single operations change. *)

\* What noting that the outcome of a send is unknown changes.
LEMMA MarkEffect ==
  ASSUME NEW s \in Store, NEW t \in Threads \cup {New}
  PROVE  LET r == MarkUnknown(s, t)
         IN  /\ r \in Store /\ SameShown(s, r) /\ SameList(s, r)
             /\ r.drafts = s.drafts /\ r.new = s.new /\ r.creation = s.creation /\ r.saves = s.saves
             /\ \A u \in Threads :
                  r.subs[u] = IF u = t /\ s.subs[t].status = "pending"
                              THEN [s.subs[t] EXCEPT !.status = "unknown"] ELSE s.subs[u]
<1> DEFINE sub == [s.subs[t] EXCEPT !.status = "unknown"]
<1> DEFINE r == MarkUnknown(s, t)
<1>1. CASE t # New /\ s.subs[t].status = "pending"
  <2> DEFINE n == [s.subs EXCEPT ![t] = sub]
  <2>2. n \in [Threads -> Submissions] /\ \A u \in Threads : n[u] = IF u = t THEN sub ELSE s.subs[u]
    BY <1>1 DEF Store, Submissions
  <2> HIDE DEF sub, n, r
  <2> QED BY <1>1, <2>2, ZenonT(60) DEF sub, r, Store, SameShown, SameList, MarkUnknown
<1>2. CASE ~(t # New /\ s.subs[t].status = "pending")
  BY <1>2, ConversationConstants DEF MarkUnknown, SameShown, SameList, Store
<1> QED BY <1>1, <1>2

\* The blank values are of their types.
LEMMA Blank ==
  /\ NoItem \in Items /\ NoPage \in Pages /\ NoRequest \in Requests /\ NoHistory \in Histories
  /\ NoRead \in Reads /\ NoPost \in Posts /\ NoCreation \in Creations /\ NoDraft \in DraftType
  /\ NoSubmission \in Submissions /\ NoView \in Views /\ NoProjection \in Projections
<1>1. NoItem \in Items /\ NoHistory \in Histories /\ NoPost \in Posts /\ NoView \in Views
  BY DEF NoItem, Items, NoHistory, Histories, NoPost, Posts, NoView, Views
<1>4. NoCreation \in Creations /\ NoDraft \in DraftType /\ NoSubmission \in Submissions
  BY DEF NoCreation, Creations, NoDraft, DraftType, NoSubmission, Submissions, Texts
<1>6. NoPage \in Pages
  <2> HIDE DEF NoItem
  <2> QED BY DEF NoPage, Pages
<1>7. NoRequest \in Requests
  BY <1>6 DEF NoRequest, Requests
<1> QED BY <1>1, <1>4, <1>6, <1>7 DEF NoRead, Reads, NoProjection, Projections

\* A store whose selection is cleared is a store.
LEMMA Cleared ==
  ASSUME NEW m \in Store, NEW tgt \in Targets, NEW view \in [Threads -> Views],
         NEW a \in Reads, NEW p \in Posts
  PROVE  [m EXCEPT !.read = a, !.summary = a, !.target = tgt,
            !.post = p, !.follow = "none", !.meta = FALSE, !.snap = FALSE,
            !.commit = FALSE, !.chain = FALSE, !.view = view] \in Store
BY ZenonT(60) DEF Store

\* What stopping the work on the conversation on show changes.
LEMMA StopEffect ==
  ASSUME NEW s \in Store
  PROVE  LET r == StopSelection(s)
         IN  /\ r \in Store /\ SameList(s, r)
             /\ r.up = s.up /\ r.active = s.active /\ r.proj = s.proj
             /\ r.read = NoRead /\ r.summary = NoRead /\ r.post = NoPost /\ r.follow = "none"
             /\ r.meta = FALSE /\ r.snap = FALSE /\ r.commit = FALSE /\ r.chain = FALSE
             /\ \A u \in Threads :
                  /\ r.view[u].run = s.view[u].run /\ r.view[u].over = s.view[u].over
                  /\ r.view[u].verified = (u # s.active /\ s.view[u].verified)
                  /\ r.view[u].history = IF u = s.active /\ s.view[u].history = "loading"
                                         THEN "idle" ELSE s.view[u].history
             /\ r.drafts = s.drafts /\ r.new = s.new /\ r.creation = s.creation /\ r.saves = s.saves
             /\ \A u \in Threads :
                  r.subs[u] = IF u = s.active /\ s.subs[u].status = "pending"
                              THEN [s.subs[u] EXCEPT !.status = "unknown"] ELSE s.subs[u]
<1> DEFINE idle(v) == [v EXCEPT !.verified = FALSE,
                                !.history = IF @ = "loading" THEN "idle" ELSE @]
<1> DEFINE m == MarkUnknown(s, s.active)
<1> DEFINE view == [u \in Threads |-> IF u = s.active THEN idle(m.view[u]) ELSE m.view[u]]
<1> DEFINE tgt == <<New, 0>>
<1> DEFINE r == StopSelection(s)
<1>2. /\ m \in Store /\ SameShown(s, m) /\ SameList(s, m)
      /\ m.drafts = s.drafts /\ m.new = s.new /\ m.creation = s.creation /\ m.saves = s.saves
      /\ \A u \in Threads :
           m.subs[u] = IF u = s.active /\ s.subs[s.active].status = "pending"
                       THEN [s.subs[s.active] EXCEPT !.status = "unknown"] ELSE s.subs[u]
  BY MarkEffect DEF Store
<1>3. ASSUME NEW v \in Views
      PROVE  /\ idle(v) \in Views /\ idle(v).run = v.run /\ idle(v).over = v.over
             /\ idle(v).verified = FALSE
             /\ idle(v).history = IF v.history = "loading" THEN "idle" ELSE v.history
  BY Zenon DEF Views
<1>4. tgt \in Targets
  BY DEF Targets
<1>5. r = [m EXCEPT !.read = NoRead, !.summary = NoRead, !.target = tgt,
         !.post = NoPost, !.follow = "none", !.meta = FALSE, !.snap = FALSE,
         !.commit = FALSE, !.chain = FALSE, !.view = view]
  BY <1>2 DEF StopSelection, Store
<1> HIDE DEF idle, m, tgt, r
<1>6. m.view = s.view /\ s.view \in [Threads -> Views]
  BY <1>2 DEF Store, SameShown
<1>7. view \in [Threads -> Views]
  BY <1>3, <1>6, Zenon
<1>8. \A u \in Threads : view[u] = IF u = s.active THEN idle(s.view[u]) ELSE s.view[u]
  BY <1>6
<1> HIDE DEF view
<1>9. r \in Store
  BY <1>2, <1>4, <1>5, <1>7, Blank, Cleared, Zenon
<1>10. /\ r.read = NoRead /\ r.summary = NoRead /\ r.post = NoPost /\ r.follow = "none"
       /\ r.meta = FALSE /\ r.snap = FALSE /\ r.commit = FALSE /\ r.chain = FALSE
       /\ r.view = view
  BY <1>2, <1>5 DEF Store
<1>11. /\ r.up = m.up /\ r.active = m.active /\ r.proj = m.proj /\ SameList(m, r)
       /\ r.drafts = m.drafts /\ r.new = m.new /\ r.creation = m.creation /\ r.saves = m.saves
       /\ r.subs = m.subs
  BY <1>2, <1>5 DEF Store, SameList
<1>13. \A u \in Threads :
         /\ view[u].run = s.view[u].run /\ view[u].over = s.view[u].over
         /\ view[u].verified = (u # s.active /\ s.view[u].verified)
         /\ view[u].history = IF u = s.active /\ s.view[u].history = "loading"
                              THEN "idle" ELSE s.view[u].history
  <2> TAKE u \in Threads
  <2>1. s.view[u] \in Views
    BY <1>6
  <2>2. CASE u = s.active
    <3>1. view[u] = idle(s.view[u])
      BY <1>8, <2>2
    <3> QED BY <1>3, <2>1, <2>2, <3>1, ZenonT(60)
  <2>3. CASE u # s.active
    BY <1>8, <2>3, <2>1 DEF Views
  <2> QED BY <2>2, <2>3
<1> QED BY <1>9, <1>10, <1>2, <1>11, <1>13 DEF r, SameList, SameShown

\* What asking for the list changes.
LEMMA LoadEffect ==
  ASSUME NEW s \in Store, NEW reset \in BOOLEAN
  PROVE  LET r == LoadThreads(s, reset)
         IN  /\ r \in Store /\ SameShown(s, r) /\ SameInputs(s, r) /\ r.items = s.items
             /\ \/ r.list = s.list /\ r.more = s.more
                \/ s.up /\ r.list = [NoRequest EXCEPT !.phase = "sent"]
                        /\ r.more \in {s.more, NoRequest}
<1> DEFINE r == LoadThreads(s, reset)
<1>1. CASE ~s.up \/ (s.list.phase # "none" /\ ~reset)
  BY <1>1 DEF LoadThreads, SameShown, SameInputs
<1>2. CASE s.up /\ ~(s.list.phase # "none" /\ ~reset)
  <2> DEFINE q == [NoRequest EXCEPT !.phase = "sent"]
  <2> DEFINE more == IF reset THEN NoRequest ELSE s.more
  <2> DEFINE whole == (reset \/ ~s.loaded)
  <2>1. q \in Requests
    BY Blank DEF Requests
  <2>2. more \in Requests /\ more \in {s.more, NoRequest}
    BY Blank DEF Store
  <2>3. whole \in BOOLEAN
    BY DEF Store
  <2>4. r = [s EXCEPT !.list = q, !.listError = FALSE, !.more = more, !.reset = whole]
    BY <1>2 DEF LoadThreads, Store
  <2> HIDE DEF q, more, whole, r
  <2>5. r \in Store
    BY <2>1, <2>2, <2>3, <2>4, ZenonT(60) DEF Store
  <2>6. SameShown(s, r) /\ SameInputs(s, r) /\ r.items = s.items /\ r.list = q /\ r.more = more
    BY <2>4 DEF Store, SameShown, SameInputs
  <2> QED BY <1>2, <2>2, <2>5, <2>6 DEF q, r
<1> QED BY <1>1, <1>2 DEF Store

\* What opening the conversation on show changes.
LEMMA OpenEffect ==
  ASSUME NEW s \in Store, s.active \in Threads
  PROVE  LET m == StopSelection(s)
             r == Open(s)
         IN  /\ r \in Store /\ SameList(m, r) /\ SameInputs(m, r) /\ SameWork(m, r)
             /\ r.proj = m.proj /\ r.read = [NoRead EXCEPT !.phase = "sent"]
             /\ \A u \in Threads :
                  /\ r.view[u].run = m.view[u].run /\ r.view[u].over = m.view[u].over
                  /\ r.view[u].verified = m.view[u].verified
                  /\ r.view[u].history = IF u = s.active THEN "loading" ELSE m.view[u].history
<1> DEFINE m == StopSelection(s)
<1> DEFINE r == Open(s)
<1> DEFINE v == [m.view[s.active] EXCEPT !.history = "loading"]
<1> DEFINE view == [m.view EXCEPT ![s.active] = v]
<1> DEFINE read == [NoRead EXCEPT !.phase = "sent"]
<1>1. m \in Store /\ m.active = s.active /\ m.view \in [Threads -> Views]
  BY StopEffect, Zenon DEF Store
<1>2. read \in Reads
  BY Blank DEF Reads
<1>4. /\ v \in Views /\ v.run = m.view[s.active].run /\ v.over = m.view[s.active].over
      /\ v.verified = m.view[s.active].verified /\ v.history = "loading"
  BY <1>1 DEF Views
<1>5. r = [m EXCEPT !.view = view, !.read = read]
  BY <1>1 DEF Open, Store
<1> HIDE DEF m, r, v, read
<1>6. view \in [Threads -> Views] /\ \A u \in Threads : view[u] = IF u = s.active THEN v ELSE m.view[u]
  BY <1>1, <1>4
<1> HIDE DEF view
<1>7. r \in Store
  BY <1>1, <1>2, <1>5, <1>6, ZenonT(60) DEF Store
<1>8. r.view = view /\ r.read = read /\ r.proj = m.proj
  BY <1>1, <1>5 DEF Store
<1>9. SameList(m, r) /\ SameInputs(m, r) /\ SameWork(m, r)
  BY <1>1, <1>5 DEF Store, SameList, SameInputs, SameWork
<1> QED BY <1>4, <1>6, <1>7, <1>8, <1>9 DEF m, r, read

\* What the end of a creation changes.
LEMMA EndCreationEffect ==
  ASSUME NEW s \in Store, s.creation.phase = "listing" /\ s.creation.copy # {}
         => s.creation.thread \in Threads
  PROVE  LET r == EndCreation(s)
             k == s.creation
             copies == k.phase = "listing" /\ k.copy # {}
         IN  /\ r \in Store /\ SameShown(s, r) /\ SameList(s, r)
             /\ r.creation = NoCreation /\ r.new = s.new /\ r.subs = s.subs /\ r.saves = s.saves
             /\ \A u \in Threads :
                  r.drafts[u] = IF copies /\ u = k.thread
                                THEN Redrafted(s.drafts[u], s.drafts[u].text \cup k.copy)
                                ELSE s.drafts[u]
<1> DEFINE r == EndCreation(s)
<1> DEFINE k == s.creation
<1> DEFINE done == [s EXCEPT !.creation = NoCreation]
<1>1. done \in Store /\ done.drafts = s.drafts /\ done.creation = NoCreation
  BY Blank DEF Store
<1>2. SameShown(s, done) /\ SameList(s, done)
  BY DEF SameShown, SameList, Store
<1>3. done.new = s.new /\ done.subs = s.subs /\ done.saves = s.saves
  BY DEF Store
<1>4. CASE k.phase = "listing" /\ k.copy # {}
  <2> DEFINE d == Redrafted(s.drafts[k.thread], s.drafts[k.thread].text \cup k.copy)
  <2> DEFINE drafts == [s.drafts EXCEPT ![k.thread] = d]
  <2>1. k.thread \in Threads /\ s.drafts \in [Threads -> DraftType] /\ k.copy \in Texts
    BY <1>4 DEF Store, Creations
  <2>3. d \in DraftType
    BY <2>1 DEF DraftType, Redrafted, Texts
  <2>4. r = [done EXCEPT !.drafts[k.thread] = d]
    BY <1>1, <1>4 DEF EndCreation, Update
  <2> HIDE DEF d
  <2>5. r = [done EXCEPT !.drafts = drafts]
    BY <1>1, <2>4 DEF Store
  <2>6. drafts \in [Threads -> DraftType]
        /\ \A u \in Threads : drafts[u] = IF u = k.thread THEN d ELSE s.drafts[u]
    BY <2>1, <2>3
  <2> HIDE DEF drafts, done, r
  <2>7. r \in Store
    BY <1>1, <2>5, <2>6 DEF Store
  <2>8. r.drafts = drafts /\ r.creation = done.creation /\ r.new = done.new /\ r.subs = done.subs
        /\ r.saves = done.saves
    BY <1>1, <2>5 DEF Store
  <2>10. SameShown(s, r) /\ SameList(s, r)
    BY <1>2, <1>1, <2>5 DEF SameShown, SameList, Store
  <2> QED BY <1>1, <1>3, <1>4, <2>6, <2>7, <2>8, <2>10 DEF d, r
<1>5. CASE ~(k.phase = "listing" /\ k.copy # {})
  BY <1>5, <1>1, <1>2, <1>3 DEF EndCreation
<1> QED BY <1>4, <1>5

-----------------------------------------------------------------------------
(* What the functions of the store keep. *)

\* Nothing on show goes back, and the list is as it was.
Shift(s, r) ==
  /\ \A t \in Threads : Forward(s.view[t], r.view[t])
  /\ r.items = s.items

\* Two shifts in a row are a shift.
LEMMA ShiftTrans ==
  ASSUME NEW s \in Store, NEW r \in Store, NEW q \in Store, Shift(s, r), Shift(r, q)
  PROVE  Shift(s, q)
<1>1. \A t \in Threads : s.view[t] \in Views /\ r.view[t] \in Views /\ q.view[t] \in Views
  BY DEF Store
<1>2. ASSUME NEW t \in Threads PROVE Forward(s.view[t], q.view[t])
  BY <1>1 DEF Shift, Forward, Views
<1> QED BY <1>2 DEF Shift

\* A store with the same views and items has not gone back.
LEMMA SameShift ==
  ASSUME NEW s \in Store, NEW r \in Store, r.view = s.view, r.items = s.items
  PROVE  Shift(s, r)
BY DEF Store, Shift, Forward, Views

\* What is shown depends on the selection, and on whether the list is asked for.
LEMMA SameView ==
  ASSUME NEW s \in Store, NEW r \in Store, NEW b, ViewOK(s, b), SameShown(s, r),
         r.list.phase # "none" => r.up
  PROVE  ViewOK(r, b)
BY DEF ViewOK, UnderWay, Ahead, Quiet, SameShown, Sending

\* Nothing is under way.
LEMMA QuietView ==
  ASSUME NEW s \in Store, NEW r \in Store, NEW b, ViewOK(s, b),
         r.proj = s.proj, r.read.phase = "none", Quiet(r), r.list.phase # "none" => r.up,
         \A t \in Threads : /\ r.view[t].run = s.view[t].run /\ r.view[t].over = s.view[t].over
                            /\ r.view[t].history = "ready" => s.view[t].history = "ready"
                            /\ r.view[t].verified => t = r.active /\ r.up
  PROVE  ViewOK(r, b)
BY DEF ViewOK, ThreadOK, UnderWay, Ahead, Quiet, NoPost, Sending

\* Stopping the work keeps what is true of a store, and leaves no request about.
LEMMA StopKeeps ==
  ASSUME NEW s \in Store, NEW b, NEW g, Fine(s, b, g)
  PROVE  LET r == StopSelection(s)
         IN  /\ Fine(r, b, g) /\ Shift(s, r) /\ Quiet(r) /\ r.read.phase = "none"
             /\ \A t \in Threads : r.view[t].verified => t # s.active
<1> DEFINE r == StopSelection(s)
<1>1. r \in Store /\ SameList(s, r) /\ r.up = s.up /\ r.active = s.active /\ r.proj = s.proj
  BY StopEffect, Zenon
<1>2. /\ r.read = NoRead /\ r.summary = NoRead /\ r.post = NoPost /\ r.follow = "none"
      /\ r.meta = FALSE /\ r.snap = FALSE /\ r.commit = FALSE
  BY StopEffect, Zenon
<1>3. \A u \in Threads :
        /\ r.view[u].run = s.view[u].run /\ r.view[u].over = s.view[u].over
        /\ r.view[u].verified = (u # s.active /\ s.view[u].verified)
        /\ r.view[u].history = IF u = s.active /\ s.view[u].history = "loading"
                               THEN "idle" ELSE s.view[u].history
  BY StopEffect, Zenon
<1>4. r.creation = s.creation
  BY StopEffect, Zenon
<1> HIDE DEF r
<1>9. r.read.phase = "none" /\ Quiet(r)
  BY <1>2 DEF NoRead, Quiet
<1>5. ViewOK(r, b)
  <2>1. \A t \in Threads : /\ r.view[t].run = s.view[t].run /\ r.view[t].over = s.view[t].over
                           /\ r.view[t].history = "ready" => s.view[t].history = "ready"
                           /\ r.view[t].verified => t = r.active /\ r.up
    BY <1>1, <1>3, Zenon DEF Fine, ViewOK
  <2> QED BY <1>1, <1>9, <2>1, QuietView DEF Fine, SameList, ViewOK, UnderWay
<1>6. ListOK(r.items, r.list, r.more, b) /\ UnmadeOK(r, b, g)
  BY <1>1 DEF Fine, SameList, UnmadeOK
<1>7. PostOK(r, g) /\ CreationOK(r.creation, r.up, b, g)
  BY <1>1, <1>2, <1>4 DEF Fine, PostOK, NoPost
<1>8. Shift(s, r)
  BY <1>1, <1>3 DEF Store, Shift, Forward, Views, SameList
<1> QED BY <1>3, <1>5, <1>6, <1>7, <1>8, <1>9, Zenon DEF Fine, r

\* A new request was not answered yet.
LEMMA FreshList ==
  ASSUME NEW is, NEW r, NEW q, NEW r1, NEW q1, NEW b, ListOK(is, r, q, b),
         r1 = r \/ r1.phase # "answer", q1 = q \/ q1.phase # "answer"
  PROVE  ListOK(is, r1, q1, b)
BY DEF ListOK, RequestOK, InOrder

\* Asking for the list keeps what is true of a store.
LEMMA LoadKeeps ==
  ASSUME NEW s \in Store, NEW b, NEW g, NEW reset \in BOOLEAN, Fine(s, b, g)
  PROVE  LET r == LoadThreads(s, reset)
         IN  r \in Store /\ SameShown(s, r) /\ SameInputs(s, r) /\ Fine(r, b, g) /\ Shift(s, r)
<1> DEFINE r == LoadThreads(s, reset)
<1>1. r \in Store /\ SameShown(s, r) /\ SameInputs(s, r) /\ r.items = s.items
  BY LoadEffect
<1>2. \/ r.list = s.list /\ r.more = s.more
      \/ s.up /\ r.list = [NoRequest EXCEPT !.phase = "sent"] /\ r.more \in {s.more, NoRequest}
  BY LoadEffect
<1> HIDE DEF r
<1>3. /\ r.list = s.list \/ (s.up /\ r.list.phase = "sent")
      /\ r.more = s.more \/ r.more.phase = "none"
  BY <1>2 DEF NoRequest
<1>4. ViewOK(r, b)
  BY <1>1, <1>3, SameView DEF SameShown, Fine, ViewOK, UnderWay
<1>6. PostOK(r, g) /\ CreationOK(r.creation, r.up, b, g) /\ UnmadeOK(r, b, g)
  BY <1>1 DEF Fine, PostOK, UnmadeOK, SameShown, SameInputs
<1>7. Shift(s, r)
  BY <1>1, SameShift DEF SameShown
<1> QED BY <1>1, <1>4, <1>3, <1>6, <1>7, FreshList DEF Fine, r

\* Opening the conversation on show keeps what is true of a store.
LEMMA OpenKeeps ==
  ASSUME NEW s \in Store, NEW b, NEW g, Fine(s, b, g), s.active \in Threads, s.up
  PROVE  LET r == Open(s)
         IN  r \in Store /\ Fine(r, b, g) /\ Shift(s, r)
<1> DEFINE r == Open(s)
<1> DEFINE m == StopSelection(s)
<1>1. /\ r \in Store /\ SameList(m, r) /\ SameInputs(m, r) /\ SameWork(m, r)
      /\ r.proj = m.proj /\ r.read = [NoRead EXCEPT !.phase = "sent"]
      /\ \A u \in Threads :
           /\ r.view[u].run = m.view[u].run /\ r.view[u].over = m.view[u].over
           /\ r.view[u].verified = m.view[u].verified
           /\ r.view[u].history = IF u = s.active THEN "loading" ELSE m.view[u].history
  BY OpenEffect
<1>2. /\ Fine(m, b, g) /\ Shift(s, m) /\ Quiet(m) /\ m.read.phase = "none"
      /\ \A t \in Threads : m.view[t].verified => t # s.active
  BY StopKeeps
<1>3. m \in Store /\ m.active = s.active /\ m.up = s.up
  BY StopEffect, Zenon
<1> HIDE DEF r, m
<1>4. r.read.phase = "sent" /\ Quiet(r) /\ r.active = s.active /\ r.up /\ r.post = NoPost
  BY <1>1, <1>2, <1>3 DEF NoRead, SameWork, Quiet
<1>5. ASSUME NEW t \in Threads PROVE ThreadOK(r.view[t], r.proj[t], b[t])
  BY <1>1, <1>2 DEF Fine, ViewOK, ThreadOK
<1>6. ASSUME NEW t \in Threads, r.view[t].verified PROVE t = r.active /\ r.up
  BY <1>1, <1>2, <1>3, <1>4, <1>6 DEF Fine, ViewOK
<1>7. UnderWay(r) /\ Ahead(r, b)
  BY <1>1, <1>4, ConversationConstants DEF UnderWay, Ahead, Quiet, NoPost, Sending
<1>8. ViewOK(r, b)
  BY <1>4, <1>5, <1>6, <1>7 DEF Quiet, ViewOK
<1>9. ListOK(r.items, r.list, r.more, b) /\ UnmadeOK(r, b, g)
  BY <1>1, <1>2, <1>3, <1>4 DEF Fine, SameList, UnmadeOK
<1>10. PostOK(r, g) /\ CreationOK(r.creation, r.up, b, g)
  BY <1>1, <1>2, <1>3, <1>4 DEF Fine, PostOK, NoPost, SameInputs, SameWork
<1>11. Shift(s, r)
  BY <1>3, <1>1, <1>2, ShiftTrans DEF Store, Shift, Forward, Views, SameList
<1> QED BY <1>1, <1>8, <1>9, <1>10, <1>11 DEF Fine, r

-----------------------------------------------------------------------------
(* Drafts and submissions. *)

\* All but drafts and submissions are as they were.
InputsOnly(s, r) ==
  SameShown(s, r) /\ SameList(s, r) /\ r.creation = s.creation /\ r.saves = s.saves

\* A change of what was typed alone keeps what is true of a store.
LEMMA InputsOnlyKeeps ==
  ASSUME NEW s \in Store, NEW r \in Store, InputsOnly(s, r), NEW b, NEW g, Fine(s, b, g)
  PROVE  Fine(r, b, g) /\ Shift(s, r)
<1>1. ViewOK(r, b)
  BY SameView DEF InputsOnly, SameShown, SameList, Fine, ViewOK, UnderWay
<1> QED BY <1>1, SameShift DEF Fine, InputsOnly, SameShown, SameList, UnmadeOK, PostOK

\* An edited draft is a draft, of a later version.
LEMMA RedraftedType ==
  ASSUME NEW d \in DraftType, NEW text \in Texts
  PROVE  /\ Redrafted(d, text) \in DraftType /\ Redrafted(d, text).text = text
         /\ Redrafted(d, text).version >= d.version
         /\ d.text # text => Redrafted(d, text).version = d.version + 1
         /\ d.text = text => Redrafted(d, text) = d
BY DEF Redrafted, DraftType

\* What an edit of a conversation's draft changes.
LEMMA UpdateEffect ==
  ASSUME NEW s \in Store, NEW t \in Threads, NEW text \in Texts
  PROVE  LET r == Update(s, t, text)
         IN  /\ r \in Store /\ InputsOnly(s, r) /\ r.new = s.new /\ r.subs = s.subs
             /\ \A u \in Threads :
                  r.drafts[u] = IF u = t THEN Redrafted(s.drafts[t], text) ELSE s.drafts[u]
<1> DEFINE r == Update(s, t, text)
<1> DEFINE d == Redrafted(s.drafts[t], text)
<1> DEFINE drafts == [s.drafts EXCEPT ![t] = d]
<1>1. s.drafts \in [Threads -> DraftType]
  BY DEF Store
<1>2. d \in DraftType
  BY <1>1, RedraftedType
<1> HIDE DEF d
<1>4. drafts \in [Threads -> DraftType] /\ \A u \in Threads : drafts[u] = IF u = t THEN d ELSE s.drafts[u]
  BY <1>1, <1>2
<1> HIDE DEF drafts, r
<1> QED BY <1>4 DEF d, r, InputsOnly, Store, SameShown, SameList, Update

\* What an edit of the new conversation's draft changes.
LEMMA UpdateNewEffect ==
  ASSUME NEW s \in Store, NEW text \in Texts
  PROVE  LET r == UpdateNew(s, text)
         IN  /\ r \in Store /\ InputsOnly(s, r) /\ r.drafts = s.drafts /\ r.subs = s.subs
             /\ r.new = Redrafted(s.new, text)
<1> DEFINE r == UpdateNew(s, text)
<1> DEFINE d == Redrafted(s.new, text)
<1> HIDE DEF d, r
<1> QED BY RedraftedType, Zenon DEF d, r, InputsOnly, Store, SameShown, SameList, UpdateNew

\* What the move of the new conversation's draft to the one created changes.
LEMMA TransferEffect ==
  ASSUME NEW s \in Store, NEW t \in Threads
  PROVE  LET r == Transfer(s, t)
         IN  /\ r \in Store /\ InputsOnly(s, r) /\ r.subs = s.subs /\ r.new.text = {}
             /\ \A u \in Threads : r.drafts[u] = IF u = t THEN s.new ELSE s.drafts[u]
<1> DEFINE r == Transfer(s, t)
<1> DEFINE d == [text |-> {}, version |-> s.new.version + 1]
<1> DEFINE drafts == [s.drafts EXCEPT ![t] = s.new]
<1>1. s.drafts \in [Threads -> DraftType] /\ s.new \in DraftType
  BY DEF Store
<1>2. d \in DraftType /\ d.text = {}
  BY <1>1 DEF DraftType, Texts
<1>3. r = [s EXCEPT !.drafts = drafts, !.new = d]
  BY DEF Transfer, Store
<1>4. drafts \in [Threads -> DraftType] /\ \A u \in Threads : drafts[u] = IF u = t THEN s.new ELSE s.drafts[u]
  BY <1>1
<1> HIDE DEF d, r, drafts
<1>6. r.new = d /\ r.drafts = drafts /\ r.subs = s.subs /\ r.creation = s.creation
      /\ r.saves = s.saves
  BY <1>3 DEF Store
<1>7. SameShown(s, r) /\ SameList(s, r)
  BY <1>3 DEF Store, SameShown, SameList
<1> QED BY <1>2, <1>4, <1>3, <1>6, <1>7, ZenonT(60) DEF r, InputsOnly, Store

\* What a new submission changes.
LEMMA SubmittedEffect ==
  ASSUME NEW s \in Store, NEW t \in Threads, NEW sub \in Submissions
  PROVE  LET r == [s EXCEPT !.subs[t] = sub]
         IN  /\ r \in Store /\ InputsOnly(s, r) /\ r.drafts = s.drafts /\ r.new = s.new
             /\ \A u \in Threads : r.subs[u] = IF u = t THEN sub ELSE s.subs[u]
<1> DEFINE r == [s EXCEPT !.subs[t] = sub]
<1> DEFINE subs == [s.subs EXCEPT ![t] = sub]
<1> HIDE DEF r, subs
<1> QED BY DEF r, InputsOnly, Store, SameShown, SameList

\* What the refusal of a submission changes.
LEMMA RejectedEffect ==
  ASSUME NEW s \in Store, NEW t \in Threads
  PROVE  LET r == Rejected(s, t)
         IN  /\ r \in Store /\ InputsOnly(s, r) /\ r.drafts = s.drafts /\ r.new = s.new
             /\ \A u \in Threads :
                  r.subs[u] = IF u = t /\ s.subs[t].status = "pending" THEN NoSubmission ELSE s.subs[u]
BY Blank, SubmittedEffect DEF Rejected, InputsOnly, SameShown, SameList

\* What becomes of the draft of the submission.
Emptied(d, sub) ==
  IF d.version = sub.version /\ d.text = sub.text THEN Redrafted(d, {}) ELSE d

\* What clearing a submitted draft changes.
LEMMA ClearEffect ==
  ASSUME NEW s \in Store, NEW t \in Threads
  PROVE  LET r == ClearSubmittedDraft(s, t)
         IN  /\ r \in Store /\ InputsOnly(s, r) /\ r.new = s.new /\ r.subs = s.subs
             /\ \A u \in Threads :
                  r.drafts[u] = IF u = t THEN Emptied(s.drafts[t], s.subs[t]) ELSE s.drafts[u]
BY UpdateEffect DEF ClearSubmittedDraft, Texts, Emptied, InputsOnly, SameShown, SameList

\* Two changes of what was typed are one.
LEMMA InputsOnlyTrans ==
  ASSUME NEW s, NEW r, NEW q, InputsOnly(s, r), InputsOnly(r, q)
  PROVE  InputsOnly(s, q)
BY DEF InputsOnly, SameShown, SameList

\* What the acceptance of a submission changes.
LEMMA AcceptEffect ==
  ASSUME NEW s \in Store, NEW t \in Threads, NEW id \in Nat, NEW run \in Nat
  PROVE  LET r == Accept(s, t, id, run)
             mine == s.subs[t].id = id /\ s.subs[t].status = "pending"
         IN  /\ r \in Store /\ InputsOnly(s, r) /\ r.new = s.new
             /\ \A u \in Threads :
                  /\ r.drafts[u] = IF u = t
                     /\ mine THEN Emptied(s.drafts[t], s.subs[t]) ELSE s.drafts[u]
                  /\ r.subs[u] = IF u = t /\ mine
                                 THEN [s.subs[t] EXCEPT !.status = "accepted", !.run = run] ELSE s.subs[u]
<1> DEFINE r == Accept(s, t, id, run)
<1> DEFINE mine == s.subs[t].id = id /\ s.subs[t].status = "pending"
<1> DEFINE m == ClearSubmittedDraft(s, t)
<1> DEFINE sub == [s.subs[t] EXCEPT !.status = "accepted", !.run = run]
<1>1. CASE mine
  <2>1. /\ m \in Store /\ InputsOnly(s, m) /\ m.new = s.new /\ m.subs = s.subs
        /\ \A u \in Threads :
             m.drafts[u] = IF u = t THEN Emptied(s.drafts[t], s.subs[t]) ELSE s.drafts[u]
    BY ClearEffect
  <2>2. s.subs[t] \in Submissions
    BY DEF Store
  <2>3. sub \in Submissions
    BY <2>2, Zenon DEF Submissions
  <2>4. r = [m EXCEPT !.subs[t].status = "accepted", !.subs[t].run = run]
    BY <1>1 DEF Accept
  <2> HIDE DEF m
  <2>5. m.subs \in [Threads -> Submissions]
    BY <2>1 DEF Store
  <2>6. r = [m EXCEPT !.subs[t] = sub]
    BY <2>1, <2>2, <2>4, <2>5, ZenonT(60) DEF Store
  <2> HIDE DEF r, sub
  <2>7. /\ r \in Store /\ InputsOnly(m, r) /\ r.drafts = m.drafts /\ r.new = m.new
        /\ \A u \in Threads : r.subs[u] = IF u = t THEN sub ELSE m.subs[u]
    BY <2>1, <2>3, <2>6, SubmittedEffect
  <2>8. InputsOnly(s, r)
    BY <2>1, <2>7, InputsOnlyTrans
  <2> QED BY <1>1, <2>1, <2>7, <2>8 DEF r, sub
<1>2. CASE ~mine
  BY <1>2 DEF Accept, InputsOnly, SameShown, SameList
<1> QED BY <1>1, <1>2

\* What the confirmation of an unknown submission changes.
LEMMA ConfirmEffect ==
  ASSUME NEW s \in Store, NEW t \in Threads
  PROVE  LET r == Confirm(s, t)
             mine == s.subs[t].status = "unknown"
         IN  /\ r \in Store /\ InputsOnly(s, r) /\ r.new = s.new
             /\ \A u \in Threads :
                  /\ r.drafts[u] = IF u = t
                     /\ mine THEN Emptied(s.drafts[t], s.subs[t]) ELSE s.drafts[u]
                  /\ r.subs[u] = IF u = t /\ mine THEN NoSubmission ELSE s.subs[u]
<1> DEFINE r == Confirm(s, t)
<1> DEFINE mine == s.subs[t].status = "unknown"
<1> DEFINE m == ClearSubmittedDraft(s, t)
<1>1. CASE mine
  <2>1. /\ m \in Store /\ InputsOnly(s, m) /\ m.new = s.new /\ m.subs = s.subs
        /\ \A u \in Threads :
             m.drafts[u] = IF u = t THEN Emptied(s.drafts[t], s.subs[t]) ELSE s.drafts[u]
    BY ClearEffect
  <2>2. r = [m EXCEPT !.subs[t] = NoSubmission]
    BY <1>1 DEF Confirm
  <2> HIDE DEF m, r
  <2>3. /\ r \in Store /\ InputsOnly(m, r) /\ r.drafts = m.drafts /\ r.new = m.new
        /\ \A u \in Threads : r.subs[u] = IF u = t THEN NoSubmission ELSE m.subs[u]
    BY <2>1, <2>2, Blank, SubmittedEffect
  <2>4. InputsOnly(s, r)
    BY <2>1, <2>3, InputsOnlyTrans
  <2> QED BY <1>1, <2>1, <2>3, <2>4 DEF r
<1>2. CASE ~mine
  BY <1>2 DEF Confirm, InputsOnly, SameShown, SameList
<1> QED BY <1>1, <1>2

-----------------------------------------------------------------------------
(* Entering, leaving and creating a conversation. *)

\* What enter asks for keeps what is true of a store.
LEMMA EnterKeeps ==
  ASSUME NEW s \in Store, NEW b, NEW g, NEW list \in BOOLEAN, Fine(s, b, g)
  PROVE  LET r == Enter(s, list)
         IN  r \in Store /\ Fine(r, b, g) /\ Shift(s, r)
<1> DEFINE listed == IF list THEN LoadThreads(s, FALSE) ELSE s
<1>1. listed \in Store /\ SameShown(s, listed) /\ Fine(listed, b, g) /\ Shift(s, listed)
  BY LoadKeeps, SameShift, Zenon DEF SameShown
<1>2. Enter(s, list) = IF ~s.up THEN s ELSE IF s.active # New THEN Open(listed) ELSE listed
  BY DEF Enter
<1> HIDE DEF listed
<1>3. CASE ~s.up
  BY <1>2, <1>3, SameShift
<1>4. CASE s.up /\ s.active # New
  <2>2. Open(listed) \in Store /\ Fine(Open(listed), b, g) /\ Shift(listed, Open(listed))
    BY <1>1, <1>4, OpenKeeps, Zenon DEF SameShown, Store
  <2> QED BY <1>1, <1>2, <1>4, <2>2, ShiftTrans
<1>5. CASE s.up /\ s.active = New
  BY <1>1, <1>2, <1>5
<1> QED BY <1>3, <1>4, <1>5

\* Reloading the conversation on show keeps what is true of a store.
LEMMA ReloadKeeps ==
  ASSUME NEW s \in Store, NEW b, NEW g, Fine(s, b, g)
  PROVE  LET r == Reload(s)
         IN  r \in Store /\ Fine(r, b, g) /\ Shift(s, r)
<1> DEFINE m == StopSelection(s)
<1>1. m \in Store /\ Fine(m, b, g) /\ Shift(s, m)
  BY StopEffect, StopKeeps, Zenon
<1>2. Reload(s) = Enter(m, TRUE)
  BY DEF Reload
<1> HIDE DEF m
<1>3. Enter(m, TRUE) \in Store /\ Fine(Enter(m, TRUE), b, g) /\ Shift(m, Enter(m, TRUE))
  BY <1>1, EnterKeeps, Zenon
<1> QED BY <1>1, <1>2, <1>3, ShiftTrans, Zenon

\* What a selection changes.
LEMMA ActivateEffect ==
  ASSUME NEW s \in Store, NEW t \in Threads \cup {New}
  PROVE  LET m == StopSelection(s)
             r == Activate(s, t)
         IN  /\ r \in Store /\ SameList(m, r) /\ r.active = t /\ r.up = m.up /\ r.view = m.view
             /\ r.proj = m.proj /\ r.read = m.read /\ r.summary = m.summary /\ r.post = m.post
             /\ r.follow = m.follow /\ r.meta = m.meta /\ r.snap = m.snap /\ r.commit = m.commit
             /\ r.creation = [s.creation EXCEPT !.here = FALSE]
             /\ r.drafts = m.drafts /\ r.new = m.new /\ r.subs = m.subs /\ r.saves = m.saves
<1> DEFINE m == StopSelection(s)
<1> DEFINE r == Activate(s, t)
<1> DEFINE k == [s.creation EXCEPT !.here = FALSE]
<1>1. m \in Store /\ m.creation = s.creation
  BY StopEffect, Zenon
<1>2. r = [m EXCEPT !.active = t, !.creation.here = FALSE]
  BY DEF Activate
<1>3. k \in Creations
  BY Zenon DEF Store, Creations
<1> HIDE DEF m
<1>4. r = [m EXCEPT !.active = t, !.creation = k]
  BY <1>1, <1>2, Zenon DEF Store
<1> HIDE DEF r, k
<1>5. r \in Store
  BY <1>1, <1>3, <1>4, Zenon DEF Store
<1> QED BY <1>5, <1>1, <1>4 DEF m, r, k, Store, SameList

\* A selection keeps what is true of a store.
LEMMA ActivateKeeps ==
  ASSUME NEW s \in Store, NEW b, NEW g, NEW t \in Threads \cup {New}, Fine(s, b, g),
         t \in Threads => b[t].stamp # 0
  PROVE  LET r == Activate(s, t)
         IN  /\ r \in Store /\ Fine(r, b, g) /\ Shift(s, r) /\ Quiet(r)
             /\ r.active = t /\ r.up = s.up /\ r.read.phase = "none"
             /\ r.creation = [s.creation EXCEPT !.here = FALSE]
<1> DEFINE m == StopSelection(s)
<1> DEFINE r == Activate(s, t)
<1>1. /\ m \in Store /\ Fine(m, b, g) /\ Shift(s, m) /\ Quiet(m) /\ m.read.phase = "none"
      /\ \A u \in Threads : m.view[u].verified => u # s.active
  BY StopEffect, StopKeeps, Zenon
<1>2. m.up = s.up /\ m.active = s.active
  BY StopEffect, Zenon
<1>3. /\ r \in Store /\ SameList(m, r) /\ r.active = t /\ r.up = m.up /\ r.view = m.view
      /\ r.proj = m.proj /\ r.read = m.read /\ r.summary = m.summary /\ r.post = m.post
      /\ r.follow = m.follow /\ r.meta = m.meta /\ r.snap = m.snap /\ r.commit = m.commit
      /\ r.creation = [s.creation EXCEPT !.here = FALSE]
  BY ActivateEffect
<1> HIDE DEF m, r
<1>4. Quiet(r) /\ r.read.phase = "none"
  BY <1>1, <1>3 DEF Quiet
<1>5. ViewOK(r, b)
  BY <1>1, <1>2, <1>3, <1>4, QuietView, SMTT(30) DEF Fine, ViewOK, SameList, UnderWay
<1>6. ListOK(r.items, r.list, r.more, b) /\ UnmadeOK(r, b, g)
  BY <1>1, <1>3 DEF Fine, SameList, UnmadeOK
<1>7. PostOK(r, g)
  BY <1>4 DEF PostOK, Quiet, NoPost
<1>8. CreationOK(r.creation, r.up, b, g)
  BY <1>3, <1>2 DEF Store, Creations, Fine, CreationOK
<1>9. Shift(s, r)
  BY <1>1, <1>3, SameShift, ShiftTrans DEF SameList
<1> QED BY <1>2, <1>3, <1>4, <1>5, <1>6, <1>7, <1>8, <1>9 DEF Fine, r

\* The end of a creation keeps what is true of a store.
LEMMA EndCreationKeeps ==
  ASSUME NEW s \in Store, NEW b, NEW g, Fine(s, b, g)
  PROVE  LET r == EndCreation(s)
         IN  /\ r \in Store /\ SameShown(s, r) /\ SameList(s, r) /\ r.creation = NoCreation
             /\ Fine(r, b, g) /\ Shift(s, r)
<1> DEFINE r == EndCreation(s)
<1>1. r \in Store /\ SameShown(s, r) /\ SameList(s, r) /\ r.creation = NoCreation
  BY EndCreationEffect DEF Fine, CreationOK
<1> HIDE DEF r
<1>2. ViewOK(r, b)
  BY <1>1, SameView DEF SameShown, SameList, Fine, ViewOK, UnderWay
<1>3. ListOK(r.items, r.list, r.more, b) /\ UnmadeOK(r, b, g)
  BY <1>1 DEF Fine, SameShown, SameList, UnmadeOK
<1>4. PostOK(r, g) /\ CreationOK(r.creation, r.up, b, g)
  BY <1>1 DEF Fine, SameShown, PostOK, CreationOK, NoCreation
<1>5. Shift(s, r)
  BY <1>1, SameShift DEF SameShown, SameList
<1> QED BY <1>1, <1>2, <1>3, <1>4, <1>5 DEF Fine, r

\* The end of the listing of a creation keeps what is true of a store.
LEMMA EndListingKeeps ==
  ASSUME NEW s \in Store, NEW b, NEW g, Fine(s, b, g)
  PROVE  LET r == EndListing(s)
         IN  /\ r \in Store /\ SameShown(s, r) /\ SameList(s, r)
             /\ Fine(r, b, g) /\ Shift(s, r)
BY EndCreationKeeps, SameShift DEF EndListing, SameShown, SameList

\* Asking for the list after a creation keeps what is true of a store.
LEMMA ListCreationKeeps ==
  ASSUME NEW s \in Store, NEW b, NEW g, Fine(s, b, g)
  PROVE  LET r == ListCreation(s)
         IN  r \in Store /\ SameShown(s, r) /\ Fine(r, b, g) /\ Shift(s, r)
BY EndCreationKeeps, LoadKeeps, Zenon DEF ListCreation

\* What leaving the page changes.
LEMMA RevokeEffect ==
  ASSUME NEW s \in Store, s.creation.phase = "listing" /\ s.creation.copy # {}
         => s.creation.thread \in Threads
  PROVE  LET m == StopSelection(EndCreation(s))
             r == Revoke(s)
         IN  /\ r \in Store /\ r.up = FALSE /\ r.list = NoRequest /\ r.more = NoRequest
             /\ r.items = m.items /\ SameInputs(m, r) /\ r.active = m.active /\ r.proj = m.proj
             /\ r.read = m.read /\ r.summary = m.summary /\ r.post = m.post
             /\ r.follow = m.follow /\ r.meta = m.meta /\ r.snap = m.snap /\ r.commit = m.commit
             /\ \A u \in Threads :
                  /\ r.view[u].run = m.view[u].run /\ r.view[u].over = m.view[u].over
                  /\ r.view[u].history = m.view[u].history /\ r.view[u].verified = FALSE
<1> DEFINE m == StopSelection(EndCreation(s))
<1> DEFINE r == Revoke(s)
<1> DEFINE view == [t \in Threads |-> [m.view[t] EXCEPT !.verified = FALSE]]
<1>1. m \in Store
  BY EndCreationEffect, StopEffect, Zenon
<1>2. r = [m EXCEPT !.up = FALSE, !.list = NoRequest, !.more = NoRequest, !.view = view]
  BY <1>1 DEF Revoke, Store
<1> HIDE DEF m, r
<1>3. m.view \in [Threads -> Views]
  BY <1>1 DEF Store
<1>4. \A u \in Threads :
        /\ view[u] \in Views /\ view[u].run = m.view[u].run /\ view[u].over = m.view[u].over
        /\ view[u].history = m.view[u].history /\ view[u].verified = FALSE
  BY <1>3, Zenon DEF Views
<1>5. view \in [Threads -> Views]
  BY <1>4
<1> HIDE DEF view
<1>6. r \in Store
  BY <1>1, <1>2, <1>5, Blank, ZenonT(60) DEF Store
<1> QED BY <1>4, <1>6, <1>1, <1>2 DEF m, r, Store, SameInputs

\* Leaving the page keeps what is true of a store.
LEMMA RevokeKeeps ==
  ASSUME NEW s \in Store, NEW b, NEW g, Fine(s, b, g)
  PROVE  LET r == Revoke(s)
         IN  r \in Store /\ Fine(r, b, g) /\ Shift(s, r)
<1> DEFINE n == EndCreation(s)
<1> DEFINE m == StopSelection(n)
<1> DEFINE r == Revoke(s)
<1>1. n \in Store /\ Fine(n, b, g) /\ Shift(s, n) /\ n.creation = NoCreation
  BY EndCreationKeeps
<1>3. /\ r \in Store /\ r.up = FALSE /\ r.list = NoRequest /\ r.more = NoRequest
      /\ r.items = m.items /\ SameInputs(m, r) /\ r.active = m.active /\ r.proj = m.proj
      /\ r.read = m.read /\ r.summary = m.summary /\ r.post = m.post
      /\ r.follow = m.follow /\ r.meta = m.meta /\ r.snap = m.snap /\ r.commit = m.commit
      /\ \A u \in Threads :
           /\ r.view[u].run = m.view[u].run /\ r.view[u].over = m.view[u].over
           /\ r.view[u].history = m.view[u].history /\ r.view[u].verified = FALSE
  BY RevokeEffect, Zenon DEF Fine, CreationOK
<1> HIDE DEF n, r
<1>4. /\ m \in Store /\ Fine(m, b, g) /\ Shift(n, m) /\ Quiet(m) /\ m.read.phase = "none"
      /\ m.creation = NoCreation
  BY <1>1, StopEffect, StopKeeps, Zenon
<1> HIDE DEF m
<1>5. Quiet(r) /\ r.read.phase = "none"
  BY <1>3, <1>4 DEF Quiet
<1>6. r.list.phase = "none" /\ r.more.phase = "none"
  BY <1>3 DEF NoRequest
<1>7. ViewOK(r, b)
  BY <1>3, <1>4, <1>5, <1>6, QuietView DEF Fine
<1>8. ListOK(r.items, r.list, r.more, b)
  BY <1>4, <1>3, <1>6, FreshList DEF Fine
<1>9. PostOK(r, g) /\ UnmadeOK(r, b, g)
  BY <1>3, <1>4, <1>5 DEF Fine, PostOK, UnmadeOK, Quiet, NoPost
<1>10. CreationOK(r.creation, r.up, b, g)
  BY <1>3, <1>4 DEF SameInputs, CreationOK, NoCreation
<1>11. Shift(s, r)
  <2>2. Shift(n, r)
    BY <1>1, <1>3, <1>4, ShiftTrans DEF Store, Shift, Forward, Views
  <2> QED BY <1>1, <1>3, <2>2, ShiftTrans
<1> QED BY <1>3, <1>7, <1>8, <1>9, <1>10, <1>11 DEF Fine, r

-----------------------------------------------------------------------------
(* Settling: what stops, ends or is read, and changes neither what was sent nor what is out. *)

\* What becomes of a creation.
Follows(k, j, same) ==
  \/ j = NoCreation
  \/ /\ j.phase = k.phase /\ j.first = k.first /\ j.text = k.text /\ j.version = k.version
     /\ j.copy = k.copy /\ j.thread = k.thread /\ (j.here => k.here /\ same)
  \/ /\ j.phase = "listing" /\ (j.first => k.first) /\ j.text \subseteq k.text
     /\ j.copy = {} \/ (Copies(k) /\ j.copy = k.copy /\ j.thread = k.thread)

Settles(s, r) ==
  /\ r.new = s.new
  /\ r.post = NoPost \/ (r.post = s.post /\ r.active = s.active)
  /\ \A t \in Threads :
       \/ r.subs[t] = s.subs[t]
       \/ s.subs[t].status = "pending" /\ r.subs[t] = [s.subs[t] EXCEPT !.status = "unknown"]
  /\ \A t \in Threads : r.subs[t].status = "pending" =>
       r.active = s.active /\ r.post = s.post /\ r.meta = s.meta
  /\ Follows(s.creation, r.creation, r.active = s.active)
  /\ \A t \in Threads :
       \/ r.drafts[t] = s.drafts[t]
       \/ /\ Copies(s.creation) /\ t = s.creation.thread /\ ~Copies(r.creation)
          /\ r.drafts[t].text = s.drafts[t].text \cup s.creation.copy

\* Nothing comes on show of a conversation of which nothing was.
Dims(s, r) ==
  /\ \A t \in Threads : Dark(s, t) => Dark(r, t)
  /\ r.read.phase = "answer" => r.read = s.read /\ r.active = s.active

\* Two settlings in a row are one.
LEMMA SettlesTrans ==
  ASSUME NEW s \in Store, NEW m \in Store, NEW r \in Store, Settles(s, m), Settles(m, r)
  PROVE  Settles(s, r)
<1>1. r.new = s.new
  BY DEF Settles
<1>2. r.post = NoPost \/ (r.post = s.post /\ r.active = s.active)
  BY DEF Settles
<1>3. ASSUME NEW t \in Threads
      PROVE  /\ r.subs[t] = s.subs[t] \/ (s.subs[t].status = "pending"
                                          /\ r.subs[t] = [s.subs[t] EXCEPT !.status = "unknown"])
             /\ r.subs[t].status = "pending" =>
                  r.active = s.active /\ r.post = s.post /\ r.meta = s.meta
  <2>2. [s.subs[t] EXCEPT !.status = "unknown"].status = "unknown"
    BY DEF Submissions, Store
  <2>4. r.subs[t] = m.subs[t] \/ (m.subs[t].status = "pending"
                                  /\ r.subs[t] = [m.subs[t] EXCEPT !.status = "unknown"])
    BY DEF Settles
  <2>6. ASSUME r.subs[t].status = "pending"
        PROVE  r.active = s.active /\ r.post = s.post /\ r.meta = s.meta
    BY <2>4, <2>6 DEF Store, Submissions, Settles
  <2> QED BY <2>2, <2>4, <2>6 DEF Settles
<1> DEFINE k == s.creation
<1> DEFINE i == m.creation
<1> DEFINE j == r.creation
<1>4. /\ Follows(k, i, m.active = s.active) /\ Follows(i, j, r.active = m.active)
      /\ k \in Creations /\ i \in Creations /\ j \in Creations
  BY DEF Settles, Store
<1>5. ASSUME NEW t \in Threads
      PROVE  /\ \/ m.drafts[t] = s.drafts[t]
                \/ /\ Copies(k) /\ t = k.thread /\ ~Copies(i)
                   /\ m.drafts[t].text = s.drafts[t].text \cup k.copy
             /\ \/ r.drafts[t] = m.drafts[t]
                \/ /\ Copies(i) /\ t = i.thread /\ ~Copies(j)
                   /\ r.drafts[t].text = m.drafts[t].text \cup i.copy
  BY DEF Settles
<1> HIDE DEF k, i, j
<1>6. Copies(j) => Copies(i) /\ j.copy = i.copy /\ j.thread = i.thread
  BY <1>4 DEF Follows, Copies, NoCreation
<1>7. Copies(i) => Copies(k) /\ i.copy = k.copy /\ i.thread = k.thread
  BY <1>4 DEF Follows, Copies, NoCreation
<1>8. Follows(k, j, r.active = s.active)
  BY <1>4, <1>7 DEF Follows, Creations, NoCreation
<1> QED BY <1>1, <1>2, <1>3, <1>5, <1>6, <1>7, <1>8, Zenon DEF Settles, k, i, j

\* Two steps that bring nothing on show are one.
LEMMA DimsTrans ==
  ASSUME NEW s, NEW m, NEW r, Dims(s, m), Dims(m, r)
  PROVE  Dims(s, r)
BY DEF Dims

\* What changes nothing of the inputs and of the POST settles.
LEMMA SameSettles ==
  ASSUME NEW s, NEW r, SameInputs(s, r), r.active = s.active, r.post = s.post, r.meta = s.meta
  PROVE  Settles(s, r)
BY DEF SameInputs, Follows, Settles

\* What changes nothing of what is on show brings nothing on show.
LEMMA SameDims ==
  ASSUME NEW s, NEW r, SameShown(s, r)
  PROVE  Dims(s, r)
BY DEF Dims, SameShown, Dark

\* What changes nothing of either.
LEMMA SameBoth ==
  ASSUME NEW s, NEW r, SameInputs(s, r), SameShown(s, r)
  PROVE  Settles(s, r) /\ Dims(s, r)
BY SameSettles, SameDims DEF SameShown

\* Of the sending too, nothing is pending but what is out.
LEMMA SettlesPending ==
  ASSUME NEW s \in Store, NEW r \in Store, PendingOK(s), Settles(s, r)
  PROVE  PendingOK(r)
<1> SUFFICES ASSUME NEW t \in Threads, r.subs[t].status = "pending"
             PROVE  t = r.active /\ Sending(r) /\ r.post.send = r.subs[t].id
  BY DEF PendingOK
<1>2. r.subs[t] = s.subs[t]
  <2>2. [s.subs[t] EXCEPT !.status = "unknown"].status = "unknown"
    BY DEF Submissions, Store
  <2> QED BY <2>2, Zenon DEF Settles
<1>3. t = s.active /\ Sending(s) /\ s.post.send = s.subs[t].id
  BY <1>2 DEF PendingOK
<1> QED BY <1>2, <1>3 DEF Sending, Settles

\* Stopping the work on the conversation on show settles.
LEMMA StopSettles ==
  ASSUME NEW s \in Store, PendingOK(s)
  PROVE  Settles(s, StopSelection(s)) /\ Dims(s, StopSelection(s))
<1> DEFINE r == StopSelection(s)
<1>1. /\ r \in Store /\ r.active = s.active /\ r.proj = s.proj /\ r.read = NoRead /\ r.post = NoPost
      /\ r.drafts = s.drafts /\ r.new = s.new /\ r.creation = s.creation
      /\ \A u \in Threads :
           r.subs[u] = IF u = s.active /\ s.subs[u].status = "pending"
                       THEN [s.subs[u] EXCEPT !.status = "unknown"] ELSE s.subs[u]
      /\ \A u \in Threads :
           r.view[u].history = IF u = s.active /\ s.view[u].history = "loading"
                               THEN "idle" ELSE s.view[u].history
  BY StopEffect, Zenon
<1> HIDE DEF r
<1>2. \A u \in Threads : r.subs[u].status # "pending"
  <2> TAKE u \in Threads
  <2>2. [s.subs[u] EXCEPT !.status = "unknown"].status = "unknown"
    BY DEF Submissions, Store
  <2> QED BY <1>1, <2>2, Zenon DEF PendingOK
<1>4. Settles(s, r)
  BY <1>1, <1>2 DEF Settles, Follows
<1> QED BY <1>4, <1>1 DEF r, Dims, Dark, NoRead

\* So does asking for the list.
LEMMA LoadSettles ==
  ASSUME NEW s \in Store, NEW reset \in BOOLEAN
  PROVE  Settles(s, LoadThreads(s, reset)) /\ Dims(s, LoadThreads(s, reset))
BY LoadEffect, SameBoth

\* So does opening the conversation on show.
LEMMA OpenSettles ==
  ASSUME NEW s \in Store, PendingOK(s), s.active \in Threads
  PROVE  Settles(s, Open(s)) /\ Dims(s, Open(s))
<1> DEFINE m == StopSelection(s)
<1> DEFINE r == Open(s)
<1>1. /\ r \in Store /\ SameInputs(m, r) /\ SameWork(m, r) /\ r.proj = m.proj
      /\ r.read = [NoRead EXCEPT !.phase = "sent"]
      /\ \A u \in Threads : r.view[u].history = IF u = s.active THEN "loading" ELSE m.view[u].history
  BY OpenEffect
<1>2. m \in Store /\ Settles(s, m) /\ Dims(s, m)
  BY StopEffect, StopSettles, Zenon
<1> HIDE DEF m, r
<1>5. Dims(m, r)
  BY <1>1 DEF Dims, Dark, NoRead
<1> QED BY <1>1, <1>2, <1>5, SameSettles, SettlesTrans, DimsTrans DEF r, SameWork

\* So does entering.
LEMMA EnterSettles ==
  ASSUME NEW s \in Store, PendingOK(s), NEW list \in BOOLEAN
  PROVE  /\ Enter(s, list) \in Store
         /\ Settles(s, Enter(s, list)) /\ Dims(s, Enter(s, list))
<1> DEFINE listed == IF list THEN LoadThreads(s, FALSE) ELSE s
<1>1. Settles(s, s) /\ Dims(s, s)
  BY SameBoth DEF SameInputs, SameShown
<1>2. listed \in Store /\ Settles(s, listed) /\ Dims(s, listed) /\ listed.active = s.active
  BY <1>1, LoadEffect, LoadSettles, Zenon DEF SameShown
<1>3. Enter(s, list) = IF ~s.up THEN s ELSE IF s.active # New THEN Open(listed) ELSE listed
  BY DEF Enter
<1> HIDE DEF listed
<1>4. CASE ~s.up
  BY <1>1, <1>3, <1>4
<1>5. CASE s.up /\ s.active # New
  <2>3. Open(listed) \in Store /\ Settles(listed, Open(listed)) /\ Dims(listed, Open(listed))
    BY <1>2, <1>5, SettlesPending, OpenEffect, OpenSettles, Zenon DEF Store
  <2> QED BY <1>2, <2>3, <1>3, <1>5, SettlesTrans, DimsTrans
<1>6. CASE s.up /\ s.active = New
  BY <1>2, <1>3, <1>6
<1> QED BY <1>4, <1>5, <1>6

\* So does reloading.
LEMMA ReloadSettles ==
  ASSUME NEW s \in Store, PendingOK(s)
  PROVE  /\ Reload(s) \in Store /\ Reload(s).post = NoPost
         /\ Settles(s, Reload(s)) /\ Dims(s, Reload(s))
<1> DEFINE m == StopSelection(s)
<1>1. m \in Store /\ m.post = NoPost /\ Settles(s, m) /\ Dims(s, m)
  BY StopEffect, StopSettles, Zenon
<1>2. Reload(s) = Enter(m, TRUE)
  BY DEF Reload
<1> HIDE DEF m
<1>4. /\ Enter(m, TRUE) \in Store /\ Enter(m, TRUE).post = NoPost
      /\ Settles(m, Enter(m, TRUE)) /\ Dims(m, Enter(m, TRUE))
  BY <1>1, SettlesPending, EnterSettles, Zenon DEF Settles
<1> QED BY <1>1, <1>2, <1>4, SettlesTrans, DimsTrans, Zenon

\* So does a selection.
LEMMA ActivateSettles ==
  ASSUME NEW s \in Store, PendingOK(s), NEW t \in Threads \cup {New}
  PROVE  /\ Activate(s, t) \in Store /\ Activate(s, t).post = NoPost
         /\ Settles(s, Activate(s, t)) /\ Dims(s, Activate(s, t))
<1> DEFINE m == StopSelection(s)
<1> DEFINE r == Activate(s, t)
<1>1. /\ r \in Store /\ r.active = t /\ r.view = m.view
      /\ r.proj = m.proj /\ r.read = m.read /\ r.post = m.post
      /\ r.creation = [s.creation EXCEPT !.here = FALSE]
      /\ r.drafts = m.drafts /\ r.new = m.new /\ r.subs = m.subs
  BY ActivateEffect
<1>2. /\ m \in Store /\ Settles(s, m) /\ Dims(s, m) /\ m.post = NoPost /\ m.read = NoRead
      /\ m.creation = s.creation
  BY StopEffect, StopSettles, Zenon
<1>3. \A u \in Threads : m.subs[u].status # "pending"
  BY <1>2, SettlesPending DEF Sending, NoPost, PendingOK
<1> HIDE DEF m, r
<1>5. Settles(m, r)
  BY <1>1, <1>2, <1>3 DEF Settles, Store, Creations, Follows
<1>6. Dims(m, r)
  BY <1>1, <1>2 DEF Dims, Dark, NoRead
<1> QED BY <1>1, <1>2, <1>5, <1>6, SettlesTrans, DimsTrans DEF r

\* So does the end of a creation.
LEMMA EndCreationSettles ==
  ASSUME NEW s \in Store, s.creation.phase = "listing" /\ s.creation.copy # {}
                            => s.creation.thread \in Threads
  PROVE  Settles(s, EndCreation(s)) /\ Dims(s, EndCreation(s))
<1> DEFINE r == EndCreation(s)
<1> DEFINE k == s.creation
<1>1. /\ r \in Store /\ SameShown(s, r)
      /\ r.creation = NoCreation /\ r.new = s.new /\ r.subs = s.subs
      /\ \A u \in Threads :
           r.drafts[u] = IF (k.phase = "listing" /\ k.copy # {}) /\ u = k.thread
                         THEN Redrafted(s.drafts[u], s.drafts[u].text \cup k.copy)
                         ELSE s.drafts[u]
  BY EndCreationEffect, Zenon
<1>2. ASSUME NEW u \in Threads
      PROVE  Redrafted(s.drafts[u], s.drafts[u].text \cup k.copy).text = s.drafts[u].text \cup k.copy
  BY RedraftedType DEF Store, Creations, DraftType, Texts
<1> HIDE DEF r
<1>3. Follows(k, r.creation, r.active = s.active) /\ ~Copies(r.creation)
  BY <1>1 DEF Follows, Copies, NoCreation
<1> QED BY <1>1, <1>3, <1>2, SameDims, Zenon DEF r, Settles, SameShown, Copies

\* So do the end of its list, and asking for the list at its end.
LEMMA EndListingSettles ==
  ASSUME NEW s \in Store, s.creation.phase = "listing" /\ s.creation.copy # {}
                            => s.creation.thread \in Threads
  PROVE  /\ EndListing(s) \in Store /\ Settles(s, EndListing(s)) /\ Dims(s, EndListing(s))
         /\ ListCreation(s) \in Store /\ Settles(s, ListCreation(s)) /\ Dims(s, ListCreation(s))
BY SameBoth, EndCreationEffect, EndCreationSettles, LoadEffect, LoadSettles, Zenon DEF SameInputs,
   SameShown, EndListing, ListCreation

\* What changes nothing of the inputs, of the POST and of what is known.
LEMMA StillBoth ==
  ASSUME NEW s, NEW r, SameInputs(s, r), r.active = s.active, r.post = s.post, r.meta = s.meta,
         r.view = s.view, r.proj = s.proj, r.read = s.read
  PROVE  Settles(s, r) /\ Dims(s, r)
BY SameSettles DEF Dims, Dark

\* While nothing is being sent, a stream may open, end or break.
LEMMA IdleSettles ==
  ASSUME NEW s, NEW r, PendingOK(s), ~Sending(s), SameInputs(s, r), r.active = s.active,
         r.post \in {s.post, NoPost}
  PROVE  Settles(s, r)
BY DEF SameInputs, Follows, PendingOK, Settles

\* What is read of a conversation that is on show brings no other on show.
LEMMA ReadyDims ==
  ASSUME NEW s, NEW r, s.view[s.active].history = "ready",
         r.read.phase = "answer" => r.read = s.read /\ r.active = s.active,
         \A u \in Threads : u # s.active => /\ r.view[u].history = s.view[u].history
                                           /\ r.proj[u].run = s.proj[u].run
  PROVE  Dims(s, r)
BY DEF Dims, Dark

\* So does leaving the page.
LEMMA RevokeSettles ==
  ASSUME NEW s \in Store, PendingOK(s), s.creation.phase = "listing" /\ s.creation.copy # {}
                                           => s.creation.thread \in Threads
  PROVE  Revoke(s) \in Store /\ Settles(s, Revoke(s)) /\ Dims(s, Revoke(s))
<1> DEFINE n == EndCreation(s)
<1> DEFINE m == StopSelection(n)
<1> DEFINE r == Revoke(s)
<1>1. n \in Store /\ Settles(s, n) /\ Dims(s, n)
  BY EndCreationEffect, EndCreationSettles
<1>2. /\ r \in Store /\ SameInputs(m, r) /\ r.active = m.active /\ r.proj = m.proj
      /\ r.read = m.read /\ r.post = m.post /\ r.meta = m.meta
      /\ \A u \in Threads : r.view[u].history = m.view[u].history
  BY RevokeEffect, Zenon
<1> HIDE DEF n, r
<1>4. m \in Store /\ Settles(n, m) /\ Dims(n, m)
  BY <1>1, SettlesPending, StopEffect, StopSettles, Zenon
<1> HIDE DEF m
<1>6. Settles(n, r) /\ Dims(n, r)
  BY <1>1, <1>2, <1>4, SameSettles, SettlesTrans, DimsTrans DEF Dims, Dark
<1> QED BY <1>1, <1>2, <1>6, SettlesTrans, DimsTrans DEF r

-----------------------------------------------------------------------------
(* Greatest and least numbers. *)

\* The maximum of a finite set of numbers is in it and bounds it.
LEMMA MaxOf ==
  ASSUME NEW S \in SUBSET Nat, IsFiniteSet(S), S # {}
  PROVE  Max(S) \in S /\ \A y \in S : y <= Max(S)
<1> DEFINE above(x) == {y \in S : y > x}
<1> DEFINE T == {above(x) : x \in S}
<1>1. T \subseteq FiniteSubsetsOf(S) /\ T # {}
  <2>1. ASSUME NEW x \in S PROVE above(x) \in FiniteSubsetsOf(S)
    BY FS_Subset DEF FiniteSubsetsOf
  <2> QED BY <2>1, Zenon
<1>2. \E u \in T : \A v \in T : ~(<<v, u>> \in StrictSubsetOrdering(S))
  <2> HIDE DEF T
  <2> QED BY <1>1, FS_StrictSubsetOrderingWellFounded, WFMin
<1>3. PICK x \in S : \A y \in S : ~(<<above(y), above(x)>> \in StrictSubsetOrdering(S))
  BY <1>2, Zenon
<1>4. \A y \in S : y <= x
  <2> SUFFICES ASSUME NEW y \in S, y > x PROVE FALSE
    OBVIOUS
  <2>0. \A z \in S : z \in Nat
    OBVIOUS
  <2>1. above(y) \subseteq above(x) /\ y \in above(x) /\ y \notin above(y)
    <3>1. ASSUME NEW z \in above(y) PROVE z \in above(x)
      BY <2>0
    <3>2. y \in above(x) /\ y \notin above(y)
      BY <2>0
    <3> QED BY <3>1, <3>2, Zenon
  <2> HIDE DEF above
  <2> QED BY <1>3, <2>1, Zenon DEF StrictSubsetOrdering, above
<1> QED BY <1>4, Zenon DEF Max

\* The minimum of a set of numbers is in it.
LEMMA MinOf ==
  ASSUME NEW S \in SUBSET Nat, S # {}
  PROVE  Min(S) \in S
<1>2. PICK x \in S : \A y \in S : ~(<<y, x>> \in OpToRel(<, Nat))
  BY NatLessThanWellFounded, WFMin, Zenon
<1>3. \A y \in S : x <= y
  <2> SUFFICES ASSUME NEW y \in S, ~(x <= y) PROVE FALSE
    OBVIOUS
  <2>3. <<y, x>> \in OpToRel(<, Nat)
    BY DEF OpToRel
  <2> QED BY <1>2, <2>3, Zenon
<1> QED BY <1>3, Zenon DEF Min

\* There are finitely many stamps.
LEMMA StampsFinite ==
  ASSUME NEW b \in [Threads -> Nat]
  PROVE  IsFiniteSet({b[t] : t \in Threads})
<1> DEFINE T == {b[t] : t \in Threads}
<1> QED BY FS_Surjection, ConversationConstants DEF Surjection

\* The time is later than what any conversation was changed last.
LEMMA NowIsLater ==
  ASSUME BackendOK(srv)
  PROVE  Threads # {} => Now \in Nat /\ \A t \in Threads : srv[t].stamp < Now
<1> DEFINE b == [t \in Threads |-> srv[t].stamp]
<1> DEFINE S == {srv[t].stamp : t \in Threads}
<1>1. \A t \in Threads : srv[t].stamp \in Nat
  BY DEF BackendOK, Backends, Histrs
<1>2. b \in [Threads -> Nat] /\ {b[t] : t \in Threads} = S
  BY <1>1
<1>3. IsFiniteSet(S)
  <2> HIDE DEF S, b
  <2> QED BY <1>2, StampsFinite
<1>4. S \in SUBSET Nat
  BY <1>1
<1>5. SUFFICES ASSUME NEW u \in Threads PROVE Now \in Nat /\ \A t \in Threads : srv[t].stamp < Now
  OBVIOUS
<1>6. srv[u].stamp \in S
  OBVIOUS
<1>7. Max(S) \in S /\ \A y \in S : y <= Max(S)
  <2> HIDE DEF S
  <2> QED BY <1>3, <1>4, <1>6, MaxOf
<1>8. Now = 1 + Max(S)
  BY DEF Now
<1>9. Max(S) \in Nat
  BY <1>4, <1>7
<1>10. \A t \in Threads : srv[t].stamp <= Max(S)
  BY <1>7
<1> HIDE DEF S
<1> QED BY <1>1, <1>8, <1>9, <1>10

\* The last message known is one of those known, or none.
LEMMA LastSeq ==
  ASSUME NEW S \in SUBSET Nat, NEW n \in Nat, \A x \in S : x <= n
  PROVE  /\ Max({0} \cup S) \in {0} \cup S /\ Max({0} \cup S) \in Nat
         /\ \A x \in S : x <= Max({0} \cup S)
<1> DEFINE T == {0} \cup S
<1>1. T \in SUBSET Nat /\ T # {} /\ \A x \in T : x <= n
  OBVIOUS
<1> HIDE DEF T
<1> QED BY <1>1, FS_BoundedSetOfNaturals, MaxOf, Zenon DEF T

-----------------------------------------------------------------------------
(* What the window knows of a conversation. *)

\* The metadata of a Run leaves what is known so.
LEMMA MetadataKeeps ==
  ASSUME NEW p \in Projections, NEW h \in Histrs, NEW run \in Nat, NEW over \in BOOLEAN,
         KnownOK(p, h), run \in 1..Len(h.runs), p.run <= run, over => IsOver(h, run)
  PROVE  LET q == Metadata(p, run, over)
         IN  /\ q \in Projections /\ KnownOK(q, h) /\ q.run = run /\ q.seqs = p.seqs
             /\ p.over \subseteq q.over /\ (over => run \in q.over)
<1> DEFINE q == Metadata(p, run, over)
<1> DEFINE done == IF over THEN p.over \cup {run} ELSE p.over
<1> DEFINE known == [p EXCEPT !.over = done]
<1> DEFINE floor == Max({0} \cup p.seqs)
<1>1. p.seqs \in SUBSET Nat /\ p.over \in SUBSET Nat /\ p.run \in Nat
  BY DEF Projections
<1>2. floor \in Nat
  <2>1. Len(h.msgs) \in Nat
    BY DEF Histrs
  <2>2. \A x \in p.seqs : x <= Len(h.msgs)
    BY <2>1 DEF KnownOK
  <2> QED BY <1>1, <2>1, <2>2, LastSeq, Zenon
<1>3. done \in SUBSET Nat /\ p.over \subseteq done /\ (over => run \in done)
  BY <1>1
<1>4. \A n \in done : n <= run /\ IsOver(h, n)
  BY <1>1 DEF KnownOK
<1>5. known \in Projections /\ known.over = done /\ known.run = p.run /\ known.seqs = p.seqs
  BY <1>3 DEF Projections
<1>6. CASE run \in p.over /\ ~over
  BY <1>6, <1>1 DEF Metadata, KnownOK
<1>7. CASE ~(run \in p.over /\ ~over) /\ p.run = run
  <2>1. q = known
    BY <1>7 DEF Metadata
  <2> HIDE DEF known, done
  <2> QED BY <1>3, <1>4, <1>5, <1>7, <2>1, Zenon DEF KnownOK
<1>8. CASE ~(run \in p.over /\ ~over) /\ p.run # run
  <2>1. q = [known EXCEPT !.run = run, !.floor = floor]
    BY <1>8 DEF Metadata
  <2> HIDE DEF known, done, floor, q
  <2>2. q \in Projections /\ q.run = run /\ q.over = done /\ q.seqs = p.seqs
    BY <1>2, <1>5, <2>1, Zenon DEF Projections
  <2>3. KnownOK(q, h)
    BY <1>4, <2>2 DEF KnownOK
  <2> QED BY <1>3, <2>2, <2>3 DEF q
<1> QED BY <1>6, <1>7, <1>8

\* Messages merged in leave what is known so.
LEMMA MergeKeeps ==
  ASSUME NEW p \in Projections, NEW h \in Histrs, NEW seqs \in SUBSET (1..Len(h.msgs)),
         KnownOK(p, h)
  PROVE  LET q == MergeMessages(p, seqs)
         IN  /\ q \in Projections /\ KnownOK(q, h) /\ q.run = p.run /\ q.over = p.over
             /\ q.floor = p.floor /\ q.seqs = p.seqs \cup seqs
<1> DEFINE q == MergeMessages(p, seqs)
<1>1. p.seqs \cup seqs \in SUBSET Nat
  <2>2. \A x \in seqs : x \in Nat
    BY DEF Histrs
  <2> QED BY <2>2, Zenon DEF Projections
<1>2. q \in Projections /\ q.run = p.run /\ q.over = p.over /\ q.floor = p.floor
      /\ q.seqs = p.seqs \cup seqs
  BY <1>1 DEF MergeMessages, Projections
<1> QED BY <1>2, Zenon DEF KnownOK

\* An answer of the history merged in leaves what is known so.
LEMMA MergeHistoryKeeps ==
  ASSUME BackendOK(srv), NEW t \in Threads, NEW p \in Projections, NEW ans \in Histories,
         KnownOK(p, srv[t]), AnswerOK(ans, p, srv[t]), p.run = 0 => p.seqs \subseteq 1..ans.n
  PROVE  LET q == MergeHistory(p, t, ans)
         IN  /\ q \in Projections /\ KnownOK(q, srv[t]) /\ q.run >= p.run /\ p.over \subseteq q.over
             /\ (q.run = 0 => q.seqs = {})
             /\ (ans.n > 0 => q.run # 0)
             /\ (ans.n > 0 /\ p.run = 0 => q.run = srv[t].msgs[ans.n])
<1> DEFINE h == srv[t]
<1> DEFINE q == MergeHistory(p, t, ans)
<1> DEFINE merged == MergeMessages(p, 1..ans.n)
<1> DEFINE latest == Max({0} \cup merged.seqs)
<1> DEFINE run == IF latest = 0 THEN 0 ELSE h.msgs[latest]
<1> DEFINE found == \E seq \in 1..ans.n : h.msgs[seq] = run
<1> DEFINE over == (run \in ans.over)
<1>1. h \in Histrs /\ HistoryOK(h)
  BY DEF BackendOK, Backends
<1>2. h.msgs \in Seq(Nat) /\ Len(h.msgs) \in Nat /\ Len(h.runs) \in Nat
  BY <1>1 DEF Histrs
<1>3. p.run \in Nat /\ p.seqs \in SUBSET Nat /\ p.seqs \subseteq 1..Len(h.msgs)
  BY DEF Projections, KnownOK
<1>4. ans.n \in Nat /\ ans.n <= Len(h.msgs) /\ ans.over \in SUBSET Nat
  BY DEF Histories, AnswerOK
<1>5. 1..ans.n \in SUBSET (1..Len(h.msgs))
  BY <1>2, <1>4
<1>6. /\ merged \in Projections /\ KnownOK(merged, h) /\ merged.run = p.run /\ merged.over = p.over
      /\ merged.floor = p.floor /\ merged.seqs = p.seqs \cup 1..ans.n
  BY <1>1, <1>5, MergeKeeps, Zenon
<1>7. q = IF found /\ (p.run = 0 \/ run = p.run \/ latest > p.floor)
          THEN Metadata(merged, run, over) ELSE merged
  BY DEF MergeHistory, Owner
<1> HIDE DEF merged, q
<1>8. latest \in {0} \cup merged.seqs /\ latest \in Nat /\ \A x \in merged.seqs : x <= latest
  <2>1. merged.seqs \in SUBSET Nat /\ \A x \in merged.seqs : x <= Len(h.msgs)
    BY <1>2, <1>3, <1>5, <1>6
  <2> QED BY <1>2, <2>1, LastSeq, Zenon
<1> HIDE DEF latest
<1>9. latest # 0 => latest \in 1..Len(h.msgs)
  BY <1>3, <1>5, <1>6, <1>8
<1>10. ans.n > 0 => latest # 0 /\ ans.n <= latest /\ h.msgs[ans.n] <= run /\ run \in 1..Len(h.runs)
  BY <1>4, <1>6, <1>8, <1>9, <1>1 DEF HistoryOK
<1>11. ASSUME NEW n \in ans.over PROVE IsOver(h, n)
  BY <1>11 DEF AnswerOK
<1>12. CASE found /\ (p.run = 0 \/ run = p.run \/ latest > p.floor)
  <2>1. ans.n > 0
    BY <1>4, <1>12
  <2>2. run \in 1..Len(h.runs) /\ h.msgs[ans.n] <= run /\ run \in Nat
    BY <1>2, <1>10, <2>1
  <2>3. h.msgs[ans.n] \in Nat
    BY <1>2, <1>4, <2>1
  <2>4. p.run <= run
    BY <1>3, <2>2, <2>3 DEF AnswerOK
  <2>5. over => IsOver(h, run)
    BY <1>11
  <2> DEFINE m == Metadata(merged, run, over)
  <2> HIDE DEF run, over
  <2>6. /\ m \in Projections /\ KnownOK(m, h) /\ m.run = run /\ m.seqs = merged.seqs
        /\ merged.over \subseteq m.over
    <3>1. over \in BOOLEAN
      BY DEF over
    <3> QED BY <1>1, <1>6, <2>2, <2>4, <2>5, <3>1, MetadataKeeps
  <2>7. q = m
    BY <1>7, <1>12
  <2>8. p.run = 0 => run = h.msgs[ans.n]
    BY <1>6, <1>4, <1>8, <1>10, <2>1 DEF run
  <2> HIDE DEF m
  <2> QED BY <1>6, <2>4, <2>6, <2>7, <2>8, <2>2 DEF q
<1>13. CASE ~(found /\ (p.run = 0 \/ run = p.run \/ latest > p.floor))
  BY <1>7, <1>13, <1>4, <1>6, <1>8, <1>10, <1>3 DEF q
<1> QED BY <1>12, <1>13 DEF q

-----------------------------------------------------------------------------
(* Showing what is known. *)

Learned(s, t, q) == [s EXCEPT !.proj[t] = q]

\* What a change of what is known changes in the store.
LEMMA KnowEffect ==
  ASSUME NEW s \in Store, NEW t \in Threads, NEW q \in Projections, NEW r, r = Learned(s, t, q)
  PROVE  /\ r \in Store /\ SameWork(s, r) /\ SameList(s, r) /\ SameInputs(s, r)
         /\ r.view = s.view /\ r.read = s.read /\ r.chain = s.chain
         /\ \A u \in Threads : r.proj[u] = IF u = t THEN q ELSE s.proj[u]
<1> DEFINE proj == [s.proj EXCEPT ![t] = q]
<1> HIDE DEF proj
<1> QED BY DEF Store, SameWork, SameList, SameInputs, Learned

\* What a change of what is shown changes in the store.
LEMMA ViewEffect ==
  ASSUME NEW s \in Store, NEW t \in Threads, NEW v \in Views
  PROVE  LET r == [s EXCEPT !.view[t] = v]
         IN  /\ r \in Store /\ SameWork(s, r) /\ SameList(s, r) /\ SameInputs(s, r)
             /\ r.proj = s.proj /\ r.read = s.read /\ r.chain = s.chain
             /\ \A u \in Threads : r.view[u] = IF u = t THEN v ELSE s.view[u]
<1> DEFINE r == [s EXCEPT !.view[t] = v]
<1> DEFINE view == [s.view EXCEPT ![t] = v]
<1> HIDE DEF r, view
<1> QED BY DEF r, Store, SameWork, SameList, SameInputs

\* What showing what is known changes.
LEMMA PublishEffect ==
  ASSUME NEW s \in Store, NEW t \in Threads
  PROVE  LET r == Publish(s, t)
             v == [s.view[t] EXCEPT !.run = s.proj[t].run, !.over = s.proj[t].run \in s.proj[t].over]
         IN  /\ r = [s EXCEPT !.view[t] = v] /\ v \in Views
             /\ v.run = s.proj[t].run /\ v.over = (s.proj[t].run \in s.proj[t].over)
             /\ v.history = s.view[t].history /\ v.verified = s.view[t].verified
<1> DEFINE v == [s.view[t] EXCEPT !.run = s.proj[t].run, !.over = s.proj[t].run \in s.proj[t].over]
<1>1. s.view \in [Threads -> Views] /\ s.proj \in [Threads -> Projections]
  BY DEF Store
<1>2. s.view[t] \in Views /\ s.proj[t] \in Projections
  BY <1>1
<1>4. /\ v \in Views /\ v.run = s.proj[t].run /\ v.over = (s.proj[t].run \in s.proj[t].over)
      /\ v.history = s.view[t].history /\ v.verified = s.view[t].verified
  <2> DEFINE run == s.proj[t].run
  <2> DEFINE over == (s.proj[t].run \in s.proj[t].over)
  <2>1. run \in Nat /\ over \in BOOLEAN /\ v = [s.view[t] EXCEPT !.run = run, !.over = over]
    BY <1>2 DEF Projections
  <2> HIDE DEF run, over, v
  <2> QED BY <1>2, <2>1, Zenon DEF run, over, Views
<1> QED BY <1>4, <1>1, ZenonT(60) DEF Publish, Store

\* The conversation on show is known better, and shown as it is known.
Better(s, r, t, q, h) ==
  /\ t = s.active /\ s.up /\ r.up = s.up /\ r.active = s.active
  /\ KnownOK(q, h) /\ (q.run = 0 => q.seqs = {})
  /\ q.run >= s.proj[t].run /\ s.proj[t].over \subseteq q.over
  /\ \A u \in Threads : r.proj[u] = IF u = t THEN q ELSE s.proj[u]
  /\ \A u \in Threads : u # t => r.view[u] = s.view[u]
  /\ r.view[t].run = q.run /\ r.view[t].over = (q.run \in q.over)

\* Knowing more of one conversation and showing it keeps what is true of a store.
LEMMA ShowKeeps ==
  ASSUME NEW s \in Store, NEW r \in Store, NEW b, NEW g, Fine(s, b, g), NEW t \in Threads,
         NEW q \in Projections, Better(s, r, t, q, b[t])
  PROVE  /\ \A u \in Threads : ThreadOK(r.view[u], r.proj[u], b[u])
         /\ \A u \in Threads : r.view[u].verified => u = r.active /\ r.up
         /\ \A u \in Threads : Forward(s.view[u], r.view[u])
<1> USE DEF Better
<1>1. \A u \in Threads : s.view[u] \in Views /\ s.proj[u] \in Projections
  BY DEF Store
<1>2. \A u \in Threads : ThreadOK(s.view[u], s.proj[u], b[u])
  BY DEF Fine, ViewOK
<1>3. ASSUME NEW u \in Threads
      PROVE  ThreadOK(r.view[u], r.proj[u], b[u]) /\ Forward(s.view[u], r.view[u])
  <2>1. CASE u = t
    <3>1. s.view[t].run \in Nat /\ s.proj[t].run \in Nat /\ q.run \in Nat
      BY <1>1 DEF Views, Projections
    <3>3. r.view[t].over => r.view[t].run \in q.over
      BY Zenon
    <3>5. s.view[t].run <= s.proj[t].run /\ (s.view[t].over => s.view[t].run \in s.proj[t].over)
      BY <1>2 DEF ThreadOK
    <3>6. ASSUME s.view[t].over, r.view[t].run = s.view[t].run PROVE r.view[t].over
      BY <3>5, <3>6, Zenon
    <3> QED BY <2>1, <3>1, <3>3, <3>5, <3>6 DEF Forward, ThreadOK
  <2>2. CASE u # t
    BY <2>2, <1>1, <1>2 DEF Forward, Views
  <2> QED BY <2>1, <2>2
<1> QED BY <1>3 DEF Fine, ViewOK

\* What else is fine as it was, when only the selection changes.
LEMMA SelectionKeeps ==
  ASSUME NEW s \in Store, NEW r \in Store, NEW b, NEW g, Fine(s, b, g), SameList(s, r),
         r.up = s.up, r.active = s.active, r.creation = s.creation, r.post \in {s.post, NoPost}, ViewOK(r, b)
  PROVE  Fine(r, b, g)
BY DEF Fine, SameList, PostOK, NoPost, UnmadeOK

-----------------------------------------------------------------------------
(* What a stream tells the list. *)

\* What noting a Run in the list changes.
LEMMA SyncEffect ==
  ASSUME NEW s \in Store, NEW t \in Threads, NEW run \in Nat, NEW over \in BOOLEAN
  PROVE  LET r == SyncRun(s, t, run, over)
         IN  /\ r \in Store /\ SameShown(s, r) /\ SameInputs(s, r)
             /\ r.list = IF s.list.phase = "none" THEN s.list ELSE [s.list EXCEPT !.stale = @ \cup {t}]
             /\ r.more = IF s.more.phase = "none" THEN s.more ELSE [s.more EXCEPT !.stale = @ \cup {t}]
             /\ \A u \in Threads : u # t => r.items[u] = s.items[u]
             /\ s.items[t] = NoItem => r.items[t] = NoItem
             /\ s.items[t] # NoItem =>
                  r.items[t].run = run /\ r.items[t].over = over
                  /\ r.items[t].stamp = s.items[t].stamp
<1> DEFINE r == SyncRun(s, t, run, over)
<1> DEFINE Moved(q) == IF q.phase = "none" THEN q ELSE [q EXCEPT !.stale = @ \cup {t}]
<1> DEFINE i == IF s.items[t] = NoItem THEN s.items[t] ELSE [s.items[t] EXCEPT !.run = run, !.over = over]
<1> DEFINE items == [s.items EXCEPT ![t] = i]
<1> DEFINE list == Moved(s.list)
<1> DEFINE more == Moved(s.more)
<1>1. s.items \in [Threads -> Items]
  BY DEF Store
<1>3. /\ i \in Items /\ (s.items[t] = NoItem => i = NoItem)
      /\ s.items[t] # NoItem => i.run = run /\ i.over = over /\ i.stamp = s.items[t].stamp
  BY <1>1, Zenon DEF Items
<1>4. ASSUME NEW q \in Requests PROVE Moved(q) \in Requests
  BY DEF Requests
<1>5. list \in Requests /\ more \in Requests
  <2> HIDE DEF Moved
  <2> QED BY <1>4 DEF Store
<1>6. r = [s EXCEPT !.list = list, !.more = more, !.items = items]
  BY DEF SyncRun, Store
<1> HIDE DEF i
<1>7. items \in [Threads -> Items] /\ \A u \in Threads : items[u] = IF u = t THEN i ELSE s.items[u]
  BY <1>1, <1>3
<1> HIDE DEF items, list, more, r
<1>8. r \in Store
  BY <1>5, <1>6, <1>7, ZenonT(60) DEF Store
<1>9. SameShown(s, r) /\ SameInputs(s, r) /\ r.items = items /\ r.list = list /\ r.more = more
  BY <1>6 DEF Store, SameShown, SameInputs
<1> QED BY <1>3, <1>7, <1>8, <1>9 DEF r, list, more

\* Noting a Run in the list keeps what is true of a store.
LEMMA SyncKeeps ==
  ASSUME NEW s \in Store, NEW b, NEW g, Fine(s, b, g), NEW t \in Threads, NEW run \in Nat,
         NEW over \in BOOLEAN,
         run <= Len(b[t].runs), over => IsOver(b[t], run) , b \in Backends
  PROVE  LET r == SyncRun(s, t, run, over)
         IN  /\ r \in Store /\ SameShown(s, r) /\ SameInputs(s, r) /\ Fine(r, b, g)
             /\ \A u \in Threads : u # t => r.items[u] = s.items[u]
<1> DEFINE r == SyncRun(s, t, run, over)
<1>1. /\ r \in Store /\ SameShown(s, r) /\ SameInputs(s, r)
      /\ r.list = IF s.list.phase = "none" THEN s.list ELSE [s.list EXCEPT !.stale = @ \cup {t}]
      /\ r.more = IF s.more.phase = "none" THEN s.more ELSE [s.more EXCEPT !.stale = @ \cup {t}]
      /\ \A u \in Threads : u # t => r.items[u] = s.items[u]
      /\ s.items[t] = NoItem => r.items[t] = NoItem
      /\ s.items[t] # NoItem =>
           r.items[t].run = run /\ r.items[t].over = over /\ r.items[t].stamp = s.items[t].stamp
  BY SyncEffect
<1> HIDE DEF r
<1>2. s.list \in Requests /\ s.more \in Requests
  BY DEF Store
<1>3. ASSUME NEW q \in Requests, NEW m,
             m = IF q.phase = "none" THEN q ELSE [q EXCEPT !.stale = @ \cup {t}]
      PROVE  /\ m.phase = q.phase /\ m.ans = q.ans
             /\ m.phase # "none" => m.stale = q.stale \cup {t}
  BY <1>3 DEF Requests
<1>4. /\ r.list.phase = s.list.phase /\ r.list.ans = s.list.ans
      /\ r.list.phase # "none" => r.list.stale = s.list.stale \cup {t}
      /\ r.more.phase = s.more.phase /\ r.more.ans = s.more.ans
      /\ r.more.phase # "none" => r.more.stale = s.more.stale \cup {t}
  BY <1>1, <1>2, <1>3
<1>5. ViewOK(r, b)
  BY <1>1, <1>4, SameView DEF SameShown, Fine, ViewOK, UnderWay
<1>6. ASSUME NEW q, NEW m, m.phase = q.phase, m.ans = q.ans, m.phase # "none"
             => m.stale = q.stale \cup {t},
             RequestOK(q, s.items, b), DOMAIN q.ans.items \subseteq Threads
      PROVE  RequestOK(m, r.items, b)
  BY <1>6, <1>1 DEF RequestOK, EntryOK
<1>7. ASSUME NEW q \in Requests PROVE DOMAIN q.ans.items \subseteq Threads
  BY DEF Requests, Pages
<1>8. ListOK(r.items, r.list, r.more, b)
  <2>1. ListOK(s.items, s.list, s.more, b)
    BY DEF Fine
  <2>4. ASSUME NEW u \in Threads PROVE Forward(r.items[u], SumOf(b[u]))
    <3>2. CASE u # t \/ s.items[u] = NoItem
      BY <1>1, <2>1, <3>2 DEF ListOK
    <3>3. CASE u = t /\ s.items[u] # NoItem
      BY <1>1, <3>3 DEF Backends, Histrs, Forward, SumOf
    <3> QED BY <3>2, <3>3
  <2> QED BY <1>2, <1>4, <1>6, <1>7, <2>1, <2>4, Zenon DEF ListOK, InOrder
<1>9. PostOK(r, g) /\ CreationOK(r.creation, r.up, b, g)
  BY <1>1 DEF Fine, PostOK, SameShown, SameInputs
<1> QED BY <1>1, <1>5, <1>8, <1>9 DEF Fine, r, UnmadeOK, SameShown

-----------------------------------------------------------------------------
(* Steps. *)

Good(s, b, l, g) ==
  s \in Store /\ g \in Logs /\ BackendOK(b) /\ Fine(s, b, g) /\ l \subseteq 0..Len(g.sent)

Onward ==
  \A t \in Threads :
    /\ Forward(c.view[t], c'.view[t])
    /\ t # c'.active => Forward(c.items[t], c'.items[t])

\* A view and an item do not go back when they stay.
LEMMA ForwardSelf ==
  ASSUME NEW s \in Store, NEW t \in Threads
  PROVE  Forward(s.view[t], s.view[t]) /\ Forward(s.items[t], s.items[t])
BY DEF Store, Forward, Views, Items

\* What is true of a store depends on the log by its sends alone.
LEMMA SameSent ==
  ASSUME NEW s, NEW b, NEW g, NEW h, Fine(s, b, g), h.sent = g.sent
  PROVE  Fine(s, b, h)
BY DEF Fine, PostOK, CreationOK, UnmadeOK, Unsent

\* A step of the window that neither sends nor lists anything new.
LEMMA WindowStep ==
  ASSUME Good(c, srv, late, log), UNCHANGED srv, c' \in Store, Fine(c', srv, log), Shift(c, c'),
         log' \in Logs, log'.sent = log.sent, late' \subseteq 0..Len(log.sent)
  PROVE  Good(c', srv', late', log') /\ Onward
BY SameSent, ForwardSelf DEF Good, Shift, Onward

\* An event noted leaves the sends as they were.
LEMMA EventType ==
  ASSUME log \in Logs, Event
  PROVE  log' \in Logs /\ log'.sent = log.sent
BY DEF Logs, Event

\* So does no event.
LEMMA NoEvent ==
  ASSUME log \in Logs, UNCHANGED log
  PROVE  log' \in Logs /\ log'.sent = log.sent
OBVIOUS

\* A request aborted is one that was sent.
LEMMA AbortsType ==
  ASSUME Good(c, srv, late, log), Aborts
  PROVE  late' \subseteq 0..Len(log.sent)
<1>1. c.post.send \in Nat /\ Len(log.sent) \in Nat
  BY DEF Good, Store, Posts, Logs
<1>2. c.post.send \in 0..Len(log.sent)
  BY <1>1 DEF Good, Fine, PostOK
<1>4. late \subseteq 0..Len(log.sent) /\ 0 \in 0..Len(log.sent)
  BY <1>1 DEF Good
<1> QED BY <1>2, <1>4, Zenon DEF Aborts

-----------------------------------------------------------------------------
(* The thread list. *)

\* The summary served is that of the conversation.
LEMMA SummaryIs ==
  ASSUME BackendOK(srv), NEW t \in Threads
  PROVE  Summary(t) = SumOf(srv[t]) /\ Summary(t) \in Items
BY DEF BackendOK, Backends, Histrs, Last, Over, IsOver, Summary, SumOf, Items

\* A page served lists conversations, each by a summary it has.
LEMMA PageType ==
  ASSUME BackendOK(srv), NEW cursor \in Nat
  PROVE  /\ Page(cursor) \in Pages
         /\ \A t \in DOMAIN Page(cursor).items :
              t \in Threads /\ srv[t].stamp > 0 /\ Page(cursor).items[t] = SumOf(srv[t])
<1> DEFINE below == {t \in Threads : Made(t) /\ (cursor > 0 => srv[t].stamp < cursor)}
<1> DEFINE After(t) == {u \in below : srv[u].stamp > srv[t].stamp}
<1> DEFINE data == {t \in below : Cardinality(After(t)) < PageSize}
<1> DEFINE items == [t \in data |-> Summary(t)]
<1> DEFINE stamps == {srv[t].stamp : t \in data}
<1> DEFINE next == IF data = below \/ Cardinality(data) < PageSize THEN 0 ELSE Min(stamps)
<1>1. Page(cursor) = [items |-> items, next |-> next]
  BY DEF Page
<1>2. data \in SUBSET Threads /\ \A t \in data : srv[t].stamp > 0
  BY DEF Made
<1>3. next \in Nat
  <2>1. CASE data = below \/ Cardinality(data) < PageSize
    BY <2>1
  <2>2. CASE ~(data = below \/ Cardinality(data) < PageSize)
    <3> HIDE DEF data
    <3>2. \A t \in data : srv[t].stamp \in Nat
      BY <1>2 DEF BackendOK, Backends, Histrs
    <3>3. stamps \in SUBSET Nat /\ stamps # {}
      BY <2>2, <3>2, FS_EmptySet, ConversationConstants
    <3> HIDE DEF stamps
    <3> QED BY <2>2, <3>3, MinOf, Zenon
  <2> QED BY <2>1, <2>2
<1> HIDE DEF data, next
<1>5. items \in UNION {[S -> Items] : S \in SUBSET Threads}
  BY <1>2, SummaryIs
<1>6. DOMAIN items = data /\ \A t \in data : items[t] = SumOf(srv[t])
  BY <1>2, SummaryIs
<1> HIDE DEF items
<1> QED BY <1>2, <1>6, <1>1, <1>3, <1>5 DEF Pages

\* An answer that is made now is in order with whatever was answered before.
LEMMA NewAnswer ==
  ASSUME NEW is, NEW b \in Backends, NEW r, NEW q, NEW m, RequestOK(q, is, b),
         \A t \in Threads : Forward(is[t], SumOf(b[t])),
         DOMAIN m.ans.items \subseteq Threads,
         \A t \in DOMAIN m.ans.items : b[t].stamp > 0 /\ m.ans.items[t] = SumOf(b[t]),
         DOMAIN q.ans.items \subseteq Threads, \A t \in DOMAIN q.ans.items : q.ans.items[t].stamp \in Int
  PROVE  RequestOK(m, is, b) /\ InOrder(m, q) /\ InOrder(q, m)
<1>2. \A t \in Threads : SumOf(b[t]).stamp = b[t].stamp /\ SumOf(b[t]).run = Len(b[t].runs)
  BY DEF SumOf
<1> QED BY <1>2 DEF RequestOK, EntryOK, InOrder, Forward, Backends, Histrs

\* An answer lists conversations.
LEMMA RequestDomain ==
  ASSUME NEW q \in Requests
  PROVE  DOMAIN q.ans.items \subseteq Threads
         /\ \A t \in DOMAIN q.ans.items : q.ans.items[t] \in Items
BY DEF Requests, Pages

\* Only the requests of the list change.
LEMMA ListKeeps ==
  ASSUME NEW s \in Store, NEW r \in Store, NEW b, NEW g, Fine(s, b, g), SameShown(s, r),
         r.items = s.items,
         r.creation = s.creation, r.list.phase # "none" => s.up, ListOK(s.items, r.list, r.more, b)
  PROVE  Fine(r, b, g) /\ Shift(s, r)
BY SameView, SameShift DEF SameShown, Fine, PostOK, UnmadeOK

\* An item merged in is no older than the one it replaces.
LEMMA MergeItemKeeps ==
  ASSUME NEW s \in Store, NEW t \in Threads, NEW a \in Items, NEW stale, NEW h \in Histrs,
         EntryOK(a, t \in stale, s.items[t], h), Forward(s.items[t], SumOf(h))
  PROVE  LET m == MergeItem(s, t, a, stale)
         IN  /\ m \in Items /\ Forward(s.items[t], m) /\ Forward(m, SumOf(h))
             /\ \A p \in Items, q \in BOOLEAN :
                  EntryOK(p, q, s.items[t], h) /\ (a.stamp <= p.stamp => Forward(a, p))
                    => EntryOK(p, q, m, h)
<1> DEFINE old == s.items[t]
<1> DEFINE m == MergeItem(s, t, a, stale)
<1>1. old \in Items
  BY DEF Store
<1>2. Forward(old, old)
  BY <1>1 DEF Forward, Items
<1>3. CASE m = old
  BY <1>1, <1>2, <1>3
<1>4. CASE m = [old EXCEPT !.stamp = a.stamp] /\ old # NoItem
           /\ ~(old.stamp > 0 /\ a.stamp < old.stamp)
  <2> HIDE DEF old, m
  <2>1. m \in Items /\ m.run = old.run /\ m.over = old.over /\ m.stamp = a.stamp
    BY <1>1, <1>4 DEF Items
  <2>3. ASSUME NEW p \in Items, NEW q \in BOOLEAN, EntryOK(p, q, old, h) PROVE EntryOK(p, q, m, h)
    BY <1>1, <1>4, <2>3, <2>1 DEF Items, EntryOK, Forward
  <2> QED BY <2>1, <1>2, <2>3 DEF m, old, Forward
<1>5. CASE m = a /\ (old = NoItem \/ (~(old.stamp > 0 /\ a.stamp < old.stamp) /\ t \notin stale))
  BY <1>1, <1>5 DEF Forward, NoItem, Items, EntryOK
<1> QED BY <1>3, <1>4, <1>5 DEF MergeItem, Protected

\* A page merged in keeps what is true of the list.
LEMMA MergeThreadsKeeps ==
  ASSUME NEW s \in Store, NEW b \in Backends, NEW r \in Requests, NEW q \in Requests,
         r.phase = "answer",
         RequestOK(r, s.items, b), RequestOK(q, s.items, b), InOrder(r, q),
         \A t \in Threads : Forward(s.items[t], SumOf(b[t]))
  PROVE  LET m == MergeThreads(s, r)
         IN  /\ m \in Store /\ SameShown(s, m) /\ SameInputs(s, m) /\ m.list = s.list
         /\ m.more = s.more
             /\ RequestOK(q, m.items, b)
             /\ \A t \in Threads :
                  /\ Forward(s.items[t], m.items[t]) /\ Forward(m.items[t], SumOf(b[t]))
                  /\ b[t].stamp = 0 => m.items[t] = s.items[t]
<1> DEFINE got == r.ans.items
<1> DEFINE items == [t \in Threads |->
         IF t \in DOMAIN got THEN MergeItem(s, t, got[t], r.stale) ELSE s.items[t]]
<1> DEFINE m == MergeThreads(s, r)
<1>1. m = [s EXCEPT !.items = items]
  BY DEF MergeThreads, Store
<1>2. /\ DOMAIN got \subseteq Threads /\ \A t \in DOMAIN got : got[t] \in Items
      /\ DOMAIN q.ans.items \subseteq Threads
         /\ \A t \in DOMAIN q.ans.items : q.ans.items[t] \in Items
  BY RequestDomain
<1>3. \A t \in Threads : s.items[t] \in Items /\ b[t] \in Histrs
  BY DEF Store, Backends
<1>4. \A t \in DOMAIN got : EntryOK(got[t], t \in r.stale, s.items[t], b[t])
  BY DEF RequestOK
<1> HIDE DEF got
<1>5. ASSUME NEW t \in Threads
      PROVE  /\ items[t] \in Items /\ Forward(s.items[t], items[t])
                /\ Forward(items[t], SumOf(b[t]))
             /\ \A p \in Items, u \in BOOLEAN :
                  EntryOK(p, u, s.items[t], b[t])
                  /\ (t \in DOMAIN got /\ got[t].stamp <= p.stamp => Forward(got[t], p))
                    => EntryOK(p, u, items[t], b[t])
             /\ b[t].stamp = 0 => items[t] = s.items[t]
  <2>1. CASE t \in DOMAIN got
    <3>1. items[t] = MergeItem(s, t, got[t], r.stale)
      BY <2>1
    <3>2. got[t] \in Items /\ EntryOK(got[t], t \in r.stale, s.items[t], b[t]) /\ b[t] \in Histrs
      BY <1>2, <1>3, <1>4, <2>1
    <3> HIDE DEF items
    <3> QED BY <2>1, <3>1, <3>2, MergeItemKeeps DEF Histrs, Items, EntryOK
  <2>2. CASE t \notin DOMAIN got
    <3>1. items[t] = s.items[t]
      BY <2>2
    <3> HIDE DEF items
    <3> QED BY <1>3, <2>2, <3>1, ForwardSelf
  <2> QED BY <2>1, <2>2
<1>6. items \in [Threads -> Items]
  BY <1>5
<1> HIDE DEF items, m
<1>8. m.items = items /\ SameShown(s, m) /\ SameInputs(s, m) /\ m.list = s.list /\ m.more = s.more
  BY <1>1 DEF Store, SameShown, SameInputs
<1>9. RequestOK(q, items, b)
  <2> SUFFICES ASSUME q.phase = "answer", NEW t \in DOMAIN q.ans.items
               PROVE  EntryOK(q.ans.items[t], t \in q.stale, items[t], b[t])
    BY DEF RequestOK
  <2>3. t \in Threads /\ q.ans.items[t] \in Items /\ (t \in q.stale) \in BOOLEAN
    BY <1>2
  <2> QED BY <1>5, <2>3, Zenon DEF RequestOK, InOrder, got
<1> QED BY <1>5, <1>1, <1>6, <1>8, <1>9, ZenonT(60) DEF m, Store

\* What the list that tells of another Run changes.
LEMMA ReconcileEffect ==
  ASSUME NEW s \in Store, NEW t \in Threads, NEW run \in Nat
  PROVE  LET r == ReconcileSummary(s, t, run)
         IN  /\ r \in Store /\ SameList(s, r) /\ SameInputs(s, r)
             /\ r.up = s.up /\ r.active = s.active /\ r.view = s.view /\ r.proj = s.proj
                /\ r.read = s.read
             /\ r.post = s.post /\ r.follow = s.follow /\ r.meta = s.meta /\ r.snap = s.snap
             /\ r.commit = s.commit
             /\ \/ r.summary = s.summary \/ r.summary = NoRead
                \/ /\ r.summary.phase = "sent"
                   /\ s.view[t].history = "ready" /\ ~(s.post # NoPost /\ ~s.meta)
<1> DEFINE r == ReconcileSummary(s, t, run)
<1> DEFINE tgt == <<t, run>>
<1> DEFINE told == IF s.target = tgt THEN s ELSE [s EXCEPT !.summary = NoRead, !.target = tgt]
<1> DEFINE read == [NoRead EXCEPT !.phase = "sent"]
<1> DEFINE wanted == /\ run # 0 /\ run # s.view[t].run /\ s.view[t].history = "ready"
                     /\ ~(s.post # NoPost /\ ~s.meta) /\ told.summary.phase = "none"
<1>1. tgt \in Targets
  BY DEF Targets
<1>2. read \in Reads /\ read.phase = "sent"
  BY Blank DEF Reads, NoRead
<1>3. r = IF wanted THEN [told EXCEPT !.summary = read] ELSE told
  BY DEF ReconcileSummary
<1> HIDE DEF tgt, read
<1>4. /\ told \in Store /\ SameList(s, told) /\ SameInputs(s, told)
      /\ told.up = s.up /\ told.active = s.active /\ told.view = s.view /\ told.proj = s.proj
      /\ told.read = s.read /\ told.post = s.post /\ told.follow = s.follow /\ told.meta = s.meta
      /\ told.snap = s.snap /\ told.commit = s.commit
      /\ told.summary \in {s.summary, NoRead}
  <2>1. CASE s.target = tgt
    BY <2>1 DEF SameList, SameInputs
  <2>2. CASE s.target # tgt
    <3>1. told = [s EXCEPT !.summary = NoRead, !.target = tgt]
      BY <2>2
    <3> HIDE DEF told
    <3>2. told \in Store
      BY <1>1, <3>1, Blank, ZenonT(60) DEF Store
    <3> QED BY <3>2, <3>1 DEF Store, SameList, SameInputs
  <2> QED BY <2>1, <2>2
<1>5. CASE ~wanted
  <2> HIDE DEF told, r
  <2> QED BY <1>4, <1>3, <1>5 DEF r
<1>6. CASE wanted
  <2>1. r = [told EXCEPT !.summary = read]
    BY <1>3, <1>6
  <2>2. s.view[t].history = "ready" /\ ~(s.post # NoPost /\ ~s.meta)
    BY <1>6
  <2> HIDE DEF told, r, wanted
  <2> QED BY <1>2, <1>4, <2>2, <2>1 DEF r, Store, SameList, SameInputs
<1> QED BY <1>5, <1>6

\* The list that tells of another Run keeps what is true of a store.
LEMMA ReconcileKeeps ==
  ASSUME NEW s \in Store, NEW b, NEW g, Fine(s, b, g), NEW t \in Threads, t = s.active, s.up,
         NEW run \in Nat
  PROVE  LET r == ReconcileSummary(s, t, run)
         IN  /\ r \in Store /\ Fine(r, b, g) /\ Shift(s, r) /\ SameList(s, r) /\ SameInputs(s, r)
             /\ r.active = s.active /\ r.up = s.up
<1> DEFINE r == ReconcileSummary(s, t, run)
<1>0. \/ r.summary = s.summary \/ r.summary = NoRead
      \/ /\ r.summary.phase = "sent"
         /\ s.view[t].history = "ready" /\ ~(s.post # NoPost /\ ~s.meta)
  BY ReconcileEffect
<1>1. /\ r \in Store /\ SameList(s, r) /\ SameInputs(s, r)
      /\ r.up = s.up /\ r.active = s.active /\ r.view = s.view /\ r.proj = s.proj /\ r.read = s.read
      /\ r.post = s.post /\ r.follow = s.follow /\ r.meta = s.meta /\ r.snap = s.snap
      /\ r.commit = s.commit
  <2>2. r.up = s.up /\ r.active = s.active /\ r.view = s.view /\ r.proj = s.proj /\ r.read = s.read
    BY ReconcileEffect, ZenonT(60)
  <2> QED BY <2>2, ReconcileEffect
<1> HIDE DEF r
<1>2. New # t
  BY ConversationConstants
<1>3. \/ r.summary = s.summary \/ r.summary.phase = "none"
      \/ r.summary.phase = "sent" /\ s.view[t].history = "ready" /\ ~(s.post # NoPost /\ ~s.meta)
  BY <1>0 DEF NoRead
<1>4. UnderWay(s) /\ Ahead(s, b)
  BY DEF Fine, ViewOK
<1>5. Quiet(s) => Quiet(r) \/ (r.summary.phase = "sent" /\ s.view[t].history = "ready")
  BY <1>1, <1>3 DEF Quiet
<1>7. UnderWay(r) /\ Ahead(r, b)
  <2>1. r.list = s.list
    BY <1>1 DEF SameList
  <2>2. Ahead(r, b)
    BY <1>1, <1>4 DEF Ahead
  <2>3. Sending(r) => r.summary.phase = "none"
    BY <1>1, <1>3, <1>4 DEF UnderWay, Sending, NoPost
  <2>4. ~Quiet(r) => r.view[r.active].history = "ready"
    BY <1>1, <1>4, <1>5 DEF UnderWay
  <2>5. r.read.phase # "none" => Quiet(r) /\ r.view[r.active].history = "loading"
    BY <1>1, <1>4, <1>5 DEF UnderWay
  <2> QED BY <1>1, <1>2, <1>4, <2>1, <2>2, <2>3, <2>4, <2>5 DEF UnderWay
<1>8. ViewOK(r, b)
  BY <1>1, <1>3, <1>7 DEF Fine, ViewOK
<1> QED BY <1>1, <1>8, SameShift, SelectionKeeps, Zenon DEF r, SameInputs, SameList


-----------------------------------------------------------------------------
(* Sending. *)

Submission(id, text, version, prev) ==
  [id |-> id, text |-> text, version |-> version, prev |-> prev, status |-> "pending", run |-> 0]
Post(n) == [send |-> n, run |-> 0]

\* What a submission keeps of the store, and what it starts.
LEMMA StartEffect ==
  ASSUME NEW s \in Store, NEW t \in Threads, NEW text \in Texts, NEW version \in Nat, NEW n \in Nat
  PROVE  LET m == StopSelection(s)
             r == StartSend(s, t, text, version, n)
         IN  /\ r \in Store /\ SameList(m, r) /\ r.up = m.up /\ r.active = m.active
             /\ r.view = m.view /\ r.proj = m.proj /\ r.read = m.read /\ r.summary = m.summary
             /\ r.post = Post(n) /\ r.follow = "post"
             /\ r.meta = m.meta /\ r.snap = m.snap /\ r.commit = m.commit
             /\ r.creation = m.creation /\ r.drafts = m.drafts /\ r.new = m.new /\ r.saves = m.saves
             /\ \A u \in Threads :
                  r.subs[u] = IF u = t THEN Submission(n, text, version, s.view[t].run) ELSE m.subs[u]
<1> DEFINE m == StopSelection(s)
<1> DEFINE sub == Submission(n, text, version, m.view[t].run)
<1> DEFINE k == [m EXCEPT !.subs[t] = sub]
<1> DEFINE post == Post(n)
<1> DEFINE r == StartSend(s, t, text, version, n)
<1>1. m \in Store /\ m.view[t].run = s.view[t].run
  BY StopEffect, Zenon
<1>3. sub \in Submissions
  BY <1>1 DEF Views, Submissions, Submission, Store
<1>4. r = [k EXCEPT !.post = post, !.follow = "post", !.chain = TRUE]
  BY DEF StartSend, BeginSubmission, Submission, Post
<1>5. sub = Submission(n, text, version, s.view[t].run)
  BY <1>1
<1>6. post \in Posts
  BY DEF Posts, Post
<1> HIDE DEF m, sub, post, r
<1>7. /\ k \in Store /\ InputsOnly(m, k) /\ k.drafts = m.drafts /\ k.new = m.new
      /\ \A u \in Threads : k.subs[u] = IF u = t THEN sub ELSE m.subs[u]
  BY <1>1, <1>3, SubmittedEffect
<1> HIDE DEF k
<1>8. r \in Store
  BY <1>4, <1>6, <1>7, ZenonT(60) DEF Store
<1>10. /\ r.up = k.up /\ r.active = k.active
       /\ r.view = k.view /\ r.proj = k.proj /\ r.read = k.read /\ r.summary = k.summary
       /\ r.post = post /\ r.follow = "post"
       /\ r.meta = k.meta /\ r.snap = k.snap /\ r.commit = k.commit
       /\ r.creation = k.creation /\ r.drafts = k.drafts /\ r.new = k.new /\ r.saves = k.saves
       /\ r.subs = k.subs
  BY <1>4, <1>7 DEF Store
<1>11. SameList(m, r)
  BY <1>7, <1>4 DEF InputsOnly, SameList, Store
<1>12. /\ r.up = m.up /\ r.active = m.active
       /\ r.view = m.view /\ r.proj = m.proj /\ r.read = m.read /\ r.summary = m.summary
       /\ r.meta = m.meta /\ r.snap = m.snap /\ r.commit = m.commit
       /\ r.creation = m.creation /\ r.saves = m.saves
  BY <1>7, <1>10 DEF InputsOnly, SameShown
<1>13. r.drafts = m.drafts /\ r.new = m.new
  BY <1>7, <1>10
<1>14. \A u \in Threads :
         r.subs[u] = IF u = t THEN Submission(n, text, version, s.view[t].run) ELSE m.subs[u]
  BY <1>5, <1>7, <1>10
<1> QED BY <1>8, <1>10, <1>11, <1>12, <1>13, <1>14 DEF m, r, post

\* One more message to a conversation that was made, and is not the one being created.
LEMMA SentKeeps ==
  ASSUME NEW s \in Store, NEW b, NEW g \in Logs, NEW h \in Logs, NEW x \in Sent, Fine(s, b, g),
         h.sent = Append(g.sent, x), b[x.thread].stamp # 0,
         s.creation.phase = "made" => s.creation.thread # x.thread
  PROVE  Fine(s, b, h) /\ Len(h.sent) = Len(g.sent) + 1 /\ h.sent[Len(g.sent) + 1] = x
BY DEF Logs, Unsent, Store, Posts, Fine, PostOK, CreationOK, UnmadeOK

\* The start of a Run keeps what is true of a store.
LEMMA StartKeeps ==
  ASSUME NEW s \in Store, NEW b, NEW g, Fine(s, b, g), NEW t \in Threads, s.active = t, s.up,
         s.view[t].history = "ready", NEW text \in Texts, NEW version \in Nat, NEW n \in Nat \ {0},
         n <= Len(g.sent), g.sent[n].thread = t
  PROVE  LET r == StartSend(s, t, text, version, n)
         IN  /\ r \in Store /\ Fine(r, b, g) /\ Shift(s, r)
             /\ r.creation = s.creation /\ r.active = t /\ r.up
<1> DEFINE m == StopSelection(s)
<1> DEFINE r == StartSend(s, t, text, version, n)
<1>0. n \in Nat
  OBVIOUS
<1>1. /\ r \in Store /\ SameList(m, r) /\ r.up = m.up /\ r.active = m.active
      /\ r.view = m.view /\ r.proj = m.proj /\ r.read = m.read /\ r.summary = m.summary
      /\ r.post = Post(n) /\ r.follow = "post"
  BY <1>0, StartEffect
<1>2. /\ r.meta = m.meta /\ r.snap = m.snap /\ r.commit = m.commit
      /\ r.creation = m.creation
  BY <1>0, StartEffect
<1>3. /\ m \in Store /\ m.active = s.active /\ m.up = s.up /\ m.creation = s.creation
      /\ m.view[t].history = "ready"
  BY StopEffect, Zenon
<1>4. Fine(m, b, g) /\ Shift(s, m) /\ Quiet(m) /\ m.read.phase = "none"
  BY StopKeeps
<1> HIDE DEF m, r
<1>5. /\ r.post.send = n /\ r.post.run = 0 /\ r.active = t /\ r.up /\ r.read.phase = "none"
      /\ r.summary.phase = "none" /\ r.meta = FALSE /\ r.snap = FALSE /\ r.commit = FALSE
      /\ r.view[t].history = "ready"
  BY <1>3, <1>4, <1>1, <1>2 DEF Quiet, Store, Post
<1>7. ViewOK(r, b)
  BY <1>1, <1>4, <1>5, ConversationConstants DEF Fine, ViewOK, Ahead, UnderWay
<1>8. ListOK(r.items, r.list, r.more, b) /\ UnmadeOK(r, b, g)
  BY <1>1, <1>4 DEF Fine, SameList, UnmadeOK
<1>9. PostOK(r, g) /\ CreationOK(r.creation, r.up, b, g)
  BY <1>1, <1>2, <1>4, <1>5 DEF Fine, PostOK
<1>10. Shift(s, r)
  BY <1>1, <1>4 DEF Shift, SameList
<1> QED BY <1>1, <1>2, <1>3, <1>5, <1>7, <1>8, <1>9, <1>10, Zenon DEF Fine, r

-----------------------------------------------------------------------------
(* Reading the history. *)

\* The conversation on show is known better, and shown as it is known.
LEMMA ShowFine ==
  ASSUME NEW s \in Store, NEW r \in Store, NEW b, NEW g, Fine(s, b, g), NEW t \in Threads,
         NEW q \in Projections, Better(s, r, t, q, b[t]),
         SameList(s, r), r.creation = s.creation, r.post \in {s.post, NoPost}, r.read.phase = "none",
         r.summary.phase = "answer" => r.summary = s.summary /\ q.run = s.proj[t].run,
         UnderWay(r), Ahead(r, b)
  PROVE  Fine(r, b, g) /\ Shift(s, r)
<1>1. /\ \A u \in Threads : ThreadOK(r.view[u], r.proj[u], b[u])
      /\ \A u \in Threads : r.view[u].verified => u = r.active /\ r.up
      /\ \A u \in Threads : Forward(s.view[u], r.view[u])
  BY ShowKeeps
<1>3. ViewOK(r, b)
  BY <1>1 DEF ViewOK, Fine, Better, AnswerOK
<1> QED BY <1>3, <1>1, SelectionKeeps, Zenon DEF Better, Shift, SameList

\* What going on with the last Run known changes.
LEMMA RestoreEffect ==
  ASSUME NEW s \in Store, NEW t \in Threads
  PROVE  LET r == Restore(s, t)
             run == s.proj[t].run
         IN  /\ r \in Store /\ SameList(s, r) /\ SameInputs(s, r)
             /\ r.up = s.up /\ r.active = s.active /\ r.proj = s.proj /\ r.read = s.read
             /\ r.summary = s.summary /\ r.post = s.post /\ r.meta = s.meta /\ r.commit = s.commit
             /\ \A u \in Threads : u # t => r.view[u] = s.view[u]
             /\ r.view[t].run = run /\ r.view[t].over = (run \in s.proj[t].over)
             /\ r.view[t].history = "ready" /\ r.view[t].verified = (run = 0)
             /\ run = 0 => r.snap = s.snap /\ r.follow = s.follow
             /\ run # 0 => r.snap = TRUE /\ r.follow = IF run \in s.proj[t].over THEN "none" ELSE "get"
<1> DEFINE run == s.proj[t].run
<1> DEFINE over == run \in s.proj[t].over
<1> DEFINE v0 == [s.view[t] EXCEPT !.run = run, !.over = over]
<1> DEFINE v == [v0 EXCEPT !.history = "ready", !.verified = run = 0]
<1> DEFINE shown == [s EXCEPT !.view[t] = v]
<1> DEFINE follow == IF over THEN "none" ELSE "get"
<1> DEFINE r == Restore(s, t)
<1>1. /\ Publish(s, t) = [s EXCEPT !.view[t] = v0] /\ v0 \in Views
      /\ v0.run = run /\ v0.over = over
  BY PublishEffect, Zenon
<1> HIDE DEF run, over, v0
<1>2. /\ v \in Views /\ v.run = run /\ v.over = over /\ v.history = "ready"
         /\ v.verified = (run = 0)
  BY <1>1, Zenon DEF Views
<1>3. [Publish(s, t) EXCEPT !.view[t].history = "ready", !.view[t].verified = run = 0] = shown
  <2> DEFINE x == Publish(s, t)
  <2>1. x \in Store /\ x.view \in [Threads -> Views] /\ x.view[t] = v0
    BY <1>1 DEF Store
  <2>2. shown = [x EXCEPT !.view = [x.view EXCEPT ![t] = v]]
    <3> DEFINE old == [s.view EXCEPT ![t] = v0]
    <3> DEFINE new == [s.view EXCEPT ![t] = v]
    <3>1. x = [s EXCEPT !.view = old] /\ s.view \in [Threads -> Views]
      BY <1>1 DEF Store
    <3> HIDE DEF x, v
    <3>2. [old EXCEPT ![t] = v] = new
      BY <3>1
    <3> HIDE DEF old
    <3> HIDE DEF new
    <3> QED BY <3>2, <3>1, Zenon DEF Store, new
  <2> HIDE DEF x, shown
  <2> QED BY <2>2, <2>1, ZenonT(60) DEF x, Store
<1>4. /\ shown \in Store /\ SameWork(s, shown) /\ SameList(s, shown) /\ SameInputs(s, shown)
      /\ shown.proj = s.proj /\ shown.read = s.read
      /\ \A u \in Threads : shown.view[u] = IF u = t THEN v ELSE s.view[u]
  <2> HIDE DEF v
  <2> QED BY <1>2, ViewEffect
<1>5. shown.view[t].over = over
  BY <1>2, <1>4, Zenon
<1> HIDE DEF v, shown
<1>6. r = IF run = 0 THEN shown ELSE [shown EXCEPT !.snap = TRUE, !.follow = follow]
  BY <1>3, <1>5, ZenonT(60) DEF Restore, run
<1>8. follow \in {"none", "get", "post"} /\ (follow = IF over THEN "none" ELSE "get")
  OBVIOUS
<1> HIDE DEF follow, r
<1>9. CASE run = 0
  BY <1>6, <1>9, <1>2, <1>4 DEF SameWork, r, run, over
<1>10. CASE run # 0
  <2>1. r = [shown EXCEPT !.snap = TRUE, !.follow = follow]
    BY <1>6, <1>10
  <2>2. r \in Store
    BY <1>4, <1>8, <2>1, ZenonT(60) DEF Store
  <2>4. /\ r.up = shown.up /\ r.active = shown.active /\ r.proj = shown.proj /\ r.read = shown.read
        /\ r.summary = shown.summary /\ r.post = shown.post /\ r.meta = shown.meta
        /\ r.commit = shown.commit /\ r.view = shown.view /\ r.snap = TRUE /\ r.follow = follow
    BY <1>4, <2>1 DEF Store
  <2>5. SameList(s, r) /\ SameInputs(s, r)
    BY <1>4, <2>1 DEF SameList, SameInputs, Store
  <2>6. /\ r.up = s.up /\ r.active = s.active /\ r.proj = s.proj /\ r.read = s.read
        /\ r.summary = s.summary /\ r.post = s.post /\ r.meta = s.meta /\ r.commit = s.commit
    BY <1>4, <2>4 DEF SameWork
  <2>7. \A u \in Threads : u # t => r.view[u] = s.view[u]
    BY <1>4, <2>4
  <2>8. /\ r.view[t].run = run /\ r.view[t].over = over
        /\ r.view[t].history = "ready" /\ r.view[t].verified = (run = 0)
    BY <1>2, <1>4, <2>4
  <2> QED BY <1>8, <1>10, <2>2, <2>4, <2>5, <2>6, <2>7, <2>8 DEF r, run, over
<1> QED BY <1>9, <1>10, Zenon

\* Going on with the last Run known keeps what is true of a store.
LEMMA RestoreKeeps ==
  ASSUME NEW s \in Store, NEW b, NEW g, Fine(s, b, g), NEW t \in Threads, t = s.active, s.up,
         Quiet(s),
         s.read.phase = "none"
  PROVE  LET r == Restore(s, t)
         IN  r \in Store /\ Fine(r, b, g) /\ Shift(s, r)
<1> DEFINE r == Restore(s, t)
<1> DEFINE q == s.proj[t]
<1>1. /\ r \in Store /\ SameList(s, r) /\ SameInputs(s, r)
      /\ r.up = s.up /\ r.active = s.active /\ r.proj = s.proj /\ r.read = s.read
      /\ r.summary = s.summary /\ r.post = s.post /\ r.meta = s.meta /\ r.commit = s.commit
  BY RestoreEffect, ZenonT(60)
<1>2. /\ \A u \in Threads : u # t => r.view[u] = s.view[u]
      /\ r.view[t].run = q.run /\ r.view[t].over = (q.run \in q.over)
      /\ r.view[t].history = "ready"
  BY RestoreEffect, ZenonT(60)
<1>3. /\ q.run = 0 => r.snap = s.snap /\ r.follow = s.follow
      /\ q.run # 0 => r.snap = TRUE /\ r.follow = IF q.run \in q.over THEN "none" ELSE "get"
  BY RestoreEffect, ZenonT(60)
<1>4. q \in Projections /\ KnownOK(q, b[t]) /\ (q.run = 0 => q.seqs = {})
  BY DEF Store, Fine, ViewOK, ThreadOK
<1> HIDE DEF r
<1>5. /\ r.summary.phase = "none" /\ r.post.send = 0 /\ r.post.run = 0 /\ ~r.meta /\ ~r.commit
      /\ r.post = s.post
  BY <1>1 DEF Quiet, NoPost
<1>7. UnderWay(r) /\ Ahead(r, b)
  <2>4. r.list.phase # "none" => r.up
    BY <1>1 DEF Fine, ViewOK, UnderWay, SameList
  <2>6. UnderWay(r)
    BY <1>1, <1>5, <1>3, <2>4, <1>2, ConversationConstants DEF UnderWay, Quiet
  <2> QED BY <1>5, <2>6 DEF Ahead
<1> HIDE DEF q
<1>9. Fine(r, b, g) /\ Shift(s, r)
  <2>4. Better(s, r, t, q, b[t])
    BY <1>1, <1>2, <1>4 DEF Better, Projections, q
  <2> QED BY <1>1, <1>4, <1>5, <1>7, <2>4, ShowFine DEF SameInputs
<1> QED BY <1>1, <1>9 DEF r

\* The end of a commit keeps what is true of a store.
LEMMA EndCommitKeeps ==
  ASSUME NEW s \in Store, NEW b, NEW g, Fine(s, b, g)
  PROVE  LET r == EndCommit(s)
         IN  r \in Store /\ Fine(r, b, g) /\ Shift(s, r) /\ Settles(s, r) /\ Dims(s, r)
<1> DEFINE x == [s EXCEPT !.commit = FALSE]
<1> DEFINE y == [x EXCEPT !.chain = FALSE]
<1> DEFINE r == EndCommit(s)
<1>1. ASSUME NEW m \in Store, SameList(s, m), SameInputs(s, m), m.up = s.up, m.active = s.active,
             m.view = s.view,
             m.proj = s.proj, m.read = s.read, m.summary = s.summary, m.post = s.post,
             m.follow = s.follow, m.meta = s.meta, m.snap = s.snap, ~m.commit
      PROVE  Fine(m, b, g) /\ Shift(s, m)
  <2>4. ViewOK(m, b)
    BY <1>1 DEF Fine, ViewOK, Ahead, UnderWay, Sending, SameList, Quiet
  <2> QED BY <1>1, <2>4, SameShift, SelectionKeeps DEF SameInputs, SameList
<1>2. x \in Store
  BY Zenon DEF Store
<1>3. /\ SameList(s, x) /\ SameInputs(s, x) /\ x.up = s.up /\ x.active = s.active /\ x.view = s.view
      /\ x.proj = s.proj /\ x.read = s.read /\ x.summary = s.summary /\ x.post = s.post
      /\ x.follow = s.follow /\ x.meta = s.meta /\ x.snap = s.snap /\ ~x.commit
  BY DEF Store, SameList, SameInputs
<1> HIDE DEF x
<1>4. y \in Store
  BY <1>2, Zenon DEF Store
<1>5. /\ SameList(s, y) /\ SameInputs(s, y) /\ y.up = s.up /\ y.active = s.active /\ y.view = s.view
      /\ y.proj = s.proj /\ y.read = s.read /\ y.summary = s.summary /\ y.post = s.post
      /\ y.follow = s.follow /\ y.meta = s.meta /\ y.snap = s.snap /\ ~y.commit
  BY <1>2, <1>3 DEF Store, SameList, SameInputs
<1> HIDE DEF y
<1>6. Fine(x, b, g) /\ Shift(s, x)
  BY <1>1, <1>2, <1>3
<1>7. Fine(y, b, g) /\ Shift(s, y)
  BY <1>1, <1>4, <1>5
<1>8. LoadThreads(y, FALSE) \in Store /\ Fine(LoadThreads(y, FALSE), b, g)
      /\ Shift(y, LoadThreads(y, FALSE))
  BY <1>4, <1>7, LoadKeeps, Zenon
<1>9. Shift(s, LoadThreads(y, FALSE))
  BY <1>4, <1>7, <1>8, ShiftTrans, Zenon
<1>10. r = x \/ r = LoadThreads(y, FALSE)
  BY Zenon DEF EndCommit, x, y
<1> HIDE DEF r
<1>11. Settles(s, x) /\ Dims(s, x) /\ Settles(s, y) /\ Dims(s, y)
  BY <1>3, <1>5, StillBoth
<1>13. Settles(s, LoadThreads(y, FALSE)) /\ Dims(s, LoadThreads(y, FALSE))
  BY <1>4, <1>8, <1>11, LoadSettles, SettlesTrans, DimsTrans, Zenon
<1> QED BY <1>2, <1>6, <1>8, <1>9, <1>10, <1>11, <1>13, Zenon DEF r

\* What every action keeps.
GoodStep == Good(c', srv', late', log') /\ Onward

\* What most actions do besides.
Calms == PendingOK(c) => Settles(c, c') /\ Dims(c, c')

-----------------------------------------------------------------------------
(* The actions that read the history of the conversation on show. *)

Told(ans) == [phase |-> "answer", ans |-> ans]

\* The history is answered as it is.
LEMMA HistoryIs ==
  ASSUME BackendOK(srv), NEW t \in Threads, NEW p \in Projections, KnownOK(p, srv[t])
  PROVE  History(t) \in Histories /\ AnswerOK(History(t), p, srv[t])
<1> DEFINE h == srv[t]
<1> DEFINE over == {run \in 1..Last(t) : Over(t, run)}
<1>1. h \in Histrs /\ HistoryOK(h)
  BY DEF BackendOK, Backends
<1>2. Len(h.runs) \in Nat /\ Len(h.msgs) \in Nat /\ Last(t) = Len(h.runs)
  BY <1>1 DEF Histrs, Last
<1>3. History(t) = [n |-> Len(h.msgs), over |-> over]
  BY DEF History
<1>4. \A run \in over : run \in Nat /\ IsOver(h, run)
  BY <1>2 DEF IsOver, Over
<1> HIDE DEF h, over
<1>6. p.run \in Nat /\ p.run <= Len(h.runs)
  BY DEF KnownOK, Projections, h
<1>7. p.run # 0 => Len(h.msgs) > 0 /\ h.msgs[Len(h.msgs)] = Len(h.runs)
  BY <1>1, <1>2, <1>6 DEF HistoryOK
<1> QED BY <1>2, <1>4, <1>3, <1>6, <1>7 DEF AnswerOK, h, Histories

\* The step of AnswerHistory.
LEMMA AnswerHistoryKeeps ==
  ASSUME Good(c, srv, late, log), AnswerHistory
  PROVE  GoodStep
<1> DEFINE t == c.active
<1> DEFINE told == Told(History(t))
<1>1. /\ c \in Store /\ BackendOK(srv) /\ Fine(c, srv, log) /\ ViewOK(c, srv) /\ t \in Threads
      /\ log \in Logs /\ late \subseteq 0..Len(log.sent)
      /\ UNCHANGED <<srv, late, log>>
  BY DEF Good, Fine, Store, AnswerHistory
<1> HIDE DEF t
<1>3. History(t) \in Histories /\ AnswerOK(History(t), c.proj[t], srv[t])
  BY <1>1, HistoryIs DEF Store, ViewOK, ThreadOK
<1>4. told \in Reads /\ told.phase = "answer" /\ told.ans = History(t)
  BY <1>3 DEF Told, Reads
<1>5. \/ c.read.phase = "sent" /\ c' = [c EXCEPT !.read = told]
      \/ c.summary.phase = "sent" /\ c' = [c EXCEPT !.summary = told]
  BY DEF AnswerHistory, t, Told
<1> HIDE DEF told
<1>6. CASE c.read.phase = "sent" /\ c' = [c EXCEPT !.read = told]
  <2>1. c' \in Store
    BY <1>1, <1>4, <1>6 DEF Store
  <2>2. SameList(c, c') /\ SameInputs(c, c') /\ SameWork(c, c') /\ c'.view = c.view
        /\ c'.proj = c.proj /\ c'.read = told
    BY <1>1, <1>6 DEF Store, SameList, SameInputs, SameWork
  <2>3. Quiet(c') <=> Quiet(c)
    BY <2>2 DEF Quiet, SameWork
  <2>4. UnderWay(c') /\ Ahead(c', srv)
    BY <1>1, <1>4, <1>6, <2>2, <2>3 DEF ViewOK, UnderWay, Ahead, SameWork, SameList, Sending
  <2>5. ViewOK(c', srv)
    BY <1>1, <1>3, <1>4, <2>2, <2>4 DEF ViewOK, SameWork, t
  <2>6. Fine(c', srv, log)
    BY <1>1, <2>1, <2>2, <2>5, SelectionKeeps DEF SameWork, SameInputs
  <2> QED BY <1>1, <2>1, <2>6, <2>2, SameShift, WindowStep DEF GoodStep, SameList
<1>7. CASE c.summary.phase = "sent" /\ c' = [c EXCEPT !.summary = told]
  <2>1. c' \in Store
    BY <1>1, <1>4, <1>7 DEF Store
  <2>2. /\ SameList(c, c') /\ SameInputs(c, c') /\ c'.view = c.view /\ c'.proj = c.proj
           /\ c'.read = c.read
        /\ c'.up = c.up /\ c'.active = c.active /\ c'.post = c.post /\ c'.follow = c.follow
        /\ c'.meta = c.meta /\ c'.snap = c.snap /\ c'.commit = c.commit /\ c'.summary = told
    BY <1>1, <1>7 DEF Store, SameList, SameInputs
  <2>3. ~Quiet(c) /\ ~Quiet(c')
    BY <1>4, <1>7, <2>2 DEF Quiet
  <2>4. UnderWay(c') /\ Ahead(c', srv)
    BY <1>1, <1>4, <1>7, <2>2, <2>3 DEF ViewOK, UnderWay, Ahead, SameList, Sending
  <2>5. ViewOK(c', srv)
    BY <1>1, <1>3, <1>4, <2>2, <2>4 DEF ViewOK, t
  <2>6. Fine(c', srv, log)
    BY <1>1, <2>1, <2>2, <2>5, SelectionKeeps DEF SameInputs
  <2> QED BY <1>1, <2>1, <2>6, <2>2, SameShift, WindowStep DEF GoodStep, SameList
<1> QED BY <1>5, <1>6, <1>7

\* The step of ReceiveHistory.
LEMMA ReceiveHistoryKeeps ==
  ASSUME Good(c, srv, late, log), ReceiveHistory
  PROVE  /\ GoodStep /\ SameInputs(c, c') /\ c'.active = c.active /\ c'.post = c.post
         /\ c'.meta = c.meta /\ c'.read = NoRead
         /\ \A u \in Threads : u # c.active => c'.view[u] = c.view[u] /\ c'.proj[u] = c.proj[u]
         /\ c.proj[c.active].run = 0 /\ c.read.ans.n > 0
              => c'.view[c.active].run = srv[c.active].msgs[c.read.ans.n]
<1> DEFINE t == c.active
<1> DEFINE q == MergeHistory(c.proj[t], t, c.read.ans)
<1> DEFINE m == HistoryRead
<1>1. /\ c \in Store /\ BackendOK(srv) /\ Fine(c, srv, log) /\ ViewOK(c, srv) /\ UnderWay(c)
      /\ log \in Logs /\ late \subseteq 0..Len(log.sent)
      /\ UNCHANGED <<srv, late, log>> /\ c.read.phase = "answer" /\ c' = Restore(m, t)
  BY DEF Good, Fine, ReceiveHistory, ViewOK
<1>2. t \in Threads /\ c.up /\ Quiet(c) /\ c.view[t].history = "loading"
  BY <1>1 DEF UnderWay, Store
<1>3. /\ c.proj[t] \in Projections /\ ThreadOK(c.view[t], c.proj[t], srv[t])
         /\ c.read.ans \in Histories
      /\ AnswerOK(c.read.ans, c.proj[t], srv[t])
  BY <1>1, <1>2 DEF Store, ViewOK, Reads
<1>4. m = [c EXCEPT !.proj[t] = q, !.read = NoRead]
  BY DEF HistoryRead
<1> HIDE DEF t
<1>5. /\ q \in Projections /\ KnownOK(q, srv[t]) /\ q.run >= c.proj[t].run
         /\ c.proj[t].over \subseteq q.over
      /\ (q.run = 0 => q.seqs = {})
      /\ (c.read.ans.n > 0 /\ c.proj[t].run = 0 => q.run = srv[t].msgs[c.read.ans.n])
  BY <1>1, <1>2, <1>3, MergeHistoryKeeps DEF ThreadOK
<1> HIDE DEF q, m
<1>6. m \in Store /\ \A u \in Threads : m.proj[u] = IF u = t THEN q ELSE c.proj[u]
  <2> DEFINE proj == [c.proj EXCEPT ![t] = q]
  <2>1. proj \in [Threads -> Projections]
        /\ \A u \in Threads : proj[u] = IF u = t THEN q ELSE c.proj[u]
    BY <1>1, <1>2, <1>5 DEF Store
  <2>2. m = [c EXCEPT !.proj = proj, !.read = NoRead]
    BY <1>4
  <2> HIDE DEF proj
  <2>3. m \in Store /\ m.proj = proj
    BY <1>1, <2>1, <2>2, Blank, ZenonT(60) DEF Store
  <2> QED BY <2>1, <2>3
<1>7. /\ SameList(c, m) /\ SameInputs(c, m) /\ SameWork(c, m) /\ m.view = c.view /\ m.read = NoRead
  BY <1>1, <1>4 DEF Store, SameList, SameInputs, SameWork
<1>8. Quiet(m) /\ m.read.phase = "none" /\ m.post = NoPost /\ m.active = t /\ m.up
  BY <1>2, <1>7 DEF Quiet, SameWork, NoRead, t
<1>9. UnderWay(m) /\ Ahead(m, srv)
  BY <1>1, <1>7, <1>8 DEF UnderWay, Ahead, NoPost, Sending, SameList, Quiet
<1>10. ViewOK(m, srv)
  <2>1. ASSUME NEW u \in Threads PROVE ThreadOK(m.view[u], m.proj[u], srv[u])
    <3>1. CASE u = t
      <4>2. c.view[t].run \in Nat /\ c.proj[t].run \in Nat /\ q.run \in Nat
        BY <1>1, <1>2, <1>3, <1>5 DEF Store, Views, Projections
      <4> QED BY <1>2, <1>3, <1>5, <3>1, <1>6, <1>7, <4>2 DEF ThreadOK
    <3>2. CASE u # t
      BY <1>1, <1>6, <1>7, <3>2 DEF ViewOK
    <3> QED BY <3>1, <3>2
  <2> QED BY <1>8, <1>9, <2>1, <1>1, <1>7 DEF ViewOK, SameWork, Quiet
<1>11. Fine(m, srv, log) /\ Shift(c, m)
  BY <1>1, <1>6, <1>7, <1>10, SelectionKeeps, SameShift DEF SameWork, SameInputs, SameList
<1>12. c' \in Store /\ Fine(c', srv, log) /\ Shift(m, c')
  BY <1>1, <1>2, <1>6, <1>8, <1>11, RestoreKeeps
<1>14. /\ SameInputs(m, c') /\ c'.active = m.active /\ c'.post = m.post /\ c'.meta = m.meta
       /\ c'.proj = m.proj /\ c'.read = m.read /\ c'.view[t].run = m.proj[t].run
       /\ \A u \in Threads : u # t => c'.view[u] = m.view[u]
  <2>1. c' = Restore(m, t) /\ m \in Store /\ t \in Threads
    BY <1>1, <1>2, <1>6
  <2> QED BY <2>1, RestoreEffect, Zenon
<1>15. /\ SameInputs(c, c') /\ c'.active = c.active /\ c'.post = c.post /\ c'.meta = c.meta
       /\ c'.read = NoRead
  BY <1>7, <1>14 DEF SameInputs, SameWork
<1>18. GoodStep
  BY <1>1, <1>12, <1>6, <1>11, ShiftTrans, WindowStep DEF GoodStep
<1> QED BY <1>5, <1>15, <1>6, <1>7, <1>14, <1>2, <1>18 DEF t

\* The conversation on show is known better: nothing of it is shown yet.
Known(s, t, q, a) == [s EXCEPT !.proj[t] = q, !.summary = a]

\* What an answer of the history changes in the store.
LEMMA KnownEffect ==
  ASSUME NEW s \in Store, NEW t \in Threads, NEW q \in Projections, NEW a \in Reads,
         NEW r, r = Known(s, t, q, a)
  PROVE  /\ r \in Store /\ SameList(s, r) /\ SameInputs(s, r)
         /\ r.up = s.up /\ r.active = s.active /\ r.view = s.view /\ r.read = s.read
         /\ r.summary = a /\ r.post = s.post /\ r.follow = s.follow /\ r.meta = s.meta
         /\ r.snap = s.snap /\ r.commit = s.commit
         /\ \A u \in Threads : r.proj[u] = IF u = t THEN q ELSE s.proj[u]
<1> DEFINE proj == [s.proj EXCEPT ![t] = q]
<1>0. r = [s EXCEPT !.proj = proj, !.summary = a]
  BY DEF Known
<1>1. proj \in [Threads -> Projections] /\ \A u \in Threads : proj[u] = IF u = t THEN q ELSE s.proj[u]
  BY DEF Store
<1> HIDE DEF proj
<1>2. r \in Store /\ r.proj = proj
  BY <1>0, <1>1, ZenonT(60) DEF Store
<1> QED BY <1>1, <1>2, <1>0 DEF Store, SameList, SameInputs

\* Publishing shows what is known.
LEMMA PublishShows ==
  ASSUME NEW s \in Store, NEW t \in Threads
  PROVE  LET r == Publish(s, t)
         IN  /\ r \in Store /\ SameWork(s, r) /\ SameList(s, r) /\ SameInputs(s, r)
             /\ r.proj = s.proj /\ r.read = s.read
             /\ \A u \in Threads : u # t => r.view[u] = s.view[u]
             /\ r.view[t].run = s.proj[t].run /\ r.view[t].over = (s.proj[t].run \in s.proj[t].over)
             /\ r.view[t].history = s.view[t].history /\ r.view[t].verified = s.view[t].verified
<1> DEFINE v == [s.view[t] EXCEPT !.run = s.proj[t].run, !.over = s.proj[t].run \in s.proj[t].over]
<1> DEFINE r == Publish(s, t)
<1>1. /\ r = [s EXCEPT !.view[t] = v] /\ v \in Views
      /\ v.run = s.proj[t].run /\ v.over = (s.proj[t].run \in s.proj[t].over)
      /\ v.history = s.view[t].history /\ v.verified = s.view[t].verified
  BY PublishEffect, Zenon
<1> HIDE DEF v, r
<1> QED BY <1>1, ViewEffect DEF r

\* The step of ReceiveSummary.
LEMMA ReceiveSummaryKeeps ==
  ASSUME Good(c, srv, late, log), ReceiveSummary
  PROVE  GoodStep /\ Calms
<1> DEFINE t == c.active
<1> DEFINE p == c.proj[t]
<1> DEFINE ans == c.summary.ans
<1> DEFINE prev == c.view[t].run
<1> DEFINE last == IF ans.n = 0 THEN 0 ELSE Owner(t, ans.n)
<1> DEFINE near == MergeMessages(p, 1..ans.n)
<1> DEFINE q == IF last = prev THEN near ELSE MergeHistory(near, t, ans)
<1> DEFINE merged == [c EXCEPT !.proj[t] = near, !.summary = NoRead]
<1> DEFINE told == IF last = prev THEN merged ELSE [merged EXCEPT !.proj[t] = MergeHistory(@, t, ans)]
<1> DEFINE shown == Publish(told, t)
<1>1. /\ c \in Store /\ BackendOK(srv) /\ Fine(c, srv, log) /\ ViewOK(c, srv) /\ UnderWay(c)
      /\ log \in Logs /\ late \subseteq 0..Len(log.sent)
      /\ UNCHANGED <<srv, late, log>> /\ c.summary.phase = "answer"
      /\ c' = IF told.proj[t].run = prev THEN shown ELSE Restore(StopSelection(shown), t)
  BY DEF Good, Fine, ReceiveSummary, ViewOK
<1>3. /\ t \in Threads /\ c.up /\ c.view[t].history = "ready" /\ c.read.phase = "none"
         /\ ~Sending(c)
      /\ t # New
  BY <1>1, ConversationConstants DEF UnderWay, Store, Quiet
<1>4. /\ p \in Projections /\ ThreadOK(c.view[t], p, srv[t]) /\ ans \in Histories
      /\ AnswerOK(ans, p, srv[t]) /\ KnownOK(p, srv[t]) /\ (p.run = 0 => p.seqs = {})
         /\ prev = p.run
  BY <1>1, <1>3 DEF Store, ViewOK, Reads, ThreadOK
<1>5. srv[t] \in Histrs /\ HistoryOK(srv[t]) /\ ans.n \in Nat /\ ans.n <= Len(srv[t].msgs)
  BY <1>1, <1>3, <1>4 DEF BackendOK, Backends, Histories, AnswerOK
<1>6. /\ near \in Projections /\ KnownOK(near, srv[t]) /\ near.run = p.run /\ near.over = p.over
      /\ near.seqs = p.seqs \cup 1..ans.n
  <2> DEFINE seqs == 1..ans.n
  <2>1. seqs \in SUBSET (1..Len(srv[t].msgs))
    <3>1. Len(srv[t].msgs) \in Nat
      BY <1>5 DEF Histrs
    <3> QED BY <1>5, <3>1
  <2> HIDE DEF p, ans, seqs
  <2>2. /\ near \in Projections /\ KnownOK(near, srv[t]) /\ near.run = p.run /\ near.over = p.over
        /\ near.seqs = p.seqs \cup seqs
    <3>1. near = MergeMessages(p, seqs)
      BY DEF seqs
    <3> HIDE DEF near
    <3> QED BY <1>4, <1>5, <2>1, <3>1, MergeKeeps
  <2> QED BY <2>2 DEF seqs
<1>7. /\ q \in Projections /\ KnownOK(q, srv[t]) /\ q.run >= p.run /\ p.over \subseteq q.over
      /\ (q.run = 0 => q.seqs = {})
  <2> HIDE DEF near, p, ans
  <2>2. CASE last = prev
    <3>2. ASSUME near.run = 0 PROVE near.seqs = {}
      <4>2. ans.n # 0 => srv[t].msgs[ans.n] \in 1..Len(srv[t].runs)
        BY <1>5, SMTT(60) DEF HistoryOK, Histrs
      <4> QED BY <1>4, <1>6, <3>2, <1>5, <2>2, <4>2 DEF Owner, Histrs
    <3> QED BY <1>6, <1>4, <2>2, <3>2 DEF Projections
  <2>3. CASE last # prev
    <3>3. q = MergeHistory(near, t, ans)
      BY <2>3
    <3> HIDE DEF q, t
    <3> QED BY <1>6, <1>1, <1>3, <1>4, <3>3, MergeHistoryKeeps DEF AnswerOK
  <2> QED BY <2>2, <2>3
<1>8. told = Known(c, t, q, NoRead)
  <2>1. CASE last = prev
    BY <2>1 DEF Known
  <2>2. CASE last # prev
    <3> DEFINE far == MergeHistory(near, t, ans)
    <3>2. told = [merged EXCEPT !.proj[t] = far]
      BY <2>2, <1>1, <1>3, Zenon DEF Store
    <3>3. q = far
      BY <2>2
    <3> DEFINE mid == [c.proj EXCEPT ![t] = near]
    <3> DEFINE new == [c.proj EXCEPT ![t] = far]
    <3> HIDE DEF near, far, told, q
    <3>7. told = [merged EXCEPT !.proj = new]
      BY <3>2, <1>3, <1>1, Zenon DEF Store
    <3>8. merged = [c EXCEPT !.proj = mid, !.summary = NoRead]
      OBVIOUS
    <3> HIDE DEF mid, merged
    <3>9. [merged EXCEPT !.proj = new] = [c EXCEPT !.proj = new, !.summary = NoRead]
      <4> HIDE DEF new
      <4> QED BY <1>1, <3>8, Zenon DEF Store
    <3> QED BY <3>3, <3>7, <3>9 DEF Known, new
  <2> QED BY <2>1, <2>2
<1> HIDE DEF told, q, p, t
<1>9. /\ told \in Store /\ SameList(c, told) /\ SameInputs(c, told)
      /\ told.up = c.up /\ told.active = c.active /\ told.view = c.view /\ told.read = c.read
      /\ told.summary = NoRead /\ told.post = c.post /\ told.follow = c.follow /\ told.meta = c.meta
      /\ told.snap = c.snap /\ told.commit = c.commit
      /\ \A u \in Threads : told.proj[u] = IF u = t THEN q ELSE c.proj[u]
  <2>1. NoRead \in Reads /\ c \in Store /\ t \in Threads /\ q \in Projections
    BY <1>1, <1>3, <1>7, Blank
  <2> QED BY <1>8, <2>1, KnownEffect
<1>10. /\ shown \in Store /\ SameWork(told, shown) /\ SameList(told, shown)
          /\ SameInputs(told, shown)
       /\ shown.proj = told.proj /\ shown.read = told.read
       /\ \A u \in Threads : u # t => shown.view[u] = told.view[u]
       /\ shown.view[t].run = told.proj[t].run
       /\ shown.view[t].over = (told.proj[t].run \in told.proj[t].over)
       /\ shown.view[t].history = told.view[t].history
  BY <1>3, <1>9, PublishShows
<1> HIDE DEF shown
<1>11. /\ SameList(c, shown) /\ shown.creation = c.creation
       /\ shown.up = c.up /\ shown.active = c.active /\ shown.read.phase = "none"
       /\ shown.summary = NoRead /\ shown.post = c.post /\ shown.follow = c.follow
          /\ shown.meta = c.meta
       /\ shown.snap = c.snap /\ shown.commit = c.commit
  BY <1>3, <1>9, <1>10 DEF SameList, SameWork, SameInputs
<1>12. Better(c, shown, t, q, srv[t])
  BY <1>3, <1>9, <1>10, <1>7, <1>11 DEF Better, t, p
<1>13. UnderWay(shown) /\ Ahead(shown, srv)
  <2>1. c.active = t
    BY DEF t
  <2>2. c.post.send = 0 \/ c.meta
    BY <1>3 DEF Sending
  <2>4. shown.proj[t] = q /\ shown.view[t].history = "ready"
    BY <1>3, <1>9, <1>10
  <2>5. p.run # 0 => q.run # 0
    BY <1>4, <1>7 DEF Projections
  <2>6. shown.summary.phase = "none"
    BY <1>11 DEF NoRead
  <2>7. c.follow = "get" \/ c.snap \/ c.meta \/ c.commit => p.run # 0
    BY <1>1, <2>1 DEF UnderWay, p
  <2>8. shown.list = c.list
    BY <1>11 DEF SameList
  <2>9. UnderWay(shown)
    BY <1>1, <1>3, <1>11, <2>1, <2>2, <2>4, <2>5, <2>6, <2>7, <2>8 DEF UnderWay
  <2> QED BY <1>1, <1>11, <2>2, <2>9 DEF UnderWay, Ahead
<1>14. Fine(shown, srv, log) /\ Shift(c, shown)
  BY <1>11, <1>1, <1>3, <1>7, <1>10, <1>12, <1>13, ShowFine DEF NoRead
<1>17. Settles(c, shown) /\ Dims(c, shown)
  BY <1>9, <1>10, <1>3, <1>11, ReadyDims, SameSettles DEF SameInputs, t
<1>15. CASE told.proj[t].run = prev
  BY <1>1, <1>15, <1>10, <1>14, <1>17, WindowStep DEF GoodStep, Calms
<1>16. CASE told.proj[t].run # prev
  <2> DEFINE m == StopSelection(shown)
  <2>1. c' = Restore(m, t)
    BY <1>1, <1>16
  <2>2. m \in Store /\ m.active = t /\ m.up
    BY <1>10, <1>3, <1>11, StopEffect, Zenon DEF t
  <2>3. Fine(m, srv, log) /\ Shift(shown, m) /\ Quiet(m) /\ m.read.phase = "none"
    BY <1>10, <1>14, StopKeeps
  <2>6. PendingOK(shown) => Settles(shown, m) /\ Dims(shown, m)
    BY <1>10, StopSettles
  <2>7. /\ m.proj = shown.proj /\ m.read = NoRead
        /\ \A u \in Threads : u # shown.active => m.view[u].history = shown.view[u].history
    BY <1>10, StopEffect, Zenon
  <2> HIDE DEF m
  <2>8. /\ SameInputs(m, c') /\ c'.active = m.active /\ c'.post = m.post /\ c'.meta = m.meta
        /\ c'.proj = m.proj /\ c'.read = m.read /\ \A u \in Threads : u # t
           => c'.view[u] = m.view[u]
    BY <1>3, <2>1, <2>2, RestoreEffect, ZenonT(60)
  <2>9. Dims(c, c')
    BY <1>9, <1>10, <1>11, <2>7, <2>8, <1>3, ReadyDims DEF t, NoRead
  <2>11. PendingOK(c) => Settles(c, c')
    <3> SUFFICES ASSUME PendingOK(c) PROVE Settles(c, c')
      OBVIOUS
    <3>2. Settles(c, m)
      BY <1>1, <1>10, <1>17, <2>2, <2>6, SettlesPending, SettlesTrans
    <3>3. c' \in Store
      BY <1>3, <2>1, <2>2, RestoreEffect, Zenon
    <3> QED BY <1>1, <2>2, <2>8, <3>2, <3>3, SameSettles, SettlesTrans
  <2>4. c' \in Store /\ Fine(c', srv, log) /\ Shift(m, c')
    BY <1>3, <2>1, <2>2, <2>3, RestoreKeeps
  <2>5. Shift(c, c')
    BY <1>1, <1>10, <1>14, <2>2, <2>3, <2>4, ShiftTrans
  <2> QED BY <1>1, <2>4, <2>5, <2>9, <2>11, WindowStep DEF GoodStep, Calms
<1> QED BY <1>15, <1>16

\* More messages of the conversation on show are read.
LEMMA MessagesKeep ==
  ASSUME NEW s \in Store, NEW b \in Backends, NEW g, Fine(s, b, g), NEW t \in Threads, t = s.active,
         s.proj[t].run # 0, NEW seqs \in SUBSET (1..Len(b[t].msgs)),
         NEW r, r = Learned(s, t, MergeMessages(s.proj[t], seqs))
  PROVE  r \in Store /\ Fine(r, b, g) /\ Shift(s, r) /\ SameWork(s, r) /\ r.view = s.view
         /\ r.read = s.read /\ Settles(s, r) /\ Dims(s, r)
<1> DEFINE p == s.proj[t]
<1> DEFINE q == MergeMessages(p, seqs)
<1>1. p \in Projections /\ ThreadOK(s.view[t], p, b[t]) /\ KnownOK(p, b[t]) /\ b[t] \in Histrs
  BY DEF Store, Fine, ViewOK, ThreadOK, Backends
<1> HIDE DEF p
<1>2. q \in Projections /\ KnownOK(q, b[t]) /\ q.run = p.run /\ q.over = p.over
  BY <1>1, MergeKeeps, ZenonT(60)
<1>3. r = Learned(s, t, q)
  BY DEF p
<1> HIDE DEF q
<1>4. /\ r \in Store /\ SameWork(s, r) /\ SameList(s, r) /\ SameInputs(s, r)
      /\ r.view = s.view /\ r.read = s.read
      /\ \A u \in Threads : r.proj[u] = IF u = t THEN q ELSE s.proj[u]
  BY <1>2, <1>3, KnowEffect
<1>5. r.proj[t] = q /\ p = s.proj[t] /\ r.active = t
  BY <1>4 DEF p, SameWork
<1>6. UnderWay(r) /\ Ahead(r, b)
  <2>1. UnderWay(s) /\ Ahead(s, b)
    BY DEF Fine, ViewOK
  <2>2. Quiet(r) <=> Quiet(s)
    BY <1>4 DEF SameWork, Quiet
  <2>4. r.list = s.list
    BY <1>4 DEF SameList
  <2>5. UnderWay(r)
    BY <1>2, <1>4, <1>5, <2>1, <2>2, <2>4, ZenonT(60) DEF UnderWay, SameWork, Sending
  <2> QED BY <1>2, <1>4, <1>5, <2>1, <2>5 DEF Ahead, SameWork
<1>7. ASSUME NEW u \in Threads PROVE ThreadOK(r.view[u], r.proj[u], b[u])
  <2>1. ThreadOK(s.view[u], s.proj[u], b[u])
    BY DEF Fine, ViewOK
  <2>2. CASE u = t
    BY <1>1, <1>2, <1>4, <1>5, <2>1, <2>2, Zenon DEF ThreadOK
  <2>3. CASE u # t
    BY <1>4, <2>1, <2>3
  <2> QED BY <2>2, <2>3
<1>9. ASSUME NEW ans, AnswerOK(ans, p, b[t]) PROVE AnswerOK(ans, q, b[t])
  BY <1>2, <1>9 DEF AnswerOK
<1>11. ViewOK(r, b)
  BY <1>6, <1>7, <1>4, <1>5, <1>9 DEF ViewOK, SameWork, Fine
<1>13. Shift(s, r)
  BY <1>4, SameShift DEF SameList
<1>15. Dims(s, r)
  BY <1>2, <1>4, <1>5 DEF Dims, Dark, SameWork
<1> QED BY <1>4, <1>11, <1>13, <1>15, SameSettles, SelectionKeeps DEF SameWork, SameInputs

\* Publishing what is known of the conversation on show.
LEMMA PublishKeeps ==
  ASSUME NEW s \in Store, NEW b, NEW g, Fine(s, b, g), NEW t \in Threads, t = s.active, s.up,
         s.read.phase = "none"
  PROVE  LET r == Publish(s, t)
         IN  r \in Store /\ Fine(r, b, g) /\ Shift(s, r) /\ Settles(s, r) /\ Dims(s, r)
<1> DEFINE r == Publish(s, t)
<1> DEFINE q == s.proj[t]
<1>1. /\ r \in Store /\ SameWork(s, r) /\ SameList(s, r) /\ SameInputs(s, r)
      /\ r.proj = s.proj /\ r.read = s.read
      /\ \A u \in Threads : u # t => r.view[u] = s.view[u]
      /\ r.view[t].run = q.run /\ r.view[t].over = (q.run \in q.over)
      /\ r.view[t].history = s.view[t].history
  BY PublishShows
<1>2. /\ q \in Projections /\ KnownOK(q, b[t]) /\ (q.run = 0 => q.seqs = {})
      /\ q.run >= q.run /\ q.over \subseteq q.over
  BY DEF Store, Fine, ViewOK, ThreadOK, Projections
<1> HIDE DEF r
<1>3. Better(s, r, t, q, b[t])
  BY <1>1, <1>2 DEF Better, SameWork
<1>4. UnderWay(s) /\ Ahead(s, b) /\ (Quiet(r) <=> Quiet(s)) /\ r.list = s.list
  BY <1>1 DEF Fine, ViewOK, SameWork, Quiet, SameList
<1>5. Ahead(r, b)
  BY <1>1, <1>4 DEF Ahead, SameWork
<1>6. UnderWay(r)
  BY <1>1, <1>4 DEF UnderWay, SameWork, Sending
<1>7. r.creation = s.creation /\ r.post = s.post /\ r.summary = s.summary /\ r.read.phase = "none"
  BY <1>1 DEF SameWork, SameInputs
<1> HIDE DEF q
<1>8. Fine(r, b, g) /\ Shift(s, r)
  BY <1>7, <1>1, <1>2, <1>3, <1>5, <1>6, ShowFine DEF q
<1> QED BY <1>1, <1>8, SameSettles DEF r, SameWork, Dims, Dark

\* A conversation whose history is on show stays so.
LEMMA StillReady ==
  ASSUME NEW s \in Store, NEW t \in Threads, s.view[t].history = "ready"
  PROVE  [s EXCEPT !.view[t].history = "ready"] = s
BY DEF Store, Views

\* The step of ReceiveCommitted.
LEMMA ReceiveCommittedKeeps ==
  ASSUME Good(c, srv, late, log), ReceiveCommitted
  PROVE  GoodStep /\ Calms
<1> DEFINE t == c.active
<1> DEFINE seqs == 1..Len(srv[t].msgs)
<1> DEFINE told == Learned(c, t, MergeMessages(c.proj[t], seqs))
<1> DEFINE shown == Publish(told, t)
<1>1. /\ c \in Store /\ BackendOK(srv) /\ Fine(c, srv, log) /\ UnderWay(c)
      /\ log \in Logs /\ late \subseteq 0..Len(log.sent)
      /\ UNCHANGED <<srv, late, log>> /\ c.commit
  BY DEF Good, Fine, ReceiveCommitted, ViewOK
<1>2. c' = EndCommit([shown EXCEPT !.view[t].history = "ready"])
  BY DEF ReceiveCommitted, Learned
<1>3. /\ t \in Threads /\ c.up /\ c.view[t].history = "ready" /\ c.read.phase = "none"
         /\ c.proj[t].run # 0
  BY <1>1 DEF UnderWay, Store, Quiet
<1>5. seqs \in SUBSET (1..Len(srv[t].msgs)) /\ t = c.active
  OBVIOUS
<1> HIDE DEF t, seqs, told, shown
<1>6. told \in Store /\ Fine(told, srv, log) /\ Shift(c, told) /\ SameWork(c, told)
      /\ told.view = c.view /\ told.read = c.read
      /\ Settles(c, told) /\ Dims(c, told)
  BY <1>1, <1>3, <1>5, MessagesKeep DEF told, BackendOK
<1>8. /\ shown \in Store /\ Fine(shown, srv, log) /\ Shift(told, shown)
      /\ Settles(told, shown) /\ Dims(told, shown)
  BY <1>3, <1>6, <1>5, PublishKeeps, Zenon DEF shown, SameWork
<1>11. /\ c' \in Store /\ Fine(c', srv, log) /\ Shift(shown, c')
       /\ Settles(shown, c') /\ Dims(shown, c')
  BY <1>8, <1>2, <1>3, <1>6, PublishShows, StillReady, EndCommitKeeps DEF shown
<1>14. Calms
  BY <1>1, <1>8, <1>11, <1>6, SettlesTrans, DimsTrans DEF Calms
<1> QED BY <1>1, <1>11, <1>6, <1>8, <1>14, ShiftTrans, WindowStep DEF GoodStep

\* The step of ReceiveSaved.
LEMMA ReceiveSavedKeeps ==
  ASSUME Good(c, srv, late, log), ReceiveSaved
  PROVE  GoodStep /\ Calms
<1> DEFINE t == c.active
<1> DEFINE p == c.proj[t]
<1> DEFINE seqs == Owned(t, c.view[t].run)
<1>1. /\ c \in Store /\ BackendOK(srv) /\ Fine(c, srv, log) /\ ViewOK(c, srv)
      /\ log \in Logs /\ late \subseteq 0..Len(log.sent) /\ t \in Threads
      /\ UNCHANGED <<srv, late, log>> /\ c.view[t].over
  BY DEF Good, Fine, ReceiveSaved, Store
<1>2. c' = Learned(c, t, MergeMessages(p, seqs))
  BY DEF ReceiveSaved, Learned
<1>3. /\ p \in Projections /\ c.view[t] \in Views /\ ThreadOK(c.view[t], p, srv[t])
         /\ srv[t] \in Histrs
      /\ srv \in Backends
  BY <1>1 DEF Store, ViewOK, BackendOK, Backends
<1>4. p.run # 0
  BY <1>1, <1>3 DEF ThreadOK, KnownOK, Views, Projections, IsOver
<1>5. seqs \in SUBSET (1..Len(srv[t].msgs)) /\ t = c.active
  BY DEF Owned
<1> HIDE DEF t, seqs
<1>6. c' \in Store /\ Fine(c', srv, log) /\ Shift(c, c') /\ Settles(c, c') /\ Dims(c, c')
  BY <1>1, <1>2, <1>3, <1>4, <1>5, MessagesKeep, Zenon
<1> QED BY <1>1, <1>6, WindowStep DEF GoodStep, Calms

\* The step of StreamMessages.
LEMMA StreamMessagesKeeps ==
  ASSUME Good(c, srv, late, log), StreamMessages
  PROVE  GoodStep /\ Calms
<1> DEFINE t == c.active
<1> DEFINE p == c.proj[t]
<1> DEFINE seqs == Owned(t, p.run)
<1>1. /\ c \in Store /\ BackendOK(srv) /\ Fine(c, srv, log) /\ UnderWay(c)
      /\ log \in Logs /\ late \subseteq 0..Len(log.sent)
      /\ UNCHANGED <<srv, late, log>> /\ c.meta
  BY DEF Good, Fine, StreamMessages, ViewOK
<1>2. c' = Learned(c, t, MergeMessages(p, seqs))
  BY DEF StreamMessages, Learned
<1>3. t \in Threads /\ p.run # 0 /\ srv \in Backends
  BY <1>1 DEF UnderWay, Store, Quiet, BackendOK
<1>4. seqs \in SUBSET (1..Len(srv[t].msgs)) /\ t = c.active
  BY DEF Owned
<1> HIDE DEF t, seqs
<1> QED BY <1>1, <1>2, <1>3, <1>4, MessagesKeep, WindowStep DEF GoodStep, Calms

-----------------------------------------------------------------------------
(* The actions of failure. *)

\* The step of FailHistory.
LEMMA FailHistoryKeeps ==
  ASSUME Good(c, srv, late, log), FailHistory
  PROVE  GoodStep /\ Calms
<1> DEFINE t == c.active
<1> DEFINE v == [c.view[t] EXCEPT !.history = "error", !.verified = FALSE]
<1> DEFINE view == [c.view EXCEPT ![t] = v]
<1>1. /\ c \in Store /\ BackendOK(srv) /\ Fine(c, srv, log) /\ ViewOK(c, srv) /\ UnderWay(c)
      /\ log \in Logs /\ late \subseteq 0..Len(log.sent)
      /\ UNCHANGED <<srv, late>> /\ Event /\ c.read.phase # "none"
  BY DEF Good, Fine, FailHistory, ViewOK
<1>2. t \in Threads /\ c.up /\ Quiet(c)
  BY <1>1 DEF UnderWay, Store
<1>3. c.view \in [Threads -> Views]
  BY <1>1 DEF Store
<1>4. v \in Views /\ v.run = c.view[t].run /\ v.over = c.view[t].over /\ v.history = "error"
      /\ ~v.verified
  BY <1>2, <1>3, Zenon DEF Views
<1>5. c' = [c EXCEPT !.read = NoRead, !.view = view]
  BY <1>1, <1>2, <1>3, ZenonT(60) DEF FailHistory, Store
<1> HIDE DEF v
<1>6. view \in [Threads -> Views] /\ \A u \in Threads : view[u] = IF u = t THEN v ELSE c.view[u]
  BY <1>2, <1>3, <1>4
<1> HIDE DEF view
<1>7. c' \in Store
  BY <1>1, <1>5, <1>6, Blank, Zenon DEF Store
<1>8. SameList(c, c') /\ SameInputs(c, c') /\ SameWork(c, c') /\ c'.proj = c.proj
      /\ c'.read = NoRead /\ c'.view = view
  BY <1>1, <1>5 DEF Store, SameList, SameInputs, SameWork
<1>9. ASSUME NEW u \in Threads
      PROVE  /\ c'.view[u].run = c.view[u].run /\ c'.view[u].over = c.view[u].over
             /\ c'.view[u].history = "ready" => c.view[u].history = "ready"
             /\ c'.view[u].verified => u = c'.active /\ c'.up
  BY <1>1, <1>6, <1>8, <1>4 DEF ViewOK, SameWork
<1>10. c'.read.phase = "none" /\ Quiet(c') /\ (c'.list.phase # "none" => c'.up)
  BY <1>1, <1>2, <1>8 DEF NoRead, Quiet, SameWork, SameList, UnderWay
<1>11. ViewOK(c', srv)
  BY <1>1, <1>7, <1>8, <1>9, <1>10, QuietView
<1>12. Fine(c', srv, log)
  BY <1>1, <1>7, <1>8, <1>11, SelectionKeeps DEF SameWork, SameInputs
<1>13. Shift(c, c')
  BY <1>3, <1>8, <1>9 DEF Shift, SameList, Forward, Views
<1>17. Calms
  BY <1>8, <1>9, <1>10, SameSettles DEF Calms, SameWork, Dims, Dark
<1> QED BY <1>1, <1>7, <1>12, <1>13, <1>17, EventType, WindowStep DEF GoodStep

\* A request that was out is out no more.
LEMMA FewerKeeps ==
  ASSUME NEW s \in Store, NEW r \in Store, NEW b, NEW g, Fine(s, b, g), SameInputs(s, r),
         r.items = s.items, r.list = s.list \/ r.list.phase = "none", r.more = s.more
         \/ r.more.phase = "none",
         r.up = s.up, r.active = s.active, r.view = s.view, r.proj = s.proj, r.read = s.read,
         r.summary = s.summary \/ r.summary.phase = "none", r.post = s.post, r.follow = s.follow,
         r.meta = s.meta, r.snap => s.snap, r.commit = s.commit
  PROVE  Fine(r, b, g) /\ Shift(s, r)
<1>4. ViewOK(r, b)
  BY DEF Fine, ViewOK, Ahead, UnderWay, Sending, Quiet
<1> QED BY <1>4, SameShift, FreshList DEF Fine, PostOK, UnmadeOK, SameInputs

\* The step of FailRead.
LEMMA FailReadKeeps ==
  ASSUME Good(c, srv, late, log), FailRead
  PROVE  GoodStep /\ Calms
<1>1. /\ c \in Store /\ BackendOK(srv) /\ Fine(c, srv, log)
      /\ log \in Logs /\ late \subseteq 0..Len(log.sent)
      /\ UNCHANGED <<srv, late>> /\ Event
  BY DEF Good, FailRead
<1>2. log' \in Logs /\ log'.sent = log.sent
  BY <1>1, EventType
<1> DEFINE failed == [c EXCEPT !.list = NoRequest, !.listError = TRUE]
<1>3. CASE c.list.phase # "none" /\ c' = EndListing(failed)
  <2>1. failed \in Store
    BY <1>1, Blank, Zenon DEF Store
  <2>2. /\ SameInputs(c, failed) /\ failed.items = c.items /\ failed.list = NoRequest
        /\ failed.more = c.more /\ failed.up = c.up /\ failed.active = c.active
           /\ failed.view = c.view
        /\ failed.proj = c.proj /\ failed.read = c.read
    BY <1>1 DEF Store, SameInputs
  <2>3. /\ failed.summary = c.summary /\ failed.post = c.post
        /\ failed.follow = c.follow /\ failed.meta = c.meta /\ failed.snap = c.snap
        /\ failed.commit = c.commit
    BY <1>1 DEF Store
  <2> HIDE DEF failed
  <2>5. Fine(failed, srv, log) /\ Shift(c, failed)
    BY <1>1, <2>1, <2>2, <2>3, FewerKeeps DEF NoRequest
  <2>6. c' \in Store /\ Fine(c', srv, log) /\ Shift(failed, c')
    BY <1>3, <2>1, <2>5, EndListingKeeps
  <2>7. Shift(c, c')
    BY <1>1, <2>1, <2>5, <2>6, ShiftTrans
  <2>8. Settles(c, failed) /\ Dims(c, failed)
    BY <2>2, <2>3, StillBoth
  <2>9. Settles(failed, c') /\ Dims(failed, c')
    BY <2>5, <1>3, <2>1, EndListingSettles DEF Fine, CreationOK
  <2>10. Calms
    BY <1>1, <2>1, <2>6, <2>8, <2>9, SettlesTrans, DimsTrans DEF Calms
  <2> QED BY <1>1, <1>2, <2>6, <2>7, <2>10, WindowStep DEF GoodStep
<1>4. CASE c' = [c EXCEPT !.more = NoRequest, !.pageError = TRUE]
  <2>1. c' \in Store
    BY <1>1, <1>4, Blank, Zenon DEF Store
  <2>2. /\ SameInputs(c, c') /\ c'.items = c.items /\ c'.list = c.list /\ c'.more = NoRequest
        /\ c'.up = c.up /\ c'.active = c.active /\ c'.view = c.view
        /\ c'.proj = c.proj /\ c'.read = c.read
    BY <1>1, <1>4 DEF Store, SameInputs
  <2>3. /\ c'.summary = c.summary /\ c'.post = c.post /\ c'.follow = c.follow /\ c'.meta = c.meta
        /\ c'.snap = c.snap /\ c'.commit = c.commit
    BY <1>1, <1>4 DEF Store
  <2>5. Fine(c', srv, log) /\ Shift(c, c')
    BY <1>1, <2>1, <2>2, <2>3, FewerKeeps DEF NoRequest
  <2>6. Calms
    BY <2>2, <2>3, StillBoth DEF Calms
  <2> QED BY <1>1, <1>2, <2>1, <2>5, <2>6, WindowStep DEF GoodStep
<1>5. CASE c' = [c EXCEPT !.summary = NoRead]
  <2>1. c' \in Store
    BY <1>1, <1>5, Blank DEF Store
  <2>2. /\ SameInputs(c, c') /\ c'.items = c.items /\ c'.list = c.list /\ c'.more = c.more
        /\ c'.up = c.up /\ c'.active = c.active /\ c'.view = c.view
        /\ c'.proj = c.proj /\ c'.read = c.read
    BY <1>1, <1>5 DEF Store, SameInputs
  <2>3. /\ c'.summary = NoRead /\ c'.post = c.post /\ c'.follow = c.follow /\ c'.meta = c.meta
        /\ c'.snap = c.snap /\ c'.commit = c.commit
    BY <1>1, <1>5 DEF Store
  <2>5. Fine(c', srv, log) /\ Shift(c, c')
    BY <1>1, <2>1, <2>2, <2>3, FewerKeeps DEF NoRead
  <2>6. Calms
    BY <2>2, <2>3, StillBoth DEF Calms
  <2> QED BY <1>1, <1>2, <2>1, <2>5, <2>6, WindowStep DEF GoodStep
<1>6. CASE c' = [c EXCEPT !.snap = FALSE]
  <2>1. c' \in Store
    BY <1>1, <1>6, ZenonT(60) DEF Store
  <2>2. /\ SameInputs(c, c') /\ c'.items = c.items /\ c'.list = c.list /\ c'.more = c.more
        /\ c'.up = c.up /\ c'.active = c.active /\ c'.view = c.view
        /\ c'.proj = c.proj /\ c'.read = c.read
    BY <1>1, <1>6 DEF Store, SameInputs
  <2>3. /\ c'.summary = c.summary /\ c'.post = c.post /\ c'.follow = c.follow /\ c'.meta = c.meta
        /\ c'.snap = FALSE /\ c'.commit = c.commit
    BY <1>1, <1>6 DEF Store
  <2>4. Fine(c', srv, log) /\ Shift(c, c')
    BY <1>1, <2>1, <2>2, <2>3, FewerKeeps
  <2>5. Calms
    BY <2>2, <2>3, StillBoth DEF Calms
  <2> QED BY <1>1, <1>2, <2>1, <2>4, <2>5, WindowStep DEF GoodStep
<1>7. CASE c' = EndCommit(c)
  BY <1>1, <1>7, <1>2, EndCommitKeeps, WindowStep DEF GoodStep, Calms
<1> QED BY <1>3, <1>4, <1>5, <1>6, <1>7 DEF FailRead

\* The step of BreakStorage.
LEMMA BreakStorageKeeps ==
  ASSUME Good(c, srv, late, log), BreakStorage
  PROVE  GoodStep
<1>1. /\ c \in Store /\ BackendOK(srv) /\ Fine(c, srv, log)
      /\ log \in Logs /\ late \subseteq 0..Len(log.sent)
      /\ UNCHANGED <<srv, late>> /\ Event /\ c' = [c EXCEPT !.saves = FALSE]
  BY DEF Good, BreakStorage
<1>3. c' \in Store
  BY <1>1, ZenonT(60) DEF Store
<1>4. SameShown(c, c') /\ SameList(c, c') /\ c'.creation = c.creation
  BY <1>1 DEF Store, SameShown, SameList
<1>5. ViewOK(c', srv)
  <2>1. c'.list.phase # "none" => c'.up
    BY <1>1, <1>4 DEF SameShown, SameList, Fine, ViewOK, UnderWay
  <2> QED BY <1>1, <1>3, <1>4, <2>1, SameView, Zenon DEF Fine
<1>6. Fine(c', srv, log)
  BY <1>1, <1>3, <1>4, <1>5, SelectionKeeps, Zenon DEF SameShown
<1>7. Shift(c, c')
  BY <1>1, <1>3, <1>4, SameShift, Zenon DEF SameShown, SameList
<1> QED BY <1>1, <1>3, <1>6, <1>7, EventType, WindowStep DEF GoodStep

-----------------------------------------------------------------------------
(* The actions of the stream of a Run. *)

\* A step of the window whose stream tells the list of the conversation on show.
LEMMA StreamStep ==
  ASSUME Good(c, srv, late, log), UNCHANGED <<srv, late>>, NEW x \in Store, Shift(c, x),
         c' \in Store, Fine(c', srv, log), c'.view = x.view,
         \A u \in Threads : u # c'.active => c'.items[u] = x.items[u],
         log' \in Logs, log'.sent = log.sent
  PROVE  GoodStep
BY SameSent, ForwardSelf DEF Good, Shift, GoodStep, Onward

\* What is shown of the conversations stays, but may not be verified any more.
LEMMA RestKeeps ==
  ASSUME NEW s \in Store, NEW r \in Store, NEW b, NEW g, Fine(s, b, g), SameList(s, r),
         r.up = s.up, r.active = s.active, r.creation = s.creation, r.proj = s.proj, r.post \in {s.post, NoPost},
         r.read.phase = "none", r.summary = s.summary, UnderWay(r), Ahead(r, b),
         \A u \in Threads : /\ r.view[u].run = s.view[u].run /\ r.view[u].over = s.view[u].over
                            /\ r.view[u].history = s.view[u].history
                            /\ r.view[u].verified => s.view[u].verified
  PROVE  Fine(r, b, g) /\ Shift(s, r)
<1>6. Shift(s, r)
  BY DEF Store, Shift, SameList, Forward, Views
<1> QED BY <1>6, SelectionKeeps, SMTT(30) DEF ViewOK, Fine, ThreadOK

\* A store whose stream broke is a store.
LEMMA BrokenType ==
  ASSUME NEW s \in Store, NEW follow \in {"none", "get", "post"}, NEW commit \in BOOLEAN,
         NEW chain \in BOOLEAN,
         NEW view \in [Threads -> Views], NEW p \in Posts
  PROVE  [s EXCEPT !.follow = follow, !.post = p, !.meta = FALSE, !.commit = commit, !.chain = chain,
                   !.view = view] \in Store
BY ZenonT(60) DEF Store

Broken(s, follow, commit, chain, view) ==
  [s EXCEPT !.follow = follow, !.post = NoPost, !.meta = FALSE, !.commit = commit, !.chain = chain,
            !.view = view]

\* The step of BreakStream.
LEMMA BreakStreamKeeps ==
  ASSUME Good(c, srv, late, log), BreakStream
  PROVE  GoodStep /\ Calms
<1> DEFINE t == c.active
<1> DEFINE v == [c.view[t] EXCEPT !.verified = FALSE]
<1> DEFINE view == [c.view EXCEPT ![t] = v]
<1> DEFINE commit == c.commit \/ (c.chain /\ c.follow = "post")
<1>1. /\ c \in Store /\ BackendOK(srv) /\ Fine(c, srv, log) /\ ViewOK(c, srv) /\ UnderWay(c)
      /\ log \in Logs /\ late \subseteq 0..Len(log.sent)
      /\ UNCHANGED <<srv, late>> /\ Event /\ c.follow # "none" /\ ~Sending(c)
  BY DEF Good, Fine, BreakStream, ViewOK
<1>2. /\ t \in Threads /\ c.up /\ t # New /\ c.read.phase = "none" /\ c.view[t].history = "ready"
      /\ c.proj[t].run # 0
  BY <1>1, ConversationConstants DEF UnderWay, Store, Sending, Quiet
<1>3. c.view \in [Threads -> Views]
  BY <1>1 DEF Store
<1>4. /\ v \in Views /\ v.run = c.view[t].run /\ v.over = c.view[t].over
      /\ v.history = c.view[t].history /\ ~v.verified
  BY <1>2, <1>3, Zenon DEF Views
<1>5. PICK follow \in {"get", "none"} :
        c' = [c EXCEPT !.follow = follow, !.post = NoPost, !.meta = FALSE,
                !.commit = @ \/ (c.chain /\ c.follow = "post"),
                !.chain = @ /\ follow = "get", !.view[c.active].verified = FALSE]
  BY Zenon DEF BreakStream
<1> DEFINE chain == c.chain /\ follow = "get"
<1>6. commit \in BOOLEAN /\ chain \in BOOLEAN
  BY <1>1 DEF Store
<1>8. c' = Broken(c, follow, commit, chain, view)
  BY <1>1, <1>5 DEF Broken, Store
<1> HIDE DEF v, commit, chain
<1>7. view \in [Threads -> Views] /\ \A u \in Threads : view[u] = IF u = t THEN v ELSE c.view[u]
  BY <1>2, <1>3, <1>4
<1> HIDE DEF view
<1>9. c' \in Store
  BY <1>1, <1>6, <1>7, <1>8, Blank, BrokenType, Zenon DEF Broken
<1>10. /\ SameList(c, c') /\ SameInputs(c, c') /\ c'.up = c.up /\ c'.active = c.active
       /\ c'.proj = c.proj /\ c'.read = c.read /\ c'.summary = c.summary /\ c'.post = NoPost
  BY <1>1, <1>8 DEF Store, SameList, SameInputs, Broken
<1>11. c'.follow = follow /\ c'.meta = FALSE /\ c'.view = view
  BY <1>1, <1>8 DEF Store, Broken
<1>12. \A u \in Threads : /\ c'.view[u].run = c.view[u].run /\ c'.view[u].over = c.view[u].over
                          /\ c'.view[u].history = c.view[u].history
                          /\ c'.view[u].verified => c.view[u].verified
  BY <1>7, <1>11, <1>4
<1>13. c'.view[t].history = "ready" /\ c'.post.send = 0 /\ c'.post.run = 0 /\ c'.list = c.list
  BY <1>2, <1>10, <1>12 DEF NoPost, SameList
<1>14. UnderWay(c') /\ Ahead(c', srv)
  BY <1>13, <1>1, <1>2, <1>5, <1>10, <1>11 DEF Ahead, UnderWay, Sending
<1>15. Fine(c', srv, log) /\ Shift(c, c')
  BY <1>2, <1>10, <1>1, <1>9, <1>12, <1>14, RestKeeps, Zenon DEF SameInputs
<1>17. Calms
  BY <1>10, <1>12, <1>1, IdleSettles DEF Dims, Dark, Calms
<1> QED BY <1>1, <1>9, <1>15, <1>17, EventType, WindowStep DEF GoodStep

\* The stream is there, or is at its end.
Opened(s, t, q) == [s EXCEPT !.proj[t] = q, !.meta = TRUE]
Finished(s, t, q, commit) ==
  [s EXCEPT !.proj[t] = q, !.meta = FALSE, !.follow = "none", !.post = NoPost, !.snap = TRUE,
            !.commit = commit]
Verified(s, t) == [s EXCEPT !.view[t].verified = TRUE]
Snapped(s, t) == [s EXCEPT !.snap = FALSE, !.view[t].verified = TRUE]

\* What the first event of a stream changes.
LEMMA OpenedEffect ==
  ASSUME NEW s \in Store, NEW t \in Threads, NEW q \in Projections, NEW r, r = Opened(s, t, q)
  PROVE  /\ r \in Store /\ SameList(s, r) /\ SameInputs(s, r)
         /\ r.up = s.up /\ r.active = s.active /\ r.view = s.view /\ r.read = s.read
         /\ r.summary = s.summary /\ r.post = s.post /\ r.follow = s.follow /\ r.meta
         /\ r.snap = s.snap /\ r.commit = s.commit
         /\ \A u \in Threads : r.proj[u] = IF u = t THEN q ELSE s.proj[u]
<1> DEFINE proj == [s.proj EXCEPT ![t] = q]
<1>1. proj \in [Threads -> Projections] /\ \A u \in Threads : proj[u] = IF u = t THEN q ELSE s.proj[u]
  BY DEF Store
<1>2. r = [s EXCEPT !.proj = proj, !.meta = TRUE]
  BY DEF Opened
<1> HIDE DEF proj
<1>3. r \in Store /\ r.proj = proj
  BY <1>1, <1>2, ZenonT(60) DEF Store
<1> QED BY <1>1, <1>3, <1>2 DEF Store, SameList, SameInputs

\* What the end of a stream changes.
LEMMA FinishedEffect ==
  ASSUME NEW s \in Store, NEW t \in Threads, NEW q \in Projections, NEW commit \in BOOLEAN,
         NEW r, r = Finished(s, t, q, commit)
  PROVE  /\ r \in Store /\ SameList(s, r) /\ SameInputs(s, r)
         /\ r.up = s.up /\ r.active = s.active /\ r.view = s.view /\ r.read = s.read
         /\ r.summary = s.summary /\ r.post = NoPost /\ r.follow = "none" /\ ~r.meta
         /\ r.snap /\ r.commit = commit
         /\ \A u \in Threads : r.proj[u] = IF u = t THEN q ELSE s.proj[u]
<1> DEFINE proj == [s.proj EXCEPT ![t] = q]
<1>1. proj \in [Threads -> Projections] /\ \A u \in Threads : proj[u] = IF u = t THEN q ELSE s.proj[u]
  BY DEF Store
<1>2. r = [s EXCEPT !.proj = proj, !.meta = FALSE, !.follow = "none", !.post = NoPost, !.snap = TRUE,
                    !.commit = commit]
  BY DEF Finished
<1> HIDE DEF proj
<1>3. r \in Store
  <2>1. PICK p \in Posts : p = NoPost
    BY Blank
  <2>4. [s EXCEPT !.proj = proj, !.meta = FALSE, !.follow = "none", !.post = p, !.snap = TRUE,
                  !.commit = commit] \in Store
    BY <1>1, Zenon DEF Store
  <2> QED BY <1>2, <2>1, <2>4
<1>5. /\ r.up = s.up /\ r.active = s.active /\ r.view = s.view /\ r.read = s.read
      /\ r.summary = s.summary /\ r.post = NoPost /\ r.follow = "none" /\ ~r.meta
      /\ r.snap /\ r.commit = commit /\ r.proj = proj
  BY <1>2 DEF Store
<1> QED BY <1>1, <1>3, <1>2, <1>5 DEF Store, SameList, SameInputs

\* What the verification of a Run changes.
LEMMA VerifiedEffect ==
  ASSUME NEW s \in Store, NEW t \in Threads, NEW r, r = Verified(s, t)
  PROVE  /\ r \in Store /\ SameList(s, r) /\ SameInputs(s, r) /\ SameWork(s, r)
         /\ r.proj = s.proj /\ r.read = s.read
         /\ \A u \in Threads : u # t => r.view[u] = s.view[u]
         /\ r.view[t].run = s.view[t].run /\ r.view[t].over = s.view[t].over
         /\ r.view[t].history = s.view[t].history
<1> DEFINE v == [s.view[t] EXCEPT !.verified = TRUE]
<1>1. s.view \in [Threads -> Views]
  BY DEF Store
<1>2. v \in Views /\ v.run = s.view[t].run /\ v.over = s.view[t].over
      /\ v.history = s.view[t].history
  BY <1>1, Zenon DEF Views
<1>3. r = [s EXCEPT !.view[t] = v]
  BY <1>1 DEF Verified
<1> HIDE DEF v
<1> QED BY <1>2, <1>3, ViewEffect

\* What a snapshot changes.
LEMMA SnappedEffect ==
  ASSUME NEW s \in Store, NEW t \in Threads, NEW r, r = Snapped(s, t)
  PROVE  /\ r \in Store /\ SameList(s, r) /\ SameInputs(s, r)
         /\ r.up = s.up /\ r.active = s.active /\ r.proj = s.proj /\ r.read = s.read
         /\ r.summary = s.summary /\ r.post = s.post /\ r.follow = s.follow /\ r.meta = s.meta
         /\ ~r.snap /\ r.commit = s.commit
         /\ \A u \in Threads : u # t => r.view[u] = s.view[u]
         /\ r.view[t].run = s.view[t].run /\ r.view[t].over = s.view[t].over
         /\ r.view[t].history = s.view[t].history
<1> DEFINE v == [s.view[t] EXCEPT !.verified = TRUE]
<1> DEFINE view == [s.view EXCEPT ![t] = v]
<1>1. s.view \in [Threads -> Views]
  BY DEF Store
<1>2. v \in Views /\ v.run = s.view[t].run /\ v.over = s.view[t].over
      /\ v.history = s.view[t].history
  BY <1>1, Zenon DEF Views
<1>3. r = [s EXCEPT !.snap = FALSE, !.view = view]
  BY <1>1 DEF Snapped, Store
<1> HIDE DEF v
<1>4. view \in [Threads -> Views] /\ \A u \in Threads : view[u] = IF u = t THEN v ELSE s.view[u]
  BY <1>1, <1>2
<1> HIDE DEF view
<1>5. r \in Store
  BY <1>3, <1>4, ZenonT(60) DEF Store
<1> QED BY <1>2, <1>4, <1>5, <1>3 DEF Store, SameList, SameInputs

\* What a stream or the GET of its Run says of a Run, of the conversation on show.
LEMMA RunToldOK ==
  ASSUME BackendOK(srv), NEW t \in Threads, NEW p \in Projections, KnownOK(p, srv[t]), p.run # 0,
         NEW over \in BOOLEAN, over => Over(t, p.run)
  PROVE  LET q == Metadata(p, p.run, over)
         IN  /\ q \in Projections /\ KnownOK(q, srv[t]) /\ q.run = p.run /\ p.over \subseteq q.over
             /\ q.run >= p.run /\ (q.run = 0 => q.seqs = {}) /\ (over => p.run \in q.over)
<1> DEFINE q == Metadata(p, p.run, over)
<1> DEFINE run == p.run
<1>1. srv[t] \in Histrs /\ Len(srv[t].runs) \in Nat
  BY DEF BackendOK, Backends, Histrs
<1>2. run \in Nat /\ run \in 1..Len(srv[t].runs) /\ p.run <= run
  BY <1>1 DEF KnownOK, Projections
<1>3. over => IsOver(srv[t], run)
  BY <1>2 DEF IsOver, Over
<1>4. /\ Metadata(p, run, over) \in Projections /\ KnownOK(Metadata(p, run, over), srv[t])
      /\ Metadata(p, run, over).run = run /\ p.over \subseteq Metadata(p, run, over).over
      /\ (over => run \in Metadata(p, run, over).over)
  <2> HIDE DEF run
  <2> QED BY <1>1, <1>2, <1>3, MetadataKeeps
<1> QED BY <1>2, <1>4

\* Whether a Run is over is a truth value.
LEMMA OverType ==
  ASSUME BackendOK(srv), NEW t \in Threads, NEW run \in 1..Len(srv[t].runs)
  PROVE  Over(t, run) \in BOOLEAN
<1> DEFINE R == [send : Nat, over : BOOLEAN]
<1> DEFINE runs == srv[t].runs
<1>1. runs \in Seq(R)
  BY DEF BackendOK, Backends, Histrs
<1>2. runs[run].over \in BOOLEAN
  <2>1. runs[run] \in R
    <3>1. run \in 1..Len(runs)
      OBVIOUS
    <3> HIDE DEF R, runs
    <3> QED BY <1>1, <3>1
  <2> QED BY <2>1
<1> QED BY <1>2 DEF Over

\* The step of OpenStream.
LEMMA OpenStreamKeeps ==
  ASSUME Good(c, srv, late, log), OpenStream
  PROVE  GoodStep /\ Calms
<1> DEFINE t == c.active
<1> DEFINE p == c.proj[t]
<1> DEFINE run == p.run
<1> DEFINE q == Metadata(p, run, Over(t, run))
<1> DEFINE told == Opened(c, t, q)
<1> DEFINE pub == Publish(told, t)
<1> DEFINE shown == Verified(pub, t)
<1>1. /\ c \in Store /\ BackendOK(srv) /\ Fine(c, srv, log) /\ ViewOK(c, srv) /\ UnderWay(c)
      /\ log \in Logs /\ late \subseteq 0..Len(log.sent)
      /\ UNCHANGED <<srv, late, log>> /\ c.follow = "get" /\ ~c.meta
  BY ZenonT(60) DEF Good, Fine, OpenStream, ViewOK
<1>2. c' = SyncRun(shown, t, run, shown.view[t].over)
  BY Zenon DEF OpenStream, Opened, Verified
<1>3. /\ t \in Threads /\ c.up /\ t # New /\ c.read.phase = "none" /\ c.view[t].history = "ready"
         /\ p.run # 0
      /\ c.post.send = 0 /\ c.post.run = 0 /\ srv \in Backends
  BY <1>1, ConversationConstants DEF UnderWay, Store, Quiet, BackendOK
<1>4. p \in Projections /\ KnownOK(p, srv[t]) /\ srv[t] \in Histrs
  BY <1>1, <1>3 DEF Store, ViewOK, ThreadOK, Backends
<1>5. run \in Nat /\ run \in 1..Len(srv[t].runs)
  BY <1>3, <1>4 DEF KnownOK, Projections, Histrs
<1>6. Over(t, run) \in BOOLEAN
  <2> HIDE DEF t, run
  <2> QED BY <1>1, <1>3, <1>5, OverType
<1> HIDE DEF t, p
<1>7. /\ q \in Projections /\ KnownOK(q, srv[t]) /\ q.run = p.run /\ p.over \subseteq q.over
      /\ q.run >= p.run /\ (q.run = 0 => q.seqs = {})
  BY <1>1, <1>3, <1>4, <1>6, RunToldOK
<1> HIDE DEF q
<1>8. /\ told \in Store /\ SameList(c, told) /\ SameInputs(c, told)
      /\ told.up = c.up /\ told.active = c.active /\ told.view = c.view /\ told.read = c.read
      /\ told.summary = c.summary /\ told.post = c.post /\ told.follow = c.follow /\ told.meta
      /\ told.snap = c.snap /\ told.commit = c.commit
      /\ \A u \in Threads : told.proj[u] = IF u = t THEN q ELSE c.proj[u]
  <2>1. c \in Store /\ t \in Threads /\ q \in Projections
    BY <1>1, <1>3, <1>7
  <2>2. told = Opened(c, t, q)
    OBVIOUS
  <2> HIDE DEF told
  <2> QED BY <2>1, <2>2, OpenedEffect
<1> HIDE DEF told
<1>9. /\ pub \in Store /\ SameWork(told, pub) /\ SameList(told, pub) /\ SameInputs(told, pub)
      /\ pub.proj = told.proj /\ pub.read = told.read
      /\ \A u \in Threads : u # t => pub.view[u] = told.view[u]
      /\ pub.view[t].run = told.proj[t].run
      /\ pub.view[t].over = (told.proj[t].run \in told.proj[t].over)
      /\ pub.view[t].history = told.view[t].history
  BY <1>3, <1>8, PublishShows
<1> HIDE DEF pub
<1>10. /\ shown \in Store /\ SameList(pub, shown) /\ SameInputs(pub, shown) /\ SameWork(pub, shown)
       /\ shown.proj = pub.proj /\ shown.read = pub.read
       /\ \A u \in Threads : u # t => shown.view[u] = pub.view[u]
       /\ shown.view[t].run = pub.view[t].run /\ shown.view[t].over = pub.view[t].over
       /\ shown.view[t].history = pub.view[t].history
  BY <1>3, <1>9, VerifiedEffect
<1> HIDE DEF shown
<1>11. /\ SameList(c, shown) /\ shown.creation = c.creation
       /\ shown.up = c.up /\ shown.active = c.active /\ shown.read.phase = "none"
       /\ shown.summary = c.summary /\ shown.post = c.post /\ shown.follow = "get" /\ shown.meta
       /\ shown.snap = c.snap /\ shown.commit = c.commit
  BY <1>1, <1>3, <1>8, <1>9, <1>10 DEF SameList, SameWork, SameInputs
<1>12. told.proj[t] = q /\ shown.view[t].over = (q.run \in q.over)
       /\ shown.view[t].history = "ready"
  BY <1>3, <1>8, <1>9, <1>10
<1>13. Better(c, shown, t, q, srv[t])
  <2>1. shown.view[t].run = q.run
    BY <1>9, <1>10, <1>12
  <2> QED BY <1>3, <1>7, <1>8, <1>9, <1>10, <1>11, <1>12, <2>1 DEF Better, t, p
<1>14. UnderWay(shown) /\ Ahead(shown, srv)
  <2>1. shown.active = t /\ shown.proj[t] = q /\ q.run # 0 /\ shown.list = c.list
    BY <1>3, <1>7, <1>9, <1>10, <1>11, <1>12 DEF SameList, t
  <2> QED BY <1>11, <1>3, <1>12, <2>1, <1>1 DEF Ahead, UnderWay, Sending
<1>15. Fine(shown, srv, log) /\ Shift(c, shown)
  BY <1>7, <1>11, <1>1, <1>3, <1>10, <1>13, <1>14, ShowFine DEF p
<1> DEFINE over == shown.view[t].over
<1>16. over \in BOOLEAN /\ (over => IsOver(srv[t], run)) /\ run <= Len(srv[t].runs)
  <2>2. over = (run \in q.over)
    BY <1>12, <1>7
  <2>3. over => IsOver(srv[t], run)
    BY <1>7, <2>2, Zenon DEF KnownOK
  <2> QED BY <2>2, <2>3, <1>4 DEF KnownOK
<1> HIDE DEF over, run
<1>17. /\ c' \in Store /\ SameShown(shown, c') /\ SameInputs(shown, c') /\ Fine(c', srv, log)
       /\ \A u \in Threads : u # t => c'.items[u] = shown.items[u]
  BY <1>2, <1>3, <1>5, <1>10, <1>15, <1>16, SyncKeeps DEF over
<1>18. c'.view = shown.view /\ c'.active = t
  BY <1>11, <1>17 DEF SameShown, t
<1>19. Calms
  <2>1. SameInputs(c, c') /\ c'.active = c.active /\ c'.post = c.post
    BY <1>8, <1>9, <1>10, <1>11, <1>17 DEF SameInputs, SameShown
  <2>3. \A u \in Threads : u # t => c'.view[u] = c.view[u] /\ c'.proj[u] = c.proj[u]
    BY <1>8, <1>9, <1>10, <1>17 DEF SameShown
  <2>4. c'.read = c.read
    BY <1>8, <1>9, <1>10, <1>17 DEF SameShown
  <2>5. Dims(c, c')
    BY <1>3, <2>1, <2>3, <2>4, ReadyDims DEF t
  <2> QED BY <1>3, <2>1, <2>5, IdleSettles DEF Calms, Sending
<1> QED BY <1>1, <1>10, <1>15, <1>17, <1>18, <1>19, StreamStep

\* The step of ReceiveSnapshot.
LEMMA ReceiveSnapshotKeeps ==
  ASSUME Good(c, srv, late, log), ReceiveSnapshot
  PROVE  GoodStep /\ Calms
<1> DEFINE t == c.active
<1> DEFINE p == c.proj[t]
<1> DEFINE run == p.run
<1>1. /\ c \in Store /\ BackendOK(srv) /\ Fine(c, srv, log) /\ ViewOK(c, srv) /\ UnderWay(c)
      /\ log \in Logs /\ late \subseteq 0..Len(log.sent)
      /\ UNCHANGED <<srv, late, log>> /\ c.snap
  BY Zenon DEF Good, Fine, ReceiveSnapshot, ViewOK
<1>2. /\ t \in Threads /\ c.up /\ t # New /\ c.read.phase = "none" /\ c.view[t].history = "ready"
         /\ p.run # 0
      /\ srv \in Backends
  BY <1>1, ConversationConstants DEF UnderWay, Store, Quiet, BackendOK
<1>3. p \in Projections /\ KnownOK(p, srv[t]) /\ srv[t] \in Histrs
  BY <1>1, <1>2 DEF Store, ViewOK, ThreadOK, Backends
<1>4. run \in Nat /\ run \in 1..Len(srv[t].runs)
  BY <1>2, <1>3 DEF KnownOK, Projections, Histrs
<1>5. Over(t, run) \in BOOLEAN
  <2> HIDE DEF t, run
  <2> QED BY <1>1, <1>2, <1>4, OverType, SMTT(30)
<1>6. PICK preserve \in {c.meta, c.follow # "none"} :
        LET told == IF preserve THEN c ELSE Learned(c, t, Metadata(p, run, Over(t, run)))
            shown == Snapped(Publish(told, t), t)
        IN  c' = SyncRun(shown, t, run, shown.view[t].over)
  BY ZenonT(60) DEF ReceiveSnapshot, Learned, Snapped
<1> DEFINE q == IF preserve THEN p ELSE Metadata(p, run, Over(t, run))
<1> DEFINE told == Learned(c, t, q)
<1> DEFINE pub == Publish(told, t)
<1> DEFINE shown == Snapped(pub, t)
<1>7. c' = SyncRun(shown, t, run, shown.view[t].over)
  BY <1>1, <1>2, <1>6, Zenon DEF Store, Learned
<1> HIDE DEF t, p
<1>8. /\ q \in Projections /\ KnownOK(q, srv[t]) /\ q.run = p.run /\ p.over \subseteq q.over
      /\ q.run >= p.run /\ (q.run = 0 => q.seqs = {})
  BY <1>2, <1>3, <1>1, <1>5, RunToldOK DEF Projections
<1> HIDE DEF q
<1>9. /\ told \in Store /\ SameWork(c, told) /\ SameList(c, told) /\ SameInputs(c, told)
      /\ told.view = c.view /\ told.read = c.read
      /\ \A u \in Threads : told.proj[u] = IF u = t THEN q ELSE c.proj[u]
  BY <1>1, <1>2, <1>8, KnowEffect
<1> HIDE DEF told
<1>10. /\ pub \in Store /\ SameWork(told, pub) /\ SameList(told, pub) /\ SameInputs(told, pub)
       /\ pub.proj = told.proj /\ pub.read = told.read
       /\ \A u \in Threads : u # t => pub.view[u] = told.view[u]
       /\ pub.view[t].run = told.proj[t].run
       /\ pub.view[t].over = (told.proj[t].run \in told.proj[t].over)
       /\ pub.view[t].history = told.view[t].history
  BY <1>2, <1>9, PublishShows
<1> HIDE DEF pub
<1>11. /\ shown \in Store /\ SameList(pub, shown) /\ SameInputs(pub, shown)
       /\ shown.up = pub.up /\ shown.active = pub.active /\ shown.proj = pub.proj
          /\ shown.read = pub.read
       /\ shown.summary = pub.summary /\ shown.post = pub.post /\ shown.follow = pub.follow
       /\ shown.meta = pub.meta /\ ~shown.snap /\ shown.commit = pub.commit
       /\ \A u \in Threads : u # t => shown.view[u] = pub.view[u]
       /\ shown.view[t].run = pub.view[t].run /\ shown.view[t].over = pub.view[t].over
       /\ shown.view[t].history = pub.view[t].history
  <2>2. shown = Snapped(pub, t)
    OBVIOUS
  <2> HIDE DEF shown
  <2> QED BY <1>2, <1>10, <2>2, SnappedEffect
<1> HIDE DEF shown
<1>12. /\ SameList(c, shown) /\ shown.creation = c.creation
       /\ shown.up = c.up /\ shown.active = c.active /\ shown.read.phase = "none"
       /\ shown.summary = c.summary /\ shown.post = c.post /\ shown.follow = c.follow
          /\ shown.meta = c.meta
       /\ ~shown.snap /\ shown.commit = c.commit
  BY <1>2, <1>9, <1>10, <1>11 DEF SameList, SameWork, SameInputs
<1>13. told.proj[t] = q /\ shown.view[t].over = (q.run \in q.over)
       /\ shown.view[t].history = "ready"
  BY <1>2, <1>9, <1>10, <1>11
<1>14. Better(c, shown, t, q, srv[t])
  <2>1. shown.view[t].run = q.run
    BY <1>10, <1>11, <1>13
  <2> QED BY <1>2, <1>8, <1>9, <1>10, <1>11, <1>12, <1>13, <2>1 DEF Better, t, p
<1>15. UnderWay(shown) /\ Ahead(shown, srv)
  <2>1. shown.active = t /\ shown.proj[t] = q /\ q.run # 0 /\ shown.list = c.list
    BY <1>2, <1>8, <1>10, <1>11, <1>12, <1>13 DEF SameList, t
  <2>2. Ahead(shown, srv)
    BY <1>1, <1>8, <1>12, <2>1 DEF Ahead, ViewOK, t, p
  <2> QED BY <2>2, <1>1, <1>2, <1>12, <1>13, <2>1 DEF UnderWay, Sending
<1>16. Fine(shown, srv, log) /\ Shift(c, shown)
  BY <1>8, <1>12, <1>1, <1>2, <1>11, <1>14, <1>15, ShowFine, Zenon DEF p
<1> DEFINE over == shown.view[t].over
<1>17. over \in BOOLEAN /\ (over => IsOver(srv[t], run)) /\ run <= Len(srv[t].runs)
  <2>2. over = (run \in q.over)
    BY <1>13, <1>8
  <2>3. over => IsOver(srv[t], run)
    BY <1>8, <2>2, Zenon DEF KnownOK
  <2> QED BY <2>2, <2>3, <1>3 DEF KnownOK
<1> HIDE DEF over, run
<1>18. /\ c' \in Store /\ SameShown(shown, c') /\ SameInputs(shown, c') /\ Fine(c', srv, log)
       /\ \A u \in Threads : u # t => c'.items[u] = shown.items[u]
  BY <1>7, <1>2, <1>4, <1>11, <1>16, <1>17, SyncKeeps DEF over
<1>19. c'.view = shown.view /\ c'.active = t
  BY <1>12, <1>18 DEF SameShown, t
<1>20. Calms
  <2>1. SameInputs(c, c') /\ c'.active = c.active /\ c'.post = c.post /\ c'.meta = c.meta
    BY <1>9, <1>10, <1>11, <1>12, <1>18 DEF SameInputs, SameShown
  <2>3. \A u \in Threads : u # t => c'.view[u] = c.view[u] /\ c'.proj[u] = c.proj[u]
    BY <1>9, <1>10, <1>11, <1>18 DEF SameShown
  <2>4. c'.read = c.read
    BY <1>9, <1>10, <1>11, <1>18 DEF SameShown
  <2> QED BY <2>1, <1>2, <2>3, <2>4, ReadyDims, SameSettles DEF Calms, t
<1> QED BY <1>1, <1>11, <1>16, <1>18, <1>19, <1>20, StreamStep, SMTT(30)

\* The step of EndStream.
LEMMA EndStreamKeeps ==
  ASSUME Good(c, srv, late, log), EndStream
  PROVE  GoodStep /\ Calms
<1> DEFINE t == c.active
<1> DEFINE p == c.proj[t]
<1> DEFINE run == p.run
<1> DEFINE q == Metadata(p, run, TRUE)
<1> DEFINE commit == c.commit \/ c.chain
<1> DEFINE told == Finished(c, t, q, commit)
<1> DEFINE shown == Publish(told, t)
<1>1. /\ c \in Store /\ BackendOK(srv) /\ Fine(c, srv, log) /\ ViewOK(c, srv) /\ UnderWay(c)
      /\ log \in Logs /\ late \subseteq 0..Len(log.sent)
      /\ UNCHANGED <<srv, late, log>> /\ c.meta /\ Over(t, run)
  BY DEF Good, Fine, EndStream, ViewOK
<1>2. c' = SyncRun(shown, t, run, TRUE)
  BY <1>1 DEF EndStream, Finished, Store
<1>3. /\ t \in Threads /\ c.up /\ t # New /\ c.read.phase = "none" /\ c.view[t].history = "ready"
         /\ p.run # 0
      /\ srv \in Backends
  BY <1>1, ConversationConstants DEF UnderWay, Store, Quiet, BackendOK
<1>4. p \in Projections /\ KnownOK(p, srv[t]) /\ srv[t] \in Histrs
  BY <1>1, <1>3 DEF Store, ViewOK, ThreadOK, Backends
<1>5. run \in Nat /\ run \in 1..Len(srv[t].runs)
  BY <1>3, <1>4 DEF KnownOK, Projections, Histrs
<1>6. commit \in BOOLEAN
  BY <1>1 DEF Store
<1> HIDE DEF t, p, commit
<1>7. /\ q \in Projections /\ KnownOK(q, srv[t]) /\ q.run = p.run /\ p.over \subseteq q.over
      /\ q.run >= p.run /\ (q.run = 0 => q.seqs = {}) /\ p.run \in q.over
  BY <1>1, <1>3, <1>4, RunToldOK, Zenon
<1> HIDE DEF q
<1>8. /\ told \in Store /\ SameList(c, told) /\ SameInputs(c, told)
      /\ told.up = c.up /\ told.active = c.active /\ told.view = c.view /\ told.read = c.read
      /\ told.summary = c.summary /\ told.post = NoPost /\ told.follow = "none" /\ ~told.meta
      /\ told.snap /\ told.commit = commit
      /\ \A u \in Threads : told.proj[u] = IF u = t THEN q ELSE c.proj[u]
  <2>1. c \in Store /\ t \in Threads /\ q \in Projections
    BY <1>1, <1>3, <1>7
  <2>2. told = Finished(c, t, q, commit)
    OBVIOUS
  <2> HIDE DEF told
  <2> QED BY <1>6, <2>1, <2>2, FinishedEffect
<1> HIDE DEF told
<1>9. /\ shown \in Store /\ SameWork(told, shown) /\ SameList(told, shown)
         /\ SameInputs(told, shown)
      /\ shown.proj = told.proj /\ shown.read = told.read
      /\ \A u \in Threads : u # t => shown.view[u] = told.view[u]
      /\ shown.view[t].run = told.proj[t].run
      /\ shown.view[t].over = (told.proj[t].run \in told.proj[t].over)
      /\ shown.view[t].history = told.view[t].history
  BY <1>3, <1>8, PublishShows
<1> HIDE DEF shown
<1>10. /\ SameList(c, shown) /\ shown.creation = c.creation
       /\ shown.up = c.up /\ shown.active = c.active /\ shown.read.phase = "none"
       /\ shown.summary = c.summary /\ shown.post = NoPost /\ shown.follow = "none" /\ ~shown.meta
  BY <1>3, <1>8, <1>9 DEF SameList, SameWork, SameInputs
<1>11. told.proj[t] = q /\ shown.view[t].over = (q.run \in q.over)
       /\ shown.view[t].history = "ready"
  BY <1>3, <1>8, <1>9
<1>12. Better(c, shown, t, q, srv[t])
  BY <1>9, <1>11, <1>3, <1>7, <1>8, <1>10 DEF Better, t, p
<1>13. UnderWay(shown) /\ Ahead(shown, srv)
  <2>1. shown.active = t /\ shown.proj[t] = q /\ q.run # 0 /\ shown.list = c.list
    BY <1>3, <1>7, <1>9, <1>10, <1>11 DEF SameList, t
  <2>2. shown.post.send = 0 /\ shown.post.run = 0
    BY <1>10 DEF NoPost
  <2>5. UnderWay(shown)
    BY <1>3, <1>10, <1>11, <2>1, <2>2, <1>1 DEF UnderWay, Sending
  <2> QED BY <2>2, <2>5 DEF Ahead
<1>14. Fine(shown, srv, log) /\ Shift(c, shown)
  BY <1>7, <1>10, <1>1, <1>3, <1>9, <1>12, <1>13, ShowFine DEF p
<1>15. IsOver(srv[t], run) /\ run <= Len(srv[t].runs)
  BY <1>4, <1>7 DEF KnownOK
<1> HIDE DEF run
<1>16. /\ c' \in Store /\ SameShown(shown, c') /\ SameInputs(shown, c') /\ Fine(c', srv, log)
       /\ \A u \in Threads : u # t => c'.items[u] = shown.items[u]
  <2>1. PICK over \in BOOLEAN : over
    BY Zenon
  <2>2. c' = SyncRun(shown, t, run, over)
    BY <1>2, <2>1
  <2> QED BY <1>3, <1>5, <1>9, <1>14, <1>15, <2>2, SyncKeeps
<1>17. c'.view = shown.view /\ c'.active = t
  BY <1>10, <1>16 DEF SameShown, t
<1>18. Calms
  <2>1. SameInputs(c, c') /\ c'.active = c.active /\ c'.post = NoPost
    BY <1>8, <1>9, <1>10, <1>16 DEF SameInputs, SameShown
  <2>3. \A u \in Threads : u # t => c'.view[u] = c.view[u] /\ c'.proj[u] = c.proj[u]
    BY <1>8, <1>9, <1>16 DEF SameShown
  <2>4. c'.read = c.read
    BY <1>8, <1>9, <1>16 DEF SameShown
  <2>5. Dims(c, c')
    BY <1>3, <2>1, <2>3, <2>4, ReadyDims DEF t
  <2> QED BY <1>1, <2>1, <2>5, IdleSettles DEF Calms, Sending
<1> QED BY <1>1, <1>9, <1>14, <1>16, <1>17, <1>18, StreamStep

\* It is the same to tell the list first.
LEMMA SyncFirst ==
  ASSUME NEW s \in Store, NEW t \in Threads, NEW run \in Nat, NEW over \in BOOLEAN
  PROVE  Verified(Publish(SyncRun(s, t, run, over), t), t) = SyncRun(Verified(Publish(s, t), t), t, run, over)
<1> DEFINE Moved(r) == IF r.phase = "none" THEN r ELSE [r EXCEPT !.stale = @ \cup {t}]
<1> DEFINE Item(i) == IF i = NoItem THEN i ELSE [i EXCEPT !.run = run, !.over = over]
<1> DEFINE l == Moved(s.list)
<1> DEFINE m == Moved(s.more)
<1> DEFINE is == [s.items EXCEPT ![t] = Item(s.items[t])]
<1> DEFINE v == [s.view[t] EXCEPT !.run = s.proj[t].run, !.over = s.proj[t].run \in s.proj[t].over,
                                  !.verified = TRUE]
<1> DEFINE w == [s.view EXCEPT ![t] = v]
<1>1. ASSUME NEW x \in Store, x.view = s.view, x.proj = s.proj
      PROVE  Verified(Publish(x, t), t) = [x EXCEPT !.view = w]
  <2> DEFINE v1 == [x.view[t] EXCEPT !.run = x.proj[t].run, !.over = x.proj[t].run \in x.proj[t].over]
  <2> DEFINE w1 == [x.view EXCEPT ![t] = v1]
  <2>2. Publish(x, t) = [x EXCEPT !.view[t] = v1] /\ v1 \in Views
    BY PublishEffect, Zenon
  <2>3. [v1 EXCEPT !.verified = TRUE] = v
    BY <1>1
  <2> HIDE DEF v1, v
  <2>4. w1[t] = v1 /\ [w1 EXCEPT ![t] = v] = w
    BY <1>1 DEF Store
  <2>5. Publish(x, t) = [x EXCEPT !.view = w1]
    BY <2>2
  <2> HIDE DEF w1, w
  <2> DEFINE y == [x EXCEPT !.view = w1]
  <2>8. Verified(y, t) = [y EXCEPT !.view = [y.view EXCEPT ![t] = [y.view[t] EXCEPT !.verified = TRUE]]]
    BY DEF Verified
  <2> QED BY <2>3, <2>4, <2>5, <2>8, Zenon DEF Store
<1>2. ASSUME NEW x \in Store, x.list = s.list, x.more = s.more, x.items = s.items
      PROVE  SyncRun(x, t, run, over) = [x EXCEPT !.list = l, !.more = m, !.items = is]
  <2>1. SyncRun(x, t, run, over) = [x EXCEPT !.list = Moved(x.list), !.more = Moved(x.more),
                                             !.items = [x.items EXCEPT ![t] = Item(x.items[t])]]
    BY DEF SyncRun, Store
  <2> HIDE DEF Moved, Item
  <2> QED BY <1>2, <2>1
<1> DEFINE y == [s EXCEPT !.view = w]
<1> DEFINE z == [s EXCEPT !.list = l, !.more = m, !.items = is]
<1>3. SyncRun(s, t, run, over) = z /\ z \in Store
  <2>1. SyncRun(s, t, run, over) \in Store
    BY SyncEffect, Zenon
  <2>2. SyncRun(s, t, run, over) = z
    <3> HIDE DEF Moved, Item
    <3> QED BY <1>2, Zenon
  <2> QED BY <2>1, <2>2
<1>4. Verified(Publish(s, t), t) = y /\ y \in Store
  <2>2. Verified(Publish(s, t), t) \in Store
    BY PublishShows, VerifiedEffect
  <2> QED BY <1>1, <2>2
<1> HIDE DEF l, m, is, w
<1>5. z.view = s.view /\ z.proj = s.proj /\ y.list = s.list /\ y.more = s.more /\ y.items = s.items
  BY DEF Store
<1>6. [z EXCEPT !.view = w] = [y EXCEPT !.list = l, !.more = m, !.items = is]
  BY Zenon DEF Store
<1> QED BY <1>1, <1>2, <1>3, <1>4, <1>5, <1>6, Zenon

\* The step of AcceptSend.
LEMMA AcceptSendKeeps ==
  ASSUME Good(c, srv, late, log), AcceptSend
  PROVE  /\ GoodStep /\ c'.new = c.new /\ c'.creation = c.creation /\ c'.active = c.active
         /\ c'.post = c.post /\ c'.read = c.read /\ c'.meta /\ c'.view[c.active].run = c.post.run
         /\ \A u \in Threads : u # c.active => c'.view[u] = c.view[u] /\ c'.proj[u] = c.proj[u]
         /\ LET t == c.active
                mine == c.subs[t].id = c.post.send /\ c.subs[t].status = "pending"
            IN  \A u \in Threads :
                  /\ c'.drafts[u] = IF u = t
                     /\ mine THEN Emptied(c.drafts[t], c.subs[t]) ELSE c.drafts[u]
                  /\ c'.subs[u] = IF u = t /\ mine
                                  THEN [c.subs[t] EXCEPT !.status = "accepted", !.run = c.post.run]
                                  ELSE c.subs[u]
<1> DEFINE t == c.active
<1> DEFINE p == c.proj[t]
<1> DEFINE run == c.post.run
<1> DEFINE q == Metadata(p, run, FALSE)
<1> DEFINE told == Opened(c, t, q)
<1> DEFINE pub == Publish(told, t)
<1> DEFINE shown == Verified(pub, t)
<1> DEFINE y == SyncRun(shown, t, run, FALSE)
<1>1. /\ c \in Store /\ BackendOK(srv) /\ Fine(c, srv, log) /\ ViewOK(c, srv) /\ UnderWay(c)
         /\ Ahead(c, srv)
      /\ log \in Logs /\ late \subseteq 0..Len(log.sent)
      /\ UNCHANGED <<srv, late>> /\ run # 0 /\ ~c.meta
      /\ log' = [log EXCEPT !.known = @ \cup {c.post.send}]
  BY SMTT(30) DEF Good, Fine, AcceptSend, ViewOK
<1>2. c' = Accept(Verified(Publish(SyncRun(told, t, run, FALSE), t), t), t, c.post.send, run)
  BY DEF Opened, AcceptSend, Verified
<1>3. c.post.send \in Nat /\ run \in Nat /\ c.post.send # 0
  BY <1>1 DEF UnderWay, Store, Posts
<1>4. /\ t \in Threads /\ c.up /\ t # New /\ c.read.phase = "none" /\ c.view[t].history = "ready"
      /\ c.summary.phase = "none" /\ c.follow = "post" /\ srv \in Backends
  BY <1>1, <1>3, ConversationConstants DEF UnderWay, Store, Quiet, BackendOK, Sending
<1>5. p \in Projections /\ KnownOK(p, srv[t]) /\ srv[t] \in Histrs
  BY <1>1, <1>4 DEF Store, ViewOK, ThreadOK, Backends
<1>6. p.run < run /\ run <= Len(srv[t].runs) /\ run \in 1..Len(srv[t].runs) /\ p.run <= run
  BY <1>1, <1>3, <1>5 DEF Ahead, Projections, Histrs
<1>7. log' \in Logs /\ log'.sent = log.sent
  BY <1>1, <1>3 DEF Logs
<1> HIDE DEF t, p, run
<1>8. /\ q \in Projections /\ KnownOK(q, srv[t]) /\ q.run = run /\ p.over \subseteq q.over
  BY <1>3, <1>5, <1>6, MetadataKeeps, Zenon
<1>9. q.run >= p.run /\ q.run # 0
  BY <1>1, <1>3, <1>5, <1>6, <1>8, Zenon DEF Projections, run
<1> HIDE DEF q
<1>10. /\ told \in Store /\ SameList(c, told) /\ SameInputs(c, told)
       /\ told.up = c.up /\ told.active = c.active /\ told.view = c.view /\ told.read = c.read
       /\ told.summary = c.summary /\ told.post = c.post /\ told.follow = c.follow /\ told.meta
       /\ told.snap = c.snap /\ told.commit = c.commit
       /\ \A u \in Threads : told.proj[u] = IF u = t THEN q ELSE c.proj[u]
  <2>1. c \in Store /\ t \in Threads /\ q \in Projections
    BY <1>1, <1>4, <1>8
  <2>2. told = Opened(c, t, q)
    OBVIOUS
  <2> HIDE DEF told
  <2> QED BY <2>1, <2>2, OpenedEffect
<1> HIDE DEF told
<1>11. c' = Accept(y, t, c.post.send, run)
  BY <1>2, <1>3, <1>4, <1>10, SyncFirst, Zenon
<1>12. /\ pub \in Store /\ SameWork(told, pub) /\ SameList(told, pub) /\ SameInputs(told, pub)
       /\ pub.proj = told.proj /\ pub.read = told.read
       /\ \A u \in Threads : u # t => pub.view[u] = told.view[u]
       /\ pub.view[t].run = told.proj[t].run
       /\ pub.view[t].over = (told.proj[t].run \in told.proj[t].over)
       /\ pub.view[t].history = told.view[t].history
  BY <1>4, <1>10, PublishShows
<1> HIDE DEF pub
<1>13. /\ shown \in Store /\ SameList(pub, shown) /\ SameInputs(pub, shown) /\ SameWork(pub, shown)
       /\ shown.proj = pub.proj /\ shown.read = pub.read
       /\ \A u \in Threads : u # t => shown.view[u] = pub.view[u]
       /\ shown.view[t].run = pub.view[t].run /\ shown.view[t].over = pub.view[t].over
       /\ shown.view[t].history = pub.view[t].history
  BY <1>4, <1>12, VerifiedEffect
<1> HIDE DEF shown
<1>14. /\ SameList(c, shown) /\ shown.creation = c.creation
       /\ shown.up = c.up /\ shown.active = c.active /\ shown.read.phase = "none"
       /\ shown.summary = c.summary /\ shown.post = c.post /\ shown.follow = "post" /\ shown.meta
       /\ shown.snap = c.snap /\ shown.commit = c.commit
  BY <1>4, <1>10, <1>12, <1>13 DEF SameList, SameWork, SameInputs
<1>15. told.proj[t] = q /\ shown.view[t].over = (q.run \in q.over)
       /\ shown.view[t].history = "ready"
  BY <1>4, <1>10, <1>12, <1>13
<1>16. Better(c, shown, t, q, srv[t])
  <2>1. shown.view[t].run = q.run
    BY <1>12, <1>13, <1>15
  <2> QED BY <1>4, <1>8, <1>9, <1>10, <1>12, <1>13, <1>14, <1>15, <2>1 DEF Better, t, p
<1>17. UnderWay(shown) /\ Ahead(shown, srv)
  <2>1. shown.active = t /\ shown.proj[t] = q /\ shown.list = c.list
    BY <1>12, <1>13, <1>14, <1>15 DEF SameList, t
  <2>3. shown.list.phase # "none" => shown.up
    BY <1>1, <1>14, <2>1 DEF UnderWay
  <2>4. UnderWay(shown)
    BY <1>1, <1>3, <1>4, <1>9, <1>14, <1>15, <2>1, <2>3 DEF UnderWay, Sending, run
  <2> QED BY <1>14, <2>4 DEF Ahead
<1>18. Fine(shown, srv, log) /\ Shift(c, shown)
  BY <1>4, <1>14, <1>1, <1>8, <1>13, <1>16, <1>17, ShowFine
<1>19. /\ y \in Store /\ SameShown(shown, y) /\ SameInputs(shown, y) /\ Fine(y, srv, log)
       /\ \A u \in Threads : u # t => y.items[u] = shown.items[u]
  <2>1. PICK over \in BOOLEAN : ~over
    BY Zenon
  <2>2. y = SyncRun(shown, t, run, over)
    BY <2>1, Zenon
  <2> HIDE DEF y
  <2> QED BY <1>3, <1>4, <1>6, <1>13, <1>18, <2>1, <2>2, SyncKeeps
<1> HIDE DEF y
<1>20. c' \in Store /\ InputsOnly(y, c')
  BY <1>3, <1>4, <1>11, <1>19, AcceptEffect, Zenon
<1>21. Fine(c', srv, log)
  BY <1>19, <1>20, InputsOnlyKeeps
<1>22. c'.view = shown.view /\ c'.active = t /\ \A u \in Threads : u # t
       => c'.items[u] = shown.items[u]
  BY <1>14, <1>19, <1>20 DEF SameShown, InputsOnly, SameList, t
<1>23. SameInputs(c, y) /\ y.post = c.post /\ y.read = c.read /\ y.meta /\ y.proj = told.proj
  BY <1>10, <1>12, <1>13, <1>14, <1>19 DEF SameInputs, SameShown
<1>24. /\ c'.creation = c.creation /\ c'.post = c.post /\ c'.read = c.read /\ c'.meta
       /\ c'.proj = told.proj
  BY <1>20, <1>23 DEF InputsOnly, SameShown, SameInputs
<1>25. /\ c'.new = c.new
       /\ LET mine == c.subs[t].id = c.post.send /\ c.subs[t].status = "pending"
          IN  \A u \in Threads :
                /\ c'.drafts[u] = IF u = t
                   /\ mine THEN Emptied(c.drafts[t], c.subs[t]) ELSE c.drafts[u]
                /\ c'.subs[u] = IF u = t /\ mine
                                THEN [c.subs[t] EXCEPT !.status = "accepted", !.run = run]
                                ELSE c.subs[u]
  <2>1. y.drafts = c.drafts /\ y.subs = c.subs /\ y.new = c.new
    BY <1>23 DEF SameInputs
  <2> DEFINE id == c.post.send
  <2>2. c' = Accept(y, t, id, run) /\ y \in Store /\ t \in Threads /\ id \in Nat /\ run \in Nat
    BY <1>3, <1>4, <1>11, <1>19
  <2> HIDE DEF id
  <2>3. /\ c'.new = y.new
        /\ \A u \in Threads :
             /\ c'.drafts[u] = IF u = t /\ (y.subs[t].id = id /\ y.subs[t].status = "pending")
                               THEN Emptied(y.drafts[t], y.subs[t]) ELSE y.drafts[u]
             /\ c'.subs[u] = IF u = t /\ (y.subs[t].id = id /\ y.subs[t].status = "pending")
                             THEN [y.subs[t] EXCEPT !.status = "accepted", !.run = run] ELSE y.subs[u]
    <3> DEFINE r == Accept(y, t, id, run)
    <3>1. /\ r.new = y.new
          /\ \A u \in Threads :
               /\ r.drafts[u] = IF u = t /\ (y.subs[t].id = id /\ y.subs[t].status = "pending")
                                THEN Emptied(y.drafts[t], y.subs[t]) ELSE y.drafts[u]
               /\ r.subs[u] = IF u = t /\ (y.subs[t].id = id /\ y.subs[t].status = "pending")
                              THEN [y.subs[t] EXCEPT !.status = "accepted", !.run = run] ELSE y.subs[u]
      BY <2>2, AcceptEffect, ZenonT(60)
    <3> HIDE DEF r
    <3> QED BY <2>2, <3>1 DEF r
  <2> QED BY <2>1, <2>3 DEF id
<1>26. \A u \in Threads : u # t => c'.view[u] = c.view[u] /\ c'.proj[u] = c.proj[u]
  BY <1>10, <1>12, <1>13, <1>22, <1>24
<1>27. c'.view[t].run = run
  BY <1>8, <1>12, <1>13, <1>15, <1>22
<1>28. GoodStep
  BY <1>1, <1>7, <1>13, <1>18, <1>20, <1>21, <1>22, StreamStep, Zenon
<1> QED BY <1>22, <1>24, <1>25, <1>26, <1>27, <1>28, SMTT(30) DEF t, run

-----------------------------------------------------------------------------
(* The actions of the thread list. *)

\* A step of the window that may list something new.
LEMMA ListStep ==
  ASSUME Good(c, srv, late, log), UNCHANGED <<srv, late, log>>, c' \in Store, Fine(c', srv, log),
         \A t \in Threads : Forward(c.view[t], c'.view[t]) /\ Forward(c.items[t], c'.items[t])
  PROVE  GoodStep
BY DEF Good, GoodStep, Onward

\* The step of AnswerList.
LEMMA AnswerListKeeps ==
  ASSUME Good(c, srv, late, log), AnswerList
  PROVE  GoodStep
<1>1. /\ c \in Store /\ BackendOK(srv) /\ srv \in Backends /\ Fine(c, srv, log)
         /\ ListOK(c.items, c.list, c.more, srv)
      /\ log \in Logs /\ late \subseteq 0..Len(log.sent)
      /\ UNCHANGED <<srv, late, log>> /\ c.list \in Requests /\ c.more \in Requests /\ UnderWay(c)
  BY DEF Good, AnswerList, Fine, Store, BackendOK, ViewOK
<1>2. \A t \in Threads : Forward(c.items[t], SumOf(srv[t]))
  BY <1>1 DEF ListOK
<1>3. ASSUME NEW q \in Requests, RequestOK(q, c.items, srv), NEW r \in Requests, NEW cursor \in Nat,
             NEW m,
             m = [r EXCEPT !.phase = "answer", !.ans = Page(cursor)]
      PROVE  /\ m \in Requests /\ m.phase = "answer"
             /\ RequestOK(m, c.items, srv) /\ InOrder(m, q) /\ InOrder(q, m)
  <2>1. /\ Page(cursor) \in Pages
        /\ \A t \in DOMAIN Page(cursor).items :
             t \in Threads /\ srv[t].stamp > 0 /\ Page(cursor).items[t] = SumOf(srv[t])
    BY <1>1, PageType
  <2>2. m \in Requests /\ m.phase = "answer" /\ m.ans = Page(cursor)
    BY <1>3, <2>1, Zenon DEF Requests
  <2>3. DOMAIN q.ans.items \subseteq Threads
        /\ \A t \in DOMAIN q.ans.items : q.ans.items[t].stamp \in Int
    BY RequestDomain DEF Items
  <2>4. DOMAIN m.ans.items \subseteq Threads
    BY <2>1, <2>2
  <2>5. \A t \in DOMAIN m.ans.items : srv[t].stamp > 0 /\ m.ans.items[t] = SumOf(srv[t])
    BY <2>1, <2>2
  <2> QED BY <1>1, <1>2, <1>3, <2>2, <2>3, <2>4, <2>5, NewAnswer, ZenonT(60)
<1>4. CASE c.list.phase = "sent" /\ c' = [c EXCEPT !.list.phase = "answer", !.list.ans = Page(0)]
  <2> DEFINE m == [c.list EXCEPT !.phase = "answer", !.ans = Page(0)]
  <2>1. /\ m \in Requests /\ m.phase = "answer"
        /\ RequestOK(m, c.items, srv) /\ InOrder(m, c.more) /\ InOrder(c.more, m)
    BY <1>1, <1>3, Zenon DEF ListOK
  <2>2. c' = [c EXCEPT !.list = m]
    BY <1>1, <1>4, Zenon DEF Store
  <2> HIDE DEF m
  <2>3. c' \in Store
    BY <1>1, <2>1, <2>2 DEF Store
  <2>4. SameShown(c, c') /\ SameInputs(c, c') /\ c'.items = c.items /\ c'.list = m
        /\ c'.more = c.more
    BY <1>1, <2>2 DEF Store, SameShown, SameInputs
  <2>6. c'.list.phase # "none" => c.up
    BY <1>1, <1>4 DEF UnderWay
  <2>7. Fine(c', srv, log) /\ Shift(c, c')
    BY <1>1, <2>3, <2>4, <2>1, <2>6, ListKeeps DEF SameInputs, ListOK
  <2> QED BY <1>1, <2>3, <2>7, WindowStep DEF GoodStep
<1>5. CASE c.more.phase = "sent" /\ c' = [c EXCEPT !.more.phase = "answer", !.more.ans = Page(c.more.cursor)]
  <2> DEFINE m == [c.more EXCEPT !.phase = "answer", !.ans = Page(c.more.cursor)]
  <2>1. /\ m \in Requests /\ m.phase = "answer"
        /\ RequestOK(m, c.items, srv) /\ InOrder(m, c.list) /\ InOrder(c.list, m)
    BY <1>1, <1>3, Zenon DEF ListOK, Requests
  <2>2. c' = [c EXCEPT !.more = m]
    BY <1>1, <1>5, Zenon DEF Store
  <2> HIDE DEF m
  <2>3. c' \in Store
    BY <1>1, <2>1, <2>2 DEF Store
  <2>4. SameShown(c, c') /\ SameInputs(c, c') /\ c'.items = c.items /\ c'.more = m
        /\ c'.list = c.list
    BY <1>1, <2>2 DEF Store, SameShown, SameInputs
  <2>7. Fine(c', srv, log) /\ Shift(c, c')
    BY <1>1, <2>3, <2>4, <2>1, ListKeeps DEF SameInputs, ListOK, UnderWay
  <2> QED BY <1>1, <2>3, <2>7, WindowStep DEF GoodStep
<1> QED BY <1>4, <1>5 DEF AnswerList

\* What is left of a list request when its answer is merged.
LEMMA MergedKeeps ==
  ASSUME NEW s \in Store, NEW b \in Backends, NEW g, Fine(s, b, g), NEW r \in Requests,
         NEW q \in Requests,
         r.phase = "answer", {r, q} = {s.list, s.more},
         NEW m, m = MergeThreads(s, r),
         NEW x \in Store, SameShown(m, x), SameInputs(m, x), x.items = m.items,
         (x.list = q /\ x.more = NoRequest /\ s.list = q) \/ (x.list = NoRequest /\ x.more = q)
  PROVE  /\ Fine(x, b, g)
         /\ \A t \in Threads : Forward(s.view[t], x.view[t]) /\ Forward(s.items[t], x.items[t])
<1>4. /\ m \in Store /\ SameShown(s, m) /\ SameInputs(s, m)
      /\ RequestOK(q, m.items, b)
      /\ \A t \in Threads :
           /\ Forward(s.items[t], m.items[t]) /\ Forward(m.items[t], SumOf(b[t]))
           /\ b[t].stamp = 0 => m.items[t] = s.items[t]
  BY MergeThreadsKeeps DEF ListOK, Fine
<1>5. SameShown(s, x) /\ SameInputs(s, x)
  BY <1>4 DEF SameShown, SameInputs
<1>6. NoRequest.phase = "none"
  BY DEF NoRequest
<1>7. ListOK(x.items, x.list, x.more, b)
  BY <1>4, <1>6 DEF RequestOK, InOrder, ListOK
<1>9. ViewOK(x, b)
  BY <1>5, <1>6, SameView DEF Fine, ViewOK, UnderWay, SameShown
<1>10. PostOK(x, g) /\ CreationOK(x.creation, x.up, b, g) /\ UnmadeOK(x, b, g)
  BY <1>4, <1>5 DEF Fine, PostOK, UnmadeOK, SameShown, SameInputs
<1> QED BY <1>7, <1>9, <1>10, <1>4, <1>5, ForwardSelf DEF Fine, SameShown

Listed(m, cursor, err) ==
  [m EXCEPT !.list = NoRequest, !.loaded = TRUE, !.reset = FALSE, !.cursor = cursor, !.pageError = err]
Paged(m, cursor) == [m EXCEPT !.more = NoRequest, !.cursor = cursor]

\* What the arrival of the list changes, its items aside.
LEMMA ListedEffect ==
  ASSUME NEW m \in Store, NEW cursor \in Nat, NEW err \in BOOLEAN, NEW x, x = Listed(m, cursor, err)
  PROVE  /\ x \in Store /\ SameShown(m, x) /\ SameInputs(m, x) /\ x.items = m.items
         /\ x.list = NoRequest /\ x.more = m.more
BY Blank, ZenonT(60) DEF Listed, Store, SameShown, SameInputs

\* What the arrival of a page changes, its items aside.
LEMMA PagedEffect ==
  ASSUME NEW m \in Store, NEW cursor \in Nat, NEW x, x = Paged(m, cursor)
  PROVE  /\ x \in Store /\ SameShown(m, x) /\ SameInputs(m, x) /\ x.items = m.items
         /\ x.more = NoRequest /\ x.list = m.list
BY Blank, ZenonT(60) DEF Paged, Store, SameShown, SameInputs

\* What merging keeps of the store.
LEMMA MergeEffect ==
  ASSUME NEW s \in Store, NEW b \in Backends, NEW g, Fine(s, b, g), NEW r \in Requests,
         r.phase = "answer",
         r \in {s.list, s.more}
  PROVE  MergeThreads(s, r) \in Store /\ MergeThreads(s, r).list = s.list
         /\ MergeThreads(s, r).more = s.more
BY MergeThreadsKeeps DEF Fine, Store, ListOK

\* Merging a page changes the list alone.
LEMMA MergeOnly ==
  ASSUME NEW s \in Store, NEW r
  PROVE  LET m == MergeThreads(s, r)
         IN  SameShown(s, m) /\ SameInputs(s, m)
BY DEF MergeThreads, Store, SameShown, SameInputs

\* The step of ReceiveMore.
LEMMA ReceiveMoreKeeps ==
  ASSUME Good(c, srv, late, log), ReceiveMore
  PROVE  GoodStep /\ Calms
<1> DEFINE m == MergeThreads(c, c.more)
<1>1. /\ c \in Store /\ srv \in Backends /\ Fine(c, srv, log) /\ c.more.phase = "answer"
      /\ UNCHANGED <<srv, late, log>> /\ c.list \in Requests /\ c.more \in Requests
  BY DEF Good, ReceiveMore, Store, BackendOK
<1>3. c' = Paged(m, c.more.ans.next)
  BY DEF ReceiveMore, Paged
<1>4. m \in Store /\ m.list = c.list
  BY <1>1, MergeEffect
<1>7. SameShown(c, m) /\ SameInputs(c, m)
  BY <1>1, MergeOnly
<1> HIDE DEF m
<1>5. c' \in Store /\ SameShown(m, c') /\ SameInputs(m, c') /\ c'.items = m.items
      /\ c'.more = NoRequest /\ c'.list = c.list
  BY <1>1, <1>3, <1>4, PagedEffect, ZenonT(60) DEF Requests, Pages
<1>6. /\ Fine(c', srv, log)
      /\ \A t \in Threads : Forward(c.view[t], c'.view[t]) /\ Forward(c.items[t], c'.items[t])
  BY <1>1, <1>5, MergedKeeps DEF m
<1>8. SameShown(c, c') /\ SameInputs(c, c')
  BY <1>5, <1>7 DEF SameShown, SameInputs
<1> QED BY <1>1, <1>5, <1>6, <1>8, ListStep, SameBoth DEF Calms

\* The step of ReceiveList.
LEMMA ReceiveListKeeps ==
  ASSUME Good(c, srv, late, log), ReceiveList
  PROVE  GoodStep /\ Calms
<1> DEFINE t == c.active
<1> DEFINE run == c.list.ans.items[t].run
<1> DEFINE told == IF SelectedIsNews(c) THEN ReconcileSummary(c, t, run) ELSE c
<1> DEFINE m == MergeThreads(told, c.list)
<1> DEFINE cursor == IF c.reset THEN c.list.ans.next ELSE m.cursor
<1> DEFINE err == m.pageError /\ ~c.reset
<1> DEFINE x == Listed(m, cursor, err)
<1>1. /\ c \in Store /\ srv \in Backends /\ Fine(c, srv, log) /\ UnderWay(c)
         /\ c.list.phase = "answer"
      /\ UNCHANGED <<srv, late, log>> /\ c.list \in Requests /\ c.more \in Requests
  BY SMTT(30) DEF Good, ReceiveList, Store, BackendOK, Fine, ViewOK
<1>3. /\ told \in Store /\ Fine(told, srv, log) /\ Shift(c, told)
      /\ told.list = c.list /\ told.more = c.more /\ Settles(c, told) /\ Dims(c, told)
  <2>1. CASE SelectedIsNews(c)
    <3>2. t \in Threads /\ c.list.ans.items[t] \in Items
      BY <1>1, <2>1, RequestDomain DEF SelectedIsNews
    <3>3. run \in Nat /\ told = ReconcileSummary(c, t, run)
      BY <2>1, <3>2 DEF Items
    <3>4. t = c.active
      OBVIOUS
    <3> HIDE DEF t, run, told
    <3>7. Settles(c, told) /\ Dims(c, told)
      BY <1>1, <3>2, <3>3, ReconcileEffect, StillBoth
    <3> QED BY <1>1, <3>2, <3>3, <3>4, <3>7, ReconcileKeeps DEF SameList, UnderWay
  <2>2. CASE ~SelectedIsNews(c)
    <3>1. told = c
      BY <2>2
    <3> HIDE DEF told
    <3> QED BY <1>1, <3>1, SameBoth, SameShift DEF SameInputs, SameShown
  <2> QED BY <2>1, <2>2
<1>4. c' = EndListing(x)
  BY DEF ReceiveList, Listed
<1> HIDE DEF told
<1>5. m \in Store /\ m.list = c.list /\ m.more = c.more
  BY <1>1, <1>3, MergeEffect
<1>6. cursor \in Nat /\ err \in BOOLEAN
  BY <1>1, <1>5 DEF Requests, Pages, Store
<1>11. SameShown(told, m) /\ SameInputs(told, m)
  BY <1>3, MergeOnly
<1> HIDE DEF m, cursor, err
<1>7. x \in Store /\ SameShown(m, x) /\ SameInputs(m, x) /\ x.items = m.items /\ x.list = NoRequest
      /\ x.more = c.more
  BY <1>5, <1>6, ListedEffect
<1> HIDE DEF x
<1>8. /\ Fine(x, srv, log)
      /\ \A u \in Threads : Forward(told.view[u], x.view[u]) /\ Forward(told.items[u], x.items[u])
  BY <1>3, <1>1, <1>7, MergedKeeps DEF m
<1>9. c' \in Store /\ SameShown(x, c') /\ SameList(x, c') /\ Fine(c', srv, log)
  BY <1>4, <1>7, <1>8, EndListingKeeps
<1>10. \A u \in Threads : Forward(c.view[u], c'.view[u]) /\ Forward(c.items[u], c'.items[u])
  <2> SUFFICES ASSUME NEW u \in Threads
               PROVE  Forward(c.view[u], c'.view[u]) /\ Forward(c.items[u], c'.items[u])
    OBVIOUS
  <2>1. c.view[u] \in Views /\ told.view[u] \in Views /\ x.view[u] \in Views
    BY <1>1, <1>3, <1>7 DEF Store
  <2>4. c'.view = x.view /\ c'.items = x.items
    BY <1>9 DEF SameShown, SameList
  <2> QED BY <2>1, <1>3, <1>8, <2>4 DEF Forward, Views, Shift
<1>12. Settles(told, x) /\ Dims(told, x)
  BY <1>7, <1>11, SameBoth DEF SameShown, SameInputs
<1>13. Settles(c, x) /\ Dims(c, x)
  BY <1>1, <1>3, <1>7, <1>12, SettlesTrans, DimsTrans
<1>14. Settles(x, c') /\ Dims(x, c')
  BY <1>8, <1>4, <1>7, EndListingSettles DEF Fine, CreationOK
<1>15. Calms
  BY <1>1, <1>7, <1>9, <1>13, <1>14, SettlesTrans, DimsTrans DEF Calms
<1> QED BY <1>1, <1>9, <1>10, <1>15, ListStep, SMTT(30)

\* The step of Poll.
LEMMA PollKeeps ==
  ASSUME Good(c, srv, late, log), Poll
  PROVE  GoodStep
BY LoadKeeps, WindowStep, Zenon DEF Good, Poll, GoodStep

\* The step of ReloadThreads.
LEMMA ReloadThreadsKeeps ==
  ASSUME Good(c, srv, late, log), ReloadThreads
  PROVE  GoodStep
BY EndListingKeeps, LoadKeeps, ShiftTrans, EventType, WindowStep, Zenon DEF Good, ReloadThreads,
  GoodStep

\* The step of LoadMore.
LEMMA LoadMoreKeeps ==
  ASSUME Good(c, srv, late, log), LoadMore
  PROVE  GoodStep
<1> DEFINE q == [NoRequest EXCEPT !.phase = "sent", !.cursor = c.cursor]
<1>1. /\ c \in Store /\ Fine(c, srv, log) /\ log \in Logs /\ late \subseteq 0..Len(log.sent)
      /\ UNCHANGED <<srv, late>> /\ Event /\ c' = [c EXCEPT !.more = q, !.pageError = FALSE]
      /\ UnderWay(c) /\ ListOK(c.items, c.list, c.more, srv) /\ c.cursor \in Nat
  BY DEF Good, LoadMore, Fine, ViewOK, Store
<1>2. q \in Requests /\ q.phase = "sent"
  BY <1>1, Blank, Zenon DEF Requests
<1> HIDE DEF q
<1>3. c' \in Store
  BY <1>1, <1>2, ZenonT(60) DEF Store
<1>4. SameShown(c, c') /\ SameInputs(c, c') /\ c'.items = c.items /\ c'.more = q /\ c'.list = c.list
  BY <1>1 DEF Store, SameShown, SameInputs
<1>7. Fine(c', srv, log) /\ Shift(c, c')
  BY <1>1, <1>3, <1>4, <1>2, FreshList, ListKeeps, ZenonT(60) DEF SameInputs, UnderWay
<1>8. log' \in Logs /\ log'.sent = log.sent
  BY <1>1, EventType
<1> QED BY <1>1, <1>3, <1>7, <1>8, WindowStep DEF GoodStep

-----------------------------------------------------------------------------
(* The actions of the user that turn to a conversation or away. *)

\* The step of Hide.
LEMMA HideKeeps ==
  ASSUME Good(c, srv, late, log), Hide
  PROVE  GoodStep
BY RevokeKeeps, EventType, AbortsType, WindowStep DEF Good, Hide, GoodStep

\* The step of AskReload.
LEMMA AskReloadKeeps ==
  ASSUME Good(c, srv, late, log), AskReload
  PROVE  GoodStep
BY ReloadKeeps, EventType, AbortsType, WindowStep DEF Good, AskReload, GoodStep

\* The step of OpenNew.
LEMMA OpenNewKeeps ==
  ASSUME Good(c, srv, late, log), OpenNew
  PROVE  GoodStep
BY ConversationConstants, ActivateKeeps, EventType, AbortsType, WindowStep, Zenon DEF Good, OpenNew,
   GoodStep

\* The step of Select.
LEMMA SelectKeeps ==
  ASSUME Good(c, srv, late, log), NEW t \in Threads, Select(t)
  PROVE  GoodStep
<1> DEFINE x == Activate(c, t)
<1>1. /\ c \in Store /\ Fine(c, srv, log) /\ log \in Logs /\ c.items[t] # NoItem
      /\ UNCHANGED srv /\ Aborts /\ Event /\ c' = Enter(x, FALSE)
  BY DEF Good, Select
<1>2. srv[t].stamp # 0
  BY <1>1 DEF Fine, UnmadeOK
<1>3. x \in Store /\ Fine(x, srv, log) /\ Shift(c, x)
  BY <1>1, <1>2, ActivateKeeps, Zenon
<1> HIDE DEF x
<1> QED BY <1>1, <1>3, AbortsType, EventType, EnterKeeps, ShiftTrans, WindowStep, Zenon DEF GoodStep

\* The window is there again: nothing was under way.
Shown(s) == [s EXCEPT !.up = TRUE]

\* The page shown again keeps what is true of a store.
LEMMA ShownKeeps ==
  ASSUME NEW s \in Store, NEW b, NEW g, Fine(s, b, g), ~s.up, NEW r, r = Shown(s)
  PROVE  r \in Store /\ Fine(r, b, g) /\ Shift(s, r)
<1>1. r \in Store
  BY Zenon DEF Store, Shown
<1>2. /\ r.active = s.active /\ r.view = s.view /\ r.proj = s.proj /\ r.read = s.read
      /\ r.summary = s.summary /\ r.post = s.post /\ r.follow = s.follow /\ r.meta = s.meta
      /\ r.snap = s.snap /\ r.commit = s.commit /\ r.creation = s.creation /\ r.up
      /\ SameList(s, r)
  BY DEF Store, Shown, SameList
<1>5. ViewOK(r, b)
  BY <1>1, <1>2, QuietView DEF Fine, Quiet, ViewOK, UnderWay
<1>6. Shift(s, r)
  BY <1>1, <1>2, SameShift DEF SameList
<1> QED BY <1>1, <1>2, <1>5, <1>6 DEF Fine, SameList, PostOK, CreationOK, UnmadeOK

\* The step of Show.
LEMMA ShowAgainKeeps ==
  ASSUME Good(c, srv, late, log), Show
  PROVE  GoodStep
<1> DEFINE x == Shown(c)
<1>1. /\ c \in Store /\ Fine(c, srv, log) /\ log \in Logs /\ late \subseteq 0..Len(log.sent)
      /\ UNCHANGED <<srv, late, log>> /\ ~c.up /\ c' = Enter(x, TRUE)
  BY DEF Good, Show, Shown
<1>2. x \in Store /\ Fine(x, srv, log) /\ Shift(c, x)
  BY <1>1, ShownKeeps
<1> HIDE DEF x
<1> QED BY <1>1, <1>2, EnterKeeps, ShiftTrans, WindowStep, Zenon DEF GoodStep

\* Noting that the outcome of a send is unknown changes what was typed alone.
LEMMA MarkKeeps ==
  ASSUME NEW s \in Store, NEW t \in Threads
  PROVE  MarkUnknown(s, t) \in Store /\ InputsOnly(s, MarkUnknown(s, t))
<1> DEFINE m == MarkUnknown(s, t)
<1> HIDE DEF m
<1> QED BY MarkEffect, Zenon DEF m, InputsOnly

\* A POST that failed may still be handled.
LEMMA FailSendKeeps ==
  ASSUME Good(c, srv, late, log), NEW status \in {0, 409, 422}, FailSend(status)
  PROVE  GoodStep
<1> DEFINE x == IF Refused(status) THEN Rejected(c, c.active) ELSE MarkUnknown(c, c.active)
<1>1. /\ c \in Store /\ Fine(c, srv, log) /\ log \in Logs /\ late \subseteq 0..Len(log.sent)
      /\ UNCHANGED srv /\ c' = Reload(x) /\ c.post.send # 0
      /\ (UNCHANGED log \/ Event)
      /\ \A y \in late' : y \in late \/ y = c.post.send
  BY DEF Good, FailSend, Sending
<1>2. c.active \in Threads
  BY <1>1 DEF Fine, ViewOK, Store, UnderWay, Quiet, NoPost
<1>3. x \in Store /\ InputsOnly(c, x)
  BY <1>1, <1>2, RejectedEffect, MarkKeeps
<1> HIDE DEF x
<1>4. Fine(x, srv, log) /\ Shift(c, x)
  BY <1>1, <1>3, InputsOnlyKeeps
<1>5. c' \in Store /\ Fine(c', srv, log) /\ Shift(x, c')
  BY <1>1, <1>3, <1>4, ReloadKeeps
<1>6. Shift(c, c')
  BY <1>1, <1>3, <1>4, <1>5, ShiftTrans
<1>8. late' \subseteq 0..Len(log.sent)
  <2>5. ASSUME NEW y \in late' PROVE y \in 0..Len(log.sent)
    <3>1. CASE y \in late
      BY <1>1, <3>1
    <3>2. CASE y = c.post.send
      BY <1>1, <3>2 DEF Fine, PostOK, Store, Posts, Logs
    <3> QED BY <1>1, <3>1, <3>2
  <2> QED BY <2>5
<1> QED BY <1>1, <1>5, <1>6, <1>8, EventType, NoEvent, WindowStep DEF GoodStep

-----------------------------------------------------------------------------
(* The actions of the user that change drafts and submissions. *)

\* A step that changes drafts and submissions only.
LEMMA InputStep ==
  ASSUME Good(c, srv, late, log), UNCHANGED <<srv, late>>, c' \in Store, InputsOnly(c, c'),
         log' \in Logs, log'.sent = log.sent
  PROVE  GoodStep
BY InputsOnlyKeeps, WindowStep DEF Good, GoodStep

\* The step of Type.
LEMMA TypeKeeps ==
  ASSUME Good(c, srv, late, log), Type
  PROVE  GoodStep
<1> DEFINE n == log.texts + 1
<1>1. /\ c \in Store /\ log \in Logs /\ UNCHANGED <<srv, late>> /\ log.texts < MaxTexts
      /\ c' = IF c.active = New THEN UpdateNew(c, {n}) ELSE Update(c, c.active, {n})
  BY DEF Good, Type
<1>2. PICK S : log' = [log EXCEPT !.texts = n, !.events = @ + 1, !.mine = (@ \ S) \cup {n}]
  BY Zenon DEF Type
<1>3. n \in 1..MaxTexts
  BY <1>1, ConversationConstants DEF Logs
<1>5. n \in 0..MaxTexts /\ (log.mine \ S) \cup {n} \in Texts
  BY <1>1, <1>3 DEF Texts, Logs
<1> HIDE DEF n
<1>6. log' \in Logs /\ log'.sent = log.sent
  <2> DEFINE mine == (log.mine \ S) \cup {n}
  <2> DEFINE events == log.events + 1
  <2>1. mine \in Texts /\ log' = [log EXCEPT !.texts = n, !.events = events, !.mine = mine]
    BY <1>1, <1>2, <1>5 DEF Logs
  <2>2. log \in Logs /\ n \in 0..MaxTexts /\ events \in Nat
    BY <1>1, <1>5 DEF Logs
  <2> HIDE DEF mine, events
  <2> QED BY <2>1, <2>2, Zenon DEF Logs
<1> QED BY <1>1, <1>6, <1>3, UpdateNewEffect, UpdateEffect, InputStep DEF Store, Texts

\* The step of ConfirmSend.
LEMMA ConfirmSendKeeps ==
  ASSUME Good(c, srv, late, log), ConfirmSend
  PROVE  GoodStep
<1> DEFINE sub == c.subs[c.active]
<1>1. /\ c \in Store /\ log \in Logs /\ UNCHANGED <<srv, late>>
      /\ c.active # New /\ c' = Confirm(c, c.active)
  BY DEF Good, ConfirmSend
<1>2. c.active \in Threads
  BY <1>1 DEF Store
<1>3. PICK mine \in {log.mine, log.mine \ sub.text} :
        log' = [log EXCEPT !.known = @ \cup {sub.id}, !.mine = mine]
  BY Zenon DEF ConfirmSend
<1>4. sub.id \in Nat
  BY <1>1, <1>2 DEF Store, Submissions
<1> QED BY <1>1, <1>3, <1>4, <1>2, ConfirmEffect, InputStep, Zenon DEF Logs, Texts

-----------------------------------------------------------------------------
(* The actions of the user that send. *)

\* A step of the window that may send, and list something new.
LEMMA SendStep ==
  ASSUME Good(c, srv, late, log), UNCHANGED srv, c' \in Store, Fine(c', srv, log'),
         \A t \in Threads : Forward(c.view[t], c'.view[t]) /\ Forward(c.items[t], c'.items[t]),
         log' \in Logs, Len(log.sent) <= Len(log'.sent), late' \subseteq 0..Len(log.sent)
  PROVE  GoodStep
BY DEF Good, Logs, GoodStep, Onward

\* A send joins the sends, last.
LEMMA NewSendType ==
  ASSUME log \in Logs, NEW t \in Threads, NEW text \in Texts, NEW explicit \in BOOLEAN,
         NewSend(t, text, explicit),
         NEW x, x = [thread |-> t, text |-> text, explicit |-> explicit]
  PROVE  log' \in Logs /\ log'.sent = Append(log.sent, x) /\ x \in Sent /\ x.thread = t
<1>1. x \in Sent /\ x.thread = t
  BY DEF Sent
<1> DEFINE sent == Append(log.sent, x)
<1>3. sent \in Seq(Sent)
  BY <1>1 DEF Logs
<1> HIDE DEF sent
<1> QED BY <1>1, <1>3, Zenon DEF sent, Logs, NewSend

\* One more message to the conversation on show.
LEMMA StartStep ==
  ASSUME Good(c, srv, late, log), CanStartRun, NEW text \in Texts, NEW version \in Nat,
         NEW explicit \in BOOLEAN, NewSend(c.active, text, explicit),
         c' = StartSend(c, c.active, text, version, Len(log.sent) + 1), Aborts, UNCHANGED srv
  PROVE  GoodStep
<1> DEFINE t == c.active
<1> DEFINE n == Len(log.sent) + 1
<1> DEFINE x == [thread |-> t, text |-> text, explicit |-> explicit]
<1>1. c \in Store /\ Fine(c, srv, log) /\ log \in Logs
  BY DEF Good
<1>2. /\ t \in Threads /\ c.up /\ c.view[t].history = "ready" /\ c.creation.phase = "none"
  BY <1>1 DEF CanStartRun, Store, NoCreation
<1>3. srv[t].stamp # 0
  BY <1>1, <1>2 DEF Fine, UnmadeOK
<1>4. c' = StartSend(c, t, text, version, n) /\ NewSend(t, text, explicit)
  OBVIOUS
<1>5. n \in Nat \ {0} /\ n = Len(log.sent) + 1 /\ Len(log.sent) \in Nat
  BY <1>1 DEF Logs
<1>6. x = [thread |-> t, text |-> text, explicit |-> explicit]
  OBVIOUS
<1> HIDE DEF t, n, x
<1>7. log' \in Logs /\ log'.sent = Append(log.sent, x) /\ x \in Sent /\ x.thread = t
  BY <1>1, <1>2, <1>4, <1>6, NewSendType
<1>8. Fine(c, srv, log') /\ Len(log'.sent) = n /\ log'.sent[n] = x
  BY <1>1, <1>2, <1>3, <1>5, <1>7, SentKeeps
<1>9. c' \in Store /\ Fine(c', srv, log') /\ Shift(c, c')
  BY <1>5, <1>7, <1>8, <1>1, <1>2, <1>4, StartKeeps DEF t
<1>12. Len(log.sent) <= Len(log'.sent)
  BY <1>5, <1>8
<1> QED BY <1>7, <1>9, <1>1, <1>12, AbortsType, ForwardSelf, SendStep DEF Shift

\* The step of Send.
LEMMA SendKeeps ==
  ASSUME Good(c, srv, late, log), Send
  PROVE  GoodStep
<1> DEFINE d == c.drafts[c.active]
<1>1. /\ CanStartRun /\ NewSend(c.active, d.text, FALSE) /\ Aborts /\ UNCHANGED srv
      /\ c' = StartSend(c, c.active, d.text, d.version, Len(log.sent) + 1)
  BY Zenon DEF Send
<1>2. d.text \in Texts /\ d.version \in Nat
  BY <1>1 DEF CanStartRun, Good, Store, DraftType
<1>3. PICK explicit \in BOOLEAN : NewSend(c.active, d.text, explicit)
  BY <1>1, Zenon
<1> HIDE DEF d
<1> QED BY <1>1, <1>2, <1>3, StartStep

\* The step of SendAsNewTask.
LEMMA SendAsNewTaskKeeps ==
  ASSUME Good(c, srv, late, log), SendAsNewTask
  PROVE  GoodStep
<1> DEFINE d == c.subs[c.active]
<1>1. /\ CanStartRun /\ NewSend(c.active, d.text, TRUE) /\ Aborts /\ UNCHANGED srv
      /\ c' = StartSend(c, c.active, d.text, d.version, Len(log.sent) + 1)
  BY Zenon DEF SendAsNewTask
<1>2. d.text \in Texts /\ d.version \in Nat
  BY <1>1 DEF CanStartRun, Good, Store, Submissions
<1>3. PICK explicit \in BOOLEAN : NewSend(c.active, d.text, explicit)
  BY <1>1, Zenon
<1> HIDE DEF d
<1> QED BY <1>1, <1>2, <1>3, StartStep

-----------------------------------------------------------------------------
(* The actions that create a conversation. *)

Creating(s, k) == [s EXCEPT !.creation = k]

\* A creation that becomes another keeps what is true of a store.
LEMMA CreatingKeeps ==
  ASSUME NEW s \in Store, NEW b, NEW g, Fine(s, b, g), NEW k \in Creations,
         CreationOK(k, s.up, b, g),
         NEW r, r = Creating(s, k)
  PROVE  r \in Store /\ Fine(r, b, g) /\ Shift(s, r)
<1>1. r \in Store
  BY DEF Store, Creating
<1>2. SameShown(s, r)
  BY DEF Store, Creating, SameShown
<1>3. SameList(s, r)
  BY DEF Store, Creating, SameList
<1>4. r.creation = k
  BY DEF Store, Creating
<1>5. ViewOK(r, b)
  BY <1>2, <1>3, <1>1, SameView DEF Fine, ViewOK, UnderWay, SameShown, SameList
<1>6. Shift(s, r)
  BY <1>1, <1>2, <1>3, SameShift DEF SameShown, SameList
<1> QED BY <1>1, <1>2, <1>3, <1>4, <1>5, <1>6 DEF Fine, PostOK, UnmadeOK, SameShown, SameList

\* A creation begun is a good step.
LEMMA CreateStep ==
  ASSUME Good(c, srv, late, log), CanCreate, NEW first \in BOOLEAN, NEW text \in Texts,
         NEW version \in Nat,
         NEW copy \in Texts, Create(first, text, version, copy), UNCHANGED <<srv, late>>,
         log' \in Logs, log'.sent = log.sent
  PROVE  GoodStep
<1> DEFINE k == [phase |-> "sent", here |-> TRUE, first |-> first, text |-> text,
                 version |-> version, copy |-> copy, thread |-> New]
<1>1. c \in Store /\ Fine(c, srv, log) /\ late \subseteq 0..Len(log.sent) /\ c.up
  BY DEF Good, CanCreate
<1>2. c' = Creating(c, k)
  BY DEF Create, Creating
<1>3. k \in Creations
  BY DEF Creations
<1>4. CreationOK(k, c.up, srv, log)
  BY <1>1 DEF CreationOK
<1> HIDE DEF k
<1> QED BY <1>1, <1>2, <1>3, <1>4, CreatingKeeps, WindowStep, Zenon DEF GoodStep

\* The step of SendFirst.
LEMMA SendFirstKeeps ==
  ASSUME Good(c, srv, late, log), SendFirst
  PROVE  GoodStep
<1>1. /\ CanCreate /\ Create(TRUE, c.new.text, c.new.version, {}) /\ UNCHANGED <<srv, late, log>>
  BY Zenon DEF SendFirst
<1>3. PICK first \in BOOLEAN : Create(first, c.new.text, c.new.version, {})
  BY <1>1, Zenon
<1>4. {} \in Texts
  BY DEF Texts
<1> QED BY <1>1, <1>3, <1>4, CreateStep DEF Good, Store, DraftType

\* The step of CopyDraft.
LEMMA CopyDraftKeeps ==
  ASSUME Good(c, srv, late, log), CopyDraft
  PROVE  GoodStep
<1> DEFINE t == c.active
<1> DEFINE text == IF c.drafts[t].text # {} THEN c.drafts[t].text ELSE c.subs[t].text
<1>1. /\ t # New /\ CanCreate /\ Create(FALSE, {}, 0, text) /\ Event /\ UNCHANGED <<srv, late>>
  BY Zenon DEF CopyDraft
<1>2. text \in Texts
  BY <1>1 DEF Good, Store, DraftType, Submissions
<1> HIDE DEF text
<1>3. PICK first \in BOOLEAN : Create(first, {}, 0, text)
  BY <1>1, Zenon
<1> QED BY <1>1, <1>2, <1>3, EventType, CreateStep DEF Texts, Good

\* The step of FailCreate.
LEMMA FailCreateKeeps ==
  ASSUME Good(c, srv, late, log), FailCreate
  PROVE  GoodStep
<1> DEFINE k == [c.creation EXCEPT !.phase = "listing", !.copy = {}]
<1> DEFINE x == Creating(c, k)
<1>1. /\ c \in Store /\ Fine(c, srv, log) /\ log \in Logs /\ late \subseteq 0..Len(log.sent)
      /\ c.creation.phase # "none" /\ Event /\ UNCHANGED srv
      /\ \A y \in late' : y \in late \/ y = 0
  BY DEF Good, FailCreate
<1>2. c' = ListCreation(x)
  BY Zenon DEF FailCreate, Creating
<1>3. k \in Creations /\ k.phase = "listing" /\ k.copy = {}
  BY <1>1, Zenon DEF Store, Texts, Creations
<1> HIDE DEF k
<1>5. x \in Store /\ Fine(x, srv, log) /\ Shift(c, x)
  BY <1>1, <1>3, CreatingKeeps DEF Fine, CreationOK
<1> HIDE DEF x
<1>6. c' \in Store /\ Fine(c', srv, log) /\ Shift(x, c')
  BY <1>2, <1>5, ListCreationKeeps
<1>8. log' \in Logs /\ log'.sent = log.sent
  BY <1>1, EventType
<1>9. late' \subseteq 0..Len(log.sent)
  <2>2. 0 \in 0..Len(log.sent)
    BY <1>1 DEF Logs
  <2> QED BY <1>1, <2>2, Zenon
<1> QED BY <1>1, <1>6, <1>5, <1>8, <1>9, ShiftTrans, WindowStep DEF GoodStep

\* The conversation that was made is listed.
NewlyListed(s, t, k, i) == [s EXCEPT !.creation = k, !.items[t] = i]
Listing(k) == [k EXCEPT !.phase = "listing"]
FirstItem(i) == IF i = NoItem THEN [i EXCEPT !.stamp = 0] ELSE i

\* A conversation just created, once listed, keeps what is true of a store.
LEMMA NewlyListedKeeps ==
  ASSUME NEW s \in Store, NEW b \in Backends, NEW g, Fine(s, b, g), s.creation.phase = "made",
         NEW t, t = s.creation.thread,
         NEW r, r = NewlyListed(s, t, Listing(s.creation), FirstItem(s.items[t]))
  PROVE  /\ r \in Store /\ SameShown(s, r) /\ Fine(r, b, g) /\ r.creation = Listing(s.creation)
         /\ r.drafts = s.drafts /\ r.new = s.new /\ r.subs = s.subs
         /\ \A u \in Threads : Forward(s.view[u], r.view[u]) /\ Forward(s.items[u], r.items[u])
<1> DEFINE k == Listing(s.creation)
<1> DEFINE i == FirstItem(s.items[t])
<1>1. s.up /\ t \in Threads /\ b[t].stamp > 0 /\ s.creation \in Creations
  BY DEF Fine, CreationOK, Store
<1>2. k \in Creations /\ k.phase = "listing" /\ k.thread = t
  BY <1>1 DEF Listing, Creations
<1>3. s.items[t] \in Items
  BY <1>1 DEF Store
<1>4. i \in Items /\ (i = s.items[t] \/ (s.items[t] = NoItem /\ i.run = 0 /\ ~i.over /\ i.stamp = 0))
  <2> DEFINE x == s.items[t]
  <2> HIDE DEF x
  <2> QED BY <1>3 DEF FirstItem, x, NoItem, Items
<1>5. r = NewlyListed(s, t, k, i)
  OBVIOUS
<1> DEFINE items == [s.items EXCEPT ![t] = i]
<1> HIDE DEF k, i
<1>a. items \in [Threads -> Items] /\ \A u \in Threads : items[u] = IF u = t THEN i ELSE s.items[u]
  BY <1>1, <1>4 DEF Store
<1>b. r = [s EXCEPT !.creation = k, !.items = items]
  BY <1>5 DEF NewlyListed
<1> HIDE DEF items
<1>6. r \in Store
  BY <1>2, <1>a, <1>b, ZenonT(60) DEF Store
<1>7. SameShown(s, r) /\ r.drafts = s.drafts /\ r.new = s.new /\ r.subs = s.subs
  BY <1>b DEF Store, SameShown
<1>8. /\ r.creation = k /\ r.list = s.list /\ r.more = s.more
      /\ \A u \in Threads : r.items[u] = IF u = t THEN i ELSE s.items[u]
  BY <1>a, <1>b DEF Store
<1>9. \A u \in Threads : Forward(s.items[u], r.items[u])
  <2>1. Forward(s.items[t], i)
    BY <1>3, <1>4 DEF Forward, Items, NoItem
  <2> QED BY <1>8, <2>1, ForwardSelf
<1>10. \A u \in Threads : Forward(r.items[u], SumOf(b[u]))
  <2>1. \A u \in Threads : Forward(s.items[u], SumOf(b[u]))
    BY DEF Fine, ListOK
  <2>3. Forward(i, SumOf(b[t]))
    BY <1>1, <1>4, <2>1 DEF Forward, SumOf, Backends, Histrs
  <2> QED BY <1>8, <2>1, <2>3
<1>11. ASSUME NEW q \in Requests, RequestOK(q, s.items, b)
       PROVE  RequestOK(q, r.items, b)
  <2> SUFFICES ASSUME q.phase = "answer", NEW u \in DOMAIN q.ans.items
               PROVE  EntryOK(q.ans.items[u], u \in q.stale, r.items[u], b[u])
    BY DEF RequestOK
  <2> DEFINE a == q.ans.items[u]
  <2>1. u \in Threads /\ a \in Items
    BY RequestDomain
  <2>2. EntryOK(a, u \in q.stale, s.items[u], b[u])
    BY <1>11 DEF RequestOK
  <2> HIDE DEF a
  <2>3. CASE r.items[u] = s.items[u]
    BY <2>2, <2>3 DEF a
  <2>4. CASE r.items[u] # s.items[u]
    <3>1. r.items[u].run = 0 /\ ~r.items[u].over
      BY <1>4, <1>8, <2>1, <2>4, SMTT(30)
    <3>2. Forward(r.items[u], a)
      BY <2>1, <3>1 DEF Items, Forward
    <3>3. EntryOK(a, u \in q.stale, r.items[u], b[u])
      BY <2>2, <3>2, SMTT(30) DEF EntryOK
    <3> QED BY <3>3, SMTT(30) DEF a
  <2> QED BY <2>3, <2>4
<1>12. ListOK(r.items, r.list, r.more, b)
  BY <1>8, <1>10, <1>11 DEF Store, Fine, ListOK
<1>13. ViewOK(r, b)
  <2>1. r.list.phase # "none" => r.up
    BY <1>7, <1>8, Zenon DEF Fine, ViewOK, UnderWay, SameShown
  <2> QED BY <1>6, <1>7, <2>1, SameView, SMTT(30) DEF Fine
<1>14. UnmadeOK(r, b, g)
  <2>1. b[t].stamp # 0 /\ r.active = s.active
    BY <1>1, <1>7, SMTT(30) DEF SameShown
  <2> QED BY <2>1, <1>8 DEF Fine, UnmadeOK
<1>15. PostOK(r, g) /\ CreationOK(r.creation, r.up, b, g)
  BY <1>1, <1>2, <1>7, <1>8, Zenon DEF Fine, PostOK, CreationOK, SameShown
<1>16. \A u \in Threads : Forward(s.view[u], r.view[u])
  BY <1>7, ForwardSelf DEF SameShown
<1> QED BY <1>6, <1>7, <1>8, <1>9, <1>12, <1>13, <1>14, <1>15, <1>16, Zenon DEF Fine, k

\* A conversation without a Run is ready at once.
Ready(s, t) == [s EXCEPT !.view[t].history = "ready", !.view[t].verified = TRUE]

\* A conversation just created is ready, and nothing of it is known.
LEMMA ReadyKeeps ==
  ASSUME NEW s \in Store, NEW b, NEW g, Fine(s, b, g), NEW t \in Threads, t = s.active, s.up,
         Quiet(s), s.read.phase = "none", b[t].runs = <<>>, NEW r, r = Ready(s, t)
  PROVE  /\ r \in Store /\ Fine(r, b, g) /\ Shift(s, r) /\ r.active = t /\ r.up
         /\ r.view[t].history = "ready" /\ r.creation = s.creation
<1> DEFINE v == [s.view[t] EXCEPT !.history = "ready", !.verified = TRUE]
<1>1. s.view[t] \in Views /\ s.proj[t] \in Projections
  BY DEF Store
<1>2. v \in Views /\ v.run = s.view[t].run /\ v.over = s.view[t].over /\ v.history = "ready"
  BY <1>1, Zenon DEF Views
<1>3. r = [s EXCEPT !.view[t] = v]
  BY <1>1, ZenonT(60) DEF Ready, Store
<1> HIDE DEF v
<1>4. /\ r \in Store /\ SameWork(s, r) /\ SameList(s, r) /\ SameInputs(s, r)
      /\ r.proj = s.proj /\ r.read = s.read
      /\ \A u \in Threads : r.view[u] = IF u = t THEN v ELSE s.view[u]
  BY <1>2, <1>3, ViewEffect
<1>5. \A u \in Threads : ThreadOK(s.view[u], s.proj[u], b[u])
  BY DEF Fine, ViewOK
<1>7. \A u \in Threads : ThreadOK(r.view[u], r.proj[u], b[u])
  <2>1. ThreadOK(v, s.proj[t], b[t])
    BY <1>2, <1>5, <1>1 DEF ThreadOK, KnownOK, Views, Projections
  <2> QED BY <1>4, <1>5, <2>1
<1>8. \A u \in Threads : r.view[u].verified => u = r.active /\ r.up
  BY <1>4 DEF Fine, ViewOK, SameWork
<1>9. Quiet(r) /\ r.read.phase = "none" /\ r.up /\ r.active = t
  BY <1>4 DEF Quiet, SameWork
<1>10. UnderWay(r)
  BY <1>9 DEF UnderWay, Quiet, NoPost, Sending
<1>12. ViewOK(r, b)
  BY <1>7, <1>8, <1>9, <1>10 DEF ViewOK, Quiet, Ahead, NoPost
<1>13. Fine(r, b, g)
  <2>1. r.post = s.post /\ r.active = s.active /\ r.up = s.up /\ r.creation = s.creation
    BY <1>4 DEF SameInputs, SameWork
  <2>2. r.items = s.items /\ r.list = s.list /\ r.more = s.more
    BY <1>4 DEF SameList
  <2> QED BY <1>12, <2>1, <2>2, Zenon DEF Fine, PostOK, UnmadeOK
<1>14. Shift(s, r)
  BY <1>1, <1>2, <1>4, ForwardSelf DEF Forward, Views, Shift, SameList
<1> QED BY <1>2, <1>4, <1>9, <1>13, <1>14 DEF SameInputs

\* A conversation that was made is the one the message goes to, or is opened, or only listed.
LEMMA ReceiveCreateKeeps ==
  ASSUME Good(c, srv, late, log), ReceiveCreate
  PROVE  GoodStep
<1> DEFINE k == c.creation
<1> DEFINE t == k.thread
<1> DEFINE listed == NewlyListed(c, t, Listing(k), FirstItem(c.items[t]))
<1> DEFINE transferred == Transfer(listed, t)
<1> DEFINE moved == Activate(transferred, t)
<1> DEFINE ready == Ready(moved, t)
<1> DEFINE n == Len(log.sent) + 1
<1> DEFINE sent == StartSend(ready, t, k.text, k.version, n)
<1> DEFINE shown == IF k.here THEN Enter(Activate(listed, t), FALSE) ELSE listed
<1>1. /\ c \in Store /\ Fine(c, srv, log) /\ log \in Logs /\ srv \in Backends /\ k.phase = "made"
      /\ Aborts /\ UNCHANGED srv
  BY DEF Good, ReceiveCreate, BackendOK
<1>2. /\ t \in Threads /\ c.up /\ srv[t].stamp > 0 /\ srv[t].stamp \in Nat /\ srv[t].runs = <<>>
      /\ k \in Creations
  BY <1>1, SMTT(30) DEF Fine, CreationOK, Backends, Histrs, Store
<1>4. \/ k.here /\ k.first /\ c' = ListCreation(sent) /\ NewSend(t, k.text, FALSE)
      \/ ~(k.here /\ k.first) /\ c' = ListCreation(shown) /\ UNCHANGED log
  BY <1>1, <1>2, Zenon DEF ReceiveCreate, Ready, NewlyListed, Listing, FirstItem, Store
<1>6. t = c.creation.thread /\ k = c.creation
  OBVIOUS
<1>7. k.text \in Texts /\ k.version \in Nat
  BY <1>2 DEF Creations
<1>8. n \in Nat \ {0} /\ n = Len(log.sent) + 1 /\ Len(log.sent) \in Nat
  BY <1>1 DEF Logs
<1> HIDE DEF k, t, n
<1>9. /\ listed \in Store /\ SameShown(c, listed) /\ Fine(listed, srv, log)
         /\ listed.creation = Listing(k)
      /\ \A u \in Threads : Forward(c.view[u], listed.view[u])
         /\ Forward(c.items[u], listed.items[u])
  <2>1. c.creation.phase = "made" /\ listed = NewlyListed(c, t, Listing(c.creation), FirstItem(c.items[t]))
    BY <1>1, <1>6
  <2> HIDE DEF listed
  <2> QED BY <1>1, <1>6, <2>1, NewlyListedKeeps
<1>10. srv[t].stamp # 0 /\ listed.up
  BY <1>2, <1>9 DEF SameShown
<1> HIDE DEF listed
<1>11. ASSUME NEW x \in Store, Fine(x, srv, log'), Shift(listed, x), c' = ListCreation(x),
              log' \in Logs, Len(log.sent) <= Len(log'.sent)
       PROVE  GoodStep
  <2>1. c' \in Store /\ Fine(c', srv, log') /\ Shift(x, c')
    BY <1>11, ListCreationKeeps
  <2>2. Shift(listed, c')
    BY <1>9, <1>11, <2>1, ShiftTrans
  <2>3. ASSUME NEW u \in Threads
        PROVE  Forward(c.view[u], c'.view[u]) /\ Forward(c.items[u], c'.items[u])
    <3>3. c.view[u] \in Views /\ listed.view[u] \in Views /\ c'.view[u] \in Views
      BY <1>1, <1>9, <2>1 DEF Store
    <3> QED BY <1>9, <2>2, <3>3 DEF Forward, Views, Shift
  <2> QED BY <1>1, <1>11, <2>1, <2>3, AbortsType, SendStep
<1>12. CASE k.here /\ k.first /\ c' = ListCreation(sent) /\ NewSend(t, k.text, FALSE)
  <2>1. transferred \in Store /\ InputsOnly(listed, transferred)
    BY <1>2, <1>9, TransferEffect
  <2>2. Fine(transferred, srv, log) /\ Shift(listed, transferred)
    BY <1>9, <2>1, InputsOnlyKeeps
  <2>3. transferred.up /\ transferred.creation = Listing(k)
    BY <1>9, <1>10, <2>1 DEF InputsOnly, SameShown
  <2> HIDE DEF transferred
  <2>4. /\ moved \in Store /\ Fine(moved, srv, log) /\ Shift(transferred, moved) /\ Quiet(moved)
        /\ moved.active = t /\ moved.up /\ moved.read.phase = "none"
        /\ moved.creation = [Listing(k) EXCEPT !.here = FALSE]
    <3>1. transferred \in Store /\ t \in Threads \cup {New}
      BY <1>2, <2>1
    <3> QED BY <1>10, <2>2, <2>3, <3>1, ActivateKeeps
  <2>5. moved.creation.phase = "listing"
    BY <1>2, <2>4 DEF Listing, Creations
  <2> HIDE DEF moved
  <2>6. /\ ready \in Store /\ Fine(ready, srv, log) /\ Shift(moved, ready) /\ ready.active = t
           /\ ready.up
        /\ ready.view[t].history = "ready" /\ ready.creation = moved.creation
    BY <1>2, <2>4, ReadyKeeps
  <2> HIDE DEF ready
  <2> DEFINE x == [thread |-> t, text |-> k.text, explicit |-> FALSE]
  <2>7. PICK explicit \in BOOLEAN : explicit = FALSE
    BY Zenon
  <2>8. x = [thread |-> t, text |-> k.text, explicit |-> explicit] /\ NewSend(t, k.text, explicit)
    BY <1>12, <2>7, Zenon
  <2> HIDE DEF x
  <2>9. log' \in Logs /\ log'.sent = Append(log.sent, x) /\ x \in Sent /\ x.thread = t
    BY <1>1, <1>2, <1>7, <2>8, NewSendType
  <2>10. Fine(ready, srv, log') /\ Len(log'.sent) = n /\ log'.sent[n] = x
    BY <2>5, <2>6, <1>10, <2>9, <1>1, <1>8, SentKeeps
  <2>11. sent \in Store /\ Fine(sent, srv, log') /\ Shift(ready, sent)
    BY <1>8, <2>9, <2>10, <1>2, <1>7, <2>6, StartKeeps
  <2> HIDE DEF sent
  <2>13. Shift(listed, ready)
    BY <1>9, <2>4, <2>6, <2>1, <2>2, ShiftTrans
  <2>15. c' = ListCreation(sent) /\ Len(log.sent) <= Len(log'.sent)
    BY <1>8, <1>12, <2>10
  <2> QED BY <1>11, <2>9, <2>11, <1>9, <2>6, <2>13, <2>15, ShiftTrans
<1>13. CASE ~(k.here /\ k.first) /\ c' = ListCreation(shown) /\ UNCHANGED log
  <2>1. shown \in Store /\ Fine(shown, srv, log) /\ Shift(listed, shown)
    <3>1. CASE k.here
      <4> DEFINE x == Activate(listed, t)
      <4>1. x \in Store /\ Fine(x, srv, log) /\ Shift(listed, x)
        BY <1>2, <1>9, <1>10, ActivateKeeps, Zenon
      <4> HIDE DEF x
      <4>2. PICK list \in BOOLEAN : list = FALSE
        BY Zenon
      <4> DEFINE y == Enter(x, list)
      <4>3. y \in Store /\ Fine(y, srv, log) /\ Shift(x, y)
        BY <4>1, EnterKeeps
      <4>4. shown = y
        BY <3>1, <4>2, Zenon DEF x
      <4> HIDE DEF y
      <4> QED BY <4>3, <4>4, <1>9, <4>1, ShiftTrans, Zenon
    <3>2. CASE ~k.here
      BY <3>2, <1>9, SameShift
    <3> QED BY <3>1, <3>2, Zenon
  <2> HIDE DEF shown
  <2> QED BY <1>11, <1>13, <2>1, <1>1, <1>8
<1> QED BY <1>4, <1>12, <1>13, Zenon

-----------------------------------------------------------------------------
(* The backend moves on. *)

\* A conversation that stays has grown.
LEMMA GrowsSelf ==
  ASSUME NEW h \in Histrs
  PROVE  Grows(h, h)
BY DEF Grows, Histrs

\* The conversation of a summary moves forward.
LEMMA GrowsForward ==
  ASSUME NEW h \in Histrs, NEW k \in Histrs, Grows(h, k)
  PROVE  /\ Forward(SumOf(h), SumOf(k))
         /\ \A run : IsOver(h, run) => IsOver(k, run)
<1>1. /\ Len(h.runs) \in Nat /\ Len(k.runs) \in Nat /\ Len(h.runs) <= Len(k.runs)
      /\ \A i \in 1..Len(h.runs) : h.runs[i].over => k.runs[i].over
  BY DEF Grows, Histrs
<1>2. \A run : IsOver(h, run) => IsOver(k, run)
  BY <1>1 DEF IsOver
<1> QED BY <1>2, <1>1 DEF Forward, SumOf

\* What is known and shown of a conversation stays so when it grows.
LEMMA GrownThread ==
  ASSUME NEW h \in Histrs, NEW k \in Histrs, Grows(h, k), NEW p \in Projections
  PROVE  /\ KnownOK(p, h) => KnownOK(p, k)
         /\ \A v : ThreadOK(v, p, h) => ThreadOK(v, p, k)
         /\ \A ans \in Histories : AnswerOK(ans, p, h) => AnswerOK(ans, p, k)
<1>1. /\ Len(h.runs) \in Nat /\ Len(k.runs) \in Nat /\ Len(h.runs) <= Len(k.runs)
      /\ Len(h.msgs) \in Nat /\ Len(k.msgs) \in Nat /\ Len(h.msgs) <= Len(k.msgs)
      /\ \A i \in 1..Len(h.msgs) : k.msgs[i] = h.msgs[i]
  <2>1. /\ Len(h.runs) \in Nat /\ Len(k.runs) \in Nat
        /\ Len(h.msgs) \in Nat /\ Len(k.msgs) \in Nat
    BY DEF Histrs
  <2>2. /\ Len(h.runs) <= Len(k.runs) /\ Len(h.msgs) <= Len(k.msgs)
        /\ \A i \in 1..Len(h.msgs) : k.msgs[i] = h.msgs[i]
    BY Zenon DEF Grows
  <2> QED BY <2>1, <2>2
<1>2. \A run : IsOver(h, run) => IsOver(k, run)
  BY GrowsForward
<1>5. ASSUME NEW ans \in Histories, AnswerOK(ans, p, h)
      PROVE  AnswerOK(ans, p, k)
  BY <1>5, <1>1, <1>2 DEF Histories, AnswerOK
<1> QED BY <1>1, <1>2, <1>5 DEF ThreadOK, Projections, KnownOK

\* What is shown stays so when the conversations grow.
LEMMA GrownView ==
  ASSUME NEW s \in Store, NEW b \in Backends, NEW d \in Backends,
         \A t \in Threads : Grows(b[t], d[t]), ViewOK(s, b)
  PROVE  ViewOK(s, d)
<1>1. \A t \in Threads : /\ b[t] \in Histrs /\ d[t] \in Histrs /\ s.proj[t] \in Projections
  BY DEF Backends, Store
<1>3. UnderWay(s) /\ \A t \in Threads : s.view[t].verified => t = s.active /\ s.up
  BY DEF ViewOK
<1>4. s.active \in Threads \cup {New} /\ s.read.ans \in Histories /\ s.summary.ans \in Histories
  BY DEF Store, Reads
<1>5. Ahead(s, d)
  <2> SUFFICES ASSUME s.post.run # 0, ~s.meta
               PROVE  s.proj[s.active].run < s.post.run /\ s.post.run <= Len(d[s.active].runs)
    BY DEF Ahead
  <2>1. s.active \in Threads
    BY <1>3, <1>4 DEF UnderWay, Quiet, NoPost
  <2> QED BY <2>1, <1>1 DEF ViewOK, Ahead, Grows, Histrs, Store, Posts
<1> QED BY <1>1, <1>3, <1>5, <1>4, GrownThread DEF ViewOK, UnderWay, Quiet

\* What is listed stays so when the conversations grow.
LEMMA GrownList ==
  ASSUME NEW s \in Store, NEW b \in Backends, NEW d \in Backends,
         \A t \in Threads : Grows(b[t], d[t]), ListOK(s.items, s.list, s.more, b)
  PROVE  ListOK(s.items, s.list, s.more, d)
<1>1. \A t \in Threads : /\ b[t] \in Histrs /\ d[t] \in Histrs /\ s.items[t] \in Items
                         /\ SumOf(b[t]).run \in Nat /\ SumOf(d[t]).run \in Nat
                         /\ Forward(SumOf(b[t]), SumOf(d[t]))
  BY GrowsForward DEF Backends, Store, SumOf, Histrs
<1>2. ASSUME NEW t \in Threads, NEW a \in Items, Forward(a, SumOf(b[t]))
      PROVE  Forward(a, SumOf(d[t]))
  BY <1>1, <1>2 DEF Forward, Items
<1>4. ASSUME NEW r \in Requests, RequestOK(r, s.items, b)
      PROVE  RequestOK(r, s.items, d)
  <2> SUFFICES ASSUME r.phase = "answer", NEW t \in DOMAIN r.ans.items
               PROVE  EntryOK(r.ans.items[t], t \in r.stale, s.items[t], d[t])
    BY DEF RequestOK
  <2> DEFINE a == r.ans.items[t]
  <2>1. t \in Threads /\ a \in Items
    BY RequestDomain
  <2>2. EntryOK(a, t \in r.stale, s.items[t], b[t])
    BY <1>4 DEF RequestOK
  <2> HIDE DEF a
  <2>5. 1 <= a.stamp /\ a.stamp <= b[t].stamp /\ (a.stamp = b[t].stamp => a = SumOf(b[t]))
    BY <2>2 DEF EntryOK
  <2>6. a.stamp <= d[t].stamp /\ (a.stamp = d[t].stamp => a = SumOf(d[t]))
    BY <1>1, <2>1, <2>5 DEF Grows, Histrs, Items
  <2> QED BY <2>2, <1>2, <2>1, <2>5, <2>6 DEF a, EntryOK
<1> QED BY <1>1, <1>2, <1>4 DEF ListOK, Store

\* What is true of a store stays so when the conversations grow.
LEMMA GrownFine ==
  ASSUME NEW s \in Store, NEW b \in Backends, NEW d \in Backends, NEW g, Fine(s, b, g),
         \A t \in Threads : Grows(b[t], d[t]),
         s.creation.phase = "made" => d[s.creation.thread].runs = <<>>
  PROVE  Fine(s, d, g)
<1>3. \A t \in Threads : b[t].stamp \in Nat /\ d[t].stamp \in Nat /\ b[t].stamp <= d[t].stamp
  BY DEF Backends, Histrs, Grows
<1> QED BY <1>3, GrownList, GrownView DEF Fine, CreationOK, UnmadeOK

\* One conversation of the backend grows.
Becomes(t, k) == [srv EXCEPT ![t] = k]

\* When one conversation grows they all do.
LEMMA OneGrows ==
  ASSUME BackendOK(srv), NEW t \in Threads, NEW k \in Histrs, HistoryOK(k), Grows(srv[t], k),
         NEW d, d = Becomes(t, k)
  PROVE  /\ BackendOK(d) /\ d \in Backends /\ d[t] = k
         /\ \A u \in Threads : Grows(srv[u], d[u])
         /\ \A u \in Threads : u # t => d[u] = srv[u]
BY GrowsSelf DEF BackendOK, Backends, Becomes

\* The parts of a conversation are of their types.
LEMMA HistoryTypes ==
  ASSUME BackendOK(srv), NEW t \in Threads
  PROVE  /\ srv[t] \in Histrs /\ HistoryOK(srv[t]) /\ srv[t].stamp \in Nat
         /\ srv[t].runs \in Seq([send : Nat, over : BOOLEAN]) /\ Len(srv[t].runs) \in Nat
         /\ srv[t].msgs \in Seq(Nat) /\ Len(srv[t].msgs) \in Nat
         /\ Last(t) = Len(srv[t].runs) /\ Now \in Nat /\ srv[t].stamp < Now
BY NowIsLater DEF BackendOK, Backends, Histrs, Last

\* A message of the last Run is stored.
LEMMA MessageKeeps ==
  ASSUME NEW h \in Histrs, HistoryOK(h), NEW k \in Histrs, NEW n \in Nat \ {0}, Len(k.runs) = n,
         Len(h.runs) <= n, k.stamp > 0, Len(k.msgs) = Len(h.msgs) + 1, k.msgs[Len(h.msgs) + 1] = n,
         \A i \in 1..Len(h.msgs) : k.msgs[i] = h.msgs[i],
         \A i \in 1..n : i < n => k.runs[i].over
  PROVE  HistoryOK(k)
<1> DEFINE m == Len(h.msgs)
<1> DEFINE r == Len(h.runs)
<1>1. m \in Nat /\ r \in Nat /\ Len(k.msgs) = m + 1 /\ k.msgs[m + 1] = n
  BY DEF Histrs
<1>2. \A i \in 1..m : k.msgs[i] = h.msgs[i] /\ h.msgs[i] \in 1..r
  BY DEF HistoryOK
<1>3. \A i, j \in 1..m : i <= j => h.msgs[i] <= h.msgs[j]
  BY DEF HistoryOK
<1>4. r <= n
  OBVIOUS
<1> HIDE DEF m, r
<1>5. \A i \in 1..(m + 1) : k.msgs[i] \in 1..n
  <2> SUFFICES ASSUME NEW i \in 1..(m + 1) PROVE k.msgs[i] \in 1..n
    OBVIOUS
  <2>1. CASE i = m + 1
    BY <1>1, <2>1
  <2>2. CASE i # m + 1
    BY <1>1, <2>2, <1>2, <1>4
  <2> QED BY <2>1, <2>2
<1>6. \A i, j \in 1..(m + 1) : i <= j => k.msgs[i] <= k.msgs[j]
  <2> SUFFICES ASSUME NEW i \in 1..(m + 1), NEW j \in 1..(m + 1), i <= j
               PROVE  k.msgs[i] <= k.msgs[j]
    OBVIOUS
  <2>1. CASE j = m + 1
    BY <1>1, <1>5, <2>1
  <2>2. CASE j # m + 1
    BY <1>1, <2>2, <1>2, <1>3
  <2> QED BY <2>1, <2>2
<1>11. \A i, j \in 1..Len(k.msgs) : i <= j => k.msgs[i] <= k.msgs[j]
  BY <1>1, <1>6, Zenon
<1> QED BY <1>1, <1>5, <1>11 DEF HistoryOK

\* A message is handled: its Run is the last.
LEMMA StartedGrows ==
  ASSUME BackendOK(srv), NEW t \in Threads, NEW n \in Nat, ~Busy(t), NEW d, d = Started(t, n)
  PROVE  /\ BackendOK(d) /\ d \in Backends
         /\ \A u \in Threads : Grows(srv[u], d[u])
         /\ \A u \in Threads : u # t => d[u] = srv[u]
         /\ Len(d[t].runs) = Len(srv[t].runs) + 1 /\ d[t].runs[Len(srv[t].runs) + 1].send = n
<1> DEFINE h == srv[t]
<1> DEFINE run == [send |-> n, over |-> FALSE]
<1> DEFINE runs == Append(h.runs, run)
<1> DEFINE msgs == Append(h.msgs, Len(h.runs) + 1)
<1> DEFINE k == [stamp |-> Now, runs |-> runs, msgs |-> msgs]
<1>1. /\ h \in Histrs /\ HistoryOK(h) /\ h.stamp \in Nat
      /\ h.runs \in Seq([send : Nat, over : BOOLEAN]) /\ Len(h.runs) \in Nat
      /\ h.msgs \in Seq(Nat) /\ Len(h.msgs) \in Nat
      /\ Last(t) = Len(h.runs) /\ Now \in Nat /\ h.stamp < Now
  BY HistoryTypes
<1>2. d = Becomes(t, k)
  BY <1>1 DEF Started, Becomes
<1>3. Len(h.runs) > 0 => h.runs[Len(h.runs)].over
  BY <1>1, Zenon DEF Busy, Over
<1>4. run \in [send : Nat, over : BOOLEAN] /\ run.send = n
  OBVIOUS
<1> HIDE DEF h, run
<1>5. /\ runs \in Seq([send : Nat, over : BOOLEAN]) /\ Len(runs) = Len(h.runs) + 1
      /\ \A i \in 1..Len(h.runs) : runs[i] = h.runs[i]
      /\ runs[Len(h.runs) + 1].send = n
  BY <1>1, <1>4
<1>6. /\ msgs \in Seq(Nat) /\ Len(msgs) = Len(h.msgs) + 1 /\ msgs[Len(h.msgs) + 1] = Len(h.runs) + 1
      /\ \A i \in 1..Len(h.msgs) : msgs[i] = h.msgs[i]
  BY <1>1
<1>7. k \in Histrs
  BY <1>1, <1>5, <1>6 DEF Histrs
<1>8. k.stamp = Now /\ k.runs = runs /\ k.msgs = msgs
  OBVIOUS
<1> HIDE DEF runs, msgs, k
<1>9. HistoryOK(k)
  <2> DEFINE last == Len(h.runs) + 1
  <2>1. last \in Nat \ {0} /\ Len(k.runs) = last /\ Len(h.runs) <= last
    BY <1>1, <1>5, <1>8
  <2>2. k.stamp > 0
    BY <1>1, <1>8
  <2>3. Len(k.msgs) = Len(h.msgs) + 1 /\ k.msgs[Len(h.msgs) + 1] = last
    BY <1>6, <1>8
  <2>4. \A i \in 1..Len(h.msgs) : k.msgs[i] = h.msgs[i]
    BY <1>6, <1>8
  <2>5. ASSUME NEW i \in 1..last, i < last
        PROVE  k.runs[i].over
    <3>1. i \in 1..Len(h.runs) /\ (i = Len(h.runs) \/ i < Len(h.runs))
      BY <1>1, <2>5
    <3>2. k.runs[i] = h.runs[i]
      BY <1>5, <1>8, <3>1
    <3> QED BY <1>1, <1>3, <3>1, <3>2 DEF HistoryOK
  <2> HIDE DEF last
  <2> QED BY <1>1, <1>7, <2>1, <2>2, <2>3, <2>4, <2>5, MessageKeeps, Zenon
<1>10. Grows(h, k)
  <2>1. h.stamp <= k.stamp /\ k.stamp # h.stamp
    BY <1>1, <1>8
  <2>2. Len(h.runs) <= Len(k.runs) /\ Len(h.msgs) <= Len(k.msgs)
    BY <1>1, <1>5, <1>6, <1>8, SMTT(60)
  <2> QED BY <2>1, <2>2, <1>5, <1>8, <1>6, Zenon DEF Grows
<1> QED BY <1>5, <1>8, <1>10, <1>2, <1>7, <1>9, OneGrows DEF h

\* A conversation is made: it has no Runs.
LEMMA MadeGrows ==
  ASSUME BackendOK(srv), NEW t \in Threads, ~Made(t), NEW d, d = MadeThread(t)
  PROVE  /\ BackendOK(d) /\ d \in Backends /\ d[t].stamp > 0 /\ srv[t].stamp = 0 /\ d[t].runs = <<>>
         /\ \A u \in Threads : Grows(srv[u], d[u]) /\ d[u].runs = srv[u].runs
<1> DEFINE h == srv[t]
<1> DEFINE k == [h EXCEPT !.stamp = Now]
<1>1. /\ h \in Histrs /\ HistoryOK(h) /\ h.stamp \in Nat
      /\ h.runs \in Seq([send : Nat, over : BOOLEAN]) /\ Len(h.runs) \in Nat
      /\ h.msgs \in Seq(Nat) /\ Len(h.msgs) \in Nat
      /\ Now \in Nat /\ h.stamp < Now
  BY HistoryTypes
<1>2. h.stamp = 0
  BY <1>1 DEF Made
<1>3. Len(h.runs) = 0 /\ Len(h.msgs) = 0
  BY <1>1, <1>2 DEF HistoryOK
<1>5. d = Becomes(t, k)
  BY <1>1 DEF MadeThread, BackendOK, Backends, Becomes
<1>6. k \in Histrs /\ k.stamp = Now /\ k.runs = h.runs /\ k.msgs = h.msgs
  BY <1>1, Zenon DEF Histrs
<1> HIDE DEF h, k
<1>9. Grows(srv[t], k)
  BY <1>1, <1>3, <1>6 DEF h, Grows
<1>11. k.stamp > 0 /\ k.runs = <<>> /\ srv[t].stamp = 0 /\ k.runs = srv[t].runs
  BY <1>1, <1>2, <1>3, <1>6 DEF h
<1> QED BY <1>5, <1>6, <1>1, <1>3, <1>9, <1>11, OneGrows DEF HistoryOK

\* A message stored makes a conversation grow.
LEMMA StoresGrows ==
  ASSUME BackendOK(srv), NEW t \in Threads, RunStores(t)
  PROVE  /\ BackendOK(srv') /\ srv' \in Backends
         /\ \A u \in Threads : Grows(srv[u], srv'[u]) /\ srv'[u].runs = srv[u].runs
<1> DEFINE h == srv[t]
<1> DEFINE msgs == Append(h.msgs, Len(h.runs))
<1> DEFINE k == [h EXCEPT !.msgs = msgs]
<1>1. /\ h \in Histrs /\ HistoryOK(h) /\ h.stamp \in Nat
      /\ h.runs \in Seq([send : Nat, over : BOOLEAN]) /\ Len(h.runs) \in Nat
      /\ h.msgs \in Seq(Nat) /\ Len(h.msgs) \in Nat
      /\ Last(t) = Len(h.runs)
  BY HistoryTypes
<1>2. Len(h.runs) > 0
  BY <1>1 DEF RunStores, Busy
<1>3. srv' = Becomes(t, k)
  BY <1>1 DEF RunStores, BackendOK, Backends, Becomes
<1> HIDE DEF h
<1>4. /\ msgs \in Seq(Nat) /\ Len(msgs) = Len(h.msgs) + 1 /\ msgs[Len(h.msgs) + 1] = Len(h.runs)
      /\ \A i \in 1..Len(h.msgs) : msgs[i] = h.msgs[i]
  BY <1>1
<1> HIDE DEF msgs
<1>5. k \in Histrs /\ k.stamp = h.stamp /\ k.runs = h.runs /\ k.msgs = msgs
  BY <1>1, <1>4, Zenon DEF Histrs
<1> HIDE DEF k
<1>6. HistoryOK(k)
  <2> DEFINE n == Len(h.runs)
  <2>1. n \in Nat \ {0} /\ Len(k.runs) = n /\ Len(h.runs) <= n
    BY <1>1, <1>2, <1>5
  <2>2. k.stamp > 0
    BY <1>1, <1>2, <1>5 DEF HistoryOK
  <2>5. \A i \in 1..n : i < n => k.runs[i].over
    BY <1>1, <1>5, Zenon DEF HistoryOK
  <2> HIDE DEF n
  <2> QED BY <1>1, <1>5, <2>1, <2>2, <1>4, <2>5, MessageKeeps, Zenon
<1>7. SumOf(k) = SumOf(h)
  BY <1>5 DEF SumOf, IsOver
<1>9. Grows(srv[t], k) /\ k.runs = srv[t].runs
  BY <1>5, <1>1, <1>4, <1>7, SMTT(30) DEF h, Grows
<1>10. /\ BackendOK(srv') /\ srv' \in Backends /\ srv'[t] = k
       /\ \A u \in Threads : Grows(srv[u], srv'[u])
       /\ \A u \in Threads : u # t => srv'[u] = srv[u]
  BY <1>3, <1>5, <1>6, <1>9, OneGrows
<1> QED BY <1>9, <1>10

\* A Run of a conversation is a Run.
LEMMA RunType ==
  ASSUME NEW h \in Histrs, NEW i \in 1..Len(h.runs)
  PROVE  h.runs[i] \in [send : Nat, over : BOOLEAN]
<1> DEFINE S == [send : Nat, over : BOOLEAN]
<1>1. h.runs \in Seq(S)
  BY DEF Histrs
<1> HIDE DEF S
<1>2. h.runs[i] \in S
  BY <1>1
<1> QED BY <1>2 DEF S

\* The end of a Run makes a conversation grow.
LEMMA EndsGrows ==
  ASSUME BackendOK(srv), NEW t \in Threads, RunEnds(t)
  PROVE  /\ BackendOK(srv') /\ srv' \in Backends /\ srv[t].runs # <<>>
         /\ Len(srv'[t].runs) = Len(srv[t].runs)
         /\ \A u \in Threads : Grows(srv[u], srv'[u])
         /\ \A u \in Threads : u # t => srv'[u] = srv[u]
<1> DEFINE h == srv[t]
<1> DEFINE last == Len(h.runs)
<1> DEFINE run == [h.runs[last] EXCEPT !.over = TRUE]
<1> DEFINE runs == [h.runs EXCEPT ![last] = run]
<1> DEFINE k == [h EXCEPT !.runs = runs, !.stamp = Now]
<1>1. /\ h \in Histrs /\ HistoryOK(h) /\ h.stamp \in Nat
      /\ h.runs \in Seq([send : Nat, over : BOOLEAN]) /\ last \in Nat
      /\ h.msgs \in Seq(Nat) /\ Len(h.msgs) \in Nat
      /\ Last(t) = last /\ Now \in Nat /\ h.stamp < Now
  BY HistoryTypes
<1>2. last > 0
  BY <1>1 DEF RunEnds, Busy
<1>3. srv' = Becomes(t, k)
  BY <1>1, Zenon DEF RunEnds, BackendOK, Backends, Histrs, Becomes
<1>4. h.runs # <<>>
  BY <1>2
<1> HIDE DEF h
<1>5. last \in 1..Len(h.runs) /\ Len(h.runs) = last
  BY <1>1, <1>2
<1>e. h.runs[last] \in [send : Nat, over : BOOLEAN]
  <2> HIDE DEF last, run
  <2> QED BY <1>1, <1>5, RunType
<1>6. run \in [send : Nat, over : BOOLEAN] /\ run.over /\ run.send = h.runs[last].send
  BY <1>e, Zenon
<1> HIDE DEF run, last
<1>7. /\ runs \in Seq([send : Nat, over : BOOLEAN]) /\ Len(runs) = Len(h.runs)
      /\ \A i \in 1..Len(h.runs) : runs[i] = IF i = last THEN run ELSE h.runs[i]
  BY <1>1, <1>5, <1>6
<1> HIDE DEF runs
<1>8. k \in Histrs /\ k.stamp = Now /\ k.runs = runs /\ k.msgs = h.msgs
  BY <1>1, <1>7, Zenon DEF Histrs
<1> HIDE DEF k
<1>9. HistoryOK(k)
  <2>2. Len(k.msgs) > 0 => k.stamp > 0 /\ k.msgs[Len(k.msgs)] = Len(k.runs)
    BY <1>1, <1>7, <1>8, SMTT(60) DEF HistoryOK
  <2>3. \A i \in 1..Len(k.runs) : i < Len(k.runs) => k.runs[i].over
    <3>1. ASSUME NEW i \in 1..Len(h.runs), i < Len(h.runs)
          PROVE  runs[i].over
      <4>1. i # last /\ h.runs[i].over
        BY <1>1, <1>5, <3>1 DEF HistoryOK
      <4> QED BY <1>7, <4>1
    <3> QED BY <1>7, <1>8, <3>1
  <2> QED BY <1>1, <1>7, <1>8, <2>2, <2>3, Zenon DEF HistoryOK
<1>10. Grows(h, k)
  <2>4. \A i \in 1..Len(h.msgs) : k.msgs[i] = h.msgs[i]
    BY <1>8
  <2>5. \A i \in 1..Len(h.runs) :
          k.runs[i].send = h.runs[i].send /\ (h.runs[i].over => k.runs[i].over)
    BY <1>6, <1>7, <1>8
  <2>6. /\ h.stamp <= k.stamp /\ k.stamp # h.stamp /\ Len(h.runs) <= Len(k.runs)
        /\ Len(h.msgs) <= Len(k.msgs)
    BY <1>1, <1>5, <1>7, <1>8
  <2> QED BY <2>4, <2>5, <2>6 DEF Grows
<1>11. Grows(srv[t], k) /\ srv[t].runs # <<>> /\ Len(k.runs) = Len(srv[t].runs)
  BY <1>4, <1>7, <1>8, <1>10 DEF h
<1>12. /\ BackendOK(srv') /\ srv' \in Backends /\ srv'[t] = k
       /\ \A u \in Threads : Grows(srv[u], srv'[u])
       /\ \A u \in Threads : u # t => srv'[u] = srv[u]
  BY <1>3, <1>8, <1>9, <1>11, OneGrows
<1> QED BY <1>11, <1>12

-----------------------------------------------------------------------------
(* The actions of the backend. *)

\* A step after which the backend has moved on.
LEMMA GrowStep ==
  ASSUME Good(c, srv, late, log), BackendOK(srv'), c' \in Store, Fine(c', srv', log), Shift(c, c'),
         UNCHANGED log, late' \subseteq late
  PROVE  GoodStep
BY ForwardSelf DEF Good, Shift, GoodStep, Onward

\* The step of RunStores.
LEMMA RunStoresKeeps ==
  ASSUME Good(c, srv, late, log), NEW t \in Threads, RunStores(t)
  PROVE  GoodStep
BY StoresGrows, GrownFine, SameShift, GrowStep, Zenon DEF Good, BackendOK, RunStores, Fine,
  CreationOK

\* The step of RunEnds.
LEMMA RunEndsKeeps ==
  ASSUME Good(c, srv, late, log), NEW t \in Threads, RunEnds(t)
  PROVE  GoodStep
<1>1. c \in Store /\ Fine(c, srv, log) /\ BackendOK(srv) /\ srv \in Backends
  BY DEF Good, BackendOK
<1>3. /\ BackendOK(srv') /\ srv' \in Backends /\ srv[t].runs # <<>>
      /\ \A u \in Threads : Grows(srv[u], srv'[u])
      /\ \A u \in Threads : u # t => srv'[u] = srv[u]
  BY <1>1, EndsGrows
<1> QED BY <1>1, <1>3, SameShift, GrownFine, GrowStep, ZenonT(60) DEF RunEnds, Fine, CreationOK

\* A message that was sent goes to a conversation that is not on its way to the window.
LEMMA SentElsewhere ==
  ASSUME NEW s, NEW b, NEW g, Fine(s, b, g), NEW n \in 1..Len(g.sent), s.creation.phase = "made"
  PROVE  s.creation.thread # g.sent[n].thread /\ b[s.creation.thread].runs = <<>>
         /\ s.creation.thread \in Threads
BY DEF Fine, CreationOK, Unsent

\* The step of ServeLate.
LEMMA ServeLateKeeps ==
  ASSUME Good(c, srv, late, log), ServeLate
  PROVE  GoodStep
<1>1. /\ c \in Store /\ Fine(c, srv, log) /\ BackendOK(srv) /\ srv \in Backends
      /\ log \in Logs /\ late \subseteq 0..Len(log.sent)
  BY DEF Good, BackendOK
<1>2. PICK x \in late :
        /\ late' = late \ {x} /\ UNCHANGED <<c, log>>
        /\ IF x = 0 THEN \E t \in Threads : ~Made(t) /\ srv' = MadeThread(t)
           ELSE ~Busy(log.sent[x].thread) /\ srv' = Started(log.sent[x].thread, x)
  BY DEF ServeLate
<1>4. BackendOK(srv') /\ Fine(c, srv', log)
  <2>1. CASE x = 0
    BY <1>2, <2>1, <1>1, MadeGrows, GrownFine DEF Fine, CreationOK
  <2>2. CASE x # 0
    <3> DEFINE t == log.sent[x].thread
    <3>1. x \in 1..Len(log.sent) /\ x \in Nat
      BY <1>1, <1>2, <2>2 DEF Logs
    <3>2. t \in Threads
      <4>2. log.sent[x] \in Sent
        BY <3>1, <1>1 DEF Logs
      <4> QED BY <4>2 DEF Sent
    <3>3. ~Busy(t) /\ srv' = Started(t, x)
      BY <1>2, <2>2
    <3>4. c.creation.phase = "made" =>
            c.creation.thread # t /\ srv[c.creation.thread].runs = <<>>
            /\ c.creation.thread \in Threads
      BY <1>1, <3>1, SentElsewhere
    <3> HIDE DEF t
    <3> QED BY <1>1, <3>1, <3>2, <3>3, <3>4, StartedGrows, GrownFine
  <2> QED BY <2>1, <2>2
<1> QED BY <1>1, <1>2, <1>4, SameShift, GrowStep

\* The conversation that is made is nobody's yet.
LEMMA ServeCreateKeeps ==
  ASSUME Good(c, srv, late, log), ServeCreate
  PROVE  GoodStep
<1>1. /\ c \in Store /\ Fine(c, srv, log) /\ BackendOK(srv) /\ srv \in Backends
      /\ c.creation.phase = "sent" /\ UNCHANGED <<late, log>>
  BY DEF Good, BackendOK, ServeCreate
<1>2. PICK t \in Threads :
        ~Made(t) /\ srv' = MadeThread(t) /\ c' = [c EXCEPT !.creation.phase = "made", !.creation.thread = t]
  BY Zenon DEF ServeCreate
<1>3. /\ BackendOK(srv') /\ srv' \in Backends /\ srv'[t].stamp > 0 /\ srv[t].stamp = 0
         /\ srv'[t].runs = <<>>
      /\ \A u \in Threads : Grows(srv[u], srv'[u]) /\ srv'[u].runs = srv[u].runs
  BY <1>1, <1>2, MadeGrows
<1> DEFINE k == [c.creation EXCEPT !.phase = "made", !.thread = t]
<1>6. k \in Creations /\ k.phase = "made" /\ k.thread = t
  BY <1>1, Zenon DEF Creations, Store
<1>7. c' = Creating(c, k)
  BY <1>2, Zenon DEF Creating
<1> HIDE DEF k
<1>8. CreationOK(k, c.up, srv', log)
  BY <1>1, <1>3, <1>6 DEF Fine, CreationOK, UnmadeOK
<1> QED BY <1>1, <1>3, <1>6, <1>7, <1>8, GrownFine, CreatingKeeps, GrowStep

\* The POST of the conversation on show is handled.
Handled(s, p) == [s EXCEPT !.post = p]

\* What a send handled changes in the store.
LEMMA HandledEffect ==
  ASSUME NEW s \in Store, NEW p \in Posts, NEW r, r = Handled(s, p)
  PROVE  /\ r \in Store /\ SameList(s, r) /\ SameInputs(s, r)
         /\ r.up = s.up /\ r.active = s.active /\ r.view = s.view /\ r.proj = s.proj
            /\ r.read = s.read
         /\ r.summary = s.summary /\ r.post = p /\ r.follow = s.follow /\ r.meta = s.meta
         /\ r.snap = s.snap /\ r.commit = s.commit
BY DEF Handled, Store, SameList, SameInputs

\* The step of ServePost.
LEMMA ServePostKeeps ==
  ASSUME Good(c, srv, late, log), ServePost
  PROVE  GoodStep
<1> DEFINE t == c.active
<1> DEFINE n == c.post.send
<1> DEFINE p == [c.post EXCEPT !.run = Last(t) + 1]
<1>1. /\ c \in Store /\ Fine(c, srv, log) /\ BackendOK(srv) /\ srv \in Backends /\ log \in Logs
      /\ n # 0 /\ c.post.run = 0 /\ ~Busy(t) /\ srv' = Started(t, n) /\ UNCHANGED <<late, log>>
      /\ c' = Handled(c, p)
  BY DEF Good, BackendOK, ServePost, Handled
<1>2. c.post \in Posts /\ n \in Nat /\ c.active \in Threads \cup {New}
  BY <1>1 DEF Store, Posts
<1>3. UnderWay(c)
  BY <1>1 DEF Fine, ViewOK
<1>4. t \in Threads
  BY <1>1, <1>3, <1>2 DEF UnderWay, Quiet, NoPost
<1>5. n \in 1..Len(log.sent) /\ log.sent[n].thread = t
  BY <1>1, <1>2 DEF Logs, Fine, PostOK
<1>6. Last(t) = Len(srv[t].runs) /\ Len(srv[t].runs) \in Nat
  BY <1>1, <1>4, HistoryTypes
<1>7. p \in Posts /\ p.send = n /\ p.run = Len(srv[t].runs) + 1
  BY <1>2, <1>6 DEF Posts
<1>8. ~c.meta
  BY <1>1, <1>3 DEF UnderWay
<1>9. t = c.active
  OBVIOUS
<1>10. n = c.post.send
  OBVIOUS
<1> HIDE DEF t, n, p
<1>11. /\ BackendOK(srv') /\ srv' \in Backends
       /\ \A u \in Threads : Grows(srv[u], srv'[u])
       /\ \A u \in Threads : u # t => srv'[u] = srv[u]
       /\ Len(srv'[t].runs) = Len(srv[t].runs) + 1
  BY <1>1, <1>2, <1>4, StartedGrows
<1>13. Fine(c, srv', log)
  BY <1>1, <1>11, <1>5, SentElsewhere, GrownFine
<1>14. /\ c' \in Store /\ SameList(c, c') /\ SameInputs(c, c')
       /\ c'.up = c.up /\ c'.active = c.active /\ c'.view = c.view /\ c'.proj = c.proj
          /\ c'.read = c.read
       /\ c'.summary = c.summary /\ c'.post = p /\ c'.follow = c.follow /\ c'.meta = c.meta
       /\ c'.snap = c.snap /\ c'.commit = c.commit
  BY <1>1, <1>7, HandledEffect
<1>16. UnderWay(c')
  <2>1. ~Quiet(c) /\ ~Quiet(c')
    BY <1>14, <1>1, <1>7, <1>10 DEF Quiet, NoPost
  <2>2. c.up /\ c.active # New /\ c.read.phase = "none" /\ c.view[c.active].history = "ready"
    BY <1>3, <2>1 DEF UnderWay
  <2>3. c.follow = "post" /\ c.summary.phase = "none" /\ ~(c.follow = "get")
    BY <1>1, <1>3, <1>8, <1>10 DEF UnderWay, Sending
  <2>4. c'.follow = "get" \/ c'.snap \/ c'.meta \/ c'.commit => c'.proj[c'.active].run # 0
    BY <1>3, <1>14 DEF UnderWay
  <2>5. c'.list.phase # "none" => c'.up
    BY <1>14, <2>2
  <2> QED BY <1>1, <1>7, <1>8, <1>14, <2>1, <2>2, <2>3, <2>4, <2>5 DEF UnderWay
<1>17. Ahead(c', srv')
  <2>1. c.proj[t].run <= Len(srv[t].runs) /\ c.proj[t].run \in Nat
    BY <1>1, <1>4 DEF Fine, ViewOK, ThreadOK, KnownOK, Store, Projections
  <2> QED BY <1>6, <1>7, <1>9, <1>11, <1>14, <2>1 DEF Ahead
<1>18. ViewOK(c', srv')
  BY <1>13, <1>14, <1>16, <1>17 DEF Fine, ViewOK
<1>19. PostOK(c', log)
  BY <1>5, <1>7, <1>9, <1>14 DEF PostOK
<1>20. Fine(c', srv', log)
  BY <1>14, <1>13, <1>18, <1>19 DEF SameList, SameInputs, Fine, UnmadeOK
<1> QED BY <1>1, <1>11, <1>14, <1>20, SameShift, GrowStep DEF SameList

-----------------------------------------------------------------------------
(* The window is opened. *)

\* The store of a page just loaded is a store, with nothing to show.
LEMMA NoStoreType ==
  ASSUME NEW d \in InputType
  PROVE  /\ NoStore(d) \in Store /\ d.subs \in [Threads -> Submissions]
         /\ NoStore(d).view = [t \in Threads |-> NoView]
            /\ NoStore(d).proj = [t \in Threads |-> NoProjection]
         /\ NoStore(d).items = [t \in Threads |-> NoItem]
<1> DEFINE view == [t \in Threads |-> NoView]
<1> DEFINE proj == [t \in Threads |-> NoProjection]
<1> DEFINE items == [t \in Threads |-> NoItem]
<1> DEFINE subs == [t \in Threads |-> [d.subs[t] EXCEPT !.status = IF @ = "pending" THEN "unknown" ELSE @]]
<1>1. view \in [Threads -> Views] /\ proj \in [Threads -> Projections]
      /\ items \in [Threads -> Items]
  BY Blank
<1>2. d.subs \in [Threads -> Submissions] /\ d.drafts \in [Threads -> DraftType]
      /\ d.new \in DraftType
  BY DEF InputType
<1>3. subs \in [Threads -> Submissions]
  BY <1>2 DEF Submissions
<1> DEFINE target == <<New, 0>>
<1>4. target \in Targets
  BY DEF Targets
<1>5. NoStore(d) =
        [up |-> FALSE, active |-> New, view |-> view, proj |-> proj, items |-> items,
         list |-> NoRequest, more |-> NoRequest, reset |-> FALSE, loaded |-> FALSE, cursor |-> 0,
         listError |-> FALSE, pageError |-> FALSE, read |-> NoRead,
         summary |-> NoRead, target |-> target, post |-> NoPost, follow |-> "none", meta |-> FALSE,
         snap |-> FALSE, commit |-> FALSE, chain |-> FALSE, creation |-> NoCreation, saves |-> TRUE,
         drafts |-> d.drafts, new |-> d.new, subs |-> subs]
  BY DEF NoStore
<1> HIDE DEF view, proj, items, subs, target
<1>6. NoStore(d) \in Store
  BY <1>1, <1>2, <1>3, <1>4, <1>5, Blank DEF Store
<1>7. NoStore(d).view = view /\ NoStore(d).proj = proj /\ NoStore(d).items = items
  BY <1>5
<1> QED BY <1>2, <1>6, <1>7 DEF view, proj, items

\* It keeps what is true of a store.
LEMMA NoStoreFine ==
  ASSUME NEW d \in InputType, NEW b, BackendOK(b), NEW g, NEW r, r = NoStore(d),
         \A t \in Threads : b[t].stamp = 0 => Unsent(g, t)
  PROVE  r \in Store /\ Fine(r, b, g)
<1>1. /\ r \in Store /\ r.view = [t \in Threads |-> NoView]
         /\ r.proj = [t \in Threads |-> NoProjection]
      /\ r.items = [t \in Threads |-> NoItem]
  BY NoStoreType
<1>2. /\ r.up = FALSE /\ r.active = New /\ r.list = NoRequest /\ r.more = NoRequest
         /\ r.read = NoRead
      /\ r.summary = NoRead /\ r.post = NoPost /\ r.follow = "none" /\ r.meta = FALSE
         /\ r.snap = FALSE
      /\ r.commit = FALSE /\ r.creation = NoCreation
  BY DEF NoStore
<1>3. /\ NoRequest.phase = "none" /\ NoRead.phase = "none" /\ NoCreation.phase = "none"
      /\ NoPost.send = 0 /\ NoPost.run = 0
  BY DEF NoRequest, NoRead, NoCreation, NoPost
<1>4. \A t \in Threads : Len(b[t].runs) \in Nat /\ Len(b[t].msgs) \in Nat
  BY DEF BackendOK, Backends, Histrs
<1>5. ASSUME NEW t \in Threads
      PROVE  ThreadOK(r.view[t], r.proj[t], b[t]) /\ ~r.view[t].verified
  BY <1>1, <1>4 DEF NoView, NoProjection, ThreadOK, KnownOK
<1>6. Quiet(r) /\ r.read.phase = "none" /\ r.list.phase = "none" /\ r.more.phase = "none"
  BY <1>2, <1>3 DEF Quiet
<1>8. ViewOK(r, b)
  BY <1>2, <1>3, <1>5, <1>6 DEF ViewOK, UnderWay, Ahead, Sending
<1>9. ListOK(r.items, r.list, r.more, b)
  BY <1>1, <1>4, <1>6 DEF NoItem, Forward, SumOf, ListOK, RequestOK, InOrder
<1>10. PostOK(r, g) /\ CreationOK(r.creation, r.up, b, g)
  BY <1>2, <1>3 DEF PostOK, CreationOK
<1> QED BY <1>1, <1>8, <1>9, <1>10, <1>2, ConversationConstants DEF Fine, UnmadeOK

\* The step of Restart: the page is loaded again from what it saved.
LEMMA RestartKeeps ==
  ASSUME Good(c, srv, late, log), disk \in InputType, Restart
  PROVE  Good(c', srv', late', log') /\ c' = NoStore(disk)
<1>1. /\ Fine(c, srv, log) /\ BackendOK(srv) /\ log \in Logs /\ UNCHANGED srv /\ Aborts
      /\ c' = NoStore(disk)
  BY DEF Good, Restart
<1>2. PICK forgotten \in BOOLEAN : log' = [log EXCEPT !.events = @ + 1, !.forgotten = forgotten]
  BY <1>1, Zenon DEF Logs, Restart
<1>3. log' \in Logs /\ log'.sent = log.sent
  <2> DEFINE events == log.events + 1
  <2>1. log \in Logs /\ events \in Nat /\ log' = [log EXCEPT !.events = events, !.forgotten = forgotten]
    BY <1>1, <1>2 DEF Logs
  <2> HIDE DEF events
  <2> QED BY <2>1, Zenon DEF Logs
<1> QED BY <1>1, <1>3, AbortsType, NoStoreFine, SameSent DEF Good, Fine, UnmadeOK

\* What is saved of a store is input.
LEMMA InputsType ==
  ASSUME NEW s \in Store
  PROVE  Inputs(s) \in InputType
BY DEF Store, Inputs, InputType

-----------------------------------------------------------------------------
(* The invariant of what is shown. *)

\* The invariant holds at the start.
LEMMA InitInv == Init => ConversationInv
<1> SUFFICES ASSUME Init PROVE ConversationInv
  OBVIOUS
<1>1. PICK stamp \in [Threads -> 0..Cardinality(Threads)] :
        srv = [t \in Threads |-> IF stamp[t] # 0
                 THEN [stamp |-> stamp[t], runs |-> <<[send |-> 0, over |-> TRUE]>>, msgs |-> <<1>>]
                 ELSE [stamp |-> 0, runs |-> <<>>, msgs |-> <<>>]]
  BY Zenon DEF Init
<1>2. /\ late = {}
      /\ disk = [drafts |-> [t \in Threads |-> NoDraft], new |-> NoDraft,
                 subs |-> [t \in Threads |-> NoSubmission]]
      /\ c = NoStore(disk)
      /\ log = [events |-> 0, texts |-> 0, sent |-> <<>>, mine |-> {}, known |-> {}, forgotten |-> FALSE]
  BY DEF Init
<1>4. ASSUME NEW t \in Threads
      PROVE  srv[t] \in Histrs /\ HistoryOK(srv[t])
  <2> DEFINE h == srv[t]
  <2>1. CASE stamp[t] # 0
    <3> HIDE DEF h
    <3> QED BY <2>1, <1>1, FS_CardinalityType, ConversationConstants DEF h, Histrs, HistoryOK
  <2>2. CASE stamp[t] = 0
    <3> HIDE DEF h
    <3> QED BY <1>1, <2>2 DEF h, Histrs, HistoryOK
  <2> QED BY <2>1, <2>2
<1>5. BackendOK(srv)
  BY <1>1, <1>4, Zenon DEF Backends, BackendOK
<1>6. disk \in InputType
  BY <1>2, Blank DEF InputType
<1>7. log \in Logs /\ Len(log.sent) = 0 /\ \A t \in Threads : Unsent(log, t)
  BY <1>2, ConversationConstants DEF Texts, Logs, Unsent
<1>9. DiskOK(disk, c)
  <2> DEFINE drafts == [t \in Threads |-> NoDraft]
  <2> DEFINE subs == [t \in Threads |-> NoSubmission]
  <2> QED BY <1>6, <1>2, Blank, Zenon DEF DiskOK, Inputs, NoStore, Submissions, NoSubmission
<1> QED BY <1>2, <1>5, <1>7, <1>6, <1>9, NoStoreFine DEF ConversationInv

\* Every step is good, and shows nothing older unless the page is loaded again.
LEMMA NextStep ==
  ASSUME ConversationInv, Next
  PROVE  Good(c', srv', late', log') /\ (Onward \/ c' = NoStore(disk))
<1>1. Good(c, srv, late, log) /\ disk \in InputType
  BY DEF ConversationInv, Good, DiskOK
<1>2. CASE Answers
  BY <1>1, <1>2, AnswerListKeeps, AnswerHistoryKeeps, ServePostKeeps, ServeCreateKeeps,
    ServeLateKeeps,
     RunStoresKeeps, RunEndsKeeps DEF Answers, GoodStep
<1>3. CASE Receives
  BY <1>1, <1>3, ReceiveListKeeps, ReceiveMoreKeeps, PollKeeps, ReceiveHistoryKeeps,
    ReceiveSummaryKeeps,
     ReceiveCommittedKeeps, ReceiveSavedKeeps, ReceiveSnapshotKeeps, AcceptSendKeeps, OpenStreamKeeps,
     StreamMessagesKeeps, EndStreamKeeps, ReceiveCreateKeeps DEF Receives, GoodStep
<1>4. CASE Fails
  BY <1>1, <1>4, FailSendKeeps, BreakStreamKeeps, FailReadKeeps, FailHistoryKeeps, FailCreateKeeps,
     BreakStorageKeeps DEF Fails, GoodStep
<1>5. CASE Asks
  BY <1>1, <1>5, TypeKeeps, SelectKeeps, OpenNewKeeps, AskReloadKeeps, ReloadThreadsKeeps,
    LoadMoreKeeps,
     HideKeeps, ShowAgainKeeps, SendKeeps, SendAsNewTaskKeeps, ConfirmSendKeeps, SendFirstKeeps,
     CopyDraftKeeps, RestartKeeps DEF Asks, GoodStep
<1> QED BY <1>2, <1>3, <1>4, <1>5 DEF Next

\* The invariant is inductive.
LEMMA NextInv == ConversationInv /\ [Next]_vars => ConversationInv'
BY NextStep, InputsType, Zenon DEF Next, Good, ConversationInv, DiskOK, vars

\* The invariant holds, for any finite set of conversations.
THEOREM Invariance == Spec => []ConversationInv
BY InitInv, NextInv, PTL DEF Spec

-----------------------------------------------------------------------------
(* Settling keeps the accounts. *)

\* A copy that is on its way after was on its way before.
LEMMA FollowsCopies ==
  ASSUME NEW k, NEW j, NEW same, Follows(k, j, same)
  PROVE  /\ Copies(j) => Copies(k) /\ j.copy = k.copy /\ j.thread = k.thread
         /\ Leaving(j) => /\ j.phase = k.phase /\ j.first = k.first /\ j.text = k.text
                          /\ j.version = k.version /\ j.thread = k.thread
                             /\ (j.here => k.here /\ same)
         /\ (j.first => k.first) /\ j.text \subseteq k.text /\ j.copy \subseteq k.copy
BY DEF Follows, Copies, Leaving, NoCreation

\* What a submission keeps when its outcome becomes unknown.
LEMMA SettledSub ==
  ASSUME NEW s \in Store, NEW r \in Store, Settles(s, r), NEW t \in Threads
  PROVE  LET sub == s.subs[t]
             new == r.subs[t]
         IN  /\ new.id = sub.id /\ new.text = sub.text /\ new.version = sub.version
             /\ new.prev = sub.prev /\ new.run = sub.run
             /\ (Unsettled(new) <=> Unsettled(sub))
                /\ (new.status = "pending" => sub.status = "pending")
             /\ (new.status = "accepted" <=> sub.status = "accepted")
             /\ (new.status = "none" <=> sub.status = "none")
<1>1. s.subs[t] \in Submissions
  BY DEF Store
<1>2. LET u == [s.subs[t] EXCEPT !.status = "unknown"]
      IN  /\ u.status = "unknown" /\ u.id = s.subs[t].id /\ u.text = s.subs[t].text
          /\ u.version = s.subs[t].version /\ u.prev = s.subs[t].prev /\ u.run = s.subs[t].run
  BY <1>1 DEF Submissions
<1>3. \/ r.subs[t] = s.subs[t]
      \/ s.subs[t].status = "pending" /\ r.subs[t] = [s.subs[t] EXCEPT !.status = "unknown"]
  BY DEF Settles
<1> QED BY <1>2, <1>3, Zenon DEF Unsettled

\* A conversation that nothing was sent to has no submission.
LEMMA UnsentSub ==
  ASSUME NEW g \in Logs, NEW t, Unsent(g, t), NEW sub \in Submissions, NEW b, SubOK(sub, t, b, g)
  PROVE  sub.id = 0 /\ sub.status = "none"
<1>1. sub.id \in Nat /\ Len(g.sent) \in Nat
  BY DEF Submissions, Logs
<1> QED BY <1>1 DEF SubOK, Unsent

\* What is known of sends depends on the log by a part of it.
LogStays(g, h) ==
  /\ h.sent = g.sent /\ h.mine = g.mine /\ h.known = g.known /\ h.texts = g.texts
  /\ h.forgotten = g.forgotten

\* The books stay as they are while a conversation settles.
LEMMA SettledBooks ==
  ASSUME NEW s \in Store, NEW r \in Store, Settles(s, r), NEW g \in Logs, NEW b,
         NEW M \in SUBSET (1..Len(g.sent)), BooksOK(s, M, g), SubsOK(s.subs, b, g),
         BoundOK(s.creation, b, g)
  PROVE  BooksOK(r, M, g)
<1> SUFFICES ASSUME ~g.forgotten, NEW t \in Threads
             PROVE  ThreadBooks(t, r.subs[t], r.drafts[t], M, g)
  BY DEF BooksOK
<1>1. ThreadBooks(t, s.subs[t], s.drafts[t], M, g)
  BY DEF BooksOK
<1> DEFINE sub == s.subs[t]
<1> DEFINE new == r.subs[t]
<1>2. /\ new.id = sub.id /\ new.text = sub.text /\ new.version = sub.version
      /\ (Unsettled(new) <=> Unsettled(sub))
      /\ (new.status = "accepted" <=> sub.status = "accepted")
      /\ (new.status = "none" <=> sub.status = "none")
  BY SettledSub
<1>3. CASE r.drafts[t] = s.drafts[t]
  <2>1. SameOrApart(s.drafts[t], sub) = SameOrApart(r.drafts[t], new)
    BY <1>2, <1>3 DEF SameOrApart
  <2> QED BY <1>1, <1>2, <1>3, <2>1 DEF ThreadBooks
<1>4. CASE Copies(s.creation) /\ t = s.creation.thread
  <2>1. Unsent(g, t)
    BY <1>4 DEF BoundOK
  <2>2. sub.id = 0 /\ sub.status = "none"
    <3>1. sub \in Submissions
      BY DEF Store
    <3> QED BY <2>1, <3>1, UnsentSub DEF SubsOK
  <2>3. ~Unsettled(new) /\ new.status # "accepted"
    BY <1>2, <2>2 DEF Unsettled
  <2>4. \A n \in M : g.sent[n].thread # t
    BY <2>1 DEF Unsent
  <2> QED BY <2>3, <2>4, Zenon DEF ThreadBooks
<1> QED BY <1>3, <1>4 DEF Settles

\* What is accepted stays on show.
LEMMA SettledAccepted ==
  ASSUME NEW s \in Store, NEW r \in Store, Settles(s, r), Dims(s, r), NEW b, AcceptedOK(s, b),
         \A t \in Threads : Forward(s.view[t], r.view[t])
  PROVE  AcceptedOK(r, b)
<1>1. ASSUME NEW t \in Threads
      PROVE  /\ r.subs[t].run = s.subs[t].run
             /\ (r.subs[t].status = "accepted" <=> s.subs[t].status = "accepted")
             /\ r.subs[t].run \in Nat /\ r.view[t].run \in Nat /\ s.view[t].run \in Nat
             /\ s.view[t].run <= r.view[t].run
  <2>1. r.subs[t] \in Submissions /\ r.view[t] \in Views /\ s.view[t] \in Views
    BY DEF Store
  <2> QED BY <2>1, SettledSub DEF Submissions, Views, Forward
<1>2. ASSUME NEW t \in Threads, r.subs[t].status = "accepted"
      PROVE  Dark(r, t) \/ r.view[t].run >= r.subs[t].run
  BY <1>1, <1>2 DEF AcceptedOK, Dims
<1>3. ASSUME NEW t \in Threads, r.read.phase = "answer", t = r.active, r.subs[t].status = "accepted"
      PROVE  r.read.ans.n > 0 /\ b[t].msgs[r.read.ans.n] >= r.subs[t].run
  BY <1>1, <1>3 DEF AcceptedOK, Dims
<1> QED BY <1>2, <1>3 DEF AcceptedOK

\* Settling keeps the accounts, when what may still become a Run is as it was.
LEMMA SettledAccounts ==
  ASSUME NEW s \in Store, NEW r \in Store, Settles(s, r), NEW b, NEW l, NEW k,
         NEW g \in Logs, k \subseteq 0..Len(g.sent), Accounts(s, b, l, g),
         \A t \in Threads : Forward(s.view[t], r.view[t]), AcceptedOK(r, b),
         Waits(k, r.post, g) = Waits(l, s.post, g),
         r.post.send # 0 /\ r.post.run = 0 => r.post.send \notin k,
         s.creation.phase = "made" => s.creation.thread \in Threads
  PROVE  Accounts(r, b, k, g)
<1>1. Len(g.sent) \in Nat /\ RunsOf(b, g) \subseteq 1..Len(g.sent)
      /\ Waits(l, s.post, g) \subseteq 1..Len(g.sent)
  BY DEF Logs, RunsOf, Waits
<1>2. WaitingOK(r.post, r.active, b, k, g)
  <2>1. ASSUME NEW n \in k, n # 0
        PROVE  n \notin RunsOf(b, g)
    <3>1. n \in 1..Len(g.sent)
      BY <1>1, <2>1
    <3>2. n \in Waits(l, s.post, g)
      BY <3>1 DEF Waits
    <3>3. n \in l \/ (s.post.send = n /\ s.post.run = 0)
      BY <3>2 DEF Waits
    <3> QED BY <2>1, <3>3 DEF Accounts, WaitingOK
  <2>2. CASE r.post = NoPost
    <3>1. r.post.send = 0
      BY <2>2 DEF NoPost
    <3> QED BY <2>1, <3>1 DEF WaitingOK
  <2>3. CASE r.post = s.post /\ r.active = s.active
    BY <2>1, <2>3 DEF Accounts, WaitingOK
  <2> QED BY <2>2, <2>3 DEF Settles
<1> DEFINE i == s.creation
<1> DEFINE j == r.creation
<1>3. /\ Copies(j) => Copies(i) /\ j.copy = i.copy /\ j.thread = i.thread
      /\ Leaving(j) => /\ j.phase = i.phase /\ j.first = i.first /\ j.text = i.text
                       /\ j.version = i.version /\ j.thread = i.thread
                       /\ (j.here => i.here /\ r.active = s.active)
      /\ (j.first => i.first) /\ j.text \subseteq i.text /\ j.copy \subseteq i.copy
  BY FollowsCopies, Zenon DEF Settles
<1>4. BoundOK(j, b, g)
  <2>1. BoundOK(i, b, g)
    BY DEF Accounts
  <2> HIDE DEF i, j
  <2>2. j.first => j.copy = {} /\ (Leaving(j) => Len(g.sent) < MaxSends)
    BY <1>3, <2>1, Zenon DEF BoundOK, Leaving
  <2> QED BY <1>3, <2>1, <2>2 DEF BoundOK
<1>5. SubsOK(r.subs, b, g)
  <2> SUFFICES ASSUME NEW t \in Threads PROVE SubOK(r.subs[t], t, b, g)
    BY DEF SubsOK
  <2>1. SubOK(s.subs[t], t, b, g)
    BY DEF Accounts, SubsOK
  <2> QED BY <2>1, SettledSub DEF SubOK
<1>6. PendingOK(r) /\ SinceOK(r)
  <2>1. PendingOK(r)
    BY SettlesPending DEF Accounts
  <2>2. ASSUME NEW t \in Threads, r.subs[t].status = "pending"
        PROVE  r.subs[t].prev <= r.view[t].run
    <3>1. r.subs[t].prev = s.subs[t].prev /\ s.subs[t].status = "pending"
      BY <2>2, SettledSub
    <3>2. s.subs[t].prev \in Nat /\ s.view[t].run \in Nat /\ r.view[t].run \in Nat
      BY Zenon DEF Store, Submissions, Views
    <3> QED BY <3>1, <3>2 DEF Accounts, SinceOK, Forward
  <2> QED BY <2>1, <2>2 DEF SinceOK
<1>7. BooksOK(r, Taken(b, k, r.post, g), g)
  <2>1. Taken(b, k, r.post, g) = Taken(b, l, s.post, g)
        /\ Taken(b, l, s.post, g) \subseteq 1..Len(g.sent)
    BY <1>1 DEF Taken
  <2> QED BY <2>1, SettledBooks DEF Accounts
<1>8. TypedOK(r, g)
  <2>1. \A t \in Threads : r.subs[t].text = s.subs[t].text
    BY SettledSub
  <2>2. TypedOK(s, g)
    BY DEF Accounts
  <2>3. \A t \in Threads : r.drafts[t].text \subseteq s.drafts[t].text \cup s.creation.copy
    BY DEF Settles
  <2>4. Typed(r, g)
    BY <2>1, <2>2, <2>3 DEF TypedOK, Typed, Settles
  <2> QED BY <1>3, <2>2, <2>4 DEF TypedOK
<1>9. Unmade(r, b)
  <2> SUFFICES ASSUME NEW t \in Threads, b[t].stamp = 0 PROVE r.drafts[t].text = {}
    BY DEF Unmade
  <2>1. ~(Copies(i) /\ t = i.thread)
    BY DEF Accounts, BoundOK
  <2> QED BY <2>1 DEF Accounts, Unmade, Settles
<1>10. NewOK(r)
  <2>1. ASSUME j.phase = "made", j.here
        PROVE  r.active # j.thread /\ r.drafts[j.thread].text = {}
    <3>1. i.phase = "made" /\ i.here /\ j.thread = i.thread /\ r.active = s.active
      BY <1>3, <2>1 DEF Leaving
    <3>2. s.active # i.thread /\ s.drafts[i.thread].text = {}
      BY <3>1 DEF Accounts, NewOK
    <3>3. r.drafts[i.thread] = s.drafts[i.thread]
      <4>1. CASE Copies(i)
        <5>1. j.copy = i.copy
          BY <2>1, <4>1, <3>1 DEF Settles, Follows, NoCreation
        <5>2. Copies(j) /\ i.thread \in Threads
          BY <2>1, <4>1, <5>1 DEF Copies, Accounts, BoundOK
        <5> QED BY <5>2 DEF Settles
      <4>2. CASE ~Copies(i) /\ i.thread \in Threads
        BY <4>2 DEF Settles
      <4>3. CASE i.thread \notin Threads
        BY <3>1, <4>3
      <4> QED BY <4>1, <4>2, <4>3
    <3> QED BY <3>1, <3>2, <3>3
  <2>2. ASSUME j.first, Leaving(j)
        PROVE  SameOrApart(r.new, j)
    <3>1. i.first /\ Leaving(i) /\ j.text = i.text /\ j.version = i.version /\ r.new = s.new
      BY <1>3, <2>2, Zenon DEF Leaving, Settles
    <3> QED BY <3>1 DEF Accounts, NewOK, SameOrApart
  <2> QED BY <2>1, <2>2 DEF NewOK
<1>11. KeptOK(r, b, g)
  <2>1. Held(s) \subseteq Held(r)
    <3>1. \A t \in Threads : s.drafts[t].text \subseteq r.drafts[t].text
      BY DEF Settles
    <3> QED BY <3>1 DEF Held, Settles
  <2> QED BY <2>1 DEF Accounts, KeptOK
<1> QED BY <1>2, <1>4, <1>5, <1>6, <1>7, <1>8, <1>9, <1>10, <1>11 DEF Accounts

-----------------------------------------------------------------------------
(* Steps that settle. *)

\* The accounts depend on the log by a part of it.
LEMMA SameLog ==
  ASSUME NEW s, NEW b, NEW l, NEW g, NEW h, LogStays(g, h), Accounts(s, b, l, g)
  PROVE  Accounts(s, b, l, h)
<1>1. RunsOf(b, h) = RunsOf(b, g) /\ Waits(l, s.post, h) = Waits(l, s.post, g)
  BY DEF LogStays, RunsOf, Waits
<1>2. \A n, m : AgainIn(h, n, m) = AgainIn(g, n, m)
  BY DEF LogStays, AgainIn
<1>3. \A t \in Threads : HistorySends(b[t], t, h)
  BY DEF LogStays, Accounts, HistorySends
<1>4. WaitingOK(s.post, s.active, b, l, h)
  BY <1>1 DEF Accounts, WaitingOK
<1>5. BoundOK(s.creation, b, h) /\ SubsOK(s.subs, b, h)
  BY DEF LogStays, Accounts, BoundOK, SubsOK, SubOK, Unsent
<1>6. BooksOK(s, Taken(b, l, s.post, h), h)
  <2>1. Taken(b, l, s.post, h) = Taken(b, l, s.post, g)
    BY <1>1 DEF Taken
  <2> DEFINE M == Taken(b, l, s.post, g)
  <2>2. BooksOK(s, M, g)
    BY DEF Accounts
  <2> HIDE DEF M
  <2>3. BooksOK(s, M, h)
    BY <1>2, <2>2 DEF LogStays, BooksOK, ThreadBooks, Apart
  <2> QED BY <2>1, <2>3 DEF M
<1>7. TypedOK(s, h) /\ KeptOK(s, b, h)
  BY <1>1 DEF LogStays, Accounts, TypedOK, Typed, KeptOK, Answered0
<1> QED BY <1>3, <1>4, <1>5, <1>6, <1>7 DEF Accounts

\* What the backend and the log may become.
Later(b, d, g, h) ==
  /\ \A t \in Threads : Len(b[t].runs) <= Len(d[t].runs) /\ (d[t].stamp = 0 => b[t].stamp = 0)
  /\ Len(g.sent) <= Len(h.sent) /\ \A n \in 1..Len(g.sent) : h.sent[n] = g.sent[n]
  /\ g.texts <= h.texts

\* What every action keeps of the accounts.
AccountStep == Accounts(c', srv', late', log') /\ Later(srv, srv', log, log')

\* A POST that is given up may still be handled.
LEMMA WaitsStay ==
  ASSUME NEW g \in Logs, NEW p \in Posts, NEW q \in Posts, NEW l, NEW k, NEW t, NEW b,
         WaitingOK(p, t, b, l, g), q = p \/ q = NoPost,
         k \cup {0} = l \cup {0} \cup IF p.run = 0 /\ q # p THEN {p.send} ELSE {}
  PROVE  Waits(k, q, g) = Waits(l, p, g) /\ (q.send # 0 /\ q.run = 0 => q.send \notin k)
<1>1. Len(g.sent) \in Nat
  BY DEF Logs
<1>2. \A n \in 1..Len(g.sent) : n \in k <=> n \in l \/ (p.run = 0 /\ q # p /\ n = p.send)
  BY <1>1
<1>3. NoPost.send = 0
  BY DEF NoPost
<1>4. \A n \in 1..Len(g.sent) : n # 0
  BY <1>1
<1>5. Waits(k, q, g) = Waits(l, p, g)
  BY <1>2, <1>3, <1>4 DEF Waits
<1>6. ASSUME q.send # 0, q.run = 0
      PROVE  q.send \notin k
  <2>1. q = p
    BY <1>3, <1>6
  <2>2. p.send \notin l
    BY <1>6, <2>1 DEF WaitingOK
  <2> QED BY <1>6, <2>1, <2>2
<1> QED BY <1>5, <1>6

\* A settled window keeps the accounts, when a POST that was given up may still be handled.
LEMMA SettledHere ==
  ASSUME Booked, NEW r \in Store, Settles(c, r), AcceptedOK(r, srv),
         \A t \in Threads : Forward(c.view[t], r.view[t]), NEW k \in SUBSET (0..Len(log.sent)),
         k \cup {0} = late \cup {0} \cup IF c.post.run = 0
         /\ r.post # c.post THEN {c.post.send} ELSE {}
  PROVE  Accounts(r, srv, k, log)
<1>1. /\ c \in Store /\ log \in Logs /\ c.post \in Posts /\ r.post \in Posts
      /\ c.creation.phase = "made" => c.creation.thread \in Threads
  BY DEF Booked, ConversationInv, Fine, CreationOK, Store
<1>2. Accounts(c, srv, late, log)
  BY DEF Booked, AccountsInv
<1>3. /\ Waits(k, r.post, log) = Waits(late, c.post, log)
      /\ r.post.send # 0 /\ r.post.run = 0 => r.post.send \notin k
  <2>1. r.post = c.post \/ r.post = NoPost
    BY DEF Settles
  <2>2. WaitingOK(c.post, c.active, srv, late, log)
    BY <1>2 DEF Accounts
  <2> QED BY <1>1, <2>1, <2>2, WaitsStay, Zenon
<1> QED BY <1>1, <1>2, <1>3, SettledAccounts, Zenon

\* Less than what the backend and the log become.
LEMMA LaterLog ==
  ASSUME Booked, UNCHANGED srv, LogStays(log, log')
  PROVE  Later(srv, srv', log, log')
<1>1. \A t \in Threads : Len(srv[t].runs) \in Nat
  BY HistoryTypes DEF Booked, ConversationInv
<1>2. Len(log.sent) \in Nat /\ log.texts \in Nat
  BY DEF Booked, ConversationInv, Logs
<1> QED BY <1>1, <1>2 DEF Later, LogStays

\* A step of the window that settles keeps the accounts.
LEMMA SettleStep ==
  ASSUME Booked, GoodStep, UNCHANGED srv, LogStays(log, log'), Settles(c, c'), AcceptedOK(c', srv),
         late' \cup {0} =
           late \cup {0} \cup IF c.post.run = 0 /\ c'.post # c.post THEN {c.post.send} ELSE {}
  PROVE  AccountStep
<1>1. /\ c' \in Store /\ late' \in SUBSET (0..Len(log.sent))
      /\ \A t \in Threads : Forward(c.view[t], c'.view[t])
  BY DEF GoodStep, Good, Onward, LogStays
<1>2. Accounts(c', srv, late', log)
  BY <1>1, SettledHere
<1> QED BY <1>2, SameLog, LaterLog DEF AccountStep

\* So does one that brings nothing on show.
LEMMA DimStep ==
  ASSUME Booked, GoodStep, UNCHANGED srv, LogStays(log, log'), Settles(c, c'), Dims(c, c'),
         late' \cup {0} =
           late \cup {0} \cup IF c.post.run = 0 /\ c'.post # c.post THEN {c.post.send} ELSE {}
  PROVE  AccountStep
<1>1. c \in Store /\ c' \in Store /\ \A t \in Threads : Forward(c.view[t], c'.view[t])
  BY DEF Booked, ConversationInv, GoodStep, Good, Onward
<1>2. AcceptedOK(c, srv)
  BY DEF Booked, AccountsInv, Accounts
<1>3. AcceptedOK(c', srv)
  BY <1>1, <1>2, SettledAccepted
<1> QED BY <1>3, SettleStep

\* The POST stays.
LEMMA StayStep ==
  ASSUME Booked, GoodStep, UNCHANGED <<srv, late>>, LogStays(log, log'), Settles(c, c'), Dims(c,
                                       c'),
         c'.post = c.post \/ c.post.send = 0 \/ c.post.run # 0
  PROVE  AccountStep
<1>1. late' \cup {0} =
        late \cup {0} \cup IF c.post.run = 0 /\ c'.post # c.post THEN {c.post.send} ELSE {}
  OBVIOUS
<1> QED BY <1>1, DimStep

\* A POST that is aborted may still be handled.
LEMMA AbortStep ==
  ASSUME Booked, GoodStep, UNCHANGED srv, LogStays(log, log'), Settles(c, c'), Dims(c, c'), Aborts
  PROVE  AccountStep
<1>1. c'.post = NoPost \/ c'.post = c.post
  BY DEF Settles
<1>2. c.post.send = 0 => c.post.run = 0
  BY DEF Booked, ConversationInv, Fine, ViewOK, UnderWay
<1>3. c.post \in Posts /\ NoPost.send = 0 /\ NoPost.run = 0
  BY DEF Booked, ConversationInv, Store, NoPost
<1>4. c'.post # c.post => c.post.send # 0
  BY <1>1, <1>2, <1>3 DEF Posts, NoPost
<1>5. c'.post.send # c.post.send <=> c'.post # c.post
  BY <1>1, <1>3, <1>4
<1>6. late' \cup {0} =
        late \cup {0} \cup IF c.post.run = 0 /\ c'.post # c.post THEN {c.post.send} ELSE {}
  BY <1>5 DEF Aborts
<1> QED BY <1>6, DimStep

\* An event is noted, and nothing else is.
LEMMA EventStays ==
  ASSUME log \in Logs, Event \/ UNCHANGED log
  PROVE  LogStays(log, log')
BY DEF Logs, Event, LogStays

\* What holds of the store, by name.
LEMMA BookedGood ==
  ASSUME Booked
  PROVE  /\ Good(c, srv, late, log) /\ c \in Store /\ log \in Logs /\ BackendOK(srv)
            /\ srv \in Backends
         /\ Fine(c, srv, log) /\ UnderWay(c) /\ late \subseteq 0..Len(log.sent) /\ PendingOK(c)
         /\ disk \in InputType /\ Accounts(c, srv, late, log)
         /\ c.creation.phase = "listing" /\ c.creation.copy # {} => c.creation.thread \in Threads
BY DEF Booked, ConversationInv, AccountsInv, Accounts, Good, Fine, ViewOK, CreationOK, DiskOK,
  BackendOK

\* What reading and failing leave of the POST.
LEMMA PostStays ==
  ASSUME c \in Store, ReceiveList \/ ReceiveMore \/ ReceiveCommitted \/ ReceiveSaved
                      \/ ReceiveSnapshot \/ StreamMessages \/ FailRead \/ FailHistory
  PROVE  c'.post = c.post
<1>1. CASE ReceiveSaved
  BY <1>1 DEF ReceiveSaved, Store
<1>2. CASE StreamMessages
  BY <1>2 DEF StreamMessages, Store
<1>3. CASE FailHistory
  BY <1>3, Zenon DEF FailHistory, Store
<1>4. CASE ReceiveCommitted
  BY <1>4, Zenon DEF ReceiveCommitted, EndCommit, LoadThreads, Publish, Store
<1>5. CASE FailRead
  <2>1. CASE c.commit /\ c' = EndCommit(c)
    BY <2>1 DEF EndCommit, LoadThreads, Store
  <2>2. CASE c' = EndListing([c EXCEPT !.list = NoRequest, !.listError = TRUE])
    BY <2>2 DEF EndListing, EndCreation, Update, Store
  <2>3. CASE \/ c' = [c EXCEPT !.more = NoRequest, !.pageError = TRUE]
             \/ c' = [c EXCEPT !.summary = NoRead] \/ c' = [c EXCEPT !.snap = FALSE]
    BY <2>3, Zenon DEF Store
  <2> QED BY <1>5, <2>1, <2>2, <2>3 DEF FailRead
<1>6. CASE ReceiveMore
  BY <1>6 DEF ReceiveMore, MergeThreads, Store
<1>7. CASE ReceiveSnapshot
  <2>1. PICK preserve \in {c.meta, c.follow # "none"} :
          LET t == c.active
              run == c.proj[t].run
              told == IF preserve THEN c ELSE [c EXCEPT !.proj[t] = Metadata(@, run, Over(t, run))]
              shown == [Publish(told, t) EXCEPT !.snap = FALSE, !.view[t].verified = TRUE]
          IN  c' = SyncRun(shown, t, run, shown.view[t].over)
    BY <1>7, Zenon DEF ReceiveSnapshot
  <2> DEFINE told == IF preserve THEN c
                     ELSE [c EXCEPT !.proj[c.active] =
                             Metadata(@, c.proj[c.active].run, Over(c.active, c.proj[c.active].run))]
  <2> DEFINE y == [Publish(told, c.active) EXCEPT !.snap = FALSE, !.view[c.active].verified = TRUE]
  <2>2. y.post = c.post
    BY DEF Publish, Store
  <2>3. c' = SyncRun(y, c.active, c.proj[c.active].run, y.view[c.active].over)
    BY <2>1
  <2> HIDE DEF y
  <2>4. SyncRun(y, c.active, c.proj[c.active].run, y.view[c.active].over).post = y.post
    BY DEF SyncRun
  <2> QED BY <2>2, <2>3, <2>4
<1>8. CASE ReceiveList
  <2> DEFINE told == IF SelectedIsNews(c)
                     THEN ReconcileSummary(c, c.active, c.list.ans.items[c.active].run) ELSE c
  <2> DEFINE x == [MergeThreads(told, c.list) EXCEPT
                     !.list = NoRequest, !.loaded = TRUE, !.reset = FALSE,
                     !.cursor = IF c.reset THEN c.list.ans.next ELSE @, !.pageError = @ /\ ~c.reset]
  <2>1. x.post = c.post
    BY DEF ReconcileSummary, MergeThreads, Store
  <2>2. c' = EndListing(x)
    BY <1>8 DEF ReceiveList
  <2> HIDE DEF x
  <2>3. EndListing(x).post = x.post
    BY DEF EndListing, EndCreation, Update
  <2> QED BY <2>1, <2>2, <2>3
<1> QED BY <1>1, <1>2, <1>3, <1>4, <1>5, <1>6, <1>7, <1>8

\* A step that settles while nothing that is out is given up keeps the accounts.
LEMMA CalmStep ==
  ASSUME Booked, GoodStep /\ Calms, UNCHANGED <<srv, late>>, Event \/ UNCHANGED log,
         c'.post = c.post \/ ~Sending(c)
  PROVE  AccountStep
<1>1. c.post.send = 0 \/ c.post.run # 0 \/ c'.post = c.post
  BY BookedGood DEF UnderWay, Sending
<1> QED BY <1>1, BookedGood, EventStays, StayStep DEF Calms

\* What is received, but for a history and an acceptance, keeps the accounts.
LEMMA CalmReceives ==
  ASSUME Booked, ReceiveList \/ ReceiveMore \/ ReceiveSummary \/ ReceiveCommitted \/ ReceiveSaved
                 \/ ReceiveSnapshot \/ OpenStream \/ StreamMessages \/ EndStream
  PROVE  AccountStep
<1>1. CASE ReceiveList \/ ReceiveMore \/ ReceiveCommitted \/ ReceiveSaved \/ ReceiveSnapshot
           \/ StreamMessages
  <2>1. c'.post = c.post
    BY <1>1, BookedGood, PostStays, SMTT(30)
  <2>2. UNCHANGED <<srv, late, log>>
    BY <1>1, Zenon DEF ReceiveList, ReceiveMore, ReceiveCommitted, ReceiveSaved, ReceiveSnapshot,
                StreamMessages
  <2>3. GoodStep /\ Calms
    BY <1>1, BookedGood, ReceiveListKeeps, ReceiveMoreKeeps, ReceiveCommittedKeeps,
       ReceiveSavedKeeps, ReceiveSnapshotKeeps, StreamMessagesKeeps
  <2> QED BY <2>1, <2>2, <2>3, CalmStep
<1>2. CASE ReceiveSummary \/ OpenStream \/ EndStream
  <2>1. ~Sending(c)
    <3>1. CASE ReceiveSummary
      BY <3>1, BookedGood, SMTT(30) DEF ReceiveSummary, UnderWay
    <3>2. CASE OpenStream
      BY <3>2, BookedGood, Zenon DEF OpenStream, UnderWay, Sending
    <3>3. CASE EndStream
      BY <3>3, SMTT(30) DEF EndStream, Sending
    <3> QED BY <1>2, <3>1, <3>2, <3>3
  <2>2. UNCHANGED <<srv, late, log>>
    BY <1>2, Zenon DEF ReceiveSummary, OpenStream, EndStream
  <2>3. GoodStep /\ Calms
    BY <1>2, BookedGood, ReceiveSummaryKeeps, OpenStreamKeeps, EndStreamKeeps
  <2> QED BY <2>1, <2>2, <2>3, CalmStep
<1> QED BY <1>1, <1>2

\* What fails, but for a send and a creation, keeps the accounts.
LEMMA CalmFails ==
  ASSUME Booked, BreakStream \/ FailRead \/ FailHistory
  PROVE  AccountStep
<1>1. UNCHANGED <<srv, late>> /\ Event
  BY DEF BreakStream, FailRead, FailHistory
<1>2. c'.post = c.post \/ ~Sending(c)
  BY BookedGood, PostStays DEF BreakStream
<1>3. GoodStep /\ Calms
  BY BookedGood, BreakStreamKeeps, FailReadKeeps, FailHistoryKeeps
<1> QED BY <1>1, <1>2, <1>3, CalmStep

\* What the list asks for and is answered, and the window that comes back, keep the accounts.
LEMMA CalmLists ==
  ASSUME Booked, AnswerList \/ Poll \/ LoadMore \/ ReloadThreads \/ Show
  PROVE  AccountStep
<1>1. GoodStep
  BY BookedGood, AnswerListKeeps, PollKeeps, LoadMoreKeeps, ReloadThreadsKeeps, ShowAgainKeeps
<1>2. UNCHANGED <<srv, late>> /\ (Event \/ UNCHANGED log)
  BY Zenon DEF AnswerList, Poll, LoadMore, ReloadThreads, Show
<1> SUFFICES Settles(c, c') /\ Dims(c, c') /\ (c'.post = c.post \/ c.post.send = 0)
  BY <1>1, <1>2, BookedGood, EventStays, StayStep
<1>3. CASE AnswerList \/ LoadMore
  <2>1. SameInputs(c, c') /\ SameShown(c, c')
    <3>1. CASE AnswerList
      BY <3>1, BookedGood, ZenonT(60) DEF AnswerList, Store, SameInputs, SameShown
    <3>2. CASE LoadMore
      BY <3>2, BookedGood, Zenon DEF LoadMore, Store, SameInputs, SameShown
    <3> QED BY <1>3, <3>1, <3>2
  <2> QED BY <2>1, SameBoth DEF SameShown
<1>4. CASE Poll \/ ReloadThreads
  <2>1. CASE Poll
    <3>1. c' = LoadThreads(c, FALSE)
      BY <2>1 DEF Poll
    <3>2. PICK reset \in BOOLEAN : ~reset
      BY Zenon
    <3>3. c' = LoadThreads(c, reset) /\ reset = FALSE
      BY <3>1, <3>2, Zenon
    <3>4. SameInputs(c, c') /\ SameShown(c, c')
      BY <3>3, BookedGood DEF LoadThreads, Store, SameInputs, SameShown
    <3> QED BY <3>4, SameBoth DEF SameShown
  <2>2. CASE ReloadThreads
    <3> DEFINE m == EndListing(c)
    <3>1. m \in Store /\ Settles(c, m) /\ Dims(c, m) /\ m.post = c.post
      <4>1. m.post = c.post
        BY BookedGood DEF EndListing, EndCreation, Update, Store
      <4> QED BY <4>1, BookedGood, EndListingSettles
    <3>2. c' = LoadThreads(m, TRUE)
      BY <2>2 DEF ReloadThreads
    <3> HIDE DEF m
    <3>3. SameInputs(m, c') /\ SameShown(m, c')
      BY <3>1, <3>2 DEF LoadThreads, Store, SameInputs, SameShown
    <3>4. Settles(m, c') /\ Dims(m, c') /\ c'.post = m.post
      BY <3>3, SameBoth DEF SameShown
    <3>5. c' \in Store
      BY <1>1 DEF GoodStep, Good
    <3> QED BY <3>1, <3>4, <3>5, BookedGood, SettlesTrans, DimsTrans
  <2> QED BY <1>4, <2>1, <2>2
<1>5. CASE Show
  <2> DEFINE m == Shown(c)
  <2>1. m \in Store
    BY <1>5, BookedGood, ShownKeeps DEF Show
  <2>2. SameInputs(c, m) /\ m.active = c.active /\ m.post = c.post /\ m.meta = c.meta
        /\ m.view = c.view /\ m.proj = c.proj /\ m.read = c.read
    BY BookedGood DEF Shown, Store, SameInputs
  <2>3. c' = Enter(m, TRUE)
    BY <1>5 DEF Show, Shown
  <2> HIDE DEF m
  <2>4. Settles(c, m) /\ Dims(c, m) /\ PendingOK(m)
    BY <2>1, <2>2, BookedGood, StillBoth, SettlesPending
  <2>5. c' \in Store /\ Settles(m, c') /\ Dims(m, c')
    BY <2>1, <2>3, <2>4, EnterSettles, Zenon
  <2>6. c.post.send = 0
    BY <1>5, BookedGood DEF Show, UnderWay, Quiet, NoPost
  <2> QED BY <2>1, <2>4, <2>5, <2>6, BookedGood, SettlesTrans, DimsTrans
<1> QED BY <1>3, <1>4, <1>5

\* Turning elsewhere, reading again and the end of the session keep the accounts.
LEMMA CalmTurns ==
  ASSUME Booked, OpenNew \/ AskReload \/ Hide \/ \E t \in Threads : Select(t)
  PROVE  AccountStep
<1>1. GoodStep
  BY BookedGood, OpenNewKeeps, AskReloadKeeps, HideKeeps, SelectKeeps
<1>2. UNCHANGED srv /\ Event /\ Aborts
  BY Zenon DEF OpenNew, AskReload, Hide, Select
<1> SUFFICES Settles(c, c') /\ Dims(c, c')
  BY <1>1, <1>2, BookedGood, EventStays, AbortStep
<1>3. CASE OpenNew
  <2>1. c' = Activate(c, New)
    BY <1>3 DEF OpenNew
  <2> QED BY <2>1, BookedGood, ActivateSettles
<1>4. CASE AskReload
  <2>1. c' = Reload(c)
    BY <1>4 DEF AskReload
  <2> QED BY <2>1, BookedGood, ReloadSettles
<1>5. CASE Hide
  <2>1. c' = Revoke(c)
    BY <1>5 DEF Hide
  <2> QED BY <2>1, BookedGood, RevokeSettles
<1>6. ASSUME NEW t \in Threads, Select(t)
      PROVE  Settles(c, c') /\ Dims(c, c')
  <2> DEFINE m == Activate(c, t)
  <2>1. m \in Store /\ Settles(c, m) /\ Dims(c, m)
    BY BookedGood, ActivateSettles
  <2>2. c' = Enter(m, FALSE)
    BY <1>6 DEF Select
  <2> HIDE DEF m
  <2>3. PendingOK(m)
    BY <2>1, BookedGood, SettlesPending
  <2>4. PICK list \in BOOLEAN : list = FALSE
    BY Zenon
  <2>5. c' \in Store /\ Settles(m, c') /\ Dims(m, c')
    BY <2>1, <2>2, <2>3, <2>4, EnterSettles, Zenon
  <2> QED BY <2>1, <2>5, BookedGood, SettlesTrans, DimsTrans
<1> QED BY <1>3, <1>4, <1>5, <1>6

\* A storage that fails keeps them: they are about what is on show.
LEMMA StorageAccounts ==
  ASSUME Booked, BreakStorage
  PROVE  AccountStep
<1>1. GoodStep /\ UNCHANGED <<srv, late>> /\ Event
  BY BookedGood, BreakStorageKeeps DEF BreakStorage
<1>2. SameShown(c, c') /\ c'.drafts = c.drafts /\ c'.new = c.new /\ c'.subs = c.subs
      /\ c'.creation = c.creation
  BY BookedGood DEF BreakStorage, Store, SameShown
<1>3. Settles(c, c') /\ Dims(c, c') /\ c'.post = c.post
  BY <1>2 DEF Settles, Dims, Dark, Follows, SameShown
<1> QED BY <1>1, <1>3, BookedGood, EventStays, StayStep

\* A creation that fails keeps them.
LEMMA CreationFails ==
  ASSUME Booked, FailCreate
  PROVE  AccountStep
<1>1. GoodStep /\ UNCHANGED srv /\ Event /\ late' \cup {0} = late \cup {0}
  BY BookedGood, FailCreateKeeps DEF FailCreate
<1> DEFINE k == [c.creation EXCEPT !.phase = "listing", !.copy = {}]
<1> DEFINE m == Creating(c, k)
<1>2. k \in Creations /\ k.phase = "listing" /\ k.copy = {} /\ k.first = c.creation.first
      /\ k.text = c.creation.text
  <2>1. c.creation \in Creations
    BY BookedGood DEF Store
  <2> QED BY <2>1, Zenon DEF Creations, Texts
<1>3. c' = ListCreation(m)
  <2>1. m = [c EXCEPT !.creation.phase = "listing", !.creation.copy = {}]
    BY BookedGood, Zenon DEF Creating, Store
  <2> QED BY <2>1 DEF FailCreate
<1> HIDE DEF k
<1>4. m \in Store
  BY <1>2, BookedGood DEF Creating, Store
<1>5. m.creation = k /\ SameShown(c, m) /\ m.new = c.new /\ m.subs = c.subs /\ m.drafts = c.drafts
  BY BookedGood DEF Creating, Store, SameShown
<1> HIDE DEF m
<1>6. Settles(c, m) /\ Dims(c, m)
  BY <1>2, <1>5 DEF Settles, Dims, Dark, Follows, SameShown
<1>7. c' \in Store /\ Settles(m, c') /\ Dims(m, c')
  BY <1>2, <1>3, <1>4, <1>5, EndListingSettles
<1>8. c'.post = c.post
  <2>1. c'.post = m.post
    BY <1>3, <1>4 DEF ListCreation, EndCreation, Update, LoadThreads, Store
  <2> QED BY <2>1, <1>5 DEF SameShown
<1>9. Settles(c, c') /\ Dims(c, c')
  BY <1>4, <1>6, <1>7, BookedGood, SettlesTrans, DimsTrans
<1>10. late' \cup {0} =
         late \cup {0} \cup IF c.post.run = 0 /\ c'.post # c.post THEN {c.post.send} ELSE {}
  BY <1>1, <1>8
<1> QED BY <1>1, <1>9, <1>10, BookedGood, EventStays, DimStep

\* An answer of the history has the Run of what was accepted.
LEMMA HistoryAnswered ==
  ASSUME Booked, AnswerHistory
  PROVE  AccountStep
<1>1. GoodStep /\ UNCHANGED <<srv, late, log>>
  BY BookedGood, AnswerHistoryKeeps DEF AnswerHistory
<1>2. SameInputs(c, c') /\ c'.active = c.active /\ c'.post = c.post /\ c'.meta = c.meta
      /\ c'.view = c.view /\ c'.proj = c.proj
  BY BookedGood DEF AnswerHistory, Store, SameInputs
<1>3. Settles(c, c')
  BY <1>2, SameSettles
<1>4. CASE c'.read = c.read
  BY <1>1, <1>2, <1>4, BookedGood, EventStays, StayStep, StillBoth
<1>5. CASE c'.read # c.read
  <2> DEFINE t == c.active
  <2>1. t \in Threads /\ c'.read.ans.n = Len(srv[t].msgs)
    <3>1. c' = [c EXCEPT !.read = Told(History(t))]
      BY <1>5, BookedGood DEF AnswerHistory, Told, Store
    <3>2. c'.read = Told(History(t))
      BY <3>1, BookedGood DEF Store
    <3> QED BY <3>2, BookedGood DEF AnswerHistory, Told, History, Store
  <2>2. AcceptedOK(c, srv) /\ SubOK(c.subs[t], t, srv, log)
    BY <2>1, BookedGood DEF Accounts, SubsOK
  <2>3. ASSUME c.subs[t].status = "accepted"
        PROVE  c'.read.ans.n > 0 /\ srv[t].msgs[c'.read.ans.n] >= c.subs[t].run
    <3>1. HistoryOK(srv[t]) /\ Len(srv[t].msgs) \in Nat /\ Len(srv[t].runs) \in Nat
          /\ c.subs[t].run \in Nat /\ c.subs[t].prev \in Nat
      <4>1. c.subs[t] \in Submissions
        BY <2>1, BookedGood DEF Store
      <4> QED BY <2>1, <4>1, BookedGood, HistoryTypes DEF Submissions
    <3>2. c.subs[t].run <= Len(srv[t].runs) /\ c.subs[t].prev < c.subs[t].run
      BY <2>2, <2>3 DEF SubOK
    <3>3. Len(srv[t].msgs) > 0
      BY <3>1, <3>2 DEF HistoryOK
    <3> QED BY <2>1, <3>1, <3>2, <3>3 DEF HistoryOK
  <2>4. AcceptedOK(c', srv)
    BY <1>2, <2>2, <2>3 DEF AcceptedOK, Dark, SameInputs
  <2>5. late' \cup {0} =
          late \cup {0} \cup IF c.post.run = 0 /\ c'.post # c.post THEN {c.post.send} ELSE {}
    BY <1>1, <1>2
  <2> QED BY <1>1, <1>3, <2>4, <2>5, BookedGood, EventStays, SettleStep
<1> QED BY <1>4, <1>5

\* What is shown of a history that was read has it as well.
LEMMA HistoryReceived ==
  ASSUME Booked, ReceiveHistory
  PROVE  AccountStep
<1> DEFINE t == c.active
<1>1. /\ GoodStep /\ SameInputs(c, c') /\ c'.active = t /\ c'.post = c.post
      /\ c'.meta = c.meta /\ c'.read = NoRead
      /\ \A u \in Threads : u # t => c'.view[u] = c.view[u] /\ c'.proj[u] = c.proj[u]
      /\ c.proj[t].run = 0 /\ c.read.ans.n > 0 => c'.view[t].run = srv[t].msgs[c.read.ans.n]
  BY BookedGood, ReceiveHistoryKeeps
<1>2. UNCHANGED <<srv, late, log>> /\ c.read.phase = "answer"
  BY DEF ReceiveHistory
<1>3. Settles(c, c')
  BY <1>1, SameSettles
<1>4. AcceptedOK(c, srv)
  BY BookedGood DEF Accounts
<1>5. \A u \in Threads : /\ c.view[u].run \in Nat /\ c'.view[u].run \in Nat /\ c.subs[u].run \in Nat
                         /\ c.view[u].run <= c'.view[u].run
  <2>1. c \in Store /\ c' \in Store /\ \A u \in Threads : Forward(c.view[u], c'.view[u])
    BY <1>1, BookedGood DEF GoodStep, Good, Onward
  <2> QED BY <2>1 DEF Store, Views, Submissions, Forward
<1>6. ASSUME t \in Threads, c.subs[t].status = "accepted"
      PROVE  c'.view[t].run >= c.subs[t].run
  <2>1. CASE c.view[t].run >= c.subs[t].run
    BY <1>5, <1>6, <2>1
  <2>2. CASE Dark(c, t)
    <3>1. c.read.ans.n > 0 /\ srv[t].msgs[c.read.ans.n] >= c.subs[t].run
      BY <1>2, <1>4, <1>6 DEF AcceptedOK
    <3> QED BY <1>1, <2>2, <3>1 DEF Dark
  <2> QED BY <1>4, <1>6, <2>1, <2>2 DEF AcceptedOK
<1>7. AcceptedOK(c', srv)
  <2>1. c'.read.phase # "answer"
    BY <1>1 DEF NoRead
  <2> QED BY <1>1, <1>4, <1>6, <2>1 DEF AcceptedOK, SameInputs, Dark
<1>8. late' \cup {0} =
        late \cup {0} \cup IF c.post.run = 0 /\ c'.post # c.post THEN {c.post.send} ELSE {}
  BY <1>1, <1>2
<1> QED BY <1>1, <1>2, <1>3, <1>7, <1>8, BookedGood, EventStays, SettleStep

\* A send whose fate nobody knows keeps the accounts: it may still be handled.
LEMMA UnknownSend ==
  ASSUME Booked, FailSend(0)
  PROVE  AccountStep
<1> DEFINE t == c.active
<1> DEFINE m == MarkUnknown(c, t)
<1>1. GoodStep
  <2>1. 0 \in {0, 409, 422}
    OBVIOUS
  <2> QED BY <2>1, BookedGood, FailSendKeeps
<1>2. /\ UNCHANGED srv /\ Event /\ c' = Reload(m) /\ t \in Threads \cup {New}
      /\ late' = late \cup IF c.post.run = 0 THEN {c.post.send} ELSE {}
  <2>1. ~Refused(0)
    BY DEF Refused
  <2> QED BY <2>1, BookedGood DEF FailSend, Store
<1>3. /\ m \in Store /\ SameShown(c, m) /\ m.drafts = c.drafts /\ m.new = c.new
      /\ m.creation = c.creation
      /\ \A u \in Threads : m.subs[u] = IF u = t /\ c.subs[t].status = "pending"
                                        THEN [c.subs[t] EXCEPT !.status = "unknown"] ELSE c.subs[u]
  BY <1>2, BookedGood, MarkEffect
<1> HIDE DEF m
<1>4. \A u \in Threads : m.subs[u].status # "pending"
  <2>1. \A u \in Threads : c.subs[u] \in Submissions
    BY BookedGood DEF Store
  <2> QED BY <1>3, <2>1, BookedGood DEF PendingOK, Submissions
<1>5. Settles(c, m) /\ Dims(c, m)
  BY <1>3, <1>4 DEF Settles, Dims, Dark, Follows, SameShown
<1>6. c' \in Store /\ c'.post = NoPost /\ Settles(m, c') /\ Dims(m, c')
  BY <1>2, <1>3, <1>4, ReloadSettles DEF PendingOK
<1>7. Settles(c, c') /\ Dims(c, c')
  BY <1>3, <1>5, <1>6, BookedGood, SettlesTrans, DimsTrans
<1>8. late' \cup {0} =
        late \cup {0} \cup IF c.post.run = 0 /\ c'.post # c.post THEN {c.post.send} ELSE {}
  BY <1>2, <1>6 DEF NoPost
<1> QED BY <1>1, <1>2, <1>7, <1>8, BookedGood, EventStays, DimStep

-----------------------------------------------------------------------------
(* The accounts while the backend moves on. *)

\* A Run is still the Run of its message.
LEMMA RunStays ==
  ASSUME NEW h, NEW k, Grows(h, k), Len(h.runs) \in Nat, Len(k.runs) \in Nat,
         NEW i \in 1..Len(h.runs)
  PROVE  i \in 1..Len(k.runs) /\ i <= Len(k.runs) /\ k.runs[i].send = h.runs[i].send
<1>1. Len(h.runs) <= Len(k.runs) /\ k.runs[i].send = h.runs[i].send
  BY DEF Grows
<1> QED BY <1>1

\* The messages that became Runs still have them.
LEMMA GrownSends ==
  ASSUME NEW b, NEW d, NEW g, \A n \in 1..Len(g.sent) : g.sent[n].thread \in Threads,
         \A t \in Threads : Grows(b[t], d[t]) /\ Len(b[t].runs) \in Nat /\ Len(d[t].runs) \in Nat
  PROVE  RunsOf(b, g) \subseteq RunsOf(d, g)
<1> SUFFICES ASSUME NEW n \in 1..Len(g.sent), NEW t \in Threads, t = g.sent[n].thread,
                    NEW i \in 1..Len(b[t].runs), b[t].runs[i].send = n
             PROVE  \E j \in 1..Len(d[t].runs) : d[t].runs[j].send = n
  BY Zenon DEF RunsOf
<1>1. i \in 1..Len(d[t].runs) /\ d[t].runs[i].send = b[t].runs[i].send
  BY RunStays, Zenon
<1> QED BY <1>1

\* When no Run begins, the messages that became Runs are the same.
LEMMA SameSends ==
  ASSUME NEW b, NEW d, NEW g, \A n \in 1..Len(g.sent) : g.sent[n].thread \in Threads,
         \A t \in Threads : Grows(b[t], d[t]) /\ Len(b[t].runs) = Len(d[t].runs)
  PROVE  RunsOf(d, g) = RunsOf(b, g) /\ \A t \in Threads : HistorySends(b[t], t, g)
         => HistorySends(d[t], t, g)
<1>1. \A t \in Threads : \A i \in 1..Len(d[t].runs) : d[t].runs[i].send = b[t].runs[i].send
  BY DEF Grows
<1>2. RunsOf(d, g) = RunsOf(b, g)
  BY <1>1, Zenon DEF RunsOf
<1>3. ASSUME NEW t \in Threads, HistorySends(b[t], t, g)
      PROVE  HistorySends(d[t], t, g)
  <2>1. Len(d[t].runs) = Len(b[t].runs)
    OBVIOUS
  <2> QED BY <1>1, <1>3, <2>1, Zenon DEF HistorySends
<1> QED BY <1>2, <1>3

\* A Run begins, of a message that was sent to its conversation.
Begins(b, d, t, n) ==
  /\ \A u \in Threads : Grows(b[u], d[u]) /\ (u # t => d[u] = b[u])
  /\ Len(b[t].runs) \in Nat /\ Len(d[t].runs) = Len(b[t].runs) + 1
  /\ d[t].runs[Len(b[t].runs) + 1].send = n
SentTo(g, t, n) ==
  /\ n \in 1..Len(g.sent) /\ n \in Nat \ {0} /\ g.sent[n].thread = t
  /\ \A m \in 1..Len(g.sent) : g.sent[m].thread \in Threads

\* When a Run begins, its message is one of them.
LEMMA StartedSends ==
  ASSUME NEW b, NEW d, NEW g, NEW n, NEW t \in Threads, SentTo(g, t, n), Begins(b, d, t, n),
         n \notin RunsOf(b, g), \A u \in Threads : HistorySends(b[u], u, g)
  PROVE  RunsOf(d, g) = RunsOf(b, g) \cup {n} /\ \A u \in Threads : HistorySends(d[u], u, g)
<1>0. /\ n \in 1..Len(g.sent) /\ n \in Nat \ {0} /\ g.sent[n].thread = t
      /\ \A m \in 1..Len(g.sent) : g.sent[m].thread \in Threads
      /\ \A u \in Threads : Grows(b[u], d[u]) /\ (u # t => d[u] = b[u])
      /\ Len(b[t].runs) \in Nat /\ Len(d[t].runs) = Len(b[t].runs) + 1
      /\ d[t].runs[Len(b[t].runs) + 1].send = n
  BY DEF Begins, SentTo
<1> DEFINE last == Len(b[t].runs) + 1
<1>1. \A i \in 1..Len(b[t].runs) : d[t].runs[i].send = b[t].runs[i].send
  BY <1>0, Zenon DEF Grows
<1>2. /\ \A i \in 1..Len(d[t].runs) : i = last \/ i \in 1..Len(b[t].runs)
      /\ \A i \in 1..Len(b[t].runs) : i # last /\ i \in 1..Len(d[t].runs)
      /\ last \in 1..Len(d[t].runs) /\ d[t].runs[last].send = n
  BY <1>0, SMTT(30)
<1> HIDE DEF last
<1>3. ASSUME NEW m \in 1..Len(g.sent)
      PROVE  m \in RunsOf(d, g) <=> m \in RunsOf(b, g) \/ m = n
  <2>1. CASE g.sent[m].thread = t
    <3>1. m \in RunsOf(d, g) <=> \E i \in 1..Len(d[t].runs) : d[t].runs[i].send = m
      BY <2>1, Zenon DEF RunsOf
    <3>2. m \in RunsOf(b, g) <=> \E i \in 1..Len(b[t].runs) : b[t].runs[i].send = m
      BY <2>1, ZenonT(60) DEF RunsOf
    <3> QED BY <1>1, <1>2, <3>1, <3>2, ZenonT(60)
  <2>2. CASE g.sent[m].thread # t
    <3>1. d[g.sent[m].thread] = b[g.sent[m].thread] /\ m # n
      BY <1>0, <2>2
    <3> QED BY <3>1, Zenon DEF RunsOf
  <2> QED BY <2>1, <2>2
<1>4. RunsOf(d, g) = RunsOf(b, g) \cup {n}
  <2>1. RunsOf(d, g) \subseteq 1..Len(g.sent) /\ RunsOf(b, g) \subseteq 1..Len(g.sent)
    BY Zenon DEF RunsOf
  <2> QED BY <1>0, <1>3, <2>1, SMTT(30)
<1>5. HistorySends(d[t], t, g)
  <2>1. HistorySends(b[t], t, g)
    OBVIOUS
  <2>2. \A i \in 1..Len(b[t].runs) : b[t].runs[i].send # n
    BY <1>0, Zenon DEF RunsOf
  <2>3. ASSUME NEW i \in 1..Len(d[t].runs)
        PROVE  IF d[t].runs[i].send = 0 THEN i = 1
               ELSE d[t].runs[i].send <= Len(g.sent) /\ g.sent[d[t].runs[i].send].thread = t
    <3>1. CASE i = last
      <4>1. d[t].runs[i].send = n /\ n # 0 /\ n <= Len(g.sent)
        BY <1>0, <1>2, <3>1
      <4> QED BY <1>0, <4>1
    <3>2. CASE i \in 1..Len(b[t].runs)
      <4>1. d[t].runs[i].send = b[t].runs[i].send
        BY <1>1, <3>2
      <4>2. IF b[t].runs[i].send = 0 THEN i = 1
            ELSE b[t].runs[i].send <= Len(g.sent) /\ g.sent[b[t].runs[i].send].thread = t
        BY <2>1, <3>2 DEF HistorySends
      <4> QED BY <4>1, <4>2
    <3> QED BY <1>2, <3>1, <3>2
  <2>4. ASSUME NEW i \in 1..Len(d[t].runs), NEW j \in 1..Len(d[t].runs),
               d[t].runs[i].send = d[t].runs[j].send
        PROVE  i = j
    <3>1. CASE i \in 1..Len(b[t].runs) /\ j \in 1..Len(b[t].runs)
      BY <1>1, <2>1, <2>4, <3>1 DEF HistorySends
    <3>2. CASE i = last
      <4>1. j \notin 1..Len(b[t].runs)
        BY <1>1, <1>2, <2>2, <2>4, <3>2, Zenon
      <4> QED BY <1>2, <3>2, <4>1
    <3>3. CASE j = last
      <4>1. i \notin 1..Len(b[t].runs)
        BY <1>1, <1>2, <2>2, <2>4, <3>3, Zenon
      <4> QED BY <1>2, <3>3, <4>1
    <3> QED BY <1>2, <3>1, <3>2, <3>3
  <2> QED BY <2>3, <2>4 DEF HistorySends
<1>6. \A u \in Threads : u # t => HistorySends(d[u], u, g)
  BY <1>0
<1> QED BY <1>4, <1>5, <1>6

\* The accounts are kept while the backend moves on, when what may become a Run is no more.
LEMMA GrownAccounts ==
  ASSUME Booked, GoodStep, UNCHANGED log, \A t \in Threads : Grows(srv[t], srv'[t]),
         c'.drafts = c.drafts, c'.new = c.new, c'.subs = c.subs, c'.active = c.active,
         c'.view = c.view, c'.proj = c.proj, c'.read = c.read, c'.meta = c.meta,
         c'.post.send = c.post.send, c'.creation.text = c.creation.text,
         c'.creation.copy = c.creation.copy,
         c'.creation = c.creation \/ (BoundOK(c'.creation, srv', log) /\ NewOK(c')),
         \A t \in Threads : HistorySends(srv'[t], t, log),
         WaitingOK(c'.post, c'.active, srv', late', log),
         Taken(srv', late', c'.post, log) \subseteq Taken(srv, late, c.post, log)
  PROVE  AccountStep
<1>1. Accounts(c, srv, late, log) /\ c \in Store /\ c' \in Store /\ log \in Logs /\ BackendOK(srv)
      /\ BackendOK(srv')
  BY BookedGood DEF GoodStep, Good
<1>2. ASSUME NEW t \in Threads
      PROVE  /\ Len(srv[t].runs) \in Nat /\ Len(srv'[t].runs) \in Nat
             /\ srv[t].stamp \in Nat /\ srv'[t].stamp \in Nat
             /\ Len(srv[t].msgs) \in Nat /\ Len(srv'[t].msgs) \in Nat
             /\ Len(srv[t].runs) <= Len(srv'[t].runs) /\ srv[t].stamp <= srv'[t].stamp
             /\ \A i \in 1..Len(srv[t].msgs) : srv'[t].msgs[i] = srv[t].msgs[i]
  <2>1. srv[t] \in Histrs /\ srv'[t] \in Histrs /\ Grows(srv[t], srv'[t])
    BY <1>1 DEF BackendOK, Backends
  <2> QED BY <2>1 DEF Histrs, Grows
<1>3. BoundOK(c'.creation, srv', log)
  <2>1. CASE c'.creation = c.creation
    <3>1. BoundOK(c.creation, srv, log)
      BY <1>1 DEF Accounts
    <3>2. Copies(c.creation) => srv'[c.creation.thread].stamp > 0
      BY <1>2, <3>1 DEF BoundOK
    <3> QED BY <2>1, <3>1, <3>2 DEF BoundOK
  <2> QED BY <2>1
<1>4. SubsOK(c'.subs, srv', log)
  <2> SUFFICES ASSUME NEW t \in Threads PROVE SubOK(c.subs[t], t, srv', log)
    BY DEF SubsOK
  <2>1. SubOK(c.subs[t], t, srv, log)
    BY <1>1 DEF Accounts, SubsOK
  <2>2. c.subs[t].prev \in Nat /\ c.subs[t].run \in Nat
    BY <1>1 DEF Store, Submissions
  <2> QED BY <1>2, <2>1, <2>2, SMTT(30) DEF SubOK
<1>5. PendingOK(c') /\ SinceOK(c')
  BY <1>1 DEF Accounts, PendingOK, SinceOK, Sending
<1>6. BooksOK(c', Taken(srv', late', c'.post, log), log)
  <2> DEFINE M == Taken(srv, late, c.post, log)
  <2> DEFINE N == Taken(srv', late', c'.post, log)
  <2>1. BooksOK(c, M, log) /\ N \subseteq M
    BY <1>1 DEF Accounts
  <2> HIDE DEF M, N
  <2>2. BooksOK(c', N, log)
    BY <2>1 DEF BooksOK, ThreadBooks, Apart
  <2> QED BY <2>2 DEF N
<1>7. TypedOK(c', log)
  BY <1>1 DEF Accounts, TypedOK, Typed
<1>8. Unmade(c', srv')
  BY <1>1, <1>2 DEF Accounts, Unmade
<1>9. NewOK(c')
  BY <1>1 DEF Accounts, NewOK
<1>10. AcceptedOK(c', srv')
  <2>1. AcceptedOK(c, srv)
    BY <1>1 DEF Accounts
  <2>2. ASSUME NEW t \in Threads, c.read.phase = "answer", t = c.active, c.read.ans.n > 0
        PROVE  srv'[t].msgs[c.read.ans.n] = srv[t].msgs[c.read.ans.n]
    <3>1. AnswerOK(c.read.ans, c.proj[t], srv[t])
      BY <2>2, BookedGood DEF Fine, ViewOK
    <3>2. c.read.ans.n \in 1..Len(srv[t].msgs)
      BY <1>1, <1>2, <2>2, <3>1 DEF AnswerOK, Store, Reads, Histories
    <3> QED BY <1>2, <3>2, Zenon
  <2> QED BY <2>1, <2>2 DEF AcceptedOK, Dark
<1>11. KeptOK(c', srv', log)
  <2>1. RunsOf(srv, log) \subseteq RunsOf(srv', log)
    <3>1. log.sent \in Seq(Sent)
      BY <1>1 DEF Logs
    <3>2. \A n \in 1..Len(log.sent) : log.sent[n] \in Sent
      BY <3>1
    <3>3. \A n \in 1..Len(log.sent) : log.sent[n].thread \in Threads
      BY <3>2 DEF Sent
    <3> QED BY <1>2, <3>3, GrownSends
  <2> QED BY <1>1, <2>1 DEF Accounts, KeptOK, Held, Answered0
<1>12. Accounts(c', srv', late', log')
  BY <1>3, <1>4, <1>5, <1>6, <1>7, <1>8, <1>9, <1>10, <1>11 DEF Accounts
<1>13. Later(srv, srv', log, log')
  <2>1. Len(log.sent) \in Nat /\ log.texts \in Nat
    BY <1>1 DEF Logs
  <2> QED BY <1>2, <2>1 DEF Later
<1> QED BY <1>12, <1>13 DEF AccountStep

\* What was sent, by name.
LEMMA SentThread ==
  ASSUME log \in Logs
  PROVE  Len(log.sent) \in Nat
         /\ \A n \in 1..Len(log.sent) : log.sent[n] \in Sent /\ log.sent[n].thread \in Threads
<1>1. log.sent \in Seq(Sent)
  BY DEF Logs
<1>2. \A n \in 1..Len(log.sent) : log.sent[n] \in Sent
  BY <1>1
<1> QED BY <1>1, <1>2 DEF Sent

\* The POST that is out is of a message that was sent to the conversation on show.
LEMMA PostHere ==
  ASSUME Booked, c.post.send # 0
  PROVE  c.active \in Threads /\ c.post.send \in 1..Len(log.sent)
         /\ log.sent[c.post.send].thread = c.active /\ c.post.run \in Nat
<1>1. c.post \in Posts /\ c.active \in Threads \cup {New} /\ Len(log.sent) \in Nat
  BY BookedGood, SentThread DEF Store
<1>2. c.active # New
  BY BookedGood DEF UnderWay, Quiet, NoPost
<1>3. c.post.send <= Len(log.sent) /\ log.sent[c.post.send].thread = c.active
  BY BookedGood DEF Fine, PostOK
<1> QED BY <1>1, <1>2, <1>3 DEF Posts

\* When no Run begins, what may become one is no more.
LEMMA SameRuns ==
  ASSUME Booked, \A t \in Threads : Grows(srv[t], srv'[t]) /\ Len(srv[t].runs) = Len(srv'[t].runs),
         c'.post = c.post, c'.active = c.active, late' \subseteq late
  PROVE  /\ \A t \in Threads : HistorySends(srv'[t], t, log)
         /\ WaitingOK(c'.post, c'.active, srv', late', log)
         /\ Taken(srv', late', c'.post, log) \subseteq Taken(srv, late, c.post, log)
<1>1. RunsOf(srv', log) = RunsOf(srv, log)
      /\ \A u \in Threads : HistorySends(srv[u], u, log) => HistorySends(srv'[u], u, log)
  BY BookedGood, SentThread, SameSends, Zenon
<1>2. WaitingOK(c.post, c.active, srv, late, log)
  BY BookedGood DEF Accounts
<1>3. ASSUME c.post.send # 0, c.post.run # 0
      PROVE  c.post.run <= Len(srv'[c.active].runs)
             /\ srv'[c.active].runs[c.post.run].send = c.post.send
  <2>1. c.post.run \in Nat /\ c.active \in Threads
    BY <1>3, PostHere
  <2>2. Len(srv[c.active].runs) \in Nat
    BY <2>1, BookedGood, HistoryTypes
  <2>3. c.post.run \in 1..Len(srv[c.active].runs)
        /\ srv[c.active].runs[c.post.run].send = c.post.send
    BY <1>2, <1>3, <2>1, <2>2 DEF WaitingOK
  <2>4. Grows(srv[c.active], srv'[c.active]) /\ Len(srv'[c.active].runs) \in Nat
    BY <2>1, <2>2
  <2> DEFINE h == srv[c.active]
  <2> DEFINE k == srv'[c.active]
  <2>5. Grows(h, k) /\ Len(h.runs) \in Nat /\ Len(k.runs) \in Nat /\ c.post.run \in 1..Len(h.runs)
        /\ h.runs[c.post.run].send = c.post.send
    BY <2>2, <2>3, <2>4
  <2> HIDE DEF h, k
  <2>6. c.post.run <= Len(k.runs) /\ k.runs[c.post.run].send = c.post.send
    BY <2>5, RunStays
  <2> QED BY <2>6 DEF k
<1>4. WaitingOK(c'.post, c'.active, srv', late', log)
  BY <1>1, <1>2, <1>3 DEF WaitingOK
<1>5. Taken(srv', late', c'.post, log) \subseteq Taken(srv, late, c.post, log)
  BY <1>1 DEF Taken, Waits
<1>6. \A t \in Threads : HistorySends(srv'[t], t, log)
  BY <1>1, BookedGood DEF Accounts
<1> QED BY <1>4, <1>5, <1>6

\* What the backend does on its own keeps the accounts.
LEMMA BackendAccounts ==
  ASSUME Booked, NEW t \in Threads, RunStores(t) \/ RunEnds(t)
  PROVE  AccountStep
<1>1. GoodStep /\ UNCHANGED <<late, c, log>>
  BY BookedGood, RunStoresKeeps, RunEndsKeeps, Zenon DEF RunStores, RunEnds
<1>2. \A u \in Threads : Grows(srv[u], srv'[u]) /\ Len(srv[u].runs) = Len(srv'[u].runs)
  BY BookedGood, StoresGrows, EndsGrows
<1>3. /\ \A u \in Threads : HistorySends(srv'[u], u, log)
      /\ WaitingOK(c'.post, c'.active, srv', late', log)
      /\ Taken(srv', late', c'.post, log) \subseteq Taken(srv, late, c.post, log)
  BY <1>1, <1>2, SameRuns
<1> QED BY <1>1, <1>2, <1>3, GrownAccounts

\* So does the creation of a conversation: it is not on show, and nobody wrote to it.
LEMMA CreationServed ==
  ASSUME Booked, ServeCreate
  PROVE  AccountStep
<1>1. GoodStep /\ UNCHANGED <<late, log>> /\ c.creation.phase = "sent"
  BY BookedGood, ServeCreateKeeps, Zenon DEF ServeCreate
<1>2. PICK t \in Threads :
        ~Made(t) /\ srv' = MadeThread(t) /\ c' = [c EXCEPT !.creation.phase = "made", !.creation.thread = t]
  BY Zenon DEF ServeCreate
<1>3. /\ srv'[t].stamp > 0 /\ srv[t].stamp = 0
      /\ \A u \in Threads : Grows(srv[u], srv'[u]) /\ srv'[u].runs = srv[u].runs
  BY <1>2, BookedGood, MadeGrows
<1> DEFINE k == [c.creation EXCEPT !.phase = "made", !.thread = t]
<1>4. k.phase = "made" /\ k.thread = t /\ k.here = c.creation.here /\ k.first = c.creation.first
      /\ k.text = c.creation.text /\ k.version = c.creation.version /\ k.copy = c.creation.copy
  BY BookedGood DEF Store, Creations
<1>5. /\ SameShown(c, c') /\ c'.creation = k /\ c'.drafts = c.drafts /\ c'.new = c.new
      /\ c'.subs = c.subs
  BY <1>2, BookedGood DEF Store, SameShown
<1> HIDE DEF k
<1>6. BoundOK(k, srv', log) /\ NewOK(c')
  <2>1. Unsent(log, t) /\ c.active # t
    BY <1>3, BookedGood DEF Fine, UnmadeOK
  <2>2. BoundOK(c.creation, srv, log) /\ NewOK(c) /\ c.drafts[t].text = {}
    BY <1>3, BookedGood DEF Accounts, Unmade
  <2>3. BoundOK(k, srv', log)
    BY <1>1, <1>3, <1>4, <2>1, <2>2 DEF BoundOK, Leaving
  <2>4. NewOK(c')
    BY <1>1, <1>4, <1>5, <2>1, <2>2 DEF NewOK, Leaving, SameShown, SameOrApart
  <2> QED BY <2>3, <2>4
<1>7. /\ \A u \in Threads : HistorySends(srv'[u], u, log)
      /\ WaitingOK(c'.post, c'.active, srv', late', log)
      /\ Taken(srv', late', c'.post, log) \subseteq Taken(srv, late, c.post, log)
  BY <1>1, <1>3, <1>5, SameRuns DEF SameShown
<1> QED BY <1>1, <1>3, <1>4, <1>5, <1>6, <1>7, GrownAccounts DEF SameShown

\* A message that is handled becomes a Run, and is not handled again.
LEMMA HandledSend ==
  ASSUME Booked, NEW t \in Threads, NEW n, n \in 1..Len(log.sent), log.sent[n].thread = t, ~Busy(t),
         srv' = Started(t, n), n \in Waits(late, c.post, log), n \notin RunsOf(srv, log),
         c'.active = c.active, c'.post.send = c.post.send, late' \subseteq late \ {n},
         \/ c'.post = c.post /\ n # c.post.send
         \/ n = c.post.send /\ t = c.active /\ c'.post.run = Len(srv[t].runs) + 1
  PROVE  /\ \A u \in Threads : HistorySends(srv'[u], u, log)
         /\ WaitingOK(c'.post, c'.active, srv', late', log)
         /\ Taken(srv', late', c'.post, log) \subseteq Taken(srv, late, c.post, log)
         /\ \A u \in Threads : Grows(srv[u], srv'[u])
<1>1. n \in Nat \ {0} /\ Len(log.sent) \in Nat
      /\ \A m \in 1..Len(log.sent) : log.sent[m].thread \in Threads
  BY BookedGood, SentThread
<1>2. /\ \A u \in Threads : Grows(srv[u], srv'[u]) /\ (u # t => srv'[u] = srv[u])
      /\ Len(srv'[t].runs) = Len(srv[t].runs) + 1 /\ srv'[t].runs[Len(srv[t].runs) + 1].send = n
  BY <1>1, BookedGood, StartedGrows
<1>3. \A u \in Threads : HistorySends(srv[u], u, log) /\ Len(srv[u].runs) \in Nat
  BY BookedGood, HistoryTypes DEF Accounts
<1>4. RunsOf(srv', log) = RunsOf(srv, log) \cup {n}
      /\ \A u \in Threads : HistorySends(srv'[u], u, log)
  <2>1. SentTo(log, t, n)
    BY <1>1 DEF SentTo
  <2>2. Begins(srv, srv', t, n)
    BY <1>2, <1>3 DEF Begins
  <2> QED BY <1>3, <2>1, <2>2, StartedSends
<1>5. WaitingOK(c.post, c.active, srv, late, log)
  BY BookedGood DEF Accounts
<1>6. WaitingOK(c'.post, c'.active, srv', late', log)
  <2>1. \A m \in late' : m # 0 => m \notin RunsOf(srv', log)
    BY <1>4, <1>5 DEF WaitingOK
  <2>2. CASE c'.post = c.post /\ n # c.post.send
    <3>1. ASSUME c.post.send # 0, c.post.run # 0
          PROVE  c.post.run <= Len(srv'[c.active].runs)
                 /\ srv'[c.active].runs[c.post.run].send = c.post.send
      <4>1. c.post.run \in Nat /\ c.active \in Threads
        BY <3>1, PostHere
      <4>2. Len(srv[c.active].runs) \in Nat /\ Grows(srv[c.active], srv'[c.active])
            /\ Len(srv'[c.active].runs) \in Nat
        BY <1>2, <1>3, <4>1
      <4>3. c.post.run \in 1..Len(srv[c.active].runs)
            /\ srv[c.active].runs[c.post.run].send = c.post.send
        BY <1>5, <3>1, <4>1, <4>2 DEF WaitingOK
      <4> DEFINE h == srv[c.active]
      <4> DEFINE k == srv'[c.active]
      <4>4. Grows(h, k) /\ Len(h.runs) \in Nat /\ Len(k.runs) \in Nat
            /\ c.post.run \in 1..Len(h.runs)
            /\ h.runs[c.post.run].send = c.post.send
        BY <4>2, <4>3
      <4> HIDE DEF h, k
      <4>5. c.post.run <= Len(k.runs) /\ k.runs[c.post.run].send = c.post.send
        BY <4>4, RunStays
      <4> QED BY <4>5 DEF k
    <3> QED BY <1>4, <1>5, <2>1, <2>2, <3>1 DEF WaitingOK
  <2>3. CASE n = c.post.send /\ t = c.active /\ c'.post.run = Len(srv[t].runs) + 1
    BY <1>2, <1>3, <2>1, <2>3 DEF WaitingOK
  <2> QED BY <2>1, <2>2, <2>3
<1>7. Taken(srv', late', c'.post, log) \subseteq Taken(srv, late, c.post, log)
  <2>1. Waits(late', c'.post, log) \subseteq Waits(late, c.post, log)
    <3>1. CASE c'.post = c.post
      BY <3>1 DEF Waits
    <3>2. CASE c'.post.run = Len(srv[t].runs) + 1
      BY <1>3, <3>2 DEF Waits
    <3> QED BY <3>1, <3>2
  <2> QED BY <1>4, <2>1 DEF Taken
<1> QED BY <1>2, <1>4, <1>6, <1>7

\* A POST that is handled keeps the accounts.
LEMMA PostServed ==
  ASSUME Booked, ServePost
  PROVE  AccountStep
<1> DEFINE n == c.post.send
<1> DEFINE t == c.active
<1>1. GoodStep /\ UNCHANGED <<late,
                              log>> /\ n # 0 /\ c.post.run = 0 /\ ~Busy(t) /\ srv' = Started(t, n)
      /\ c' = [c EXCEPT !.post.run = Last(t) + 1]
  BY BookedGood, ServePostKeeps DEF ServePost
<1>2. t \in Threads /\ n \in 1..Len(log.sent) /\ log.sent[n].thread = t
  BY <1>1, PostHere
<1>3. Last(t) = Len(srv[t].runs)
  BY DEF Last
<1>4. c'.post.send = n /\ c'.post.run = Len(srv[t].runs) + 1
  BY <1>1, <1>3, BookedGood DEF Store, Posts
<1>5. /\ c'.drafts = c.drafts /\ c'.new = c.new /\ c'.subs = c.subs /\ c'.active = t
      /\ c'.view = c.view /\ c'.proj = c.proj /\ c'.read = c.read /\ c'.meta = c.meta
      /\ c'.creation = c.creation
  BY <1>1, BookedGood DEF Store
<1>6. n \in Waits(late, c.post, log) /\ n \notin RunsOf(srv, log) /\ n \notin late
  BY <1>1, <1>2, BookedGood DEF Accounts, WaitingOK, Waits
<1>7. /\ \A u \in Threads : HistorySends(srv'[u], u, log)
      /\ WaitingOK(c'.post, c'.active, srv', late', log)
      /\ Taken(srv', late', c'.post, log) \subseteq Taken(srv, late, c.post, log)
      /\ \A u \in Threads : Grows(srv[u], srv'[u])
  BY <1>1, <1>2, <1>4, <1>5, <1>6, HandledSend, Zenon
<1> QED BY <1>1, <1>4, <1>5, <1>7, GrownAccounts

\* So does one that is handled late.
LEMMA LateServed ==
  ASSUME Booked, ServeLate
  PROVE  AccountStep
<1>1. GoodStep /\ UNCHANGED <<c, log>>
  BY BookedGood, ServeLateKeeps DEF ServeLate
<1>2. PICK n \in late :
        /\ late' = late \ {n}
        /\ IF n = 0 THEN \E t \in Threads : ~Made(t) /\ srv' = MadeThread(t)
           ELSE ~Busy(log.sent[n].thread) /\ srv' = Started(log.sent[n].thread, n)
  BY DEF ServeLate
<1>3. /\ \A u \in Threads : HistorySends(srv'[u], u, log)
      /\ WaitingOK(c'.post, c'.active, srv', late', log)
      /\ Taken(srv', late', c'.post, log) \subseteq Taken(srv, late, c.post, log)
      /\ \A u \in Threads : Grows(srv[u], srv'[u])
  <2>1. CASE n = 0
    <3>1. PICK t \in Threads : ~Made(t) /\ srv' = MadeThread(t)
      BY <1>2, <2>1
    <3>2. \A u \in Threads : Grows(srv[u], srv'[u]) /\ srv'[u].runs = srv[u].runs
      BY <3>1, BookedGood, MadeGrows
    <3> QED BY <1>1, <1>2, <3>2, SameRuns, Zenon
  <2>2. CASE n # 0
    <3> DEFINE t == log.sent[n].thread
    <3>1. n \in 1..Len(log.sent) /\ t \in Threads
      <4>1. n \in 0..Len(log.sent) /\ Len(log.sent) \in Nat
        BY <1>2, BookedGood, SentThread
      <4>2. n \in 1..Len(log.sent)
        BY <2>2, <4>1
      <4> QED BY <4>2, BookedGood, SentThread
    <3>2. ~Busy(t) /\ srv' = Started(t, n)
      BY <1>2, <2>2
    <3>3. WaitingOK(c.post, c.active, srv, late, log)
      BY BookedGood DEF Accounts
    <3>4. n \notin RunsOf(srv, log) /\ n \in Waits(late, c.post, log)
      BY <2>2, <3>1, <3>3 DEF WaitingOK, Waits
    <3>5. n # c.post.send
      <4>1. SUFFICES ASSUME n = c.post.send PROVE FALSE
        OBVIOUS
      <4>2. c.post.run # 0
        BY <2>2, <3>3, <4>1 DEF WaitingOK
      <4>3. c.post.run \in 1..Len(srv[c.active].runs) /\ c.active = t
            /\ srv[t].runs[c.post.run].send = n
        <5>1. c.active \in Threads /\ c.active = t /\ c.post.run \in Nat
          BY <2>2, <4>1, PostHere
        <5>2. Len(srv[t].runs) \in Nat
          BY <5>1, BookedGood, HistoryTypes, Zenon
        <5>3. c.post.run <= Len(srv[c.active].runs)
              /\ srv[c.active].runs[c.post.run].send = c.post.send
          BY <2>2, <3>3, <4>1, <4>2 DEF WaitingOK
        <5> HIDE DEF t
        <5> QED BY <4>1, <4>2, <5>1, <5>2, <5>3
      <4> QED BY <3>1, <3>4, <4>3, Zenon DEF RunsOf
    <3> HIDE DEF t
    <3>6. t = log.sent[n].thread
      BY DEF t
    <3> QED BY <1>1, <1>2, <3>1, <3>2, <3>4, <3>5, <3>6, HandledSend, Zenon
  <2> QED BY <2>1, <2>2
<1> QED BY <1>1, <1>3, GrownAccounts

-----------------------------------------------------------------------------
(* What the user types, and what he learns of what he sent. *)

\* A step that sends nothing keeps the accounts, when what it changes of them is in order.
LEMMA OwnStep ==
  ASSUME Booked, GoodStep, UNCHANGED <<srv, late>>, c'.post = c.post, c'.active = c.active,
         log'.sent = log.sent, log.texts <= log'.texts,
         BoundOK(c'.creation, srv, log), SubsOK(c'.subs, srv, log), PendingOK(c'), SinceOK(c'),
         BooksOK(c', Taken(srv, late, c.post, log), log'), TypedOK(c', log'), Unmade(c', srv),
         NewOK(c'), AcceptedOK(c', srv), KeptOK(c', srv, log')
  PROVE  AccountStep
<1>1. RunsOf(srv, log') = RunsOf(srv, log) /\ Waits(late, c.post, log') = Waits(late, c.post, log)
  BY DEF RunsOf, Waits
<1>2. Taken(srv, late, c.post, log') = Taken(srv, late, c.post, log)
  BY <1>1 DEF Taken
<1>3. \A t \in Threads : HistorySends(srv[t], t, log')
  BY BookedGood DEF Accounts, HistorySends
<1>4. WaitingOK(c'.post, c'.active, srv, late, log')
  <2>1. WaitingOK(c.post, c.active, srv, late, log)
    BY BookedGood DEF Accounts
  <2> QED BY <1>1, <2>1 DEF WaitingOK
<1>5. BoundOK(c'.creation, srv, log') /\ SubsOK(c'.subs, srv, log')
  BY DEF BoundOK, Unsent, SubsOK, SubOK
<1>6. Accounts(c', srv, late, log')
  <2>1. BooksOK(c', Taken(srv, late, c'.post, log'), log')
    BY <1>2
  <2> QED BY <1>3, <1>4, <1>5, <2>1 DEF Accounts
<1>7. Accounts(c', srv', late', log')
  BY <1>6
<1>8. Later(srv, srv', log, log')
  <2>1. \A t \in Threads : Len(srv[t].runs) \in Nat
    BY BookedGood, HistoryTypes
  <2> QED BY <2>1, BookedGood, SentThread DEF Later
<1> QED BY <1>7, <1>8 DEF AccountStep

\* Of a conversation on show the backend knows.
LEMMA ActiveMade ==
  ASSUME Booked, c.active # New
  PROVE  c.active \in Threads /\ srv[c.active].stamp # 0
BY BookedGood DEF Store, Fine, UnmadeOK

\* What the user types keeps the accounts: it is new, and what it replaces he gave up.
LEMMA TypeAccounts ==
  ASSUME Booked, Type
  PROVE  AccountStep
<1> DEFINE n == log.texts + 1
<1> DEFINE t == c.active
<1> DEFINE old == IF t = New THEN c.new ELSE c.drafts[t]
<1> DEFINE others == UNION ({c.drafts[u].text : u \in Threads \ {t}}
                             \cup IF t = New THEN {} ELSE {c.new.text})
<1>1. /\ GoodStep /\ UNCHANGED <<srv, late>> /\ n <= MaxTexts
      /\ c' = IF t = New THEN UpdateNew(c, {n}) ELSE Update(c, t, {n})
      /\ log' = [log EXCEPT !.texts = n, !.events = @ + 1, !.mine = (@ \ (old.text \ others)) \cup {n}]
  <2>1. log.texts \in Nat /\ MaxTexts \in Nat /\ log.texts < MaxTexts
    BY BookedGood, ConversationConstants DEF Type, Logs
  <2> QED BY <2>1, BookedGood, TypeKeeps DEF Type
<1>2. /\ log'.sent = log.sent /\ log'.texts = n /\ log'.forgotten = log.forgotten
      /\ log'.known = log.known /\ log'.mine = (log.mine \ (old.text \ others)) \cup {n}
      /\ log.texts \in Nat
  BY <1>1, BookedGood DEF Logs
<1>3. {n} \in Texts
  BY <1>1, <1>2 DEF Texts
<1>4. t \in Threads \cup {New} /\ Accounts(c, srv, late, log)
  BY BookedGood DEF Store
<1>5. /\ InputsOnly(c, c') /\ c'.subs = c.subs
      /\ c'.new.text = IF t = New THEN {n} ELSE c.new.text
      /\ t # New => c'.new = c.new
      /\ \A u \in Threads : c'.drafts[u].text = IF u = t THEN {n} ELSE c.drafts[u].text
      /\ \A u \in Threads : u # t => c'.drafts[u] = c.drafts[u]
  <2> DEFINE x == {n}
  <2>1. x \in Texts /\ c' = IF t = New THEN UpdateNew(c, x) ELSE Update(c, t, x)
    BY <1>1, <1>3
  <2> HIDE DEF x
  <2>2. CASE t = New
    <3>1. c.new \in DraftType /\ \A u \in Threads : u # t
      BY <2>2, BookedGood, ConversationConstants DEF Store
    <3>2. c' = UpdateNew(c, x)
      BY <2>1, <2>2
    <3>3. InputsOnly(c, c') /\ c'.drafts = c.drafts /\ c'.subs = c.subs /\ c'.new.text = x
      BY <2>1, <3>1, <3>2, BookedGood, UpdateNewEffect, RedraftedType
    <3> QED BY <2>2, <3>1, <3>3 DEF x
  <2>3. CASE t # New
    <3>1. t \in Threads /\ c.drafts[t] \in DraftType
      BY <1>4, <2>3, BookedGood DEF Store
    <3>2. c' = Update(c, t, x)
      BY <2>1, <2>3
    <3>3. /\ InputsOnly(c, c') /\ c'.new = c.new /\ c'.subs = c.subs
          /\ \A u \in Threads : c'.drafts[u] = IF u = t THEN Redrafted(c.drafts[t], x) ELSE c.drafts[u]
      BY <2>1, <3>1, <3>2, BookedGood, UpdateEffect
    <3>4. Redrafted(c.drafts[t], x).text = x
      BY <2>1, <3>1, RedraftedType
    <3> QED BY <2>3, <3>3, <3>4 DEF x
  <2> QED BY <2>2, <2>3, Zenon
<1>6. /\ SameShown(c, c') /\ c'.creation = c.creation
  BY <1>5 DEF InputsOnly
<1>7. TypedOK(c, log) /\ n \notin 1..log.texts /\ n \in 1..n /\ 1..log.texts \subseteq 1..n
  BY <1>2, <1>4 DEF Accounts
<1> HIDE DEF n
<1>8. TypedOK(c', log')
  BY <1>2, <1>5, <1>6, <1>7 DEF TypedOK, Typed
<1>9. BooksOK(c', Taken(srv, late, c.post, log), log')
  <2> DEFINE M == Taken(srv, late, c.post, log)
  <2>1. BooksOK(c, M, log) /\ \A k \in M : k \in 1..Len(log.sent)
    BY <1>4, Zenon DEF Accounts, Taken, RunsOf, Waits
  <2> HIDE DEF M
  <2>2. \A k, m : AgainIn(log', k, m) = AgainIn(log, k, m)
    BY <1>2 DEF AgainIn
  <2>3. ASSUME ~log'.forgotten, NEW u \in Threads
        PROVE  ThreadBooks(u, c'.subs[u], c'.drafts[u], M, log')
    <3>1. ThreadBooks(u, c.subs[u], c.drafts[u], M, log)
      BY <1>2, <2>1, <2>3 DEF BooksOK
    <3>2. CASE u # t
      BY <1>2, <1>5, <2>2, <3>1, <3>2 DEF ThreadBooks
    <3>3. CASE u = t
      <4>1. c'.drafts[u].text = {n} /\ n \notin c.subs[u].text
        BY <1>5, <1>7, <3>3 DEF TypedOK, Typed
      <4>2. SameOrApart(c'.drafts[u], c.subs[u])
        BY <4>1 DEF SameOrApart
      <4>3. \A k \in M : c'.drafts[u].text \cap log'.sent[k].text = {}
        BY <1>2, <1>7, <2>1, <4>1 DEF TypedOK
      <4> QED BY <1>2, <1>5, <2>2, <3>1, <4>2, <4>3 DEF ThreadBooks
    <3> QED BY <3>2, <3>3
  <2>4. ASSUME ~log'.forgotten
        PROVE  Apart(M, log')
    BY <1>2, <2>1, <2>2, <2>4 DEF BooksOK, Apart
  <2> QED BY <2>3, <2>4, SMTT(30) DEF BooksOK, M
<1>10. Unmade(c', srv)
  <2>1. \A u \in Threads : u = t => srv[u].stamp # 0
    BY ActiveMade, ConversationConstants
  <2> QED BY <1>4, <1>5, <2>1 DEF Accounts, Unmade
<1>11. NewOK(c')
  <2>1. NewOK(c)
    BY <1>4 DEF Accounts
  <2>2. ASSUME c.creation.phase = "made", c.creation.here
        PROVE  c'.active # c.creation.thread /\ c'.drafts[c.creation.thread].text = {}
    <3>1. c.creation.thread \in Threads /\ c.creation.thread # t
      BY <2>1, <2>2, BookedGood DEF NewOK, Fine, CreationOK
    <3> QED BY <1>5, <1>6, <2>1, <2>2, <3>1 DEF NewOK, SameShown
  <2>3. ASSUME c.creation.first, Leaving(c.creation)
        PROVE  SameOrApart(c'.new, c.creation)
    <3>1. CASE t = New
      <4>1. n \notin c.creation.text /\ c'.new.text = {n}
        BY <1>5, <1>7, <3>1 DEF TypedOK
      <4> QED BY <4>1 DEF SameOrApart
    <3>2. CASE t # New
      BY <1>5, <2>1, <2>3, <3>2 DEF NewOK
    <3> QED BY <3>1, <3>2
  <2> QED BY <1>6, <2>2, <2>3 DEF NewOK
<1>12. KeptOK(c', srv, log')
  <2> SUFFICES ASSUME ~log.forgotten, NEW x \in log'.mine
               PROVE  x \in Held(c') \cup Answered0(srv, log')
    BY <1>2 DEF KeptOK
  <2>1. Answered0(srv, log') = Answered0(srv, log)
    BY <1>2 DEF Answered0, RunsOf
  <2>2. n \in Held(c')
    <3>1. CASE t = New
      BY <1>5, <3>1 DEF Held
    <3>2. CASE t # New
      BY <1>4, <1>5, <3>2 DEF Held
    <3> QED BY <3>1, <3>2
  <2>3. others \subseteq Held(c')
    <3>1. CASE t = New
      BY <1>5, <3>1 DEF Held
    <3>2. CASE t # New
      BY <1>5, <3>2 DEF Held
    <3> QED BY <3>1, <3>2
  <2>4. Held(c) \subseteq old.text \cup others
    <3>1. \A u \in Threads : u # t => c.drafts[u].text \subseteq others
      OBVIOUS
    <3>2. t \in Threads => c.drafts[t].text \subseteq old.text
      BY ConversationConstants
    <3>3. c.new.text \subseteq old.text \cup others
      OBVIOUS
    <3> HIDE DEF old, others
    <3> QED BY <3>1, <3>2, <3>3 DEF Held
  <2>5. x = n \/ (x \in log.mine /\ (x \in old.text => x \in others))
    BY <1>2
  <2>6. log.mine \subseteq Held(c) \cup Answered0(srv, log)
    BY <1>4 DEF Accounts, KeptOK
  <2> HIDE DEF old, others
  <2> QED BY <2>1, <2>2, <2>3, <2>4, <2>5, <2>6
<1>13. PendingOK(c') /\ SinceOK(c') /\ AcceptedOK(c', srv)
  BY <1>4, <1>5, <1>6 DEF Accounts, PendingOK, SinceOK, AcceptedOK, Sending, Dark, SameShown
<1>14. BoundOK(c'.creation, srv, log) /\ SubsOK(c'.subs, srv, log)
  BY <1>4, <1>5, <1>6 DEF Accounts
<1>15. log.texts <= log'.texts
  BY <1>2 DEF n
<1> QED BY <1>1, <1>2, <1>6, <1>8, <1>9, <1>10, <1>11, <1>12, <1>13, <1>14, <1>15, OwnStep
  DEF SameShown

\* What is left of the draft of a submission is not in it.
LEMMA EmptiedDraft ==
  ASSUME NEW d \in DraftType, NEW sub
  PROVE  /\ Emptied(d, sub).text \subseteq d.text
         /\ d.text \subseteq Emptied(d, sub).text \cup sub.text
         /\ SameOrApart(d, sub) => Emptied(d, sub).text \cap sub.text = {}
<1>1. {} \in Texts
  BY DEF Texts
<1>2. Redrafted(d, {}).text = {}
  BY <1>1, RedraftedType
<1>3. CASE d.version = sub.version /\ d.text = sub.text
  BY <1>2, <1>3 DEF Emptied
<1>4. CASE ~(d.version = sub.version /\ d.text = sub.text)
  BY <1>4 DEF Emptied, SameOrApart
<1> QED BY <1>3, <1>4

\* The books of a conversation whose submission is accepted, or found by the user.
LEMMA ClosedBooks ==
  ASSUME NEW d \in DraftType, NEW sub, NEW new, NEW g, NEW h, NEW M, NEW t,
         ThreadBooks(t, sub, d, M, g), Unsettled(sub), g.sent[sub.id].text = sub.text,
         h.sent = g.sent, h.known = g.known \cup {sub.id}, ~Unsettled(new),
         new.status = "accepted" => new.id = sub.id
  PROVE  ThreadBooks(t, new, Emptied(d, sub), M, h)
<1>1. SameOrApart(d, sub)
  BY DEF ThreadBooks
<1>2. Emptied(d, sub).text \subseteq d.text /\ Emptied(d, sub).text \cap sub.text = {}
  BY <1>1, EmptiedDraft
<1>3. \A n, m : AgainIn(h, n, m) = AgainIn(g, n, m)
  BY DEF AgainIn
<1> QED BY <1>2, <1>3 DEF ThreadBooks

\* The step that closes the submission of the conversation on show.
Closes(t, new) ==
  /\ Unsettled(c.subs[t]) /\ ~Unsettled(new) /\ (new.status = "accepted" => new.id = c.subs[t].id)
  /\ new.text \subseteq c.subs[t].text
  /\ \A u \in Threads :
       /\ c'.drafts[u] = IF u = t THEN Emptied(c.drafts[t], c.subs[t]) ELSE c.drafts[u]
       /\ c'.subs[u] = IF u = t THEN new ELSE c.subs[u]
  /\ c'.new = c.new /\ c'.creation = c.creation /\ c'.active = c.active /\ c'.post = c.post
  /\ log'.sent = log.sent /\ log'.texts = log.texts /\ log'.forgotten = log.forgotten
  /\ log'.known = log.known \cup {c.subs[t].id} /\ log'.mine \subseteq log.mine
  /\ log'.mine \cap c.subs[t].text \subseteq Answered0(srv, log)

\* It keeps the accounts of what was typed and sent.
LEMMA ClosedAccounts ==
  ASSUME Booked, GoodStep, UNCHANGED <<srv, late>>, NEW t \in Threads, t = c.active,
         NEW new \in Submissions, Closes(t, new), SubOK(new, t, srv, log), AcceptedOK(c', srv)
  PROVE  AccountStep
<1>1. /\ Accounts(c, srv, late, log) /\ \A u \in Threads : c.drafts[u] \in DraftType
      /\ log.texts \in Nat
  BY BookedGood DEF Store, Logs
<1>2. /\ \A u \in Threads : c'.drafts[u].text \subseteq c.drafts[u].text
      /\ \A u \in Threads : c.drafts[u].text \subseteq c'.drafts[u].text \cup c.subs[t].text
      /\ \A u \in Threads : u # t => c'.drafts[u].text = c.drafts[u].text
  BY <1>1, EmptiedDraft DEF Closes
<1>3. \A u \in Threads : c'.subs[u].status # "pending"
  BY <1>1 DEF Closes, Unsettled, Accounts, PendingOK
<1>4. BooksOK(c', Taken(srv, late, c.post, log), log')
  <2> DEFINE M == Taken(srv, late, c.post, log)
  <2>1. BooksOK(c, M, log)
    BY <1>1 DEF Accounts
  <2> HIDE DEF M
  <2>2. \A k, m : AgainIn(log', k, m) = AgainIn(log, k, m)
    BY DEF AgainIn, Closes
  <2>3. ASSUME ~log'.forgotten, NEW u \in Threads
        PROVE  ThreadBooks(u, c'.subs[u], c'.drafts[u], M, log')
    <3>1. ThreadBooks(u, c.subs[u], c.drafts[u], M, log)
      BY <2>1, <2>3 DEF BooksOK, Closes
    <3>2. CASE u # t
      BY <2>2, <3>1, <3>2 DEF ThreadBooks, Closes
    <3>3. CASE u = t
      <4>1. log.sent[c.subs[t].id].text = c.subs[t].text
        BY <1>1 DEF Closes, Unsettled, Accounts, SubsOK, SubOK
      <4> QED BY <1>1, <3>1, <3>3, <4>1, ClosedBooks DEF Closes
    <3> QED BY <3>2, <3>3
  <2>4. ASSUME ~log'.forgotten
        PROVE  Apart(M, log')
    BY <2>1, <2>2, <2>4 DEF BooksOK, Apart, Closes
  <2> QED BY <2>3, <2>4 DEF BooksOK, M
<1>5. TypedOK(c', log')
  BY <1>1, <1>2 DEF Accounts, TypedOK, Typed, Closes
<1>6. Unmade(c', srv) /\ NewOK(c')
  <2>1. Unmade(c', srv)
    BY <1>1, <1>2 DEF Accounts, Unmade
  <2>2. c.creation.phase = "made" => c.creation.thread \in Threads
    BY BookedGood DEF Fine, CreationOK
  <2> QED BY <1>1, <1>2, <2>1, <2>2 DEF Accounts, NewOK, Closes
<1>7. KeptOK(c', srv, log')
  <2>1. Answered0(srv, log') = Answered0(srv, log)
    BY DEF Answered0, RunsOf, Closes
  <2>2. Held(c) \subseteq Held(c') \cup c.subs[t].text
    BY <1>2 DEF Held, Closes
  <2> QED BY <1>1, <2>1, <2>2 DEF Accounts, KeptOK, Closes
<1>8. SubsOK(c'.subs, srv, log) /\ BoundOK(c'.creation, srv, log)
  BY <1>1 DEF Accounts, SubsOK, Closes
<1> QED BY <1>1, <1>3, <1>4, <1>5, <1>6, <1>7, <1>8, OwnStep DEF PendingOK, SinceOK, Closes

\* What the user finds among the messages he knows of, or gives up.
LEMMA ConfirmAccounts ==
  ASSUME Booked, ConfirmSend
  PROVE  AccountStep
<1> DEFINE t == c.active
<1> DEFINE sub == c.subs[t]
<1>1. /\ GoodStep /\ UNCHANGED <<srv, late>> /\ t \in Threads /\ sub.status = "unknown"
      /\ c' = Confirm(c, t)
  BY BookedGood, ActiveMade, ConfirmSendKeeps, Zenon DEF ConfirmSend
<1>2. PICK seq \in c.proj[t].seqs :
        log' = [log EXCEPT !.known = @ \cup {sub.id},
                  !.mine = IF srv[t].runs[Owner(t, seq)].send = sub.id THEN @ ELSE @ \ sub.text]
  BY Zenon DEF ConfirmSend
<1>3. /\ log'.sent = log.sent /\ log'.texts = log.texts /\ log'.forgotten = log.forgotten
      /\ log'.known = log.known \cup {sub.id}
      /\ log'.mine = IF srv[t].runs[Owner(t, seq)].send = sub.id THEN log.mine ELSE log.mine \ sub.text
  BY <1>2, BookedGood DEF Logs
<1>4. /\ InputsOnly(c, c') /\ c'.new = c.new
      /\ \A u \in Threads :
           /\ c'.drafts[u] = IF u = t THEN Emptied(c.drafts[t], sub) ELSE c.drafts[u]
           /\ c'.subs[u] = IF u = t THEN NoSubmission ELSE c.subs[u]
  BY <1>1, BookedGood, ConfirmEffect
<1>5. Owner(t, seq) \in 1..Len(srv[t].runs)
  <2>1. KnownOK(c.proj[t], srv[t]) /\ HistoryOK(srv[t])
    BY <1>1, BookedGood, HistoryTypes DEF Fine, ViewOK, ThreadOK
  <2>2. seq \in 1..Len(srv[t].msgs)
    BY <2>1 DEF KnownOK
  <2> QED BY <2>1, <2>2 DEF HistoryOK, Owner
<1>6. sub.id \in 1..Len(log.sent) /\ log.sent[sub.id].thread = t /\ log.sent[sub.id].text = sub.text
  <2>1. SubOK(sub, t, srv, log) /\ sub.id \in Nat /\ Len(log.sent) \in Nat
    BY <1>1, BookedGood, SentThread DEF Accounts, SubsOK, Store, Submissions
  <2>2. sub.id # 0
    BY <1>1, <2>1 DEF SubOK
  <2> QED BY <2>1, <2>2 DEF SubOK
<1>7. log'.mine \cap sub.text \subseteq Answered0(srv, log)
  <2>1. CASE srv[t].runs[Owner(t, seq)].send = sub.id
    <3>1. sub.id \in RunsOf(srv, log)
      BY <1>5, <1>6, <2>1, Zenon DEF RunsOf
    <3> QED BY <1>6, <3>1, SMTT(30) DEF Answered0
  <2> QED BY <1>3, <2>1
<1>8. NoSubmission \in Submissions /\ NoSubmission.status = "none" /\ NoSubmission.id = 0
      /\ NoSubmission.text = {} /\ NoSubmission.prev = 0 /\ NoSubmission.run = 0
  BY Blank DEF NoSubmission
<1>9. SubOK(NoSubmission, t, srv, log)
  <2>1. Len(srv[t].runs) \in Nat
    BY <1>1, BookedGood, HistoryTypes
  <2> QED BY <1>8, <2>1 DEF SubOK
<1>10. AcceptedOK(c', srv)
  <2>1. AcceptedOK(c, srv)
    BY BookedGood DEF Accounts
  <2> QED BY <1>4, <1>8, <2>1 DEF AcceptedOK, InputsOnly, SameShown, Dark
<1>11. Closes(t, NoSubmission)
  <2>1. Unsettled(sub) /\ ~Unsettled(NoSubmission)
    BY <1>1, <1>8 DEF Unsettled
  <2> QED BY <1>3, <1>4, <1>7, <1>8, <2>1 DEF Closes, InputsOnly, SameShown
<1> QED BY <1>1, <1>8, <1>9, <1>10, <1>11, ClosedAccounts

\* The acceptance of a send keeps the accounts: its Run is on show, and the user knows of it.
LEMMA AcceptAccounts ==
  ASSUME Booked, AcceptSend
  PROVE  AccountStep
<1> DEFINE t == c.active
<1> DEFINE n == c.post.send
<1> DEFINE run == c.post.run
<1> DEFINE sub == c.subs[t]
<1> DEFINE new == [sub EXCEPT !.status = "accepted", !.run = run]
<1> DEFINE own == sub.id = n /\ sub.status = "pending"
<1>1. /\ GoodStep /\ c'.new = c.new /\ c'.creation = c.creation /\ c'.active = t
      /\ c'.post = c.post /\ c'.read = c.read /\ c'.meta /\ c'.view[t].run = run
      /\ \A u \in Threads : u # t => c'.view[u] = c.view[u] /\ c'.proj[u] = c.proj[u]
      /\ \A u \in Threads :
           /\ c'.drafts[u] = IF u = t /\ own THEN Emptied(c.drafts[t], sub) ELSE c.drafts[u]
           /\ c'.subs[u] = IF u = t /\ own THEN new ELSE c.subs[u]
  BY BookedGood, AcceptSendKeeps
<1>2. /\ run # 0 /\ ~c.meta /\ UNCHANGED <<srv, late>>
      /\ log' = [log EXCEPT !.known = @ \cup {n}]
  BY DEF AcceptSend
<1>3. /\ log'.sent = log.sent /\ log'.texts = log.texts /\ log'.forgotten = log.forgotten
      /\ log'.known = log.known \cup {n} /\ log'.mine = log.mine
  BY <1>2, BookedGood DEF Logs
<1>4. n # 0 /\ c.read.phase = "none" /\ c.view[t].history = "ready"
  <2>1. n # 0 /\ ~Quiet(c)
    BY <1>2, BookedGood DEF UnderWay, Quiet, NoPost
  <2>2. c.read.phase = "none"
    BY <2>1, BookedGood DEF UnderWay
  <2> QED BY <2>1, <2>2, BookedGood DEF UnderWay
<1>5. t \in Threads /\ n \in 1..Len(log.sent) /\ log.sent[n].thread = t /\ run \in Nat
  BY <1>4, PostHere
<1>6. run \in 1..Len(srv[t].runs) /\ srv[t].runs[run].send = n /\ Len(srv[t].runs) \in Nat
  <2>1. WaitingOK(c.post, t, srv, late, log) /\ Len(srv[t].runs) \in Nat
    BY <1>5, BookedGood, HistoryTypes, SMTT(30) DEF Accounts
  <2> QED BY <1>2, <1>4, <1>5, <2>1 DEF WaitingOK
<1>7. n \in RunsOf(srv, log)
  BY <1>5, <1>6, Zenon DEF RunsOf
<1>8. /\ sub \in Submissions /\ c.view[t].run \in Nat /\ c.proj[t].run \in Nat
      /\ SubOK(sub, t, srv, log) /\ c.view[t].run <= c.proj[t].run /\ c.proj[t].run < run
      /\ sub.status = "pending" => sub.prev <= c.view[t].run
  BY <1>2, <1>5, BookedGood
     DEF Store, Views, Projections, Accounts, SubsOK, SinceOK, Fine, ViewOK, ThreadOK, Ahead
<1>9. /\ new \in Submissions /\ new.status = "accepted" /\ new.run = run /\ new.id = sub.id
      /\ new.text = sub.text /\ new.prev = sub.prev
  BY <1>5, <1>8, Zenon DEF Submissions
<1> HIDE DEF new
<1>10. AcceptedOK(c', srv)
  <2> SUFFICES ASSUME NEW u \in Threads, c'.subs[u].status = "accepted"
               PROVE  Dark(c', u) \/ c'.view[u].run >= c'.subs[u].run
    BY <1>1, <1>4 DEF AcceptedOK
  <2>1. AcceptedOK(c, srv)
    BY BookedGood DEF Accounts
  <2>2. CASE u # t
    BY <1>1, <2>1, <2>2 DEF AcceptedOK, Dark
  <2>3. CASE u = t /\ own
    BY <1>1, <1>5, <1>9, <2>3
  <2>4. CASE u = t /\ ~own
    <3>1. sub.status = "accepted" /\ ~Dark(c, t) /\ c'.subs[t] = sub
      BY <1>1, <1>4, <2>4 DEF Dark
    <3>2. sub.run <= c.view[t].run /\ sub.run \in Nat
      BY <1>5, <1>8, <2>1, <3>1 DEF AcceptedOK, Submissions
    <3> QED BY <1>1, <1>5, <1>8, <2>4, <3>1, <3>2
  <2> QED BY <2>2, <2>3, <2>4
<1>11. CASE own
  <2>1. SubOK(new, t, srv, log)
    <3>1. sub.id # 0 /\ sub.prev < run /\ sub.prev <= Len(srv[t].runs)
      <4>1. sub.prev \in Nat
        BY <1>8 DEF Submissions
      <4> QED BY <1>4, <1>5, <1>8, <1>11, <4>1 DEF SubOK
    <3>2. run <= Len(srv[t].runs)
      BY <1>6
    <3> HIDE DEF sub, run
    <3> QED BY <1>8, <1>9, <3>1, <3>2 DEF SubOK
  <2>2. log'.mine \cap sub.text \subseteq Answered0(srv, log)
    <3>1. sub.text = log.sent[n].text
      BY <1>4, <1>8, <1>11 DEF SubOK
    <3> QED BY <1>7, <3>1 DEF Answered0
  <2>3. Closes(t, new)
    BY <1>1, <1>3, <1>9, <1>11, <2>2 DEF Closes, Unsettled
  <2> QED BY <1>1, <1>2, <1>5, <1>9, <1>10, <2>1, <2>3, ClosedAccounts
<1>12. CASE ~own
  <2>1. \A u \in Threads : c'.drafts[u] = c.drafts[u] /\ c'.subs[u] = c.subs[u]
    BY <1>1, <1>12
  <2>2. Accounts(c, srv, late, log)
    BY BookedGood
  <2>3. \A u \in Threads : c.subs[u].status # "pending"
    BY <1>12, <2>2 DEF Accounts, PendingOK
  <2>4. BooksOK(c', Taken(srv, late, c.post, log), log')
    <3> DEFINE M == Taken(srv, late, c.post, log)
    <3>1. BooksOK(c, M, log)
      BY <2>2 DEF Accounts
    <3> HIDE DEF M
    <3>2. \A k, m : AgainIn(log', k, m) = AgainIn(log, k, m)
      BY <1>3 DEF AgainIn
    <3>3. BooksOK(c', M, log')
      BY <1>3, <2>1, <3>1, <3>2 DEF BooksOK, ThreadBooks, Apart
    <3> QED BY <3>3 DEF M
  <2>5. TypedOK(c', log') /\ Unmade(c', srv) /\ SubsOK(c'.subs, srv, log)
    BY <1>1, <1>3, <2>1, <2>2 DEF Accounts, TypedOK, Typed, Unmade, SubsOK
  <2>6. NewOK(c') /\ BoundOK(c'.creation, srv, log)
    <3>1. c.creation.phase = "made" => c.creation.thread \in Threads
      BY BookedGood, SMTT(30) DEF Fine, CreationOK
    <3> QED BY <1>1, <2>1, <2>2, <3>1 DEF Accounts, NewOK
  <2>7. KeptOK(c', srv, log')
    BY <1>1, <1>3, <2>1, <2>2 DEF Accounts, KeptOK, Held, Answered0, RunsOf
  <2>8. log.texts <= log'.texts
    BY <1>3, BookedGood DEF Logs
  <2>9. PendingOK(c') /\ SinceOK(c')
    BY <2>1, <2>3 DEF PendingOK, SinceOK
  <2> QED BY <1>1, <1>2, <1>3, <1>10, <2>4, <2>5, <2>6, <2>7, <2>8, <2>9, OwnStep
<1> QED BY <1>11, <1>12

\* A creation begun keeps the accounts.
LEMMA CreateAccounts ==
  ASSUME Booked, SendFirst \/ CopyDraft
  PROVE  AccountStep
<1> DEFINE copy == IF c.drafts[c.active].text # {} THEN c.drafts[c.active].text
                   ELSE c.subs[c.active].text
<1>1. GoodStep /\ UNCHANGED <<srv, late>> /\ LogStays(log, log')
  BY BookedGood, SendFirstKeeps, CopyDraftKeeps, EventStays, Zenon DEF SendFirst, CopyDraft
<1>2. Accounts(c, srv, late, log) /\ TypedOK(c, log)
  BY BookedGood DEF Accounts
<1>3. PICK k : /\ c' = Creating(c, k) /\ k.phase = "sent"
               /\ k.text \subseteq 1..log.texts /\ k.copy \subseteq 1..log.texts
               /\ k.first => /\ k.copy = {} /\ Len(log.sent) < MaxSends
                             /\ k.text = c.new.text /\ k.version = c.new.version
  <2>1. CASE SendFirst
    <3> DEFINE k == [phase |-> "sent", here |-> TRUE, first |-> TRUE, text |-> c.new.text,
                     version |-> c.new.version, copy |-> {}, thread |-> New]
    <3>1. c' = Creating(c, k) /\ Len(log.sent) < MaxSends
      BY <2>1 DEF SendFirst, Create, Creating, CanAskSend
    <3>2. /\ k.phase = "sent" /\ k.text \subseteq 1..log.texts /\ k.copy = {}
          /\ k.text = c.new.text /\ k.version = c.new.version
      BY <1>2 DEF TypedOK, Typed
    <3> HIDE DEF k
    <3> QED BY <3>1, <3>2
  <2>2. CASE CopyDraft
    <3> DEFINE k == [phase |-> "sent", here |-> TRUE, first |-> FALSE, text |-> {}, version |-> 0,
                     copy |-> copy, thread |-> New]
    <3>1. c' = Creating(c, k) /\ c.active # New
      BY <2>2 DEF CopyDraft, Create, Creating
    <3>2. copy \subseteq 1..log.texts
      BY <1>2, <3>1, ActiveMade DEF TypedOK, Typed
    <3>3. k.phase = "sent" /\ k.text = {} /\ k.copy = copy /\ ~k.first
      OBVIOUS
    <3> HIDE DEF k, copy
    <3> QED BY <3>1, <3>2, <3>3, Zenon
  <2> QED BY <2>1, <2>2
<1>4. SameShown(c, c') /\ c'.creation = k /\ c'.drafts = c.drafts /\ c'.new = c.new
      /\ c'.subs = c.subs
  BY <1>3, BookedGood DEF Creating, Store, SameShown
<1>5. BoundOK(c'.creation, srv, log) /\ NewOK(c')
  BY <1>2, <1>3, <1>4 DEF Accounts, BoundOK, NewOK, Leaving, Copies, SameOrApart
<1>6. BooksOK(c', Taken(srv, late, c.post, log), log')
  <2> DEFINE M == Taken(srv, late, c.post, log)
  <2>1. BooksOK(c, M, log)
    BY <1>2 DEF Accounts
  <2> HIDE DEF M
  <2>2. \A n, m : AgainIn(log', n, m) = AgainIn(log, n, m)
    BY <1>1 DEF AgainIn, LogStays
  <2>3. BooksOK(c', M, log')
    BY <1>1, <1>4, <2>1, <2>2 DEF BooksOK, ThreadBooks, Apart, LogStays
  <2> QED BY <2>3 DEF M
<1>7. TypedOK(c', log') /\ Unmade(c', srv) /\ SubsOK(c'.subs, srv, log)
  BY <1>1, <1>2, <1>3, <1>4 DEF Accounts, TypedOK, Typed, Unmade, SubsOK, LogStays
<1>8. KeptOK(c', srv, log')
  BY <1>1, <1>2, <1>4 DEF Accounts, KeptOK, Held, Answered0, RunsOf, LogStays
<1>9. log.texts <= log'.texts /\ log'.sent = log.sent
  BY <1>1, BookedGood DEF Logs, LogStays
<1>10. PendingOK(c') /\ SinceOK(c') /\ AcceptedOK(c', srv)
  BY <1>2, <1>4 DEF Accounts, PendingOK, SinceOK, AcceptedOK, Sending, Dark, SameShown
<1> QED BY <1>1, <1>4, <1>5, <1>6, <1>7, <1>8, <1>9, <1>10, OwnStep DEF SameShown

\* A message that was refused became no Run, and does not: it is out no more.
LEMMA RefusedAccounts ==
  ASSUME Booked, Sending(c), c.post.run = 0, NEW m \in Store, SameInputs(Rejected(c, c.active), m),
         m.active = c.active, m.view = c.view, m.proj = c.proj, m.read = c.read, m.post = NoPost
  PROVE  Accounts(m, srv, late, log) /\ \A u \in Threads : m.subs[u].status # "pending"
<1> DEFINE t == c.active
<1> DEFINE n == c.post.send
<1>1. n # 0 /\ ~c.meta /\ t \in Threads /\ n \in 1..Len(log.sent) /\ Accounts(c, srv, late, log)
  BY BookedGood, PostHere DEF Sending
<1>2. /\ m.drafts = c.drafts /\ m.new = c.new /\ m.creation = c.creation
      /\ \A u \in Threads :
           m.subs[u] = IF u = t /\ c.subs[t].status = "pending" THEN NoSubmission ELSE c.subs[u]
  BY <1>1, BookedGood, RejectedEffect DEF SameInputs, InputsOnly
<1>3. /\ NoSubmission.status = "none" /\ NoSubmission.id = 0 /\ NoSubmission.text = {}
      /\ NoSubmission.prev = 0 /\ NoSubmission.run = 0 /\ NoPost.send = 0
  BY DEF NoSubmission, NoPost
<1>4. \A u \in Threads : m.subs[u].status # "pending"
  BY <1>1, <1>2, <1>3 DEF Accounts, PendingOK
<1>5. n \notin RunsOf(srv, log) /\ n \notin late /\ WaitingOK(m.post, m.active, srv, late, log)
  BY <1>1, <1>3 DEF Accounts, WaitingOK
<1>6. BooksOK(m, Taken(srv, late, m.post, log), log)
  <2> DEFINE M == Taken(srv, late, c.post, log)
  <2> DEFINE N == Taken(srv, late, m.post, log)
  <2>1. BooksOK(c, M, log) /\ N \subseteq M /\ n \notin N
    <3>1. N \subseteq M /\ n \notin N
      BY <1>1, <1>3, <1>5 DEF Taken, Waits
    <3> QED BY <1>1, <3>1 DEF Accounts
  <2> HIDE DEF M, N
  <2>2. ASSUME ~log.forgotten, NEW u \in Threads
        PROVE  ThreadBooks(u, m.subs[u], m.drafts[u], N, log)
    <3>1. ThreadBooks(u, c.subs[u], c.drafts[u], M, log)
      BY <2>1, <2>2 DEF BooksOK
    <3>2. CASE m.subs[u] = c.subs[u]
      BY <1>2, <2>1, <3>1, <3>2 DEF ThreadBooks
    <3>3. CASE m.subs[u] = NoSubmission /\ c.subs[u].status = "pending"
      <4>1. c.subs[u].id = n
        BY <1>1, <3>3 DEF Accounts, PendingOK
      <4> QED BY <1>2, <1>3, <2>1, <3>1, <3>3, <4>1 DEF ThreadBooks, Unsettled
    <3> QED BY <1>2, <3>2, <3>3
  <2>3. ASSUME ~log.forgotten
        PROVE  Apart(N, log)
    BY <2>1, <2>3 DEF BooksOK, Apart
  <2> QED BY <2>2, <2>3 DEF BooksOK, N
<1>7. SubsOK(m.subs, srv, log)
  <2>1. \A u \in Threads : Len(srv[u].runs) \in Nat
    BY BookedGood, HistoryTypes
  <2> QED BY <1>1, <1>2, <1>3, <2>1 DEF Accounts, SubsOK, SubOK
<1>8. TypedOK(m, log) /\ Unmade(m, srv) /\ NewOK(m) /\ KeptOK(m, srv, log)
  BY <1>1, <1>2, <1>3 DEF Accounts, TypedOK, Typed, Unmade, NewOK, KeptOK, Held
<1>9. AcceptedOK(m, srv)
  BY <1>1, <1>2, <1>3 DEF Accounts, AcceptedOK, Dark
<1> QED BY <1>1, <1>2, <1>4, <1>5, <1>6, <1>7, <1>8, <1>9 DEF Accounts, PendingOK, SinceOK

\* A send that is refused keeps the accounts.
LEMMA RefusedSend ==
  ASSUME Booked, FailSend(409) \/ FailSend(422)
  PROVE  AccountStep
<1> DEFINE t == c.active
<1> DEFINE r == Rejected(c, t)
<1> DEFINE m == Handled(r, NoPost)
<1>1. GoodStep /\ UNCHANGED <<srv, late>> /\ LogStays(log, log') /\ Sending(c) /\ c.post.run = 0
      /\ c' = Reload(r)
  <2>1. Refused(409) /\ Refused(422) /\ 409 \in {0, 409, 422} /\ 422 \in {0, 409, 422}
    BY DEF Refused
  <2>2. late \cup {} = late
    OBVIOUS
  <2> QED BY <2>1, <2>2, BookedGood, FailSendKeeps, EventStays DEF FailSend
<1>2. t \in Threads
  BY <1>1, PostHere DEF Sending
<1>3. r \in Store /\ SameShown(c, r) /\ r.creation = c.creation
  BY <1>2, BookedGood, RejectedEffect DEF InputsOnly
<1> HIDE DEF r
<1>4. /\ m \in Store /\ SameInputs(r, m) /\ m.active = r.active /\ m.view = r.view
      /\ m.proj = r.proj /\ m.read = r.read /\ m.post = NoPost /\ m.meta = r.meta
  BY <1>3, Blank, HandledEffect
<1> HIDE DEF m
<1>5. Accounts(m, srv, late, log) /\ \A u \in Threads : m.subs[u].status # "pending"
  BY <1>1, <1>3, <1>4, RefusedAccounts DEF SameShown, r
<1>6. PendingOK(r)
  BY <1>4, <1>5 DEF PendingOK, SameInputs
<1>7. c' \in Store /\ c'.post = NoPost /\ Settles(r, c') /\ Dims(r, c')
  BY <1>1, <1>3, <1>6, ReloadSettles
<1>8. Settles(m, c') /\ Dims(m, c')
  BY <1>4, <1>5, <1>7 DEF Settles, Dims, Dark, SameInputs
<1>9. \A u \in Threads : Forward(m.view[u], c'.view[u])
  BY <1>1, <1>3, <1>4 DEF GoodStep, Onward, SameShown
<1>10. AcceptedOK(c', srv)
  BY <1>4, <1>5, <1>7, <1>8, <1>9, SettledAccepted DEF Accounts
<1>11. Accounts(c', srv, late, log)
  <2>1. Waits(late, c'.post, log) = Waits(late, m.post, log) /\ c'.post.send = 0
    BY <1>4, <1>7 DEF NoPost
  <2>2. m.creation.phase = "made" => m.creation.thread \in Threads
    BY <1>3, <1>4, BookedGood DEF Fine, CreationOK, SameInputs
  <2> QED BY <1>4, <1>5, <1>7, <1>8, <1>9, <1>10, <2>1, <2>2, BookedGood, SettledAccounts
<1>12. Accounts(c', srv', late', log')
  BY <1>1, <1>11, SameLog
<1> QED BY <1>1, <1>12, LaterLog DEF AccountStep

-----------------------------------------------------------------------------
(* Sending. *)

\* One more message is sent, from a store whose work was stopped.
Starts(m, r, g, h, t, x, version) ==
  /\ m.post = NoPost /\ m.active = t /\ r.active = t /\ r.post = Post(Len(g.sent) + 1)
     /\ r.meta = FALSE
  /\ r.view = m.view /\ r.proj = m.proj /\ r.read = m.read /\ r.creation = m.creation
  /\ r.drafts = m.drafts /\ r.new = m.new
  /\ \A u \in Threads :
       r.subs[u] = IF u = t THEN Submission(Len(g.sent) + 1, x.text, version, m.view[t].run)
                   ELSE m.subs[u]
  /\ Len(g.sent) < MaxSends /\ x \in Sent /\ x.thread = t /\ h.sent = Append(g.sent, x)
  /\ h.mine = g.mine /\ h.known = g.known /\ h.texts = g.texts /\ h.forgotten = g.forgotten
\* It is the draft, or what the user sends again.
MaySend(m, g, t, x, version) ==
  /\ ~Leaving(m.creation) /\ m.creation.copy = {} /\ x.text \subseteq 1..g.texts
  /\ ~g.forgotten => SameOrApart(m.drafts[t], [text |-> x.text, version |-> version])
  /\ x.explicit \/ (~Unsettled(m.subs[t]) /\ (x.text = m.drafts[t].text \/ Unsent(g, t)))

\* What is in the log after it.
Joined(g, h, x, n) ==
  /\ n \in Nat \ {0} /\ Len(g.sent) \in Nat /\ Len(h.sent) = n /\ h.sent[n] = x
  /\ \A k \in 1..Len(g.sent) : h.sent[k] = g.sent[k] /\ k \in 1..n /\ k # n
  /\ \A k \in 1..n : k = n \/ k \in 1..Len(g.sent)
  /\ \A k \in 1..Len(g.sent) : \A m \in k..Len(g.sent) :
       AgainIn(g, k, m) => AgainIn(h, k, m) /\ AgainIn(h, k, n)
  /\ \A k \in 1..Len(g.sent) : x.explicit /\ x.thread = g.sent[k].thread => AgainIn(h, k, n)
LEMMA Appended ==
  ASSUME NEW g \in Logs, NEW h, NEW x, h.sent = Append(g.sent, x), NEW n, n = Len(g.sent) + 1
  PROVE  Joined(g, h, x, n)
<1>1. g.sent \in Seq(Sent)
  BY DEF Logs
<1>2. /\ n \in Nat \ {0} /\ Len(g.sent) \in Nat /\ Len(h.sent) = n /\ h.sent[n] = x
      /\ \A k \in 1..Len(g.sent) : h.sent[k] = g.sent[k]
  BY <1>1
<1>3. /\ \A k \in 1..Len(g.sent) : k \in 1..n /\ k # n
      /\ \A k \in 1..n : k = n \/ k \in 1..Len(g.sent)
  BY <1>2
<1>4. ASSUME NEW k \in 1..Len(g.sent), NEW m \in k..Len(g.sent), AgainIn(g, k, m)
      PROVE  AgainIn(h, k, m) /\ AgainIn(h, k, n)
  <2>1. PICK j \in k+1..m : g.sent[j].explicit /\ g.sent[j].thread = g.sent[k].thread
    BY <1>4 DEF AgainIn
  <2>2. j \in 1..Len(g.sent) /\ j \in k+1..n
    BY <1>2
  <2> QED BY <1>2, <2>1, <2>2 DEF AgainIn
<1>5. ASSUME NEW k \in 1..Len(g.sent), x.explicit, x.thread = g.sent[k].thread
      PROVE  AgainIn(h, k, n)
  <2>1. n \in k+1..n
    BY <1>2
  <2> QED BY <1>2, <1>5, <2>1 DEF AgainIn
<1> QED BY <1>2, <1>3, <1>4, <1>5 DEF Joined

\* The books of the conversation that a message is sent in.
LEMMA StartedBooks ==
  ASSUME NEW m \in Store, NEW r \in Store, NEW g \in Logs, NEW h, NEW t \in Threads, NEW x,
         NEW version, Starts(m, r, g, h, t, x, version), MaySend(m, g, t, x, version),
         NEW M \in SUBSET (1..Len(g.sent)), BooksOK(m, M, g), NEW b, SubsOK(m.subs, b, g)
  PROVE  BooksOK(r, M \cup {Len(g.sent) + 1}, h)
<1> DEFINE n == Len(g.sent) + 1
<1> SUFFICES ASSUME ~g.forgotten PROVE BooksOK(r, M \cup {n}, h)
  BY Zenon DEF BooksOK, Starts
<1>1. Joined(g, h, x, n)
  <2>1. h.sent = Append(g.sent, x) /\ n = Len(g.sent) + 1
    BY DEF Starts
  <2> HIDE DEF n
  <2> QED BY <2>1, Appended
<1> DEFINE new == Submission(n, x.text, version, m.view[t].run)
<1>2. r.subs[t] = new /\ new.id = n /\ new.text = x.text /\ new.version = version
      /\ new.status = "pending"
  BY DEF Starts, Submission
<1>3. /\ n \notin M /\ \A k \in M : k \in Nat \ {0} /\ Len(g.sent) \in k..Len(g.sent)
      /\ \A k \in M : \A j \in k+1..Len(g.sent) : j \in k..Len(g.sent) /\ j \in 1..Len(g.sent)
  BY <1>1 DEF Joined
<1> HIDE DEF n, new
<1>4. ASSUME NEW k \in M, g.sent[k].thread = t
      PROVE  /\ k \in g.known \/ AgainIn(h, k, n)
             /\ m.drafts[t].text \cap g.sent[k].text = {} \/ AgainIn(h, k, n)
             /\ x.text \cap g.sent[k].text = {} \/ AgainIn(h, k, n)
  <2>1. k \in 1..Len(g.sent) /\ k # 0 /\ Len(g.sent) \in k..Len(g.sent)
    BY <1>3
  <2>2. ThreadBooks(t, m.subs[t], m.drafts[t], M, g)
    BY DEF BooksOK
  <2>3. CASE x.explicit
    BY <1>1, <1>4, <2>1, <2>3 DEF Starts, Joined
  <2>4. CASE ~x.explicit
    <3>1. ~Unsettled(m.subs[t]) /\ x.text = m.drafts[t].text
      BY <1>4, <2>1, <2>4 DEF MaySend, Unsent
    <3>2. m.subs[t].id = k => m.subs[t].status = "accepted"
      <4>1. m.subs[t] \in Submissions
        BY DEF Store
      <4> QED BY <2>1, <3>1, <4>1 DEF SubsOK, SubOK, Unsettled, Submissions
    <3> QED BY <1>1, <1>4, <2>1, <2>2, <3>1, <3>2 DEF ThreadBooks, Joined
  <2> QED BY <2>3, <2>4
<1>5. ASSUME NEW u \in Threads
      PROVE  ThreadBooks(u, r.subs[u], r.drafts[u], M \cup {n}, h)
  <2>1. ThreadBooks(u, m.subs[u], m.drafts[u], M, g)
    BY DEF BooksOK
  <2>2. CASE u # t
    <3>1. r.subs[u] = m.subs[u] /\ r.drafts[u] = m.drafts[u] /\ h.sent[n].thread # u
          /\ h.known = g.known
      BY <1>1, <2>2 DEF Starts, Joined
    <3> QED BY <1>1, <1>3, <2>1, <3>1 DEF ThreadBooks, Joined
  <2>3. CASE u = t
    <3>1. SameOrApart(r.drafts[t], new)
      BY <1>2 DEF MaySend, Starts, SameOrApart
    <3>2. r.drafts[t] = m.drafts[t] /\ h.known = g.known /\ new.status # "accepted"
          /\ Unsettled(new)
      BY <1>2 DEF Starts, Unsettled
    <3>3. ASSUME NEW k \in M \cup {n}, h.sent[k].thread = t
          PROVE  /\ new.id = k \/ k \in h.known \/ AgainIn(h, k, Len(h.sent))
                 /\ \/ r.drafts[t].text \cap h.sent[k].text = {} \/ AgainIn(h, k, Len(h.sent))
                    \/ new.id = k /\ Unsettled(new)
      BY <1>1, <1>2, <1>4, <3>2, <3>3 DEF Joined
    <3> QED BY <1>2, <2>3, <3>1, <3>2, <3>3 DEF ThreadBooks
  <2> QED BY <2>2, <2>3
<1>6. ASSUME NEW k \in M \cup {n}, NEW j \in k+1..Len(h.sent), h.sent[j].thread = h.sent[k].thread
      PROVE  h.sent[k].text \cap h.sent[j].text = {} \/ AgainIn(h, k, j)
  <2>1. k \in M /\ k \in 1..Len(g.sent)
    BY <1>1 DEF Joined
  <2>2. CASE j = n
    BY <1>1, <1>4, <1>6, <2>1, <2>2 DEF Starts, Joined
  <2>3. CASE j # n
    <3>1. j \in k+1..Len(g.sent) /\ j \in 1..Len(g.sent)
      BY <1>1, <2>1, <2>3 DEF Joined
    <3> QED BY <1>1, <1>3, <1>6, <2>1, <3>1, Zenon DEF BooksOK, Apart, Joined
  <2> QED BY <2>2, <2>3
<1> QED BY <1>5, <1>6, Zenon DEF BooksOK, Apart

\* A message that is sent keeps the accounts.
LEMMA StartAccounts ==
  ASSUME NEW m \in Store, NEW r \in Store, NEW g \in Logs, NEW h, NEW t \in Threads, NEW x,
         NEW version, Starts(m, r, g, h, t, x, version), MaySend(m, g, t, x, version),
         NEW l \in SUBSET (0..Len(g.sent)), Accounts(m, srv, l, g), BackendOK(srv),
         m.view[t].run <= Len(srv[t].runs)
  PROVE  Accounts(r, srv, l, h)
<1> DEFINE n == Len(g.sent) + 1
<1>1. Joined(g, h, x, n)
  <2>1. h.sent = Append(g.sent, x) /\ n = Len(g.sent) + 1
    BY DEF Starts
  <2> HIDE DEF n
  <2> QED BY <2>1, Appended
<1>2. m.post = NoPost /\ NoPost.send = 0 /\ NoPost.run = 0
  BY DEF Starts, NoPost
<1>3. r.post.send = n /\ r.post.run = 0 /\ r.active = t /\ r.meta = FALSE
  BY DEF Starts, Post
<1> DEFINE new == Submission(n, x.text, version, m.view[t].run)
<1>4. /\ r.subs[t] = new /\ new.id = n /\ new.text = x.text /\ new.status = "pending"
      /\ new.prev = m.view[t].run /\ new.run = 0 /\ m.view[t].run \in Nat
         /\ Len(srv[t].runs) \in Nat
  BY HistoryTypes DEF Starts, Submission, Store, Views
<1>5. RunsOf(srv, h) = RunsOf(srv, g) /\ n \notin RunsOf(srv, h)
  <2>1. ASSUME NEW i \in 1..Len(srv[t].runs)
        PROVE  srv[t].runs[i].send # n
    BY <1>1, <2>1, SMTT(30) DEF Accounts, HistorySends, Joined
  <2>2. n \notin RunsOf(srv, h)
    BY <1>1, <2>1 DEF RunsOf, Joined, Starts
  <2>3. \A k \in 1..Len(g.sent) : k \in RunsOf(srv, h) <=> k \in RunsOf(srv, g)
    BY <1>1, Zenon DEF RunsOf, Joined
  <2>4. RunsOf(srv, h) \subseteq 1..n /\ RunsOf(srv, g) \subseteq 1..Len(g.sent)
    BY <1>1 DEF RunsOf, Joined
  <2> QED BY <1>1, <2>2, <2>3, <2>4, Zenon DEF Joined
<1>6. n \notin l /\ n # 0
  BY <1>1 DEF Joined
<1> HIDE DEF n, new
<1>7. Taken(srv, l, r.post, h) = Taken(srv, l, m.post, g) \cup {n}
      /\ Taken(srv, l, m.post, g) \in SUBSET (1..Len(g.sent))
  <2>1. Waits(l, m.post, g) = {k \in 1..Len(g.sent) : k \in l}
    BY <1>1, <1>2 DEF Waits, Joined
  <2>2. Waits(l, r.post, h) = {k \in 1..n : k \in l \/ k = n}
    BY <1>1, <1>3 DEF Waits, Joined
  <2>3. Waits(l, r.post, h) = Waits(l, m.post, g) \cup {n}
    BY <1>1, <2>1, <2>2 DEF Joined
  <2>4. RunsOf(srv, g) \subseteq 1..Len(g.sent)
    BY DEF RunsOf
  <2> QED BY <1>5, <2>1, <2>3, <2>4 DEF Taken
<1>8. WaitingOK(r.post, r.active, srv, l, h)
  BY <1>3, <1>5, <1>6 DEF Accounts, WaitingOK
<1>9. \A u \in Threads : HistorySends(srv[u], u, h)
  <2> SUFFICES ASSUME NEW u \in Threads, NEW i \in 1..Len(srv[u].runs), srv[u].runs[i].send # 0
               PROVE  srv[u].runs[i].send <= Len(h.sent) /\ h.sent[srv[u].runs[i].send].thread = u
    BY DEF Accounts, HistorySends
  <2> DEFINE k == srv[u].runs[i].send
  <2>1. k <= Len(g.sent) /\ g.sent[k].thread = u
    BY DEF Accounts, HistorySends
  <2>2. k \in Nat
    <3> DEFINE q == srv[u].runs
    <3> DEFINE S == [send : Nat, over : BOOLEAN]
    <3>1. q \in Seq(S) /\ i \in 1..Len(q)
      BY HistoryTypes
    <3> HIDE DEF q, S
    <3>2. q[i] \in S
      BY <3>1
    <3> QED BY <3>2 DEF q, S
  <2> HIDE DEF k
  <2>3. k \in 1..Len(g.sent) /\ k <= Len(h.sent)
    BY <1>1, <2>1, <2>2 DEF Joined, k
  <2> QED BY <1>1, <2>1, <2>3, Zenon DEF Joined, k
<1>10. BoundOK(r.creation, srv, h)
  <2>1. BoundOK(m.creation, srv, g)
    BY DEF Accounts
  <2>2. Len(h.sent) <= MaxSends
    BY <1>1, ConversationConstants DEF Joined, Starts, n
  <2> QED BY <2>1, <2>2 DEF BoundOK, MaySend, Starts, Copies
<1>11. SubsOK(r.subs, srv, h)
  <2> SUFFICES ASSUME NEW u \in Threads PROVE SubOK(r.subs[u], u, srv, h)
    BY DEF SubsOK
  <2>1. CASE u = t
    BY <1>1, <1>4, <1>6, <2>1 DEF SubOK, Joined, Starts
  <2>2. CASE u # t
    <3>1. r.subs[u] = m.subs[u] /\ SubOK(m.subs[u], u, srv, g)
      BY <2>2 DEF Starts, Accounts, SubsOK
    <3>2. m.subs[u].id \in Nat
      BY DEF Store, Submissions
    <3>3. m.subs[u].id # 0 => m.subs[u].id \in 1..Len(g.sent) /\ m.subs[u].id <= Len(h.sent)
      BY <1>1, <3>1, <3>2 DEF SubOK, Joined
    <3> QED BY <1>1, <3>1, <3>3, Zenon DEF SubOK, Joined
  <2> QED BY <2>1, <2>2
<1>12. PendingOK(r) /\ SinceOK(r)
  <2>1. \A u \in Threads : u # t => r.subs[u].status # "pending"
    BY <1>2 DEF Starts, Accounts, PendingOK, Sending
  <2> QED BY <1>3, <1>4, <1>6, <2>1 DEF PendingOK, SinceOK, Sending, Starts
<1>13. BooksOK(r, Taken(srv, l, r.post, h), h)
  <2> DEFINE M == Taken(srv, l, m.post, g)
  <2>1. BooksOK(m, M, g) /\ SubsOK(m.subs, srv, g)
    BY DEF Accounts
  <2> HIDE DEF M
  <2>2. BooksOK(r, M \cup {n}, h)
    BY <1>7, <2>1, StartedBooks, Zenon DEF M, n
  <2> QED BY <1>7, <2>2 DEF M
<1>14. TypedOK(r, h)
  <2>1. TypedOK(m, g)
    BY DEF Accounts
  <2> QED BY <1>1, <1>4, <2>1 DEF TypedOK, Typed, Joined, Starts, MaySend
<1>15. Unmade(r, srv) /\ NewOK(r)
  BY DEF Accounts, Unmade, NewOK, Starts, MaySend, Leaving
<1>16. AcceptedOK(r, srv)
  BY <1>4 DEF Accounts, AcceptedOK, Starts, Dark
<1>17. KeptOK(r, srv, h)
  <2>1. \A k \in RunsOf(srv, g) : h.sent[k] = g.sent[k]
    BY <1>1 DEF RunsOf, Joined
  <2>2. Answered0(srv, h) = Answered0(srv, g)
    BY <1>5, <2>1 DEF Answered0
  <2>3. Held(r) = Held(m) /\ h.mine = g.mine /\ h.forgotten = g.forgotten
    BY DEF Held, Starts
  <2> QED BY <2>2, <2>3 DEF Accounts, KeptOK
<1> QED BY <1>8, <1>9, <1>10, <1>11, <1>12, <1>13, <1>14, <1>15, <1>16, <1>17 DEF Accounts

\* What a submission changes, once more.
Submits(m, r, t, text, version, prev, n) ==
  /\ r.active = m.active /\ r.post = Post(n) /\ r.meta = m.meta /\ r.view = m.view
  /\ r.proj = m.proj /\ r.read = m.read /\ r.creation = m.creation
  /\ r.drafts = m.drafts /\ r.new = m.new
  /\ \A u \in Threads : r.subs[u] = IF u = t THEN Submission(n, text, version, prev) ELSE m.subs[u]
LEMMA StartFields ==
  ASSUME NEW s \in Store, NEW t \in Threads, NEW text \in Texts, NEW version \in Nat, NEW n \in Nat,
         NEW r, r = StartSend(s, t, text, version, n), NEW m, m = StopSelection(s)
  PROVE  r \in Store /\ Submits(m, r, t, text, version, s.view[t].run, n)
BY StartEffect DEF Submits

\* What the user sends in the conversation on show keeps the accounts.
LEMMA SentAccounts ==
  ASSUME Booked, GoodStep, UNCHANGED srv, Aborts, CanAskSend, CanStartRun, NEW t, t = c.active,
         NEW text \in Texts, NEW version \in Nat, NEW explicit \in BOOLEAN,
         c' = StartSend(c, t, text, version, Len(log.sent) + 1), NewSend(t, text, explicit),
         text \subseteq 1..log.texts,
         ~log.forgotten => SameOrApart(c.drafts[t], [text |-> text, version |-> version]),
         explicit \/ (~Unsettled(c.subs[t]) /\ text = c.drafts[t].text)
  PROVE  AccountStep
<1> DEFINE s == StopSelection(c)
<1> DEFINE n == Len(log.sent) + 1
<1> DEFINE x == [thread |-> t, text |-> text, explicit |-> explicit]
<1>1. t \in Threads /\ Len(log.sent) \in Nat /\ n \in Nat /\ c.creation = NoCreation
  BY BookedGood, ActiveMade, SentThread DEF CanStartRun
<1>2. c.post.run = 0 => c.post.send = 0
  BY BookedGood DEF CanStartRun, Sending, UnderWay
<1>3. /\ s \in Store /\ s.active = t /\ s.post = NoPost /\ s.meta = FALSE /\ s.read = NoRead
      /\ s.creation = c.creation /\ s.drafts = c.drafts
      /\ \A u \in Threads : s.view[u].run = c.view[u].run /\ s.view[u].over = c.view[u].over
      /\ ~Unsettled(c.subs[t]) => s.subs[t] = c.subs[t]
  BY <1>1, BookedGood, StopEffect, Zenon DEF Unsettled
<1>4. Settles(c, s) /\ Dims(c, s)
  BY BookedGood, StopSettles
<1>5. late' = late
  <2>1. c.creation.phase = "none"
    BY <1>1 DEF NoCreation
  <2> QED BY <1>2, <2>1 DEF Aborts
<1>6. /\ c'.active = s.active /\ c'.post = Post(n) /\ c'.meta = s.meta /\ c'.view = s.view
      /\ c'.proj = s.proj /\ c'.read = s.read /\ c'.creation = s.creation
      /\ c'.drafts = s.drafts /\ c'.new = s.new
      /\ \A u \in Threads : c'.subs[u] = IF u = t THEN Submission(n, text, version, c.view[t].run)
                                         ELSE s.subs[u]
  <2>1. c \in Store /\ c' = StartSend(c, t, text, version, n) /\ s = StopSelection(c)
    BY BookedGood
  <2> HIDE DEF n, s
  <2>2. Submits(s, c', t, text, version, c.view[t].run, n)
    BY <1>1, <2>1, StartFields
  <2> QED BY <2>2 DEF Submits
<1> HIDE DEF s
<1>7. Accounts(s, srv, late, log)
  <2>1. \A u \in Threads : Forward(c.view[u], s.view[u])
    BY <1>3, BookedGood DEF Forward, Store, Views
  <2>2. AcceptedOK(s, srv)
    BY <1>3, <1>4, <2>1, BookedGood, SettledAccepted DEF Accounts
  <2>3. late \cup {0} =
          late \cup {0} \cup IF c.post.run = 0 /\ s.post # c.post THEN {c.post.send} ELSE {}
    BY <1>2
  <2> QED BY <1>3, <1>4, <2>1, <2>2, <2>3, BookedGood, SettledHere
<1>8. /\ log' \in Logs /\ log'.sent = Append(log.sent, x) /\ x \in Sent /\ x.thread = t
         /\ x.text = text
      /\ x.explicit = explicit
      /\ log'.mine = log.mine /\ log'.known = log.known /\ log'.texts = log.texts
      /\ log'.forgotten = log.forgotten
  BY <1>1, BookedGood, NewSendType, Zenon DEF NewSend, Logs
<1> HIDE DEF x
<1>9. Starts(s, c', log, log', t, x, version)
  BY <1>1, <1>3, <1>6, <1>8 DEF Starts, CanAskSend
<1>10. MaySend(s, log, t, x, version)
  BY <1>1, <1>3, <1>8 DEF MaySend, Leaving, NoCreation
<1>11. s.view[t].run <= Len(srv[t].runs)
  <2>1. c.view[t].run <= c.proj[t].run /\ c.proj[t].run <= Len(srv[t].runs)
    BY <1>1, BookedGood DEF Fine, ViewOK, ThreadOK, KnownOK
  <2>2. c.view[t].run \in Nat /\ c.proj[t].run \in Nat /\ Len(srv[t].runs) \in Nat
    BY <1>1, BookedGood, HistoryTypes DEF Store, Views, Projections
  <2> QED BY <1>1, <1>3, <2>1, <2>2
<1>12. Accounts(c', srv, late, log')
  BY <1>1, <1>3, <1>7, <1>9, <1>10, <1>11, BookedGood, StartAccounts DEF GoodStep, Good
<1>13. Later(srv, srv', log, log')
  <2>1. Joined(log, log', x, n)
    BY <1>8, BookedGood, Appended
  <2>2. \A u \in Threads : Len(srv[u].runs) \in Nat
    BY BookedGood, HistoryTypes
  <2>3. log.texts \in Nat
    BY BookedGood DEF Logs
  <2> QED BY <1>8, <2>1, <2>2, <2>3 DEF Later, Joined
<1> QED BY <1>5, <1>12, <1>13 DEF AccountStep

\* The draft of the conversation on show is sent, or what nobody knows of, again.
LEMMA SendAccounts ==
  ASSUME Booked, Send \/ SendAsNewTask
  PROVE  AccountStep
<1> DEFINE t == c.active
<1>1. GoodStep /\ UNCHANGED srv /\ Aborts /\ CanAskSend /\ CanStartRun /\ t \in Threads
  BY BookedGood, SendKeeps, SendAsNewTaskKeeps, ActiveMade, Zenon DEF Send, SendAsNewTask,
    CanStartRun
<1>2. /\ c.drafts[t] \in DraftType /\ c.subs[t] \in Submissions
      /\ c.drafts[t].text \subseteq 1..log.texts /\ c.subs[t].text \subseteq 1..log.texts
  BY <1>1, BookedGood DEF Store, Accounts, TypedOK, Typed
<1>3. CASE Send
  <2> DEFINE d == c.drafts[t]
  <2>1. /\ c' = StartSend(c, t, d.text, d.version, Len(log.sent) + 1) /\ NewSend(t, d.text, FALSE)
        /\ c.subs[t].status \in {"none", "accepted"}
    BY <1>3, Zenon DEF Send
  <2>2. d.text \in Texts /\ d.version \in Nat /\ ~Unsettled(c.subs[t])
        /\ SameOrApart(d, [text |-> d.text, version |-> d.version])
    BY <1>2, <2>1 DEF DraftType, Unsettled, SameOrApart
  <2>3. PICK explicit \in BOOLEAN : explicit = FALSE
    BY Zenon
  <2>4. NewSend(t, d.text, explicit)
    BY <2>1, <2>3, Zenon
  <2> QED BY <1>1, <1>2, <2>1, <2>2, <2>4, SentAccounts
<1>4. CASE SendAsNewTask
  <2> DEFINE sub == c.subs[t]
  <2>1. /\ c' = StartSend(c, t, sub.text, sub.version, Len(log.sent) + 1)
           /\ NewSend(t, sub.text, TRUE)
        /\ sub.status = "unknown"
    BY <1>4, Zenon DEF SendAsNewTask
  <2>2. sub.text \in Texts /\ sub.version \in Nat
        /\ (~log.forgotten => SameOrApart(c.drafts[t], [text |-> sub.text, version |-> sub.version]))
    <3>1. ~log.forgotten => SameOrApart(c.drafts[t], sub)
      BY <1>1, <2>1, BookedGood DEF Accounts, BooksOK, ThreadBooks, Unsettled
    <3> QED BY <1>2, <3>1 DEF Submissions, SameOrApart
  <2>3. PICK explicit \in BOOLEAN : explicit = TRUE
    BY Zenon
  <2>4. NewSend(t, sub.text, explicit) /\ explicit
    BY <2>1, <2>3, Zenon
  <2> QED BY <1>1, <1>2, <2>1, <2>2, <2>4, SentAccounts, Zenon
<1> QED BY <1>3, <1>4


-----------------------------------------------------------------------------
(* The answer to a creation. *)

\* A conversation that is listed settles.
LEMMA ListedSettles ==
  ASSUME Booked, c.creation.phase = "made", NEW t, t = c.creation.thread,
         NEW r, r = NewlyListed(c, t, Listing(c.creation), FirstItem(c.items[t]))
  PROVE  /\ r \in Store /\ SameShown(c, r) /\ Settles(c, r) /\ Dims(c, r) /\ PendingOK(r)
         /\ Fine(r, srv, log) /\ r.creation = Listing(c.creation)
         /\ r.drafts = c.drafts /\ r.new = c.new /\ r.subs = c.subs
         /\ \A u \in Threads : Forward(c.view[u], r.view[u])
<1>1. /\ r \in Store /\ SameShown(c, r) /\ Fine(r, srv, log) /\ r.creation = Listing(c.creation)
      /\ r.drafts = c.drafts /\ r.new = c.new /\ r.subs = c.subs
      /\ \A u \in Threads : Forward(c.view[u], r.view[u])
  BY BookedGood, NewlyListedKeeps
<1>2. c.creation \in Creations
  BY BookedGood DEF Store
<1>3. Follows(c.creation, Listing(c.creation), TRUE)
  BY <1>2, SMTT(30) DEF Follows, Listing, Creations, Copies
<1>4. Settles(c, r)
  BY <1>1, <1>3 DEF Settles, SameShown, Follows
<1> QED BY <1>1, <1>4, BookedGood, SameDims, SettlesPending

\* The draft of a new conversation is the draft of the conversation that was made of it.
LEMMA TransferAccounts ==
  ASSUME NEW s \in Store, NEW b, NEW l, NEW g \in Logs, Accounts(s, b, l, g), NEW t \in Threads,
         s.drafts[t].text = {}, s.creation.phase = "listing", Unsent(g, t), b[t].stamp # 0,
         NEW r, r = Transfer(s, t)
  PROVE  /\ r \in Store /\ Accounts(r, b, l, g) /\ r.creation = s.creation /\ r.subs = s.subs
         /\ r.post = s.post /\ r.view = s.view /\ r.drafts[t] = s.new
<1>1. /\ r \in Store /\ SameShown(s, r) /\ r.creation = s.creation /\ r.subs = s.subs
      /\ r.new.text = {} /\ \A u \in Threads : r.drafts[u] = IF u = t THEN s.new ELSE s.drafts[u]
  BY TransferEffect DEF InputsOnly
<1>2. s.subs[t].id = 0 /\ s.subs[t].status = "none"
  BY UnsentSub DEF Accounts, SubsOK, Store
<1>3. BooksOK(r, Taken(b, l, r.post, g), g)
  <2> DEFINE M == Taken(b, l, s.post, g)
  <2>1. BooksOK(s, M, g) /\ M \subseteq 1..Len(g.sent)
    BY Zenon DEF Accounts, Taken, RunsOf, Waits
  <2> HIDE DEF M
  <2>2. ASSUME ~g.forgotten, NEW u \in Threads
        PROVE  ThreadBooks(u, r.subs[u], r.drafts[u], M, g)
    BY <1>1, <1>2, <2>1, <2>2 DEF BooksOK, ThreadBooks, Unsent, Unsettled
  <2>3. BooksOK(r, M, g)
    BY <2>1, <2>2 DEF BooksOK
  <2> QED BY <1>1, <2>3, SMTT(30) DEF M, SameShown
<1>4. TypedOK(r, g) /\ Unmade(r, b) /\ NewOK(r)
  BY <1>1 DEF Accounts, TypedOK, Typed, Unmade, NewOK, Leaving
<1>5. KeptOK(r, b, g)
  <2>1. Held(s) \subseteq Held(r)
    <3>1. \A u \in Threads : u # t => r.drafts[u] = s.drafts[u]
      BY <1>1
    <3>2. r.drafts[t] = s.new
      BY <1>1
    <3> QED BY <3>1, <3>2 DEF Held
  <2> QED BY <2>1 DEF Accounts, KeptOK
<1>6. PendingOK(r) /\ SinceOK(r) /\ AcceptedOK(r, b)
  BY <1>1 DEF Accounts, PendingOK, Sending, SinceOK, AcceptedOK, Dark, SameShown
<1> QED BY <1>1, <1>3, <1>4, <1>5, <1>6 DEF Accounts, SameShown

\* What is shown at once.
LEMMA ReadyFields ==
  ASSUME NEW s \in Store, NEW t \in Threads, NEW r, r = Ready(s, t)
  PROVE  /\ r \in Store /\ r.post = s.post /\ r.active = s.active /\ r.creation = s.creation
         /\ r.subs = s.subs /\ r.drafts = s.drafts /\ r.new = s.new /\ r.read = s.read
         /\ r.proj = s.proj /\ r.meta = s.meta
         /\ \A u \in Threads : r.view[u].run = s.view[u].run /\ (u # t => r.view[u] = s.view[u])
<1> DEFINE v == [s.view[t] EXCEPT !.history = "ready", !.verified = TRUE]
<1>1. v \in Views /\ v.run = s.view[t].run
  <2>1. s.view[t] \in Views
    BY DEF Store
  <2> QED BY <2>1, Zenon DEF Views
<1> DEFINE view == [s.view EXCEPT ![t] = v]
<1>2. view \in [Threads -> Views] /\ \A u \in Threads : view[u] = IF u = t THEN v ELSE s.view[u]
  BY <1>1 DEF Store
<1>3. r = [s EXCEPT !.view = view]
  BY Zenon DEF Ready, Store
<1> HIDE DEF view, v
<1>4. /\ r \in Store /\ r.view = view /\ r.post = s.post /\ r.active = s.active
         /\ r.creation = s.creation
      /\ r.subs = s.subs /\ r.drafts = s.drafts /\ r.new = s.new /\ r.read = s.read
         /\ r.proj = s.proj
      /\ r.meta = s.meta
  BY <1>2, <1>3, ZenonT(60) DEF Store
<1> QED BY <1>1, <1>2, <1>4

\* It keeps the accounts.
LEMMA ReadyAccounts ==
  ASSUME NEW s \in Store, NEW b, NEW l, NEW g, Accounts(s, b, l, g), NEW t \in Threads,
         s.subs[t].status = "none", NEW r, r = Ready(s, t)
  PROVE  r \in Store /\ Accounts(r, b, l, g)
<1>1. /\ r \in Store /\ r.post = s.post /\ r.active = s.active /\ r.creation = s.creation
      /\ r.subs = s.subs /\ r.drafts = s.drafts /\ r.new = s.new /\ r.read = s.read
      /\ r.proj = s.proj /\ r.meta = s.meta
      /\ \A u \in Threads : r.view[u].run = s.view[u].run /\ (u # t => r.view[u] = s.view[u])
  BY ReadyFields
<1>2. PendingOK(r) /\ SinceOK(r) /\ AcceptedOK(r, b)
  BY <1>1 DEF Accounts, PendingOK, Sending, SinceOK, AcceptedOK, Dark
<1>3. /\ TypedOK(r, g) /\ Unmade(r, b) /\ NewOK(r) /\ KeptOK(r, b, g)
      /\ BooksOK(r, Taken(b, l, r.post, g), g)
  BY <1>1 DEF Accounts, TypedOK, Typed, Unmade, NewOK, KeptOK, Held, BooksOK
<1> QED BY <1>1, <1>2, <1>3 DEF Accounts

\* What stopping leaves.
Stopped(s, r) ==
  /\ r.drafts = s.drafts /\ r.creation = s.creation /\ r.active = s.active
  /\ r.post = NoPost /\ r.meta = FALSE
  /\ \A u \in Threads : Forward(s.view[u], r.view[u]) /\ r.view[u].run = s.view[u].run
                      /\ (s.subs[u].status # "pending" => r.subs[u] = s.subs[u])
LEMMA StopFields ==
  ASSUME NEW s \in Store, NEW r, r = StopSelection(s)
  PROVE  r \in Store /\ Stopped(s, r)
<1>1. /\ r \in Store /\ r.drafts = s.drafts /\ r.creation = s.creation /\ r.active = s.active
      /\ r.post = NoPost /\ r.meta = FALSE
      /\ \A u \in Threads : /\ r.view[u].run = s.view[u].run /\ r.view[u].over = s.view[u].over
                            /\ (s.subs[u].status # "pending" => r.subs[u] = s.subs[u])
  BY StopEffect, Zenon
<1>2. \A u \in Threads : s.view[u] \in Views
  BY DEF Store
<1> QED BY <1>1, <1>2 DEF Forward, Views, Stopped

\* What turning to another conversation leaves.
Turned(s, r, t) ==
  /\ r.post = NoPost /\ r.active = t /\ r.drafts = s.drafts /\ Settles(s, r) /\ Dims(s, r)
  /\ r.creation = [s.creation EXCEPT !.here = FALSE]
  /\ \A u \in Threads : Forward(s.view[u], r.view[u])
LEMMA ActivateFields ==
  ASSUME NEW s \in Store, PendingOK(s), NEW t \in Threads \cup {New}, NEW r, r = Activate(s, t)
  PROVE  r \in Store /\ Turned(s, r, t)
<1> DEFINE m == StopSelection(s)
<1>1. /\ r \in Store /\ r.active = t /\ r.view = m.view /\ r.drafts = m.drafts
      /\ r.creation = [s.creation EXCEPT !.here = FALSE]
  BY ActivateEffect
<1>2. m.drafts = s.drafts /\ \A u \in Threads : Forward(s.view[u], m.view[u])
  BY StopFields, Zenon DEF Stopped
<1> HIDE DEF m
<1> QED BY <1>1, <1>2, ActivateSettles DEF Turned

\* What stopping what runs changes of the accounts, when no POST is out.
LEMMA StopAccounts ==
  ASSUME NEW s \in Store, NEW b, NEW l, NEW g \in Logs, l \subseteq 0..Len(g.sent),
         Accounts(s, b, l, g),
         s.post = NoPost, s.creation.phase # "made", NEW r, r = StopSelection(s)
  PROVE  r \in Store /\ Accounts(r, b, l, g) /\ Stopped(s, r)
<1>1. r \in Store /\ Settles(s, r) /\ Dims(s, r) /\ r.post = NoPost
  BY StopEffect, StopSettles, Zenon DEF Accounts
<1>2. \A u \in Threads : Forward(s.view[u], r.view[u])
  BY StopFields, Zenon DEF Stopped
<1>3. AcceptedOK(r, b)
  BY <1>1, <1>2, SettledAccepted DEF Accounts
<1>4. Waits(l, r.post, g) = Waits(l, s.post, g) /\ NoPost.send = 0
  BY <1>1 DEF NoPost
<1>5. Accounts(r, b, l, g)
  BY <1>1, <1>2, <1>3, <1>4, SettledAccounts, Zenon
<1> QED BY <1>5, StopFields

\* What is known of a conversation that was made.
LEMMA MadeFresh ==
  ASSUME Booked, c.creation.phase = "made", NEW t, t = c.creation.thread
  PROVE  /\ t \in Threads /\ srv[t].stamp # 0 /\ Len(srv[t].runs) = 0 /\ Unsent(log, t)
            /\ srv[t].runs = <<>>
         /\ c.subs[t].id = 0 /\ c.subs[t].status = "none" /\ c.view[t].run = 0 /\ c.up
         /\ c.creation \in Creations /\ c.creation.text \in Texts /\ c.creation.version \in Nat
<1>1. CreationOK(c.creation, c.up, srv, log) /\ c.creation \in Creations /\ srv \in Backends
  BY BookedGood DEF Fine, Store
<1>2. t \in Threads /\ srv[t].stamp # 0 /\ srv[t].runs = <<>> /\ Unsent(log, t) /\ c.up
  BY <1>1 DEF CreationOK, Backends, Histrs
<1>3. c.subs[t].id = 0 /\ c.subs[t].status = "none"
  BY <1>2, BookedGood, UnsentSub DEF Accounts, SubsOK, Store
<1>4. c.view[t].run = 0
  <2>1. c.view[t].run <= c.proj[t].run /\ c.proj[t].run <= Len(srv[t].runs)
    BY <1>2, BookedGood DEF Fine, ViewOK, ThreadOK, KnownOK
  <2>2. c.view[t].run \in Nat /\ c.proj[t].run \in Nat /\ Len(srv[t].runs) = 0
    BY <1>2, BookedGood DEF Store, Views, Projections
  <2> QED BY <2>1, <2>2
<1> QED BY <1>1, <1>2, <1>3, <1>4 DEF Creations

\* The draft of a new conversation, where it was made; and that conversation, on show.
Moved(s, t) ==
  /\ s.creation = Listing(c.creation) /\ s.drafts[t] = c.new /\ s.post = c.post /\ s.subs = c.subs
  /\ s.view = c.view
Fresh(s, t) ==
  /\ s.creation = [Listing(c.creation) EXCEPT !.here = FALSE] /\ s.drafts[t] = c.new
     /\ s.post = NoPost
  /\ s.active = t /\ s.subs[t].status = "none" /\ s.view[t].run = 0
LEMMA CreationTransferred ==
  ASSUME Booked, c.creation.phase = "made", c.creation.here, c.creation.first,
         NEW t, t = c.creation.thread, NEW s \in Store, SameShown(c, s), Settles(c, s), Dims(c, s),
         s.creation = Listing(c.creation), s.drafts = c.drafts, s.new = c.new, s.subs = c.subs,
         \A u \in Threads : Forward(c.view[u], s.view[u]), NEW r, r = Transfer(s, t)
  PROVE  r \in Store /\ Accounts(r, srv, late, log) /\ Moved(r, t)
<1>2. Accounts(s, srv, late, log)
  <2>1. AcceptedOK(s, srv)
    BY BookedGood, SettledAccepted DEF Accounts
  <2>2. s.post = c.post
    BY DEF SameShown
  <2>3. late \cup {0} =
          late \cup {0} \cup IF c.post.run = 0 /\ s.post # c.post THEN {c.post.send} ELSE {}
    BY <2>2
  <2> QED BY <2>1, <2>3, BookedGood, SettledHere
<1>3. t \in Threads /\ srv[t].stamp # 0 /\ Unsent(log, t) /\ Listing(c.creation).phase = "listing"
  BY MadeFresh DEF Listing, Creations
<1>4. s.drafts[t].text = {}
  BY BookedGood DEF Accounts, NewOK
<1>5. /\ r \in Store /\ Accounts(r, srv, late, log) /\ r.creation = s.creation /\ r.subs = s.subs
      /\ r.post = s.post /\ r.view = s.view /\ r.drafts[t] = s.new
  BY <1>2, <1>3, <1>4, BookedGood, TransferAccounts
<1> QED BY <1>5 DEF SameShown, Moved

\* It is shown, and nothing of it runs.
LEMMA CreationShown ==
  ASSUME NEW t \in Threads, c.subs[t].status = "none", c.view[t].run = 0,
         NEW s \in Store, PendingOK(s), Moved(s, t), NEW m, m = Activate(s, t), NEW r, r = Ready(m, t)
  PROVE  r \in Store /\ Fresh(r, t)
<1>1. /\ m \in Store /\ m.post = NoPost /\ m.active = t /\ m.drafts = s.drafts
      /\ Settles(s, m) /\ m.creation = [s.creation EXCEPT !.here = FALSE]
  BY ActivateFields DEF Turned
<1>2. m.subs[t].status = "none"
  BY <1>1, ZenonT(60) DEF Settles, Moved
<1>3. m.view[t].run = 0
  <2> DEFINE x == StopSelection(s)
  <2>1. m.view = x.view
    BY ActivateEffect, Zenon
  <2>2. x.view[t].run = s.view[t].run
    BY StopEffect, Zenon
  <2> QED BY <2>1, <2>2 DEF Moved
<1>4. /\ r \in Store /\ r.drafts = m.drafts /\ r.post = m.post /\ r.active = m.active
      /\ r.creation = m.creation /\ r.subs = m.subs /\ r.view[t].run = m.view[t].run
  BY <1>1, ReadyFields
<1> QED BY <1>1, <1>2, <1>3, <1>4 DEF Fresh, Moved

\* Showing it keeps the accounts.
LEMMA CreationMoved ==
  ASSUME Booked, NEW t \in Threads, c.subs[t].status = "none", c.creation \in Creations,
         NEW s \in Store, Accounts(s, srv, late, log), Moved(s, t), NEW m, m = Activate(s, t),
         NEW r, r = Ready(m, t), NEW k \in SUBSET (0..Len(log.sent)),
         k \cup {0} = late \cup {0} \cup IF c.post.run = 0
         /\ c.post # NoPost THEN {c.post.send} ELSE {}
  PROVE  Accounts(r, srv, k, log)
<1>1. /\ m \in Store /\ m.post = NoPost /\ Settles(s, m) /\ Dims(s, m)
      /\ \A u \in Threads : Forward(s.view[u], m.view[u])
  <2>1. PendingOK(s)
    BY DEF Accounts
  <2>2. m \in Store /\ Turned(s, m, t)
    BY <2>1, ActivateFields
  <2> QED BY <2>2 DEF Turned
<1>2. AcceptedOK(m, srv)
  BY <1>1, SettledAccepted DEF Accounts
<1>3. WaitingOK(s.post, s.active, srv, late, log) /\ s.post \in Posts /\ m.post \in Posts
  BY <1>1 DEF Accounts, Store
<1>4. k \cup {0} = late \cup {0} \cup IF s.post.run = 0
      /\ m.post # s.post THEN {s.post.send} ELSE {}
  BY <1>1 DEF Moved
<1>5. /\ Waits(k, m.post, log) = Waits(late, s.post, log)
      /\ m.post.send # 0 /\ m.post.run = 0 => m.post.send \notin k
  BY <1>1, <1>3, <1>4, BookedGood, WaitsStay
<1>6. s.creation.phase # "made"
  BY DEF Listing, Creations, Moved
<1>7. Accounts(m, srv, k, log)
  BY <1>1, <1>2, <1>5, <1>6, BookedGood, SettledAccounts, Zenon
<1>8. m.subs[t].status = "none"
  BY <1>1, Zenon DEF Settles, Moved
<1> QED BY <1>1, <1>7, <1>8, ReadyAccounts

\* The end of a creation settles.
LEMMA ListCreationSettles ==
  ASSUME NEW s \in Store, s.creation.copy = {}, NEW r, r = ListCreation(s)
  PROVE  r \in Store /\ SameShown(s, r) /\ Settles(s, r) /\ Dims(s, r)
<1>1. r \in Store /\ Settles(s, r) /\ Dims(s, r)
  BY EndListingSettles
<1>2. r \in {EndCreation(s), LoadThreads(s, FALSE)}
  BY DEF ListCreation
<1> QED BY <1>1, <1>2, EndCreationEffect, LoadEffect, Zenon

\* Its first message is sent, and the list is read.
LEMMA CreationSent ==
  ASSUME Booked, GoodStep, UNCHANGED srv, c.creation.phase = "made", c.creation.first,
         SameOrApart(c.new, c.creation), NEW t, t = c.creation.thread, NEW s \in Store,
         Accounts(s, srv, late', log), late' \in SUBSET (0..Len(log.sent)), Fresh(s, t),
         NEW n, n = Len(log.sent) + 1, NEW r \in Store,
         NEW text \in Texts, text = c.creation.text, r = StartSend(s, t, text, c.creation.version, n),
         c' = ListCreation(r), NEW explicit \in BOOLEAN, NewSend(t, text, explicit)
  PROVE  AccountStep
<1> DEFINE m == StopSelection(s)
<1> DEFINE x == [thread |-> t, text |-> text, explicit |-> explicit]
<1> DEFINE version == c.creation.version
<1>1. /\ t \in Threads /\ Len(srv[t].runs) = 0 /\ Unsent(log, t) /\ n \in Nat
         /\ Len(log.sent) \in Nat
      /\ c.creation \in Creations /\ c.creation.text \in Texts /\ version \in Nat
  BY MadeFresh, BookedGood DEF Logs
<1>2. /\ s.creation.phase = "listing" /\ s.creation.copy = {}
         /\ c.creation.text \subseteq 1..log.texts
      /\ Len(log.sent) < MaxSends
  BY <1>1, BookedGood DEF Accounts, BoundOK, Leaving, TypedOK, Creations, Listing, Fresh
<1>3. m \in Store /\ Accounts(m, srv, late', log) /\ m.post = NoPost /\ m.creation = s.creation
      /\ m.active = t /\ m.drafts = s.drafts /\ m.meta = FALSE /\ m.view[t].run = 0
         /\ m.subs[t] = s.subs[t]
  <2>1. m \in Store /\ Accounts(m, srv, late', log) /\ Stopped(s, m)
    BY <1>2, BookedGood, StopAccounts, Zenon DEF Fresh
  <2> QED BY <1>1, <2>1 DEF Stopped, Fresh
<1>4. Submits(m, r, t, text, version, s.view[t].run, n)
  BY <1>1, StartFields, Zenon
<1>5. /\ log' \in Logs /\ log'.sent = Append(log.sent, x) /\ x \in Sent /\ x.thread = t
      /\ x.text = text
      /\ log'.mine = log.mine /\ log'.known = log.known /\ log'.texts = log.texts
      /\ log'.forgotten = log.forgotten
  <2>1. log \in Logs /\ x = [thread |-> t, text |-> text, explicit |-> explicit]
    BY BookedGood
  <2>2. /\ log'.mine = log.mine /\ log'.known = log.known /\ log'.texts = log.texts
        /\ log'.forgotten = log.forgotten
    BY <2>1 DEF NewSend, Logs
  <2>3. x.text = text
    BY SMTT(30)
  <2> HIDE DEF x
  <2> QED BY <1>1, <2>1, <2>2, <2>3, NewSendType
<1> HIDE DEF m, x
<1>6. Starts(m, r, log, log', t, x, version)
  BY <1>1, <1>2, <1>3, <1>4, <1>5 DEF Starts, Fresh, Submits
<1>7. MaySend(m, log, t, x, version)
  BY <1>1, <1>2, <1>3, <1>5 DEF MaySend, Leaving, Unsettled, SameOrApart, Fresh
<1>8. Accounts(r, srv, late', log')
  BY <1>1, <1>3, <1>6, <1>7, BookedGood, StartAccounts
<1>9. Joined(log, log', x, n)
  BY <1>5, BookedGood, Appended
<1>10. Later(srv, srv', log, log')
  <2>1. \A u \in Threads : Len(srv[u].runs) \in Nat
    BY BookedGood, HistoryTypes
  <2>2. log.texts \in Nat
    BY BookedGood DEF Logs
  <2> QED BY <1>5, <1>9, <2>1, <2>2 DEF Later, Joined
<1>11. Accounts(c', srv, late', log')
  <2>1. r.creation = s.creation /\ r.post.send = n /\ n <= Len(log'.sent)
    BY <1>3, <1>4, <1>9 DEF Post, Joined, Submits
  <2>2. c' \in Store /\ SameShown(r, c') /\ Settles(r, c') /\ Dims(r, c')
    BY <1>2, <2>1, ListCreationSettles, SMTT(30)
  <2>3. AcceptedOK(c', srv) /\ \A u \in Threads : Forward(r.view[u], c'.view[u])
    <3>1. \A u \in Threads : Forward(r.view[u], c'.view[u])
      <4>1. \A u \in Threads : r.view[u] \in Views
        BY DEF Store
      <4>2. \A u \in Threads : Forward(r.view[u], r.view[u])
        BY <4>1 DEF Forward, Views
      <4> QED BY <2>2, <4>2, Zenon DEF SameShown
    <3> QED BY <1>8, <2>2, <3>1, SettledAccepted, ZenonT(60) DEF Accounts
  <2>4. c'.post = r.post /\ late' \subseteq 0..Len(log'.sent) /\ n \notin late'
    BY <1>1, <1>9, <2>2 DEF SameShown, Joined
  <2>5. Waits(late', c'.post, log') = Waits(late', r.post, log')
    BY <2>4
  <2>6. r.creation.phase # "made"
    BY <1>2, <2>1
  <2>7. c'.post.send # 0 /\ c'.post.run = 0 => c'.post.send \notin late'
    BY <2>1, <2>4
  <2> QED BY <1>5, <1>8, <2>2, <2>3, <2>4, <2>5, <2>6, <2>7, SettledAccounts, ZenonT(60)
<1> QED BY <1>10, <1>11 DEF AccountStep


\* The answer to a creation keeps the accounts.
LEMMA ReceiveCreateAccounts ==
  ASSUME Booked, ReceiveCreate
  PROVE  AccountStep
<1> DEFINE k == c.creation
<1> DEFINE t == k.thread
<1> DEFINE listed == NewlyListed(c, t, Listing(k), FirstItem(c.items[t]))
<1> DEFINE transferred == Transfer(listed, t)
<1> DEFINE moved == Activate(transferred, t)
<1> DEFINE ready == Ready(moved, t)
<1> DEFINE n == Len(log.sent) + 1
<1> DEFINE sent == StartSend(ready, t, k.text, k.version, n)
<1> DEFINE shown == IF k.here THEN Enter(Activate(listed, t), FALSE) ELSE listed
<1>1. GoodStep /\ UNCHANGED srv /\ Aborts /\ c.creation.phase = "made"
  BY BookedGood, ReceiveCreateKeeps, Zenon DEF ReceiveCreate
<1>2. /\ t \in Threads /\ c.subs[t].status = "none" /\ c.view[t].run = 0 /\ k \in Creations
      /\ k.text \in Texts /\ k.version \in Nat
  BY <1>1, MadeFresh
<1>3. listed = [c EXCEPT !.creation.phase = "listing",
                         !.items[t] = IF @ = NoItem THEN [@ EXCEPT !.stamp = 0] ELSE @]
  BY <1>2, BookedGood DEF NewlyListed, Listing, FirstItem, Store
<1>4. PICK explicit \in BOOLEAN : explicit = FALSE
  BY Zenon
<1>5. \/ k.here /\ k.first /\ c' = ListCreation(sent) /\ NewSend(t, k.text, explicit)
      \/ ~(k.here /\ k.first) /\ c' = ListCreation(shown) /\ UNCHANGED log
  BY <1>3, <1>4, Zenon DEF ReceiveCreate, Ready
<1>6. t = c.creation.thread /\ k = c.creation /\ n = Len(log.sent) + 1
  OBVIOUS
<1> HIDE DEF k, t, n
<1>7. /\ listed \in Store /\ SameShown(c, listed) /\ Settles(c, listed) /\ Dims(c, listed)
      /\ PendingOK(listed) /\ listed.creation = Listing(c.creation) /\ listed.drafts = c.drafts
      /\ listed.new = c.new /\ listed.subs = c.subs
      /\ \A u \in Threads : Forward(c.view[u], listed.view[u])
  BY <1>1, <1>6, ListedSettles
<1> HIDE DEF listed
<1>8. CASE k.here /\ k.first /\ c' = ListCreation(sent) /\ NewSend(t, k.text, explicit)
  <2>1. transferred \in Store /\ Accounts(transferred, srv, late, log) /\ Moved(transferred, t)
    BY <1>1, <1>6, <1>7, <1>8, CreationTransferred
  <2> HIDE DEF transferred
  <2>2. ready \in Store /\ Fresh(ready, t)
    BY <1>2, <1>6, <2>1, CreationShown DEF Accounts
  <2>3. sent \in Store /\ sent.post = Post(n) /\ c'.post = sent.post
    <3>1. ready.creation.copy = {} /\ n \in Nat
      BY <1>2, <1>6, <1>8, <2>2, BookedGood DEF Fresh, Listing, Creations, Accounts, BoundOK, Logs
    <3> HIDE DEF ready
    <3> DEFINE m == StopSelection(ready)
    <3>2. sent = StartSend(ready, t, k.text, k.version, n) /\ m = StopSelection(ready)
      OBVIOUS
    <3> HIDE DEF sent, m
    <3>3. sent \in Store /\ Submits(m, sent, t, k.text, k.version, ready.view[t].run, n)
      BY <1>2, <2>2, <3>1, <3>2, StartFields
    <3>4. m.creation = ready.creation
      BY <2>2, <3>2, StopFields, Zenon DEF Stopped
    <3>5. sent.creation.copy = {} /\ sent.post = Post(n)
      BY <3>1, <3>3, <3>4 DEF Submits
    <3> QED BY <1>8, <3>3, <3>5, ListCreationSettles DEF SameShown
  <2>4. late' \in SUBSET (0..Len(log.sent))
        /\ late' \cup {0} =
             late \cup {0} \cup IF c.post.run = 0 /\ c.post # NoPost THEN {c.post.send} ELSE {}
    <3>1. c'.post.send = n /\ NoPost.send = 0
      BY <2>3 DEF Post, NoPost
    <3>2. c.post.send # n
      BY <1>6, BookedGood DEF Fine, PostOK, Store, Posts, Logs
    <3> HIDE DEF sent
    <3> QED BY <1>1, <3>1, <3>2, BookedGood, AbortsType DEF Aborts
  <2>5. Accounts(ready, srv, late', log)
    BY <1>2, <1>6, <2>1, <2>4, CreationMoved
  <2>6. SameOrApart(c.new, c.creation)
    BY <1>1, <1>6, <1>8, BookedGood DEF Accounts, NewOK, Leaving
  <2>7. /\ sent = StartSend(ready, t, k.text, c.creation.version, n) /\ c' = ListCreation(sent)
        /\ k.text = c.creation.text /\ c.creation.first
    BY <1>6, <1>8
  <2> HIDE DEF ready, sent
  <2> QED BY <1>1, <1>2, <1>6, <1>8, <2>2, <2>3, <2>4, <2>5, <2>6, <2>7, CreationSent
<1>9. CASE ~(k.here /\ k.first) /\ c' = ListCreation(shown) /\ UNCHANGED log
  <2>1. shown \in Store /\ Settles(listed, shown) /\ Dims(listed, shown)
    <3>1. CASE k.here
      <4> DEFINE x == Activate(listed, t)
      <4>1. x \in Store /\ Settles(listed, x) /\ Dims(listed, x) /\ PendingOK(x)
        BY <1>2, <1>7, ActivateSettles, SettlesPending
      <4> HIDE DEF x
      <4>2. PICK list \in BOOLEAN : list = FALSE
        BY Zenon
      <4> DEFINE y == Enter(x, list)
      <4>3. y \in Store /\ Settles(x, y) /\ Dims(x, y)
        BY <4>1, EnterSettles
      <4>4. shown = y
        BY <3>1, <4>2, Zenon DEF x
      <4> HIDE DEF y
      <4> QED BY <1>7, <4>1, <4>3, <4>4, SettlesTrans, DimsTrans, Zenon
    <3>2. CASE ~k.here
      BY <1>7, <3>2, SameBoth DEF SameInputs, SameShown
    <3> QED BY <3>1, <3>2, Zenon
  <2> HIDE DEF shown
  <2>2. shown.creation.phase = "listing" /\ shown.creation.copy # {}
        => shown.creation.thread \in Threads
    BY <1>2, <1>6, <1>7, <2>1, FollowsCopies DEF Settles, Copies, Listing, Creations
  <2>3. Settles(shown, c') /\ Dims(shown, c') /\ c' \in Store
    BY <1>9, <2>1, <2>2, EndListingSettles
  <2>4. Settles(c, c') /\ Dims(c, c')
    BY <1>7, <2>1, <2>3, BookedGood, SettlesTrans, DimsTrans
  <2>5. LogStays(log, log')
    BY <1>9 DEF LogStays
  <2> QED BY <1>1, <2>4, <2>5, AbortStep
<1> QED BY <1>5, <1>8, <1>9, Zenon


-----------------------------------------------------------------------------
(* The application is opened. *)

\* The store of an application that was opened, of what was saved.
Reopened(d, r) ==
  /\ r.post = NoPost /\ r.creation = NoCreation /\ r.read.phase = "none"
  /\ r.drafts = d.drafts /\ r.new = d.new
  /\ \A t \in Threads :
       /\ Dark(r, t) /\ r.subs[t].status # "pending"
       /\ \/ r.subs[t] = d.subs[t]
          \/ d.subs[t].status = "pending" /\ r.subs[t] = [d.subs[t] EXCEPT !.status = "unknown"]
LEMMA NoStoreOpened ==
  ASSUME NEW d \in InputType, NEW r, r = NoStore(d)
  PROVE  r \in Store /\ Reopened(d, r)
<1>1. r \in Store /\ r.view = [t \in Threads |-> NoView]
      /\ r.proj = [t \in Threads |-> NoProjection]
  BY NoStoreType
<1>2. /\ r.post = NoPost /\ r.creation = NoCreation /\ r.read = NoRead
      /\ r.drafts = d.drafts /\ r.new = d.new
      /\ r.subs = [t \in Threads |->
                     [d.subs[t] EXCEPT !.status = IF @ = "pending" THEN "unknown" ELSE @]]
  BY DEF NoStore
<1>3. \A t \in Threads : Dark(r, t)
  BY <1>1 DEF Dark, NoView, NoProjection
<1>4. ASSUME NEW t \in Threads
      PROVE  /\ r.subs[t].status # "pending"
             /\ \/ r.subs[t] = d.subs[t]
                \/ d.subs[t].status = "pending"
                   /\ r.subs[t] = [d.subs[t] EXCEPT !.status = "unknown"]
  <2>1. d.subs[t] \in Submissions
    BY DEF InputType
  <2> QED BY <1>2, <2>1 DEF Submissions
<1> QED BY <1>1, <1>2, <1>3, <1>4 DEF Reopened, NoRead

\* Opening the application keeps the accounts of what was saved.
LEMMA OpenedAccounts ==
  ASSUME NEW d \in InputType, NEW r \in Store, Reopened(d, r), NEW b, NEW l, NEW g \in Logs,
         \A t \in Threads : HistorySends(b[t], t, g), \A n \in l : n # 0 => n \notin RunsOf(b, g),
         Len(g.sent) <= MaxSends, DiskAccounts(d, b, g),
         \A n \in 1..Len(g.sent) : g.sent[n].text \subseteq 1..g.texts,
         BooksOK(r, Taken(b, l, r.post, g), g), KeptOK(r, b, g)
  PROVE  Accounts(r, b, l, g)
<1>1. ASSUME NEW t \in Threads
      PROVE  /\ r.subs[t].id = d.subs[t].id /\ r.subs[t].text = d.subs[t].text
             /\ r.subs[t].prev = d.subs[t].prev /\ r.subs[t].run = d.subs[t].run
             /\ (r.subs[t].status = "none" <=> d.subs[t].status = "none")
             /\ (r.subs[t].status = "accepted" <=> d.subs[t].status = "accepted")
  <2>1. d.subs[t] \in Submissions
    BY DEF InputType
  <2> QED BY <2>1, Zenon DEF Reopened, Submissions
<1>2. WaitingOK(r.post, r.active, b, l, g)
  BY DEF Reopened, NoPost, WaitingOK
<1>3. BoundOK(r.creation, b, g)
  BY DEF Reopened, NoCreation, BoundOK, Copies
<1>4. SubsOK(r.subs, b, g)
  BY <1>1 DEF DiskAccounts, SubsOK, SubOK
<1>5. PendingOK(r) /\ SinceOK(r)
  BY Zenon DEF Reopened, PendingOK, SinceOK
<1>6. TypedOK(r, g)
  BY <1>1 DEF Reopened, DiskAccounts, TypedOK, Typed, NoCreation
<1>7. Unmade(r, b) /\ NewOK(r) /\ AcceptedOK(r, b)
  <2>1. Unmade(r, b)
    BY DEF Reopened, DiskAccounts, Unmade
  <2>2. NewOK(r)
    BY DEF Reopened, NewOK, NoCreation, Leaving
  <2>3. AcceptedOK(r, b)
    BY Zenon DEF Reopened, AcceptedOK
  <2> QED BY <2>1, <2>2, <2>3
<1> QED BY <1>2, <1>3, <1>4, <1>5, <1>6, <1>7 DEF Accounts

\* Opening it again keeps them; what was not saved is forgotten.
LEMMA RestartAccounts ==
  ASSUME Booked, Restart
  PROVE  AccountStep
<1>1. c' = NoStore(disk) /\ UNCHANGED srv /\ Aborts
  BY DEF Restart
<1>2. c' \in Store /\ Reopened(disk, c')
  BY <1>1, BookedGood, NoStoreOpened
<1>3. /\ log'.sent = log.sent /\ log'.mine = log.mine /\ log'.known = log.known
      /\ log'.texts = log.texts
      /\ ~log'.forgotten => ~log.forgotten /\ disk = Inputs(c)
  BY BookedGood, Zenon DEF Restart, Logs
<1>4. log' \in Logs /\ late' \in SUBSET (0..Len(log.sent))
  BY <1>1, <1>3, BookedGood, RestartKeeps, AbortsType DEF Good
<1>5. /\ RunsOf(srv, log') = RunsOf(srv, log)
         /\ Waits(late', c'.post, log') = Waits(late', c'.post, log)
      /\ Answered0(srv, log') = Answered0(srv, log)
  BY <1>3 DEF RunsOf, Waits, Answered0
<1>6. /\ Waits(late', c'.post, log) = Waits(late, c.post, log)
      /\ \A n \in late' : n # 0 => n \notin RunsOf(srv, log)
  <2>1. c.post \in Posts /\ c'.post \in Posts /\ c'.post = NoPost
        /\ WaitingOK(c.post, c.active, srv, late, log)
    BY <1>2, BookedGood DEF Store, Reopened, Accounts
  <2>2. NoPost.send = 0 /\ (c.post.send # 0 \/ c.post = NoPost \/ c.post.run # 0)
    BY <2>1, BookedGood DEF Posts, NoPost
  <2>3. late' \cup {0} =
           late \cup {0} \cup IF c.post.run = 0 /\ c'.post # c.post THEN {c.post.send} ELSE {}
    <3>1. NoPost.send = 0
      BY DEF NoPost
    <3>2. c.post.run = 0 => (c'.post.send # c.post.send <=> c'.post # c.post)
      BY <2>1, <2>2, <3>1
    <3> QED BY <1>1, <3>2 DEF Aborts
  <2>4. Waits(late', c'.post, log) = Waits(late, c.post, log)
    BY <2>1, <2>3, BookedGood, WaitsStay
  <2>5. ASSUME NEW n \in late', n # 0
        PROVE  n \notin RunsOf(srv, log)
    <3>1. n \in late \/ (c.post.run = 0 /\ n = c.post.send)
      BY <2>3, <2>5
    <3> QED BY <2>1, <2>5, <3>1 DEF WaitingOK
  <2> QED BY <2>4, <2>5
<1>7. ~log'.forgotten => Settles(c, c')
  <2> SUFFICES ASSUME ~log'.forgotten PROVE Settles(c, c')
    OBVIOUS
  <2>1. disk.drafts = c.drafts /\ disk.new = c.new /\ disk.subs = c.subs
    BY <1>3 DEF Inputs
  <2> QED BY <1>2, <2>1, Zenon DEF Settles, Reopened, Follows
<1>8. BooksOK(c', Taken(srv, late', c'.post, log'), log')
  <2> SUFFICES ASSUME ~log'.forgotten PROVE BooksOK(c', Taken(srv, late', c'.post, log'), log')
    BY SMTT(30) DEF BooksOK
  <2> DEFINE M == Taken(srv, late, c.post, log)
  <2>1. Taken(srv, late', c'.post, log') = M /\ M \in SUBSET (1..Len(log.sent))
    BY <1>5, <1>6 DEF Taken, RunsOf, Waits
  <2>2. BooksOK(c, M, log) /\ SubsOK(c.subs, srv, log) /\ BoundOK(c.creation, srv, log)
    BY BookedGood DEF Accounts
  <2> HIDE DEF M
  <2>3. BooksOK(c', M, log)
    BY <1>2, <1>7, <2>1, <2>2, BookedGood, SettledBooks
  <2>4. \A n, m : AgainIn(log', n, m) = AgainIn(log, n, m)
    BY <1>3 DEF AgainIn
  <2>5. BooksOK(c', M, log')
    BY <1>3, <2>3, <2>4 DEF BooksOK, ThreadBooks, Apart
  <2> QED BY <2>1, <2>5
<1>9. KeptOK(c', srv, log')
  <2> SUFFICES ASSUME ~log'.forgotten PROVE log'.mine \subseteq Held(c') \cup Answered0(srv, log')
    BY DEF KeptOK
  <2>1. Held(c') = Held(c)
    BY <1>2, <1>3 DEF Held, Reopened, Inputs
  <2> QED BY <1>3, <1>5, <2>1, BookedGood DEF Accounts, KeptOK
<1>10. Accounts(c', srv, late', log')
  <2>1. \A t \in Threads : HistorySends(srv[t], t, log')
    BY <1>3, BookedGood DEF Accounts, HistorySends
  <2>2. DiskAccounts(disk, srv, log')
    BY <1>3 DEF Booked, AccountsInv, DiskAccounts, SubsOK, SubOK, Typed
  <2>3. Len(log'.sent) <= MaxSends /\ \A n \in 1..Len(log'.sent) : log'.sent[n].text \subseteq 1..log'.texts
    BY <1>3, BookedGood DEF Accounts, BoundOK, TypedOK
  <2> QED BY <1>2, <1>4, <1>5, <1>6, <1>8, <1>9, <2>1, <2>2, <2>3, BookedGood, OpenedAccounts, Zenon
<1>11. Later(srv, srv', log, log')
  <2>1. \A t \in Threads : Len(srv[t].runs) \in Nat
    BY BookedGood, HistoryTypes
  <2>2. Len(log.sent) \in Nat /\ log.texts \in Nat
    BY BookedGood DEF Logs
  <2> QED BY <1>1, <1>3, <2>1, <2>2 DEF Later
<1> QED BY <1>1, <1>10, <1>11 DEF AccountStep

-----------------------------------------------------------------------------
(* The accounts are kept by every step. *)

\* At the start nothing was typed or sent.
LEMMA InitAccounts ==
  ASSUME Init, ConversationInv
  PROVE  AccountsInv
<1>1. /\ late = {} /\ c = NoStore(disk)
      /\ disk = [drafts |-> [t \in Threads |-> NoDraft], new |-> NoDraft,
                 subs |-> [t \in Threads |-> NoSubmission]]
      /\ log = [events |-> 0, texts |-> 0, sent |-> <<>>, mine |-> {}, known |-> {},
                forgotten |-> FALSE]
  BY DEF Init
<1>2. /\ disk \in InputType /\ c \in Store /\ log \in Logs
      /\ log.sent = <<>> /\ log.texts = 0 /\ log.mine = {} /\ Len(log.sent) = 0
  BY <1>1 DEF ConversationInv, DiskOK
<1>3. Reopened(disk, c)
  BY <1>1, <1>2, NoStoreOpened
<1>4. ASSUME NEW t \in Threads
      PROVE  /\ srv[t].runs = <<[send |-> 0, over |-> TRUE]>> \/ srv[t].runs = <<>>
             /\ disk.drafts[t] = NoDraft /\ disk.subs[t] = NoSubmission /\ disk.new = NoDraft
  <2>1. PICK stamp \in [Threads -> 0..Cardinality(Threads)] :
          srv = [u \in Threads |-> IF stamp[u] # 0
                   THEN [stamp |-> stamp[u], runs |-> <<[send |-> 0, over |-> TRUE]>>, msgs |-> <<1>>]
                   ELSE [stamp |-> 0, runs |-> <<>>, msgs |-> <<>>]]
    BY Zenon DEF Init
  <2>2. srv[t].runs = <<[send |-> 0, over |-> TRUE]>> \/ srv[t].runs = <<>>
    BY <2>1, Zenon
  <2> QED BY <1>1, <2>2
<1>5. \A t \in Threads : HistorySends(srv[t], t, log)
  <2> SUFFICES ASSUME NEW t \in Threads PROVE HistorySends(srv[t], t, log)
    OBVIOUS
  <2>1. CASE srv[t].runs = <<>>
    <3>1. 1..Len(srv[t].runs) = {}
      BY <2>1
    <3> QED BY <3>1 DEF HistorySends
  <2>2. CASE srv[t].runs = <<[send |-> 0, over |-> TRUE]>>
    <3>1. 1..Len(srv[t].runs) = {1} /\ srv[t].runs[1].send = 0
      BY <2>2
    <3> QED BY <3>1 DEF HistorySends
  <2> QED BY <1>4, <2>1, <2>2
<1>6. DiskAccounts(disk, srv, log)
  <2>1. ASSUME NEW t \in Threads
        PROVE  SubOK(disk.subs[t], t, srv, log)
    <3>1. Len(srv[t].runs) \in Nat
      BY <2>1, HistoryTypes DEF ConversationInv
    <3> QED BY <1>4, <2>1, <3>1 DEF SubOK, NoSubmission
  <2>2. NoDraft.text = {} /\ NoSubmission.text = {}
    BY DEF NoDraft, NoSubmission
  <2>3. disk.new = NoDraft
    BY <1>1
  <2>4. Typed(disk, log) /\ Unmade(disk, srv)
    BY <1>4, <2>2, <2>3 DEF Typed, Unmade
  <2> QED BY <2>1, <2>4 DEF DiskAccounts, SubsOK
<1>7. BooksOK(c, Taken(srv, late, c.post, log), log)
  <2>1. Taken(srv, late, c.post, log) = {}
    BY <1>2 DEF Taken, RunsOf, Waits
  <2>2. ASSUME NEW t \in Threads
        PROVE  ThreadBooks(t, c.subs[t], c.drafts[t], {}, log)
    <3>2. disk.subs[t].status = "none"
      BY <1>4, <2>2 DEF NoSubmission
    <3>3. c.subs[t] = disk.subs[t]
      BY <1>3, <2>2, <3>2, Zenon DEF Reopened
    <3>1. c.subs[t].status = "none"
      BY <3>2, <3>3
    <3> QED BY <3>1 DEF ThreadBooks, Unsettled
  <2> QED BY <2>1, <2>2 DEF BooksOK, Apart
<1>8. KeptOK(c, srv, log)
  BY <1>2 DEF KeptOK
<1>9. Accounts(c, srv, late, log)
  BY <1>1, <1>2, <1>3, <1>5, <1>6, <1>7, <1>8, OpenedAccounts, ConversationConstants
<1> QED BY <1>6, <1>9 DEF AccountsInv

\* Whatever happens.
LEMMA NextAccounts ==
  ASSUME Booked, Next
  PROVE  AccountStep
<1>1. CASE Answers
  BY <1>1, CalmLists, HistoryAnswered, PostServed, CreationServed, LateServed, BackendAccounts
     DEF Answers
<1>2. CASE Receives
  BY <1>2, CalmReceives, CalmLists, HistoryReceived, AcceptAccounts, ReceiveCreateAccounts
     DEF Receives
<1>3. CASE Fails
  BY <1>3, CalmFails, UnknownSend, RefusedSend, CreationFails, StorageAccounts DEF Fails
<1>4. CASE Asks
  BY <1>4, CalmTurns, CalmLists, TypeAccounts, SendAccounts, ConfirmAccounts, CreateAccounts,
     RestartAccounts DEF Asks
<1> QED BY <1>1, <1>2, <1>3, <1>4 DEF Next

\* What is saved was so at some time.
LEMMA SavedAccounts ==
  ASSUME Booked, AccountStep, Good(c', srv', late', log'),
         disk' = IF c'.saves THEN Inputs(c') ELSE disk
  PROVE  DiskAccounts(disk', srv', log')
<1>1. CASE c'.saves
  <2>1. disk'.drafts = c'.drafts /\ disk'.new = c'.new /\ disk'.subs = c'.subs
    BY <1>1 DEF Inputs
  <2> QED BY <2>1 DEF AccountStep, Accounts, TypedOK, DiskAccounts, Typed, Unmade
<1>2. CASE ~c'.saves
  <2>1. disk' = disk /\ disk \in InputType /\ DiskAccounts(disk, srv, log)
        /\ Later(srv, srv', log, log')
    BY <1>2, BookedGood DEF Booked, AccountsInv, AccountStep
  <2>2. ASSUME NEW t \in Threads
        PROVE  SubOK(disk.subs[t], t, srv', log')
    <3> DEFINE sub == disk.subs[t]
    <3>1. SubOK(sub, t, srv, log) /\ sub \in Submissions
      BY <2>1, <2>2 DEF DiskAccounts, SubsOK, InputType
    <3>2. /\ Len(srv[t].runs) \in Nat /\ Len(log.sent) \in Nat
          /\ Len(srv[t].runs) <= Len(srv'[t].runs) /\ Len(log.sent) <= Len(log'.sent)
      BY <2>1, <2>2, BookedGood, HistoryTypes DEF Later, Logs
    <3>3. Len(srv'[t].runs) \in Nat /\ Len(log'.sent) \in Nat
      BY <2>2, HistoryTypes DEF Good, Logs
    <3>4. sub.id # 0 => log'.sent[sub.id] = log.sent[sub.id]
      BY <2>1, <3>1, <3>2 DEF SubOK, Submissions, Later
    <3>5. sub.id \in Nat /\ sub.prev \in Nat /\ sub.run \in Nat
      BY <3>1 DEF Submissions
    <3>6. /\ (sub.status = "none" <=> sub.id = 0) /\ sub.prev <= Len(srv[t].runs)
          /\ sub.run <= Len(srv[t].runs) /\ (sub.status = "accepted" => sub.prev < sub.run)
          /\ sub.id # 0 => /\ sub.id <= Len(log.sent)
                           /\ log.sent[sub.id].thread = t /\ log.sent[sub.id].text = sub.text
      BY <3>1 DEF SubOK
    <3> HIDE DEF sub
    <3>7. SubOK(sub, t, srv', log')
      BY <3>2, <3>3, <3>4, <3>5, <3>6, SMTT(30) DEF SubOK
    <3> QED BY <3>7 DEF sub
  <2>3. SubsOK(disk.subs, srv', log')
    BY <2>2 DEF SubsOK
  <2>4. Typed(disk, log')
    <3>1. log.texts \in Nat /\ log'.texts \in Nat /\ log.texts <= log'.texts
      BY <2>1, BookedGood DEF Good, Logs, Later
    <3>2. 1..log.texts \subseteq 1..log'.texts
      BY <3>1
    <3> QED BY <2>1, <3>2 DEF DiskAccounts, Typed
  <2>5. Unmade(disk, srv')
    BY <2>1 DEF DiskAccounts, Unmade, Later
  <2> QED BY <2>1, <2>3, <2>4, <2>5 DEF DiskAccounts
<1> QED BY <1>1, <1>2

-----------------------------------------------------------------------------
(* The accounts hold always, and what they mean. *)

\* The accounts are kept by every step and by none.
LEMMA NextBooked == Booked /\ [Next]_vars => Booked'
<1> SUFFICES ASSUME Booked, [Next]_vars PROVE Booked'
  OBVIOUS
<1>1. ConversationInv'
  BY NextInv DEF Booked
<1>2. CASE Next
  <2>1. AccountStep
    BY <1>2, NextAccounts
  <2>2. Good(c', srv', late', log')
    BY <1>2, NextStep DEF Booked
  <2>3. disk' = IF c'.saves THEN Inputs(c') ELSE disk
    BY <1>2 DEF Next
  <2>4. DiskAccounts(disk', srv', log')
    BY <2>1, <2>2, <2>3, SavedAccounts
  <2> QED BY <1>1, <2>1, <2>4 DEF Booked, AccountsInv, AccountStep
<1>3. CASE UNCHANGED vars
  BY <1>1, <1>3 DEF Booked, AccountsInv, vars
<1> QED BY <1>2, <1>3

LEMMA InitBooked == Init => Booked
BY InitInv, InitAccounts DEF Booked

\* The account of drafts, submissions and POSTs holds, for any finite set of conversations.
THEOREM Bookkeeping == Spec => []Booked
BY InitBooked, NextBooked, PTL DEF Spec

\* A conversation has no more Runs than messages were sent, but for the one from before.
LEMMA HistoryBound ==
  ASSUME NEW t \in Threads, BackendOK(srv), log \in Logs, HistorySends(srv[t], t, log),
         Len(log.sent) <= MaxSends
  PROVE  Len(srv[t].runs) \in Nat /\ Len(srv[t].runs) <= 1 + MaxSends
<1> DEFINE n == Len(srv[t].runs)
<1> DEFINE m == Len(log.sent)
<1> DEFINE f == [i \in 1..n |-> srv[t].runs[i].send]
<1>1. n \in Nat /\ m \in Nat /\ MaxSends \in Nat /\ m <= MaxSends
  BY HistoryTypes, ConversationConstants DEF Logs
<1>2. ASSUME NEW i \in 1..n PROVE srv[t].runs[i].send \in 0..m
  <2> DEFINE R == [send : Nat, over : BOOLEAN]
  <2> DEFINE runs == srv[t].runs
  <2>3. runs \in Seq(R) /\ i \in 1..Len(runs)
    BY <1>2, HistoryTypes
  <2>1. runs[i] \in R
    <3> HIDE DEF R, runs
    <3> QED BY <2>3
  <2>2. srv[t].runs[i].send # 0 => srv[t].runs[i].send <= m
    BY <1>2 DEF HistorySends
  <2> QED BY <1>1, <2>1, <2>2
<1>3. \A i, j \in 1..n : srv[t].runs[i].send = srv[t].runs[j].send => i = j
  BY DEF HistorySends
<1>4. f \in Injection(1..n, 0..m)
  <2> HIDE DEF m, n
  <2> QED BY <1>2, <1>3, Zenon DEF Injection, IsInjective
<1>5. IsFiniteSet(0..m) /\ Cardinality(0..m) = m + 1 /\ Cardinality(1..n) = n
  <2> HIDE DEF n, m
  <2>1. IsFiniteSet(0..m) /\ Cardinality(0..m) = m + 1
    <3>1. 0 \in Int /\ m \in Int /\ ~(0 > m) /\ m - 0 + 1 = m + 1
      BY <1>1
    <3> QED BY <3>1, FS_Interval
  <2>2. Cardinality(1..n) = n
    <3>1. 1 \in Int /\ n \in Int /\ n - 1 + 1 = n /\ (1 > n => n = 0)
      BY <1>1
    <3>2. Cardinality(1..n) = IF 1 > n THEN 0 ELSE n - 1 + 1
      BY <3>1, FS_Interval
    <3> QED BY <3>1, <3>2
  <2> QED BY <2>1, <2>2
<1>6. n <= m + 1
  <2> HIDE DEF n, m, f
  <2> QED BY <1>4, <1>5, FS_Injection
<1> QED BY <1>1, <1>6

\* The types, with what a submission and what is shown of a thread may be.
LEMMA BookedTypes == Booked => TypeOK
<1> SUFFICES ASSUME Booked PROVE TypeOK
  OBVIOUS
<1>1. /\ c \in Store /\ log \in Logs /\ BackendOK(srv) /\ ViewOK(c, srv) /\ UnderWay(c)
      /\ late \subseteq 0..Len(log.sent) /\ PendingOK(c) /\ SubsOK(c.subs, srv, log)
      /\ Len(log.sent) <= MaxSends /\ \A t \in Threads : HistorySends(srv[t], t, log)
  BY BookedGood DEF Fine, Accounts, BoundOK
<1>2. Len(log.sent) \in Nat /\ MaxSends \in Nat
  BY <1>1, ConversationConstants DEF Logs
<1>3. late \subseteq 0..MaxSends
  BY <1>1, <1>2
<1>4. /\ c.active \in Threads \cup {New} /\ c.drafts \in [Threads -> DraftType]
      /\ c.new \in DraftType /\ c.follow \in {"none", "get", "post"}
      /\ c.creation.phase \in {"none", "sent", "made", "listing"}
      /\ c.subs \in [Threads -> Submissions] /\ c.list \in Requests /\ c.more \in Requests
  BY <1>1 DEF Store, Creations
<1>5. RequestType(c.list) /\ RequestType(c.more)
  BY <1>4 DEF Requests, RequestType
<1>6. ASSUME NEW t \in Threads
      PROVE  Len(srv[t].runs) \in Nat /\ Len(srv[t].runs) <= 1 + MaxSends
  BY <1>1, <1>2, <1>6, HistoryBound
<1>7. ASSUME NEW t \in Threads PROVE c.subs[t] \in SubmissionType
  <2> DEFINE sub == c.subs[t]
  <2>1. sub \in Submissions /\ SubOK(sub, t, srv, log)
    BY <1>1, <1>4, <1>7 DEF SubsOK
  <2> HIDE DEF sub
  <2>2. /\ sub.id \in Nat /\ sub.prev \in Nat /\ sub.run \in Nat
        /\ (sub.id # 0 => sub.id <= Len(log.sent))
        /\ sub.prev <= Len(srv[t].runs) /\ sub.run <= Len(srv[t].runs)
    BY <2>1 DEF Submissions, SubOK
  <2>3. sub.id \in 0..MaxSends /\ sub.prev \in RunIds /\ sub.run \in RunIds
    BY <1>1, <1>2, <1>6, <1>7, <2>2 DEF RunIds
  <2>4. sub \in SubmissionType
    BY <2>1, <2>3 DEF Submissions, SubmissionType
  <2> QED BY <2>4 DEF sub
<1>8. c.subs \in [Threads -> SubmissionType]
  BY <1>4, <1>7
<1>9. c.meta => c.follow # "none"
  BY <1>1 DEF UnderWay
<1>10. ASSUME NEW t \in Threads
       PROVE  /\ c.view[t].run <= Last(t)
              /\ (c.view[t].history = "ready" => c.view[t].run = c.proj[t].run)
              /\ (c.subs[t].status = "pending" => t = c.active /\ Sending(c) /\ c.post.send = c.subs[t].id)
              /\ (c.view[t].verified => t = c.active /\ c.up)
  <2>1. ThreadOK(c.view[t], c.proj[t], srv[t]) /\ (c.view[t].verified => t = c.active /\ c.up)
    BY <1>1, <1>10 DEF ViewOK
  <2>2. /\ c.view[t].run \in Nat /\ c.proj[t].run \in Nat
    BY <1>1, <1>10 DEF Store, Views, Projections
  <2>3. /\ c.view[t].run <= c.proj[t].run /\ c.proj[t].run <= Len(srv[t].runs)
        /\ (c.view[t].history = "ready" => c.view[t].run = c.proj[t].run)
    BY <2>1 DEF ThreadOK, KnownOK
  <2> QED BY <1>1, <1>6, <1>10, <2>1, <2>2, <2>3 DEF PendingOK, Last
<1> QED BY <1>3, <1>4, <1>5, <1>8, <1>9, <1>10 DEF TypeOK

\* The messages that became a Run are those that the properties speak of.
LEMMA RanIsRuns ==
  ASSUME log \in Logs, NEW n \in DOMAIN log.sent
  PROVE  /\ n \in 1..Len(log.sent) /\ n \in Nat /\ log.sent[n] \in Sent
         /\ (Ran(n) => n \in RunsOf(srv, log) /\ n \in Taken(srv, late, c.post, log))
         /\ (n \in RunsOf(srv, log) => Ran(n))
<1>1. log.sent \in Seq(Sent) /\ Len(log.sent) \in Nat
  BY DEF Logs
<1>2. n \in 1..Len(log.sent) /\ n \in Nat /\ log.sent[n] \in Sent
  BY <1>1
<1> QED BY <1>2 DEF Ran, RunsOf, Taken, Last

\* No history that openSelected reads is without the accepted message.
LEMMA BookedLooks == Booked => NeverLooksUp
<1> DEFINE t == c.active
<1> DEFINE q == MergeHistory(c.proj[t], t, c.read.ans)
<1> SUFFICES ASSUME Booked, c.read.phase = "answer" PROVE ~MustLookUp(HistoryRead, t)
  BY DEF NeverLooksUp
<1>1. /\ c \in Store /\ log \in Logs /\ BackendOK(srv) /\ ViewOK(c, srv) /\ UnderWay(c)
      /\ AcceptedOK(c, srv) /\ SubsOK(c.subs, srv, log)
  BY BookedGood DEF Fine, Accounts
<1>2. t \in Threads
  BY <1>1 DEF UnderWay, Store
<1>3. /\ c.proj[t] \in Projections /\ c.view[t] \in Views /\ c.subs[t] \in Submissions
      /\ c.read.ans \in Histories /\ ThreadOK(c.view[t], c.proj[t], srv[t])
      /\ AnswerOK(c.read.ans, c.proj[t], srv[t]) /\ SubOK(c.subs[t], t, srv, log)
  BY <1>1, <1>2 DEF Store, Reads, ViewOK, SubsOK
<1> HIDE DEF t
<1>4. /\ q \in Projections /\ q.run >= c.proj[t].run
      /\ (c.read.ans.n > 0 /\ c.proj[t].run = 0 => q.run = srv[t].msgs[c.read.ans.n])
  BY <1>1, <1>2, <1>3, MergeHistoryKeeps DEF ThreadOK
<1> HIDE DEF q
<1>5. HistoryRead.subs = c.subs /\ HistoryRead.proj[t] = q
  <2>1. HistoryRead = [c EXCEPT !.proj[t] = q, !.read = NoRead]
    BY DEF HistoryRead, q, t
  <2> QED BY <1>1, <1>2, <2>1 DEF Store
<1>6. ASSUME c.subs[t].status = "accepted" PROVE q.run > c.subs[t].prev /\ c.subs[t].prev \in Nat
  <2>1. /\ c.subs[t].prev \in Nat /\ c.subs[t].run \in Nat /\ c.view[t].run \in Nat
        /\ c.proj[t].run \in Nat /\ q.run \in Nat
    BY <1>3, <1>4 DEF Submissions, Views, Projections
  <2>2. c.subs[t].prev < c.subs[t].run
    BY <1>3, <1>6 DEF SubOK
  <2>3. c.view[t].run <= c.proj[t].run
    BY <1>3 DEF ThreadOK
  <2>4. CASE Dark(c, t)
    <3>1. c.read.ans.n > 0 /\ srv[t].msgs[c.read.ans.n] >= c.subs[t].run
      BY <1>1, <1>2, <1>6 DEF AcceptedOK, t
    <3>2. q.run >= c.subs[t].run
      BY <1>4, <2>4, <3>1 DEF Dark
    <3> QED BY <2>1, <2>2, <3>2
  <2>5. CASE ~Dark(c, t)
    <3>1. c.view[t].run >= c.subs[t].run
      BY <1>1, <1>2, <1>6, <2>5 DEF AcceptedOK
    <3> QED BY <1>4, <2>1, <2>2, <2>3, <3>1
  <2> QED BY <2>4, <2>5
<1>7. q.run \in Nat
  BY <1>4 DEF Projections
<1>8. c.subs[t].status # "accepted" \/ q.run \notin {0, c.subs[t].prev}
  BY <1>6, <1>7
<1> QED BY <1>5, <1>8 DEF MustLookUp

\* What the accounts say of sends.
LEMMA BookedSends == Booked => SendsAreAccountedFor
<1> SUFFICES ASSUME Booked, ~log.forgotten
             PROVE  /\ \A n \in DOMAIN log.sent :
                         Ran(n) => \/ c.subs[log.sent[n].thread].id >= n
                                   \/ n \in log.known \/ SentAgain(n, Len(log.sent))
                    /\ \A n, m \in DOMAIN log.sent :
                         n < m /\ log.sent[n].thread = log.sent[m].thread /\ Ran(n)
                           => log.sent[n].text \cap log.sent[m].text = {} \/ SentAgain(n, m)
                    /\ \A t \in Threads :
                         c.view[t].history = "ready" /\ c.subs[t].status = "accepted"
                           => c.view[t].run >= c.subs[t].run
                    /\ NeverLooksUp
  BY DEF SendsAreAccountedFor
<1> DEFINE M == Taken(srv, late, c.post, log)
<1>1. log \in Logs /\ BooksOK(c, M, log) /\ AcceptedOK(c, srv)
  BY BookedGood DEF Accounts
<1> HIDE DEF M
<1>2. Apart(M, log) /\ \A t \in Threads : ThreadBooks(t, c.subs[t], c.drafts[t], M, log)
  BY <1>1 DEF BooksOK
<1>3. ASSUME NEW n \in DOMAIN log.sent, Ran(n)
      PROVE  \/ c.subs[log.sent[n].thread].id >= n
             \/ n \in log.known \/ SentAgain(n, Len(log.sent))
  <2> DEFINE t == log.sent[n].thread
  <2>1. n \in M /\ n \in Nat /\ t \in Threads
    BY <1>1, <1>3, RanIsRuns DEF M, Sent
  <2>2. c.subs[t].id = n \/ n \in log.known \/ AgainIn(log, n, Len(log.sent))
    BY <1>2, <2>1 DEF ThreadBooks
  <2>3. AgainIn(log, n, Len(log.sent)) => SentAgain(n, Len(log.sent))
    BY DEF AgainIn, SentAgain
  <2> QED BY <2>1, <2>2, <2>3
<1>4. ASSUME NEW n \in DOMAIN log.sent, NEW m \in DOMAIN log.sent, Ran(n),
             n < m, log.sent[n].thread = log.sent[m].thread
      PROVE  log.sent[n].text \cap log.sent[m].text = {} \/ SentAgain(n, m)
  <2>1. n \in M /\ n \in Nat /\ m \in 1..Len(log.sent) /\ Len(log.sent) \in Nat
    BY <1>1, <1>4, RanIsRuns DEF M, Logs
  <2>2. m \in n+1..Len(log.sent)
    BY <1>4, <2>1
  <2>3. log.sent[n].text \cap log.sent[m].text = {} \/ AgainIn(log, n, m)
    BY <1>2, <1>4, <2>1, <2>2 DEF Apart
  <2>4. AgainIn(log, n, m) => SentAgain(n, m)
    BY DEF AgainIn, SentAgain
  <2> QED BY <2>3, <2>4
<1>5. ASSUME NEW t \in Threads, c.view[t].history = "ready", c.subs[t].status = "accepted"
      PROVE  c.view[t].run >= c.subs[t].run
  BY <1>1, <1>5 DEF AcceptedOK, Dark
<1> QED BY <1>3, <1>4, <1>5, BookedLooks

\* What the accounts say of texts.
LEMMA BookedTexts == Booked => TextIsKept
<1> DEFINE Here == UNION {c.drafts[t].text \cup c.subs[t].text : t \in Threads}
<1> DEFINE There == UNION {log.sent[n].text : n \in {k \in DOMAIN log.sent : Ran(k)}}
<1> SUFFICES ASSUME Booked, ~log.forgotten, NEW x \in log.mine
             PROVE  x \in c.new.text \cup c.creation.text \cup Here \cup There
  BY DEF TextIsKept
<1>1. log \in Logs /\ x \in Held(c) \cup Answered0(srv, log)
  BY BookedGood DEF Accounts, KeptOK
<1>2. ASSUME NEW t \in Threads, x \in c.drafts[t].text PROVE x \in Here
  BY <1>2
<1>3. ASSUME NEW n \in DOMAIN log.sent, Ran(n), x \in log.sent[n].text PROVE x \in There
  BY <1>3
<1> HIDE DEF Here, There
<1>4. CASE x \in Held(c)
  BY <1>2, <1>4 DEF Held
<1>5. CASE x \in Answered0(srv, log)
  <2>1. PICK n \in RunsOf(srv, log) : x \in log.sent[n].text
    BY <1>5 DEF Answered0
  <2>2. n \in DOMAIN log.sent
    BY <1>1 DEF RunsOf, Logs
  <2>3. Ran(n)
    BY <1>1, <2>2, RanIsRuns
  <2> QED BY <1>3, <2>1, <2>2, <2>3
<1> QED BY <1>1, <1>4, <1>5

-----------------------------------------------------------------------------
(* The theorems. *)

\* What the window shows of a conversation never goes back: neither the chosen one's Run and
\* end, nor another's item in the list, unless the page is loaded again. This is about what
\* conversation-state.ts applies late: answers of reads that were asked for before something
\* newer was known, the list, the snapshot and the messages of a stream.
THEOREM Forwards == Spec => NothingGoesBack
<1>1. ConversationInv /\ [Next]_vars =>
        [\/ \A t \in Threads :
              /\ Forward(c.view[t], c'.view[t])
              /\ t # c'.active => Forward(c.items[t], c'.items[t])
         \/ c' = NoStore(disk)]_vars
  BY NextStep DEF Onward
<1> QED BY <1>1, Invariance, PTL DEF Spec, NothingGoesBack

\* The types of the store. This is about what conversation-state.ts keeps of drafts,
\* submissions and requests: a submission is pending only while its POST is out and not
\* accepted, and what is shown of a thread is what its projection says.
THEOREM TypeCorrectness == Spec => []TypeOK
BY Bookkeeping, BookedTypes, PTL

\* A message that became a Run is never sent again but at the user's explicit wish, and he
\* knows of it or is still asked to look. This is about the submissions of MessageDrafts,
\* whose POST may be lost, refused, answered late or handled after the window was opened again.
THEOREM NothingIsSentTwice == Spec => []SendsAreAccountedFor
BY Bookkeeping, BookedSends, PTL

\* What the user typed and did not replace himself is in a draft, in a submission, in the
\* conversation being created or in a Run. This is about MessageDrafts and the handlers of
\* ConversationStore that clear, move, copy and restore drafts.
THEOREM TextsAreKept == Spec => []TextIsKept
BY Bookkeeping, BookedTexts, PTL

=============================================================================
