---------------------------- MODULE RunView_proofs ----------------------------
(***************************************************************************)
(* What the window knows of one Run, whatever the bounds: what it learned  *)
(* is not taken back, nothing is repeated blindly, and at rest it agrees   *)
(* with the backend.                                                       *)
(***************************************************************************)
EXTENDS RunView, SequenceTheorems, TLAPS

-----------------------------------------------------------------------------
(* Types.  As arguments "s" stands for the store, "v" for the backend's Run, *)
(* "w" for the wire, "l" for the late POSTs, "k" for known, "g" for          *)
(* forgotten.                                                                *)

Pauses == Nat \cup {-1}
Runs == [status : Statuses, pending : Pendings, useAt : Nat]
Attempts == [kind : {"none", "get", "post"}, meta : BOOLEAN, pause : Pauses]
Apprs == [pause : Pauses, verified : BOOLEAN]
Backups == [pause : Pauses, status : {"none", "pending", "unknown", "accepted"}]
Writes == [kind : {"none", "cancel", "approval"}, phase : {"none", "pending", "unknown"},
           verified : BOOLEAN, verifying : BOOLEAN]
Posts == [kind : {"none", "cancel"}, at : {"none", "server", "answer"}, stale : SUBSET Versions,
          ans : {"none", "yes", "no"}]
Answers == [status : Statuses \cup {"none"}, pending : {"none", "yes", "no"}, at : Nat]
Reads == [phase : {"none", "wait", "sent", "answer"}, auto : BOOLEAN, started : BOOLEAN,
          again : BOOLEAN, second : BOOLEAN, charge : BOOLEAN, exec : Nat, tries : Nat,
          stale : SUBSET Versions, same : BOOLEAN, fresh : BOOLEAN, ans : Answers]
Rounds == [requests : Nat, pause : {"none", "limit", "error"}]
Observations == {"paused", "connecting", "open", "wait", "closed", "failed"}
Writings == {"none", "post", "verify"}
Stores == [run : Runs, exec : Nat, verified : BOOLEAN, obs : Observations, attempt : Attempts,
           tries : Nat, recovering : BOOLEAN, appr : Apprs, draft : Pauses, accepted : Pauses,
           decided : Pauses, backup : Backups, write : Writes, writing : Writings, post : Posts,
           read : Reads, round : Rounds, problem : BOOLEAN]
Servers == [status : Statuses, stage : Stages, settled : BOOLEAN]
Told == [kind : {"meta", "usage"}, status : Statuses, pending : {"none", "yes", "no"}, at : Nat]
Asked == [kind : {"required", "resolved"}, at : Nat]
Frames == Told \cup Asked \cup {End}
Lates == [kind : {"cancel", "approval"}, at : Stages]

-----------------------------------------------------------------------------
(* The invariant. *)

Over(s) == s.run.status = "done"

\* A pause the Run has reached, and one that it is in.
Past(v, j) == j < v.stage \/ (j = v.stage /\ v.status # "running")
Paused(v, j) == v.status = "interrupted" /\ v.stage = j

\* The decision of a pause is late; none of a later pause is.
LateAt(l, j) == [kind |-> "approval", at |-> j] \in l
Latest(l, j) == \A i \in Stages : LateAt(l, i) => i <= j

\* A cancel, or any write, of unknown outcome stands between the window and certainty.
CancelDoubt(s, g) == g \/ s.write.kind = "cancel"
Doubt(s, g) == g \/ s.write.kind # "none"
Backed(s, j) == s.backup.pause = j /\ s.backup.status \in {"pending", "unknown"}

\* The decision of a pause is out, and nothing was heard of it.
Unaccepted(s) == s.write.kind = "approval" /\ s.write.phase = "pending"
Deciding(s) == s.attempt.kind = "post" /\ ~s.attempt.meta /\ Unaccepted(s)

TypesOK(s, v, w, l, k, g) ==
  /\ s \in Stores /\ v \in Servers /\ w \in Seq(Frames) /\ l \in SUBSET Lates
  /\ k \in BOOLEAN /\ g \in BOOLEAN

\* Whoever says that the Run is over is right.
TruthOK(s, v) ==
  /\ Over(s) => v.status = "done"
  /\ s.read.ans.status = "done" => v.status = "done"
  /\ s.read.phase = "answer" => s.read.ans.status # "none"
  /\ s.post.at = "answer" => v.status = "done"

\* An answer whose versions have not moved is not older than the usage on show.
UsageOK(s, v) ==
  /\ s.run.useAt <= v.stage /\ s.read.ans.at <= v.stage
  /\ s.read.phase = "answer" /\ ~StaleUsage(s.read.stale) => s.run.useAt <= s.read.ans.at

\* How a write, its POST, its backup and the GET that verifies it belong together.
ReadFine(s) ==
  /\ s.read.same => s.read.fresh
  /\ s.problem => s.read.phase = "none"
WriteOK(s, k) ==
  /\ s.write.phase = "unknown" /\ s.write.verified => k
  /\ s.write.phase = "pending" => ~s.write.verified
  /\ s.write.kind = "none" <=> s.write.phase = "none"
  /\ s.write.kind = "none" => s.write = NoWrite
  /\ s.post.kind = "cancel" <=> (s.write.kind = "cancel" /\ s.write.phase = "pending")
  /\ s.post.kind = "none" => s.post = NoPost
  /\ s.write.kind = "approval" => s.backup.pause = s.decided /\ s.backup.status # "none"
  /\ Unaccepted(s) => s.attempt.kind = "post"

\* While a decision is out nothing else is.
DecidingOK(s, v, l) ==
  /\ s.attempt.kind = "post" /\ s.obs = "connecting" => Deciding(s)
  /\ Deciding(s) =>
       /\ s.run.status = "interrupted" /\ s.read.phase = "none" /\ ~s.verified
       /\ ~s.appr.verified /\ s.attempt.pause = -1 /\ s.post.kind = "none"
       /\ s.backup.status = "pending" /\ s.decided # -1
       /\ Past(v, s.decided) /\ Latest(l, s.decided)
       /\ s.obs = "open" => s.decided < v.stage

\* A read or a failure will tell what the end of a stream left open.
Asking(s) == s.problem \/ (s.read.phase # "none" /\ ~s.read.auto)
ObsOK(s, w) ==
  /\ s.attempt.kind # "none" <=> s.obs \in {"connecting", "open"}
  /\ s.obs # "open" => w = <<>>
  /\ s.obs = "connecting" => ~s.attempt.meta /\ s.attempt.pause = -1
  /\ s.obs = "open" /\ ~s.attempt.meta => w # <<>> /\ Head(w).kind = "meta"
  /\ s.obs = "open" /\ s.attempt.meta => s.verified \/ s.write.kind = "cancel"
  /\ s.obs = "closed" /\ ~s.verified => s.write.kind = "cancel" \/ Asking(s)

\* Frames tell what was so.  A request for approval is of the pause the Run is in, or its
\* decision may be on its way (then the backup knows of it), or a cancel is in doubt.
FrameOK(f, s, v, l, g) ==
  /\ f.kind # "eof" => f.at <= v.stage
  /\ f.kind \in {"meta", "usage"} /\ f.status = "done" => v.status = "done"
  /\ f.kind = "resolved" => f.at < v.stage
  /\ f.kind = "required" =>
       /\ Past(v, f.at) /\ Latest(l, f.at) /\ (Unaccepted(s) => f.at # s.decided)
       /\ Over(s) \/ CancelDoubt(s, g) \/ Paused(v, f.at) \/ (f.at < v.stage /\ Backed(s, f.at))
WireOK(s, v, w, l, g) ==
  /\ \A i \in 1..Len(w) : FrameOK(w[i], s, v, l, g)
  /\ \A i \in 1..Len(w) : w[i].kind = "eof" => i = Len(w)
  /\ \A i, j \in 1..Len(w) : i < j /\ w[i].kind = "required"
     => w[j].kind \in {"meta", "usage", "eof"}
  /\ \A i, j \in 1..Len(w) :
       i < j /\ w[i].kind = "resolved" /\ w[j].kind = "required" => w[i].at < w[j].at

\* A stream ends, and only ends, with what ended the execution.
HasEnd(w) == \E i \in 1..Len(w) : w[i].kind = "eof"
HasOutcome(w) ==
  \E i \in 1..Len(w) : w[i].kind = "required" \/ (w[i].kind = "meta" /\ w[i].status = "done")
StreamOK(s, v, w, l, g) ==
  /\ s.obs = "open" /\ ~HasEnd(w) =>
       /\ v.status = "running" /\ s.attempt.pause = -1
       /\ \A i \in 1..Len(w) : w[i].kind # "required"
  /\ s.obs = "open" /\ HasEnd(w) => Over(s) \/ s.attempt.pause # -1 \/ HasOutcome(w)
  /\ s.attempt.pause # -1 =>
       /\ Past(v, s.attempt.pause) /\ Latest(l, s.attempt.pause)
       /\ \A i \in 1..Len(w) : w[i].kind \in {"meta", "usage", "eof"}
       /\ Over(s) \/ Doubt(s, g) \/ (Paused(v, s.attempt.pause) /\ ~LateAt(l, s.attempt.pause))

\* What is late is known to be in doubt: a cancel as a write, a decision in its backup.
LateOK(s, v, l, g) ==
  /\ \A p \in l : p.kind = "cancel" => Over(s) \/ CancelDoubt(s, g)
  /\ \A j \in Stages : LateAt(l, j) => Past(v, j) /\ (Paused(v, j) => Backed(s, j))
  /\ s.appr.verified => s.appr.pause # -1 /\ Past(v, s.appr.pause) /\ Latest(l, s.appr.pause)

\* Where no stream is followed the Run is over, in the pause that was heard of, or in doubt.
ClosedOK(s, v, l, g) ==
  s.obs = "closed" => \/ Over(s) \/ Doubt(s, g)
                      \/ Paused(v, s.appr.pause) /\ ~LateAt(l, s.appr.pause)

Fair(s, v, w, l, k, g) ==
  /\ TypesOK(s, v, w, l, k, g) /\ TruthOK(s, v) /\ UsageOK(s, v) /\ ReadFine(s) /\ WriteOK(s, k)
  /\ DecidingOK(s, v, l) /\ ObsOK(s, w) /\ WireOK(s, v, w, l, g) /\ StreamOK(s, v, w, l, g)
  /\ LateOK(s, v, l, g) /\ ClosedOK(s, v, l, g)

\* Between two handlers the Run is observed, or was to its end, and the first frame of the
\* stream of a decision has accepted it.
Settled(s) ==
  /\ s.obs # "paused"
  /\ s.attempt.kind = "post" /\ s.attempt.meta => ~Unaccepted(s)
Good(s, v, w, l, k, g) == Fair(s, v, w, l, k, g) /\ Settled(s)
RunViewInv == Good(c, srv, wire, late, known, forgotten)

\* What the step properties say of the store before a step and after it.
Onward(s, r) ==
  /\ Over(s) => Over(r)
  /\ r.run.pending = "null" \/ r.run.useAt >= s.run.useAt
NoNewPost(s, r) == r.write.phase = "pending" => s.write.phase = "pending"

-----------------------------------------------------------------------------
(* Types of the fields. *)

\* What a store consists of.
LEMMA Fields ==
  ASSUME NEW s \in Stores
  PROVE  /\ s.run \in Runs /\ s.exec \in Nat /\ s.verified \in BOOLEAN /\ s.obs \in Observations
         /\ s.attempt \in Attempts /\ s.tries \in Nat /\ s.recovering \in BOOLEAN
         /\ s.appr \in Apprs /\ s.draft \in Pauses /\ s.accepted \in Pauses /\ s.decided \in Pauses
         /\ s.backup \in Backups /\ s.write \in Writes /\ s.writing \in Writings
         /\ s.post \in Posts /\ s.read \in Reads /\ s.round \in Rounds /\ s.problem \in BOOLEAN
BY DEF Stores

\* The types of its parts.
LEMMA Parts ==
  ASSUME NEW s \in Stores
  PROVE  /\ s.run.status \in Statuses /\ s.run.pending \in Pendings /\ s.run.useAt \in Nat
         /\ s.attempt.kind \in {"none", "get", "post"} /\ s.attempt.meta \in BOOLEAN
         /\ s.attempt.pause \in Pauses /\ s.appr.pause \in Pauses /\ s.appr.verified \in BOOLEAN
         /\ s.backup.pause \in Pauses /\ s.backup.status \in {"none", "pending", "unknown", "accepted"}
         /\ s.write.kind \in {"none", "cancel", "approval"}
         /\ s.write.phase \in {"none", "pending", "unknown"}
         /\ s.write.verified \in BOOLEAN /\ s.write.verifying \in BOOLEAN
         /\ s.post.kind \in {"none", "cancel"} /\ s.post.at \in {"none", "server", "answer"}
         /\ s.post.stale \in SUBSET Versions /\ s.post.ans \in {"none", "yes", "no"}
         /\ s.read.phase \in {"none", "wait", "sent", "answer"} /\ s.read.auto \in BOOLEAN
         /\ s.read.started \in BOOLEAN /\ s.read.again \in BOOLEAN /\ s.read.second \in BOOLEAN
         /\ s.read.charge \in BOOLEAN /\ s.read.exec \in Nat /\ s.read.tries \in Nat
         /\ s.read.stale \in SUBSET Versions /\ s.read.same \in BOOLEAN /\ s.read.fresh \in BOOLEAN
         /\ s.read.ans \in Answers
         /\ s.read.ans.status \in Statuses \cup {"none"}
            /\ s.read.ans.pending \in {"none", "yes", "no"}
         /\ s.read.ans.at \in Nat
<1>1. s.run \in Runs /\ s.attempt \in Attempts /\ s.appr \in Apprs /\ s.backup \in Backups
      /\ s.write \in Writes /\ s.post \in Posts /\ s.read \in Reads
  BY Fields
<1>2. s.run.status \in Statuses /\ s.run.pending \in Pendings /\ s.run.useAt \in Nat
  BY <1>1 DEF Runs
<1>3. /\ s.attempt.kind \in {"none", "get", "post"} /\ s.attempt.meta \in BOOLEAN
      /\ s.attempt.pause \in Pauses /\ s.appr.pause \in Pauses /\ s.appr.verified \in BOOLEAN
  BY <1>1 DEF Attempts, Apprs
<1>4. /\ s.backup.pause \in Pauses /\ s.backup.status \in {"none", "pending", "unknown", "accepted"}
      /\ s.write.kind \in {"none", "cancel", "approval"}
      /\ s.write.phase \in {"none", "pending", "unknown"}
      /\ s.write.verified \in BOOLEAN /\ s.write.verifying \in BOOLEAN
  BY <1>1 DEF Backups, Writes
<1>5. /\ s.post.kind \in {"none", "cancel"} /\ s.post.at \in {"none", "server", "answer"}
      /\ s.post.stale \in SUBSET Versions /\ s.post.ans \in {"none", "yes", "no"}
  BY <1>1 DEF Posts
<1>6. /\ s.read.phase \in {"none", "wait", "sent", "answer"} /\ s.read.auto \in BOOLEAN
      /\ s.read.started \in BOOLEAN /\ s.read.again \in BOOLEAN /\ s.read.second \in BOOLEAN
      /\ s.read.charge \in BOOLEAN /\ s.read.exec \in Nat /\ s.read.tries \in Nat
      /\ s.read.stale \in SUBSET Versions /\ s.read.same \in BOOLEAN /\ s.read.fresh \in BOOLEAN
      /\ s.read.ans \in Answers
  BY <1>1 DEF Reads
<1>7. /\ s.read.ans.status \in Statuses \cup {"none"}
         /\ s.read.ans.pending \in {"none", "yes", "no"}
      /\ s.read.ans.at \in Nat
  BY <1>6 DEF Answers
<1> QED BY <1>2, <1>3, <1>4, <1>5, <1>6, <1>7

\* Two stores that are equal but for what is known of the Run and the versions of requests.
SameButRun(s, r) ==
  /\ r.verified = s.verified /\ r.obs = s.obs /\ r.attempt = s.attempt /\ r.tries = s.tries
  /\ r.recovering = s.recovering /\ r.appr = s.appr /\ r.draft = s.draft
  /\ r.accepted = s.accepted /\ r.decided = s.decided /\ r.backup = s.backup
  /\ r.write = s.write /\ r.writing = s.writing /\ r.problem = s.problem
  /\ r.post.kind = s.post.kind /\ r.post.at = s.post.at /\ r.post.ans = s.post.ans
  /\ r.post.kind = "none" => r.post = s.post
  /\ r.read.phase = s.read.phase /\ r.read.auto = s.read.auto /\ r.read.ans = s.read.ans
  /\ r.read.same = s.read.same /\ r.read.fresh = s.read.fresh
  /\ r.read.started = s.read.started /\ r.read.again = s.read.again
  /\ r.read.stale = s.read.stale \/ s.read.phase \in {"sent", "answer"}

\* The versions that move are stale for what is out.
LEMMA MovedIs ==
  ASSUME NEW s \in Stores, NEW m \in SUBSET Versions, NEW r, r = Moved(s, m)
  PROVE  /\ r \in Stores /\ r.run = s.run /\ r.exec = s.exec /\ r.round = s.round
         /\ SameButRun(s, r) /\ s.read.stale \subseteq r.read.stale
         /\ s.read.phase \in {"sent", "answer"} => m \subseteq r.read.stale
<1> DEFINE old == IF s.read.phase \in {"sent", "answer"} THEN m ELSE {}
<1> DEFINE out == IF s.post.kind \in {"cancel"} THEN m ELSE {}
<1> DEFINE read == [s.read EXCEPT !.stale = @ \cup old]
<1> DEFINE post == [s.post EXCEPT !.stale = @ \cup out]
<1>1. r = [s EXCEPT !.read = read, !.post = post]
  BY DEF Moved
<1>2. s.read \in Reads /\ s.post \in Posts
  BY Fields
<1>3. read \in Reads
  BY <1>2 DEF Reads
<1>4. post \in Posts
  BY <1>2 DEF Posts
<1>5. /\ read.phase = s.read.phase /\ read.auto = s.read.auto /\ read.ans = s.read.ans
      /\ read.same = s.read.same /\ read.fresh = s.read.fresh
      /\ read.started = s.read.started /\ read.again = s.read.again
      /\ read.stale = s.read.stale \cup old
  BY <1>2 DEF Reads
<1>6. /\ post.kind = s.post.kind /\ post.at = s.post.at /\ post.ans = s.post.ans
      /\ s.post.kind = "none" => post = s.post
  BY <1>2 DEF Posts
<1>7. old = {} \/ s.read.phase \in {"sent", "answer"}
  OBVIOUS
<1>8. s.read.phase \in {"sent", "answer"} => old = m
  OBVIOUS
<1> HIDE DEF old, out, read, post
<1>9. r \in Stores
  BY <1>1, <1>3, <1>4 DEF Stores
<1>10. r.read = read /\ r.post = post
  BY <1>1 DEF Stores
<1>11. /\ r.verified = s.verified /\ r.obs = s.obs /\ r.attempt = s.attempt /\ r.tries = s.tries
       /\ r.recovering = s.recovering /\ r.appr = s.appr /\ r.draft = s.draft
       /\ r.accepted = s.accepted /\ r.decided = s.decided /\ r.backup = s.backup
       /\ r.write = s.write /\ r.writing = s.writing /\ r.problem = s.problem
       /\ r.run = s.run /\ r.exec = s.exec /\ r.round = s.round
  BY <1>1 DEF Stores
<1>12. SameButRun(s, r)
  BY <1>5, <1>6, <1>7, <1>10, <1>11 DEF SameButRun
<1> QED BY <1>5, <1>8, <1>9, <1>10, <1>11, <1>12

-----------------------------------------------------------------------------
(* What is told of the Run. *)

Partials == [status : Statuses, pending : {"none", "yes", "no"}, usage : BOOLEAN, useAt : Nat]

\* What may become of a store when something true is told of the Run.
RunTold(s, r, v) ==
  /\ r \in Stores /\ SameButRun(s, r)
  /\ Over(s) => Over(r)
  /\ Over(r) => v.status = "done"
  /\ r.run.useAt <= v.stage
  /\ StaleUsage(s.read.stale) => StaleUsage(r.read.stale)
  /\ r.run.useAt <= s.run.useAt \/ s.read.phase # "answer" \/ StaleUsage(r.read.stale)

\* A partial update of a store.
LEMMA MergedIs ==
  ASSUME NEW s \in Stores, NEW m \in Partials, NEW r, r = Merged(s, m)
  PROVE  /\ r \in Stores /\ SameButRun(s, r)
         /\ r.run.status = m.status
         /\ r.run.useAt \in {0, s.run.useAt, m.useAt}
         /\ r.run.pending = "null" \/ r.run.useAt = s.run.useAt
            \/ (m.pending # "none" /\ r.run.useAt = m.useAt)
         /\ StaleUsage(s.read.stale) => StaleUsage(r.read.stale)
         /\ r.run.useAt <= s.run.useAt \/ s.read.phase # "answer" \/ StaleUsage(r.read.stale)
         /\ m.pending = "none" /\ s.run.pending = "null" => r.run.pending = "null"
<1> DEFINE resumed == s.run.status = "interrupted" /\ m.status = "running"
<1> DEFINE changed == s.run.status # m.status
<1> DEFINE moved == (IF resumed THEN {"stage", "usage"} ELSE {})
                    \cup (IF changed THEN {"status"} ELSE {})
                    \cup (IF m.pending # "none" \/ m.usage THEN {"usage"} ELSE {})
<1> DEFINE pending == IF m.pending # "none" THEN m.pending
                      ELSE IF resumed THEN "null" ELSE s.run.pending
<1> DEFINE useAt == IF pending = "null" THEN 0 ELSE IF m.pending # "none" THEN m.useAt
                    ELSE s.run.useAt
<1> DEFINE run == [status |-> m.status, pending |-> pending, useAt |-> useAt]
<1> DEFINE exec == s.exec + (IF resumed THEN 1 ELSE 0)
<1> DEFINE round == IF resumed THEN NoRound ELSE s.round
<1> DEFINE t == [s EXCEPT !.run = run, !.exec = exec, !.round = round]
<1>1. r = Moved(t, moved)
  BY DEF Merged
<1>2. /\ s.run.status \in Statuses /\ s.run.pending \in Pendings /\ s.run.useAt \in Nat
      /\ s.exec \in Nat /\ s.round \in Rounds /\ s.read.stale \in SUBSET Versions
  BY Fields, Parts
<1>3. m.status \in Statuses /\ m.pending \in {"none", "yes", "no"} /\ m.useAt \in Nat
  BY DEF Partials
<1>4. run \in Runs
  BY <1>2, <1>3 DEF Runs, Pendings
<1>5. exec \in Nat /\ round \in Rounds
  BY <1>2 DEF Rounds, NoRound
<1>6. moved \in SUBSET Versions
  BY DEF Versions
<1>7. run.status = m.status /\ run.pending = pending /\ run.useAt = useAt
  OBVIOUS
<1>8. /\ useAt \in {0, s.run.useAt, m.useAt}
      /\ pending = "null" \/ useAt = s.run.useAt \/ (m.pending # "none" /\ useAt = m.useAt)
      /\ m.pending = "none" /\ s.run.pending = "null" => pending = "null"
      /\ useAt <= s.run.useAt \/ "usage" \in moved
  BY <1>2
<1> HIDE DEF moved, pending, useAt, run, exec, round
<1>9. t \in Stores
  BY <1>4, <1>5 DEF Stores
<1>10. t.run = run /\ SameButRun(s, t) /\ t.read = s.read
  BY <1>9 DEF Stores, SameButRun
<1> HIDE DEF t
<1>11. /\ r \in Stores /\ r.run = run /\ SameButRun(t, r) /\ s.read.stale \subseteq r.read.stale
       /\ s.read.phase \in {"sent", "answer"} => moved \subseteq r.read.stale
  BY <1>1, <1>6, <1>9, <1>10, MovedIs
<1>12. SameButRun(s, r)
  BY <1>10, <1>11 DEF SameButRun
<1>13. StaleUsage(s.read.stale) => StaleUsage(r.read.stale)
  BY <1>11 DEF StaleUsage
<1>14. "usage" \in moved => s.read.phase # "answer" \/ StaleUsage(r.read.stale)
  BY <1>11 DEF StaleUsage
<1> QED BY <1>7, <1>8, <1>11, <1>12, <1>13, <1>14

\* The same, of a Run that may be over.
LEMMA MetadataIs ==
  ASSUME NEW s \in Stores, NEW m \in Partials, NEW r, r = Metadata(s, m)
  PROVE  /\ r \in Stores /\ SameButRun(s, r)
         /\ Over(s) => Over(r)
         /\ r.run.status = m.status \/ (Over(s) /\ m.status # "done" /\ r = s)
         /\ r.run.useAt \in {0, s.run.useAt, m.useAt}
         /\ r.run.pending = "null" \/ r.run.useAt = s.run.useAt
            \/ (m.pending # "none" /\ r.run.useAt = m.useAt)
         /\ StaleUsage(s.read.stale) => StaleUsage(r.read.stale)
         /\ r.run.useAt <= s.run.useAt \/ s.read.phase # "answer" \/ StaleUsage(r.read.stale)
         /\ m.pending = "none" /\ s.run.pending = "null" => r.run.pending = "null"
<1>1. CASE s.run.status = "done" /\ m.status # "done"
  <2>1. r = s
    BY <1>1 DEF Metadata
  <2>2. s.run.useAt \in Nat /\ SameButRun(s, s)
    BY Parts DEF SameButRun
  <2> QED BY <1>1, <2>1, <2>2 DEF Over
<1>2. CASE ~(s.run.status = "done" /\ m.status # "done")
  <2>1. r = Merged(s, m)
    BY <1>2 DEF Metadata
  <2> QED BY <1>2, <2>1, MergedIs DEF Over
<1> QED BY <1>1, <1>2

\* What is true of the Run is told.
LEMMA MetadataTells ==
  ASSUME NEW s \in Stores, NEW v \in Servers, NEW m \in Partials, NEW r, r = Metadata(s, m),
         TruthOK(s, v), UsageOK(s, v), m.status = "done" => v.status = "done", m.useAt <= v.stage
  PROVE  RunTold(s, r, v)
<1>1. v.stage \in Nat
  BY RunViewConstants DEF Servers, Stages
<1>2. r.run.useAt <= v.stage
  <2>1. r.run.useAt \in {0, s.run.useAt, m.useAt}
    BY MetadataIs
  <2> QED BY <1>1, <2>1 DEF UsageOK
<1>3. Over(r) => v.status = "done"
  <2>1. r.run.status = m.status \/ r = s
    BY MetadataIs
  <2> QED BY <2>1 DEF TruthOK, Over
<1> QED BY <1>2, <1>3, MetadataIs DEF RunTold

\* A new observation forgets the usage.
LEMMA BeginIs ==
  ASSUME NEW s \in Stores, NEW r, r = BeginObservation(s)
  PROVE  /\ r \in Stores /\ SameButRun(s, r) /\ r.run.status = s.run.status
         /\ r.run.pending = "null" /\ r.run.useAt = 0
         /\ StaleUsage(s.read.stale) => StaleUsage(r.read.stale)
<1> DEFINE run == [s.run EXCEPT !.pending = "null", !.useAt = 0]
<1> DEFINE t == [s EXCEPT !.run = run]
<1>1. r = Moved(t, {"stage", "usage"})
  BY DEF BeginObservation
<1>2. s.run \in Runs
  BY Fields
<1>3. run \in Runs /\ run.status = s.run.status /\ run.pending = "null" /\ run.useAt = 0
  BY <1>2 DEF Runs, Pendings
<1> HIDE DEF run
<1>4. t \in Stores
  BY <1>3 DEF Stores
<1>5. t.run = run /\ SameButRun(s, t) /\ t.read = s.read
  BY <1>4 DEF Stores, SameButRun
<1> HIDE DEF t
<1>6. {"stage", "usage"} \in SUBSET Versions
  BY DEF Versions
<1>7. r \in Stores /\ r.run = run /\ SameButRun(t, r) /\ s.read.stale \subseteq r.read.stale
  BY <1>1, <1>4, <1>5, <1>6, MovedIs
<1>8. SameButRun(s, r)
  BY <1>5, <1>7 DEF SameButRun
<1> QED BY <1>3, <1>7, <1>8 DEF StaleUsage

\* So it is something true that is told.
LEMMA BeginTells ==
  ASSUME NEW s \in Stores, NEW v \in Servers, NEW r, r = BeginObservation(s), TruthOK(s, v)
  PROVE  RunTold(s, r, v)
<1>1. s.run.useAt \in Nat /\ v.stage \in Nat
  BY Parts, RunViewConstants DEF Servers, Stages
<1> QED BY <1>1, BeginIs DEF RunTold, TruthOK, Over

\* What is told of the Run disturbs nothing, unless a decision is out.
LEMMA ToldKeeps ==
  ASSUME NEW s, NEW v, NEW w, NEW l, NEW k, NEW g, Fair(s, v, w, l, k, g),
         NEW r, RunTold(s, r, v), Deciding(s) => r.run.status = s.run.status
  PROVE  Fair(r, v, w, l, k, g) /\ (Deciding(r) <=> Deciding(s))
<1> USE DEF RunTold, SameButRun
<1>0. s \in Stores /\ r \in Stores
  BY DEF Fair, TypesOK
<1>1. TypesOK(r, v, w, l, k, g)
  BY DEF Fair, TypesOK
<1>2. TruthOK(r, v)
  BY DEF Fair, TruthOK
<1>3. UsageOK(r, v)
  <2>1. s.run.useAt \in Nat /\ r.run.useAt \in Nat /\ r.read.ans.at \in Nat
    BY <1>0, Parts
  <2> QED BY <2>1 DEF Fair, UsageOK
<1>4. ReadFine(r) /\ WriteOK(r, k)
  BY DEF Fair, ReadFine, WriteOK, Unaccepted
<1>5. Deciding(r) <=> Deciding(s)
  BY DEF Deciding, Unaccepted
<1>6. DecidingOK(r, v, l)
  BY <1>5 DEF Fair, DecidingOK
<1>7. ObsOK(r, w)
  BY DEF Fair, ObsOK, Asking
<1>8. CancelDoubt(s, g) => CancelDoubt(r, g)
  BY DEF CancelDoubt
<1>9. \A j : Backed(s, j) => Backed(r, j)
  BY DEF Backed
<1>10. WireOK(r, v, w, l, g)
  BY <1>8, <1>9 DEF Fair, WireOK, FrameOK, Unaccepted
<1>11. Doubt(s, g) => Doubt(r, g)
  BY DEF Doubt
<1>12. StreamOK(r, v, w, l, g)
  BY <1>11 DEF Fair, StreamOK
<1>13. LateOK(r, v, l, g)
  BY <1>8, <1>9 DEF Fair, LateOK
<1>14. ClosedOK(r, v, l, g)
  BY <1>11 DEF Fair, ClosedOK
<1> QED BY <1>1, <1>2, <1>3, <1>4, <1>5, <1>6, <1>7, <1>10, <1>12, <1>13, <1>14 DEF Fair

-----------------------------------------------------------------------------
(* The shared GET. *)

\* Two stores that are equal but for the read, its problem, and who waits for it; and a Run
\* that is over has no decision.
SameWrite(s, r) ==
  /\ r.write.kind = s.write.kind /\ r.write.phase = s.write.phase
  /\ r.write.verified = s.write.verified
  /\ s.write.kind = "none" => r.write = s.write
ButRead(s, r) ==
  /\ r.run = s.run /\ r.verified = s.verified /\ r.obs = s.obs /\ r.attempt = s.attempt
  /\ r.appr = s.appr /\ r.decided = s.decided /\ r.post = s.post
  /\ \/ SameWrite(s, r) /\ r.backup = s.backup
     \/ Over(s) /\ SameWrite(s, r) /\ r.write.kind # "approval"
     \/ Over(s) /\ s.write.kind = "approval" /\ r.write = NoWrite

\* What may become of a read, apart from its answer.
ReadOnly(s, r) ==
  /\ r \in Stores /\ ButRead(s, r) /\ ReadFine(r)
  /\ r.read.ans \in {s.read.ans, NoAnswer}
  /\ r.read.phase = "answer" =>
       s.read.phase = "answer" /\ r.read.ans = s.read.ans /\ r.read.stale = s.read.stale
  /\ Asking(s) /\ ~s.verified => Asking(r)

\* Reading disturbs nothing, unless a decision is out.
LEMMA ReadKeeps ==
  ASSUME NEW s, NEW v, NEW w, NEW l, NEW k, NEW g, Fair(s, v, w, l, k, g),
         NEW r, ReadOnly(s, r), Deciding(s) => r.read.phase = "none"
  PROVE  /\ Fair(r, v, w, l, k, g) /\ (Deciding(r) <=> Deciding(s))
         /\ Onward(s, r) /\ NoNewPost(s, r) /\ (Settled(s) => Settled(r))
<1> USE DEF ReadOnly, ButRead, SameWrite
<1>0. s \in Stores /\ r \in Stores /\ v \in Servers
  BY DEF Fair, TypesOK
<1>1. TypesOK(r, v, w, l, k, g)
  BY DEF Fair, TypesOK
<1>2. TruthOK(r, v)
  BY DEF Fair, TruthOK, Over, NoAnswer
<1>3. UsageOK(r, v)
  <2>1. v.stage \in Nat
    BY <1>0, RunViewConstants DEF Servers, Stages
  <2>2. s.read.ans.at \in Nat
    BY <1>0, Parts
  <2>3. r.read.ans.at <= v.stage
    BY <2>1, <2>2 DEF Fair, UsageOK, NoAnswer
  <2> QED BY <2>3 DEF Fair, UsageOK
<1>4. ReadFine(r) /\ WriteOK(r, k)
  BY DEF Fair, WriteOK, NoWrite, Unaccepted
<1>5. Deciding(r) <=> Deciding(s)
  BY DEF Fair, DecidingOK, Deciding, NoWrite, Over, Unaccepted
<1>6. DecidingOK(r, v, l)
  BY <1>5 DEF Fair, DecidingOK, Deciding, Over, Unaccepted
<1>7. ObsOK(r, w)
  BY DEF Fair, ObsOK
<1>8. (CancelDoubt(s, g) => CancelDoubt(r, g)) /\ (Unaccepted(r) => Unaccepted(s))
  BY DEF CancelDoubt, Unaccepted, NoWrite
<1>9. \A j : Backed(s, j) => Backed(r, j) \/ Over(s)
  BY DEF Backed
<1>10. Over(r) <=> Over(s)
  BY DEF Over
<1>11. WireOK(r, v, w, l, g)
  BY <1>8, <1>9, <1>10 DEF Fair, WireOK, FrameOK
<1>12. Doubt(s, g) => Doubt(r, g) \/ Over(s)
  BY DEF Doubt
<1>13. StreamOK(r, v, w, l, g)
  BY <1>10, <1>12 DEF Fair, StreamOK
<1>14. LateOK(r, v, l, g)
  <2>1. Over(s) => \A j : ~Paused(v, j)
    BY DEF Fair, TruthOK, Paused
  <2> QED BY <1>8, <1>9, <1>10, <2>1 DEF Fair, LateOK
<1>15. ClosedOK(r, v, l, g)
  BY <1>10, <1>12 DEF Fair, ClosedOK
<1>16. Onward(s, r)
  <2>1. s.run.useAt \in Nat
    BY <1>0, Parts
  <2> QED BY <1>10, <2>1 DEF Onward
<1>17. NoNewPost(s, r) /\ (Settled(s) => Settled(r))
  BY DEF NoNewPost, Settled, NoWrite, Unaccepted
<1> QED BY <1>1, <1>2, <1>3, <1>4, <1>5, <1>6, <1>7, <1>11, <1>13, <1>14, <1>15, <1>16, <1>17
  DEF Fair

\* A read that is over.
LEMMA UnreadIs ==
  ASSUME NEW s \in Stores, NEW r, r = Unread(s)
  PROVE  r \in Stores /\ ButRead(s, r) /\ r.read = NoRead /\ r.problem = FALSE
<1> DEFINE write == [s.write EXCEPT !.verifying = @ /\ s.write.kind # "cancel"]
<1> DEFINE writing == IF s.writing = "verify" THEN "none" ELSE s.writing
<1>1. r = [s EXCEPT !.read = NoRead, !.write = write, !.writing = writing, !.problem = FALSE]
  BY DEF Unread
<1>2. s.write \in Writes /\ s.writing \in Writings
  BY Fields
<1>3. /\ write \in Writes /\ write.kind = s.write.kind /\ write.phase = s.write.phase
      /\ write.verified = s.write.verified
  BY <1>2 DEF Writes
<1>4. s.write.kind = "none" => write = s.write
  BY <1>2 DEF Writes
<1>5. writing \in Writings /\ NoRead \in Reads
  BY <1>2 DEF Writings, NoRead, Reads, Answers, NoAnswer
<1> HIDE DEF write, writing
<1>6. r \in Stores
  BY <1>1, <1>3, <1>5 DEF Stores
<1>7. r.write = write /\ r.read = NoRead /\ r.problem = FALSE
  BY <1>1 DEF Stores
<1>8. /\ r.run = s.run /\ r.verified = s.verified /\ r.obs = s.obs /\ r.attempt = s.attempt
      /\ r.appr = s.appr /\ r.decided = s.decided /\ r.backup = s.backup /\ r.post = s.post
  BY <1>1 DEF Stores
<1> QED BY <1>3, <1>4, <1>6, <1>7, <1>8 DEF ButRead, SameWrite

\* A trigger joins the read that is under way, or begins one.
LEMMA ReadSnapshotIs ==
  ASSUME NEW s \in Stores, ReadFine(s), NEW boundary \in BOOLEAN, NEW auto \in BOOLEAN,
         NEW r, r = ReadSnapshot(s, boundary, auto)
  PROVE  /\ r \in Stores /\ ButRead(s, r) /\ ReadFine(r)
         /\ r.read.ans \in {s.read.ans, NoAnswer}
         /\ r.read.phase # "none"
         /\ r.read.phase = "answer" =>
              s.read.phase = "answer" /\ r.read.ans = s.read.ans /\ r.read.stale = s.read.stale
         /\ s.read.phase # "none" => r.read.auto = s.read.auto
         /\ s.read.phase = "none" => r.read.auto = auto
         /\ r.problem => s.problem
         /\ Asking(s) /\ ~s.verified /\ (auto => s.read.phase # "none") => Asking(r)
<1>0. s.read \in Reads /\ s.exec \in Nat
  BY Fields
<1>1. CASE s.read.phase # "none"
  <2> DEFINE read == [s.read EXCEPT !.again = @ \/ (boundary /\ s.read.started)]
  <2>1. r = [s EXCEPT !.read = read]
    BY <1>1 DEF ReadSnapshot
  <2>2. /\ read \in Reads /\ read.phase = s.read.phase /\ read.ans = s.read.ans
        /\ read.stale = s.read.stale /\ read.same = s.read.same /\ read.fresh = s.read.fresh
        /\ read.auto = s.read.auto
    BY <1>0 DEF Reads
  <2> HIDE DEF read
  <2>3. r \in Stores
    BY <2>1, <2>2 DEF Stores
  <2>4. r.read = read /\ ButRead(s, r) /\ r.problem = s.problem
    BY <2>1 DEF Stores, ButRead, SameWrite
  <2> QED BY <1>1, <2>2, <2>3, <2>4 DEF ReadFine, Asking
<1>2. CASE s.read.phase = "none"
  <2> DEFINE read == [NoRead EXCEPT !.phase = "wait", !.auto = auto, !.charge = auto, !.exec = s.exec]
  <2>1. r = [s EXCEPT !.problem = FALSE, !.read = read]
    BY <1>2 DEF ReadSnapshot
  <2>2. /\ read \in Reads /\ read.phase = "wait" /\ read.ans = NoAnswer /\ read.auto = auto
        /\ read.same = FALSE
    <3>1. /\ NoRead \in Reads /\ NoRead.ans = NoAnswer /\ NoRead.same = FALSE
      BY DEF Reads, NoRead, Answers, NoAnswer
    <3> QED BY <1>0, <3>1 DEF Reads
  <2> HIDE DEF read
  <2>3. r \in Stores
    BY <2>1, <2>2 DEF Stores
  <2>4. r.read = read /\ ButRead(s, r) /\ r.problem = FALSE
    BY <2>1 DEF Stores, ButRead, SameWrite
  <2> QED BY <1>2, <2>2, <2>3, <2>4 DEF ReadFine, Asking
<1> QED BY <1>1, <1>2

\* So a trigger only reads.
LEMMA SnapshotReads ==
  ASSUME NEW s \in Stores, ReadFine(s), NEW boundary \in BOOLEAN, NEW auto \in BOOLEAN,
         auto => s.verified \/ s.read.phase # "none", NEW r, r = ReadSnapshot(s, boundary, auto)
  PROVE  /\ ReadOnly(s, r) /\ r.read.phase # "none" /\ (r.problem => s.problem)
         /\ s.read.phase = "none" => r.read.auto = auto
BY ReadSnapshotIs DEF ReadOnly

\* Only an automatic read is ended, or made into an ordinary one.
LEMMA SyncReads ==
  ASSUME NEW s \in Stores, ReadFine(s), NEW r, r = SyncUsage(s)
  PROVE  ReadOnly(s, r) /\ (s.read.phase = "none" => r = s) /\ (r.problem => s.problem)
<1>1. CASE ~AutoEnds(s)
  <2>1. r = s
    BY <1>1 DEF SyncUsage
  <2> QED BY <2>1 DEF ReadOnly, ButRead, SameWrite
<1>2. CASE AutoEnds(s)
  <2> DEFINE u == Unread(s)
  <2>1. s.read.phase # "none" /\ s.read.auto /\ ~Asking(s)
    BY <1>2 DEF AutoEnds, ReadFine, Asking
  <2>2. u \in Stores /\ ButRead(s, u) /\ u.read = NoRead /\ u.problem = FALSE
    BY UnreadIs
  <2>3. u.read.phase = "none" /\ u.read.ans = NoAnswer /\ u.read.same = FALSE
    BY <2>2 DEF NoRead
  <2>4. ReadFine(u) /\ ReadOnly(s, u)
    BY <2>1, <2>2, <2>3 DEF ReadFine, ReadOnly
  <2> HIDE DEF u
  <2>5. r = u \/ r = ReadSnapshot(u, FALSE, FALSE)
    BY <1>2 DEF SyncUsage, u
  <2>6. CASE r = u
    BY <2>1, <2>2, <2>4, <2>6
  <2>7. CASE r = ReadSnapshot(u, FALSE, FALSE)
    <3>1. ReadOnly(u, r) /\ (r.problem => u.problem)
      BY <2>2, <2>4, <2>7, SnapshotReads
    <3>2. r.read.ans = NoAnswer /\ r.read.phase # "answer"
      BY <2>3, <3>1 DEF ReadOnly
    <3>3. ButRead(s, r)
      BY <2>2, <3>1 DEF ReadOnly, ButRead, SameWrite, Over, NoWrite
    <3> QED BY <2>1, <2>2, <3>1, <3>2, <3>3 DEF ReadOnly
  <2> QED BY <2>5, <2>6, <2>7
<1> QED BY <1>1, <1>2

\* One thing after the other.
LEMMA ReadTwice ==
  ASSUME NEW s, NEW t, NEW r, ReadOnly(s, t), ReadOnly(t, r)
  PROVE  ReadOnly(s, r)
<1>1. ButRead(s, r)
  BY DEF ReadOnly, ButRead, SameWrite, Over, NoWrite
<1> QED BY <1>1 DEF ReadOnly, ButRead

\* What is published: a Run that is over has no decision, and the coordinator learns of it.
LEMMA PublishReads ==
  ASSUME NEW s \in Stores, ReadFine(s), NEW r, r = Publish(s)
  PROVE  /\ ReadOnly(s, r)
         /\ s.read.phase = "none" => r.read = s.read /\ r.problem = s.problem
         /\ r.problem => s.problem
<1> DEFINE write == IF s.write.kind = "approval" THEN NoWrite ELSE s.write
<1> DEFINE t == [s EXCEPT !.write = write, !.draft = -1, !.backup = NoBackup]
<1>1. CASE ~Over(s)
  <2>1. r = SyncUsage(s)
    BY <1>1 DEF Publish, Over
  <2> QED BY <2>1, SyncReads
<1>2. CASE Over(s)
  <2>1. r = SyncUsage(t)
    BY <1>2 DEF Publish, Over
  <2>2. s.write \in Writes
    BY Fields
  <2>3. write \in Writes /\ NoBackup \in Backups /\ -1 \in Pauses
    BY <2>2 DEF Writes, NoWrite, Backups, NoBackup, Pauses
  <2>4. t \in Stores
    BY <2>3 DEF Stores
  <2>5. /\ t.run = s.run /\ t.verified = s.verified /\ t.obs = s.obs /\ t.attempt = s.attempt
        /\ t.appr = s.appr /\ t.decided = s.decided /\ t.post = s.post /\ t.read = s.read
        /\ t.problem = s.problem /\ t.write = write
    BY DEF Stores
  <2> HIDE DEF t
  <2>6. ButRead(s, t)
    BY <1>2, <2>5 DEF ButRead, SameWrite, NoWrite
  <2>7. ReadFine(t) /\ ReadOnly(s, t)
    BY <2>4, <2>5, <2>6 DEF ReadFine, ReadOnly, Asking
  <2>8. ReadOnly(t, r) /\ (t.read.phase = "none" => r = t) /\ (r.problem => t.problem)
    BY <2>1, <2>4, <2>7, SyncReads
  <2> QED BY <2>5, <2>7, <2>8, ReadTwice
<1> QED BY <1>1, <1>2

\* A task ends, and its failure is shown.
LEMMA EndReads ==
  ASSUME NEW s \in Stores, NEW failed \in BOOLEAN, failed \/ s.verified,
         NEW r, r = EndRead(s, failed)
  PROVE  ReadOnly(s, r) /\ r.read.phase = "none"
<1> DEFINE pause == IF s.round.requests >= MaxRequests THEN "limit"
                    ELSE IF failed THEN "error" ELSE "none"
<1> DEFINE round == [s.round EXCEPT !.pause = IF s.read.exec = s.exec THEN pause ELSE @]
<1> DEFINE t == [s EXCEPT !.round = round]
<1> DEFINE u == Unread(t)
<1> DEFINE e == [u EXCEPT !.problem = failed]
<1>1. r = Publish(e)
  BY DEF EndRead
<1>2. s.round \in Rounds
  BY Fields
<1>3. round \in Rounds
  BY <1>2 DEF Rounds
<1> HIDE DEF round
<1>4. t \in Stores
  BY <1>3 DEF Stores
<1>5. /\ t.run = s.run /\ t.verified = s.verified /\ t.obs = s.obs /\ t.attempt = s.attempt
      /\ t.appr = s.appr /\ t.decided = s.decided /\ t.post = s.post /\ t.write = s.write
      /\ t.backup = s.backup
  BY DEF Stores
<1> HIDE DEF t
<1>6. u \in Stores /\ ButRead(t, u) /\ u.read = NoRead
  BY <1>4, UnreadIs
<1>7. ButRead(s, u)
  BY <1>5, <1>6 DEF ButRead, SameWrite, Over
<1> HIDE DEF u
<1>8. e \in Stores
  BY <1>6 DEF Stores
<1>9. /\ e.run = u.run /\ e.verified = u.verified /\ e.obs = u.obs /\ e.attempt = u.attempt
      /\ e.appr = u.appr /\ e.decided = u.decided /\ e.post = u.post /\ e.write = u.write
      /\ e.backup = u.backup /\ e.read = u.read /\ e.problem = failed
  BY <1>6 DEF Stores
<1> HIDE DEF e
<1>10. ButRead(s, e)
  BY <1>7, <1>9 DEF ButRead, SameWrite
<1>11. e.read.phase = "none" /\ e.read.same = FALSE /\ e.read.ans = NoAnswer
  BY <1>6, <1>9 DEF NoRead
<1>12. ReadFine(e) /\ ReadOnly(s, e)
  BY <1>8, <1>9, <1>10, <1>11 DEF ReadFine, ReadOnly, Asking
<1>13. ReadOnly(e, r) /\ r.read = e.read
  BY <1>1, <1>8, <1>11, <1>12, PublishReads
<1> QED BY <1>11, <1>12, <1>13, ReadTwice

\* The budget of automatic reads is charged.
LEMMA ChargeIs ==
  ASSUME NEW s \in Stores, NEW r, r = Charge(s)
  PROVE  /\ r \in Stores /\ ButRead(s, r) /\ r.read = s.read /\ r.problem = s.problem
         /\ r.write = s.write
<1> DEFINE round == [s.round EXCEPT !.requests = @ + 1]
<1>1. CASE ~(MustCharge(s) /\ Eligible(s))
  <2>1. r = s
    BY <1>1 DEF Charge
  <2> QED BY <2>1 DEF ButRead, SameWrite
<1>2. CASE MustCharge(s) /\ Eligible(s)
  <2>1. r = [s EXCEPT !.round = round]
    BY <1>2 DEF Charge
  <2>2. s.round \in Rounds
    BY Fields
  <2>3. round \in Rounds
    BY <2>2 DEF Rounds
  <2> HIDE DEF round
  <2>4. r \in Stores
    BY <2>1, <2>3 DEF Stores
  <2> QED BY <2>1, <2>4 DEF Stores, ButRead, SameWrite
<1> QED BY <1>1, <1>2

\* The read of a window that is sure of the Run goes on, or ends.
LEMMA ContinueReads ==
  ASSUME NEW s \in Stores, ReadFine(s), s.verified, ~s.problem, NEW stale,
         NEW r, r = ContinueRead(s, stale)
  PROVE  ReadOnly(s, r)
<1> DEFINE charge == s.read.auto /\ ~s.read.again
<1> DEFINE read == [s.read EXCEPT !.phase = "wait", !.second = TRUE, !.again = FALSE,
                                  !.charge = charge, !.tries = 0]
<1>1. r = EndRead(s, FALSE) \/ r = [s EXCEPT !.read = read]
  BY DEF ContinueRead
<1>2. CASE r = EndRead(s, FALSE)
  BY <1>2, EndReads
<1>3. CASE r = [s EXCEPT !.read = read]
  <2>1. s.read \in Reads
    BY Fields
  <2>2. /\ read \in Reads /\ read.phase = "wait" /\ read.ans = s.read.ans
        /\ read.same = s.read.same /\ read.fresh = s.read.fresh
    BY <2>1 DEF Reads
  <2> HIDE DEF read
  <2>3. r \in Stores
    BY <1>3, <2>2 DEF Stores
  <2>4. r.read = read /\ ButRead(s, r) /\ r.problem = s.problem
    BY <1>3 DEF Stores, ButRead, SameWrite
  <2>5. ReadFine(r)
    BY <2>2, <2>4 DEF ReadFine
  <2> QED BY <2>2, <2>3, <2>4, <2>5 DEF ReadOnly
<1> QED BY <1>1, <1>2, <1>3

-----------------------------------------------------------------------------
(* Answers. *)

\* What an answer tells of the Run is true, and not older than what is known.
LEMMA SnapshotTells ==
  ASSUME NEW s \in Stores, NEW v \in Servers, TruthOK(s, v), UsageOK(s, v),
         NEW ans \in Answers, ans.status # "none", ans.status = "done" => v.status = "done",
         ans.at <= v.stage, NEW stale, NEW preserve \in BOOLEAN, NEW isWrite \in BOOLEAN,
         NEW r, r = ApplySnapshot(s, ans, stale, preserve, isWrite)
  PROVE  /\ RunTold(s, r, v) /\ r \in Stores /\ SameButRun(s, r)
         /\ StaleUsage(stale) \/ s.run.useAt <= ans.at => Onward(s, r)
         /\ ans.status = "done" /\ ~preserve /\ isWrite => Over(r)
<1> DEFINE keep == preserve \/ s.run.status = "done" \/ (~isWrite /\ "status" \in stale)
<1> DEFINE m == [status |-> IF keep THEN s.run.status ELSE ans.status,
                 pending |-> IF StaleUsage(stale) THEN "none" ELSE ans.pending,
                 usage |-> FALSE, useAt |-> ans.at]
<1>1. r = Metadata(s, m)
  BY DEF ApplySnapshot
<1>2. s.run.status \in Statuses /\ s.run.useAt \in Nat
  BY Parts
<1>3. ans.status \in Statuses /\ ans.pending \in {"none", "yes", "no"} /\ ans.at \in Nat
  BY DEF Answers
<1>4. m \in Partials
  BY <1>2, <1>3 DEF Partials
<1>5. m.status = "done" => v.status = "done"
  BY DEF TruthOK, Over
<1>6. /\ m.useAt = ans.at /\ (m.pending # "none" => ~StaleUsage(stale))
      /\ ans.status = "done" /\ ~preserve /\ isWrite => m.status = "done"
  OBVIOUS
<1> HIDE DEF m
<1>7. RunTold(s, r, v)
  BY <1>1, <1>4, <1>5, <1>6, MetadataTells
<1>8. /\ Over(s) => Over(r)
      /\ r.run.status = m.status \/ Over(s)
      /\ r.run.pending = "null" \/ r.run.useAt = s.run.useAt
         \/ (m.pending # "none" /\ r.run.useAt = m.useAt)
  BY <1>1, <1>4, MetadataIs
<1>9. StaleUsage(stale) \/ s.run.useAt <= ans.at => Onward(s, r)
  BY <1>2, <1>3, <1>6, <1>8 DEF Onward
<1>10. ans.status = "done" /\ ~preserve /\ isWrite => Over(r)
  BY <1>6, <1>8 DEF Over
<1> QED BY <1>7, <1>9, <1>10 DEF RunTold

\* What may become of a store when it is sure of the Run.
Sure(s, r, k) ==
  /\ r \in Stores /\ r.verified
  /\ r.run = s.run /\ r.obs = s.obs /\ r.attempt = s.attempt /\ r.decided = s.decided
  /\ r.backup = s.backup /\ r.post = s.post /\ r.problem = s.problem
  /\ r.read.phase = s.read.phase /\ r.read.ans = s.read.ans /\ r.read.stale = s.read.stale
  /\ r.read.auto = s.read.auto /\ r.read.fresh = s.read.fresh /\ (r.read.same => s.read.same)
  /\ \/ r.write = s.write
     \/ /\ s.write.phase = "unknown" /\ r.write.phase = "unknown" /\ r.write.kind = s.write.kind
        /\ k
     \/ s.write.phase = "unknown" /\ Over(s) /\ r.write = NoWrite
  /\ \/ r.appr.pause = s.appr.pause /\ (r.appr.verified => s.appr.verified)
     \/ Over(s) /\ ~r.appr.verified

\* Being sure disturbs nothing.
LEMMA SureKeeps ==
  ASSUME NEW s, NEW v, NEW w, NEW l, NEW k, NEW g, Fair(s, v, w, l, k, g), ~Deciding(s),
         NEW k2 \in BOOLEAN, k => k2, NEW r, Sure(s, r, k2)
  PROVE  /\ Fair(r, v, w, l, k2, g) /\ ~Deciding(r)
         /\ NoNewPost(s, r) /\ (Settled(s) => Settled(r))
<1> USE DEF Sure
<1>1. TypesOK(r, v, w, l, k2, g)
  BY DEF Fair, TypesOK
<1>2. TruthOK(r, v)
  BY DEF Fair, TruthOK, Over
<1>3. UsageOK(r, v)
  BY DEF Fair, UsageOK
<1>4. ReadFine(r) /\ WriteOK(r, k2)
  BY DEF Fair, ReadFine, WriteOK, NoWrite, Unaccepted
<1>5. ~Deciding(r)
  BY DEF Deciding, NoWrite, Unaccepted
<1>6. DecidingOK(r, v, l)
  BY <1>5 DEF Fair, DecidingOK
<1>7. ObsOK(r, w)
  BY DEF Fair, ObsOK
<1>8. (CancelDoubt(s, g) => CancelDoubt(r, g) \/ Over(s)) /\ (Unaccepted(r) => Unaccepted(s))
  BY DEF CancelDoubt, Unaccepted, NoWrite
<1>9. \A j : Backed(s, j) => Backed(r, j)
  BY DEF Backed
<1>10. Over(r) <=> Over(s)
  BY DEF Over
<1>11. WireOK(r, v, w, l, g)
  BY <1>8, <1>9, <1>10 DEF Fair, WireOK, FrameOK
<1>12. Doubt(s, g) => Doubt(r, g) \/ Over(s)
  BY DEF Doubt
<1>13. StreamOK(r, v, w, l, g)
  BY <1>10, <1>12 DEF Fair, StreamOK
<1>14. LateOK(r, v, l, g)
  BY <1>8, <1>9, <1>10 DEF Fair, LateOK
<1>15. ClosedOK(r, v, l, g)
  BY <1>10, <1>12 DEF Fair, ClosedOK
<1>16. NoNewPost(s, r) /\ (Settled(s) => Settled(r))
  BY DEF NoNewPost, Settled, NoWrite, Unaccepted
<1> QED BY <1>1, <1>2, <1>3, <1>4, <1>5, <1>6, <1>7, <1>11, <1>13, <1>14, <1>15, <1>16 DEF Fair

\* Another write.
LEMMA SetWriteIs ==
  ASSUME NEW s \in Stores, NEW write \in Writes, NEW r, r = SetWrite(s, write)
  PROVE  /\ r \in Stores /\ r.write = write
         /\ r.read \in Reads /\ ~r.read.same
         /\ r.read.phase = s.read.phase /\ r.read.ans = s.read.ans /\ r.read.stale = s.read.stale
         /\ r.read.auto = s.read.auto /\ r.read.fresh = s.read.fresh
         /\ r.run = s.run /\ r.verified = s.verified /\ r.obs = s.obs /\ r.attempt = s.attempt
         /\ r.tries = s.tries /\ r.recovering = s.recovering /\ r.appr = s.appr
         /\ r.draft = s.draft /\ r.accepted = s.accepted /\ r.decided = s.decided
         /\ r.backup = s.backup /\ r.writing = s.writing /\ r.post = s.post
         /\ r.problem = s.problem
<1> DEFINE read == [s.read EXCEPT !.same = FALSE]
<1>1. r = [s EXCEPT !.write = write, !.read = read]
  BY DEF SetWrite
<1>2. s.read \in Reads
  BY Fields
<1>3. /\ read \in Reads /\ read.phase = s.read.phase /\ read.ans = s.read.ans
      /\ read.stale = s.read.stale /\ read.auto = s.read.auto /\ read.fresh = s.read.fresh
      /\ ~read.same
  BY <1>2 DEF Reads
<1> HIDE DEF read
<1>4. r \in Stores
  BY <1>1, <1>3 DEF Stores
<1>5. r.write = write /\ r.read = read
  BY <1>1 DEF Stores
<1>6. /\ r.run = s.run /\ r.verified = s.verified /\ r.obs = s.obs /\ r.attempt = s.attempt
      /\ r.tries = s.tries /\ r.recovering = s.recovering /\ r.appr = s.appr
      /\ r.draft = s.draft /\ r.accepted = s.accepted /\ r.decided = s.decided
      /\ r.backup = s.backup /\ r.writing = s.writing /\ r.post = s.post
      /\ r.problem = s.problem
  BY <1>1 DEF Stores
<1> QED BY <1>3, <1>4, <1>5, <1>6

\* What is seen of the Run, when a write is verified and otherwise.
SeenByWrite(s, ans, stale) == ApplySnapshot(s, ans, stale, FALSE, TRUE)
SeenByRead(s) == ApplySnapshot(s, s.read.ans, s.read.stale, s.attempt.kind # "none", FALSE)

\* An answer that verifies a write.
LEMMA ApplyWriteIs ==
  ASSUME NEW s \in Stores, NEW ans, NEW stale, NEW r, r = ApplyWrite(s, ans, stale),
         NEW seen \in Stores, seen = SeenByWrite(s, ans, stale), SameButRun(s, seen)
  PROVE  /\ r \in Stores /\ r.verified /\ ~r.read.same
         /\ r.run = seen.run /\ r.obs = seen.obs /\ r.attempt = seen.attempt
         /\ r.decided = seen.decided /\ r.backup = seen.backup /\ r.post = seen.post
         /\ r.problem = seen.problem
         /\ r.read.phase = seen.read.phase /\ r.read.ans = seen.read.ans
         /\ r.read.stale = seen.read.stale /\ r.read.auto = seen.read.auto
         /\ r.read.fresh = seen.read.fresh
         /\ IF Over(seen) \/ s.write = NoWrite THEN r.write = NoWrite
            ELSE r.write.phase = "unknown" /\ r.write.kind = s.write.kind
         /\ IF Over(seen) THEN ~r.appr.verified ELSE r.appr = seen.appr
<1> DEFINE terminal == seen.run.status = "done"
<1> DEFINE write == IF terminal \/ s.write = NoWrite THEN NoWrite
                    ELSE [s.write EXCEPT !.phase = "unknown", !.verified = TRUE, !.verifying = FALSE]
<1> DEFINE told == SetWrite(seen, write)
<1> DEFINE appr == IF terminal THEN [pause |-> -1, verified |-> FALSE] ELSE told.appr
<1>1. r = [told EXCEPT !.verified = TRUE, !.appr = appr]
  BY DEF ApplyWrite, SeenByWrite
<1>2. s.write \in Writes
  BY Fields
<1>3. write \in Writes
  BY <1>2 DEF Writes, NoWrite
<1>4. /\ Over(seen) \/ s.write = NoWrite => write = NoWrite
      /\ ~(Over(seen) \/ s.write = NoWrite) => write.phase = "unknown" /\ write.kind = s.write.kind
  BY <1>2 DEF Writes, Over
<1> HIDE DEF write
<1> HIDE DEF appr
<1>5. /\ told \in Stores /\ told.write = write /\ ~told.read.same
      /\ told.read.phase = seen.read.phase /\ told.read.ans = seen.read.ans
      /\ told.read.stale = seen.read.stale /\ told.read.auto = seen.read.auto
      /\ told.read.fresh = seen.read.fresh
      /\ told.run = seen.run /\ told.obs = seen.obs /\ told.attempt = seen.attempt
      /\ told.decided = seen.decided /\ told.backup = seen.backup /\ told.post = seen.post
      /\ told.problem = seen.problem /\ told.appr = seen.appr
  BY <1>3, SetWriteIs
<1> HIDE DEF told
<1>6. told.appr \in Apprs
  BY <1>5, Fields
<1>7. /\ appr \in Apprs /\ (Over(seen) => ~appr.verified) /\ (~Over(seen) => appr = told.appr)
  BY <1>6 DEF Apprs, Pauses, Over, appr
<1>8. r \in Stores
  BY <1>1, <1>5, <1>7 DEF Stores
<1>9. /\ r.verified /\ r.appr = appr /\ r.write = told.write /\ r.read = told.read
      /\ r.run = told.run /\ r.obs = told.obs /\ r.attempt = told.attempt
      /\ r.decided = told.decided /\ r.backup = told.backup /\ r.post = told.post
      /\ r.problem = told.problem
  BY <1>1, <1>5 DEF Stores
<1> QED BY <1>4, <1>5, <1>7, <1>8, <1>9

\* The answer of an ordinary read.
LEMMA ApplyReadIs ==
  ASSUME NEW s \in Stores, NEW k, NEW r, r = ApplyRead(s),
         NEW seen \in Stores,
         seen = SeenByRead(s)
  PROVE  Sure(seen, r, k)
<1> DEFINE appr == [seen.appr EXCEPT !.verified = @ /\ seen.run.status = "interrupted"]
<1>1. r = [seen EXCEPT !.verified = TRUE, !.appr = appr]
  BY DEF ApplyRead, SeenByRead
<1>2. seen.appr \in Apprs
  BY Fields
<1>3. appr \in Apprs /\ appr.pause = seen.appr.pause /\ (appr.verified => seen.appr.verified)
  BY <1>2 DEF Apprs
<1> HIDE DEF appr
<1>4. r \in Stores
  BY <1>1, <1>3 DEF Stores
<1>5. /\ r.verified /\ r.appr = appr /\ r.write = seen.write /\ r.read = seen.read
      /\ r.run = seen.run /\ r.obs = seen.obs /\ r.attempt = seen.attempt
      /\ r.decided = seen.decided /\ r.backup = seen.backup /\ r.post = seen.post
      /\ r.problem = seen.problem
  BY <1>1 DEF Stores
<1> QED BY <1>3, <1>4, <1>5 DEF Sure

-----------------------------------------------------------------------------
(* The steps of the read. *)

\* What the step properties say.
StepOK ==
  /\ Over(c) => Over(c')
  /\ wire' # wire \/ c'.run.pending = "null" \/ c'.run.useAt >= c.run.useAt
  /\ c.write.phase = "unknown" /\ c'.write.phase = "pending" => known

\* From the store alone.
LEMMA StoreStep ==
  ASSUME RunViewInv, Good(c', srv', wire', late', known', forgotten'), Onward(c, c'),
         NoNewPost(c, c')
  PROVE  RunViewInv' /\ StepOK
BY DEF RunViewInv, StepOK, Onward, NoNewPost

\* A step that only reads.
LEMMA ReadStep ==
  ASSUME RunViewInv, ReadOnly(c, c'), Deciding(c) => c'.read.phase = "none",
         UNCHANGED <<srv, wire, late, known, forgotten>>
  PROVE  RunViewInv' /\ StepOK
<1>1. Fair(c, srv, wire, late, known, forgotten) /\ Settled(c)
  BY DEF RunViewInv, Good
<1>2. /\ Fair(c', srv, wire, late, known, forgotten) /\ Settled(c')
      /\ Onward(c, c') /\ NoNewPost(c, c')
  BY <1>1, ReadKeeps
<1> QED BY <1>2, StoreStep DEF Good

\* While a decision is out nothing is read.
LEMMA NoReadBeside ==
  ASSUME RunViewInv
  PROVE  /\ c \in Stores /\ srv \in Servers /\ ReadFine(c)
         /\ c.read.phase # "none" \/ c.verified \/ c.post.kind = "cancel" => ~Deciding(c)
BY DEF RunViewInv, Good, Fair, TypesOK, DecidingOK

\* The request is sent, or the budget is used up.
LEMMA SendReadKeeps ==
  ASSUME RunViewInv, SendRead
  PROVE  RunViewInv' /\ StepOK
<1>1. /\ c \in Stores /\ c.read.phase = "wait" /\ ReadFine(c) /\ ~Deciding(c)
      /\ UNCHANGED <<srv, wire, late, known, forgotten>>
  BY NoReadBeside DEF SendRead
<1>2. CASE MustCharge(c) /\ ~HasBudget(c)
  <2> DEFINE failed == c.read.tries > 0
  <2>1. failed \in BOOLEAN
    OBVIOUS
  <2>2. c' = EndRead(c, failed)
    BY <1>2, Zenon DEF SendRead
  <2> HIDE DEF failed
  <2>3. c.verified
    BY <1>2 DEF HasBudget, Eligible
  <2>4. ReadOnly(c, c')
    BY <1>1, <2>1, <2>2, <2>3, EndReads
  <2> QED BY <1>1, <2>4, ReadStep
<1>3. CASE ~(MustCharge(c) /\ ~HasBudget(c))
  <2> DEFINE t == Charge(c)
  <2>1. PICK same \in BOOLEAN : same = (c.write.phase = "unknown")
    OBVIOUS
  <2> DEFINE read == [t.read EXCEPT !.phase = "sent", !.started = TRUE, !.stale = {},
                                    !.same = same, !.fresh = same]
  <2>2. c' = [t EXCEPT !.read = read]
    BY <1>3, <2>1 DEF SendRead
  <2>3. t \in Stores /\ ButRead(c, t) /\ t.read = c.read /\ t.problem = c.problem
    BY <1>1, ChargeIs
  <2> HIDE DEF t
  <2>4. t.read \in Reads
    BY <2>3, Fields
  <2>5. /\ read \in Reads /\ read.phase = "sent" /\ read.ans = t.read.ans
        /\ read.auto = t.read.auto /\ (read.same => read.fresh)
    BY <2>1, <2>4 DEF Reads
  <2> HIDE DEF read
  <2>6. c' \in Stores
    BY <2>2, <2>3, <2>5 DEF Stores
  <2>7. /\ c'.read = read /\ c'.problem = t.problem /\ c'.run = t.run
        /\ c'.verified = t.verified /\ c'.obs = t.obs /\ c'.attempt = t.attempt
        /\ c'.appr = t.appr /\ c'.decided = t.decided /\ c'.post = t.post
        /\ c'.write = t.write /\ c'.backup = t.backup
    BY <2>2, <2>3 DEF Stores
  <2>8. ButRead(c, c')
    BY <2>3, <2>7 DEF ButRead, SameWrite
  <2>9. ReadFine(c') /\ (Asking(c) => Asking(c'))
    BY <1>1, <2>3, <2>5, <2>7 DEF ReadFine, Asking
  <2>10. ReadOnly(c, c')
    BY <2>3, <2>5, <2>6, <2>7, <2>8, <2>9 DEF ReadOnly
  <2> QED BY <1>1, <2>10, ReadStep
<1> QED BY <1>2, <1>3

\* The backend answers: what it says is so.
LEMMA AnswerReadKeeps ==
  ASSUME RunViewInv, AnswerRead
  PROVE  RunViewInv' /\ StepOK
<1> DEFINE read == [c.read EXCEPT !.phase = "answer", !.ans = Snapshot]
<1>1. /\ c \in Stores /\ srv \in Servers /\ c.read.phase = "sent" /\ ReadFine(c) /\ ~Deciding(c)
      /\ UNCHANGED <<srv, wire, late, known, forgotten>>
      /\ c' = [c EXCEPT !.read = read]
  BY NoReadBeside DEF AnswerRead
<1>2. /\ Snapshot \in Answers /\ Snapshot.status = srv.status /\ Snapshot.at = srv.stage
      /\ srv.status # "none" /\ srv.stage \in Nat
  BY <1>1, RunViewConstants DEF Snapshot, Answers, Servers, Stages, Statuses, Pending
<1>3. c.read \in Reads
  BY <1>1, Fields
<1>4. /\ read \in Reads /\ read.phase = "answer" /\ read.ans = Snapshot
      /\ read.same = c.read.same /\ read.fresh = c.read.fresh
      /\ read.auto = c.read.auto /\ read.stale = c.read.stale
  BY <1>2, <1>3 DEF Reads
<1> HIDE DEF read
<1>5. c' \in Stores
  BY <1>1, <1>4 DEF Stores
<1>6. /\ c'.read = read /\ c'.problem = c.problem /\ c'.run = c.run
      /\ c'.verified = c.verified /\ c'.obs = c.obs /\ c'.attempt = c.attempt
      /\ c'.appr = c.appr /\ c'.decided = c.decided /\ c'.post = c.post
      /\ c'.write = c.write /\ c'.backup = c.backup
  BY <1>1 DEF Stores
<1>7. Fair(c, srv, wire, late, known, forgotten) /\ Settled(c)
  BY DEF RunViewInv, Good
<1>8. TypesOK(c', srv, wire, late, known, forgotten)
  BY <1>5, <1>7 DEF Fair, TypesOK
<1>9. TruthOK(c', srv) /\ UsageOK(c', srv)
  BY <1>2, <1>4, <1>6, <1>7 DEF Fair, TruthOK, UsageOK, Over
<1>10. ReadFine(c') /\ WriteOK(c', known)
  BY <1>1, <1>4, <1>6, <1>7 DEF Fair, ReadFine, WriteOK, Unaccepted
<1>11. ~Deciding(c') /\ DecidingOK(c', srv, late) /\ ObsOK(c', wire)
  BY <1>1, <1>4, <1>6, <1>7 DEF Fair, Deciding, DecidingOK, ObsOK, Asking, Unaccepted
<1>12. WireOK(c', srv, wire, late, forgotten) /\ StreamOK(c', srv, wire, late, forgotten)
  BY <1>6, <1>7 DEF Fair, WireOK, FrameOK, StreamOK, Over, CancelDoubt, Doubt, Backed, Unaccepted
<1>13. LateOK(c', srv, late, forgotten) /\ ClosedOK(c', srv, late, forgotten)
  BY <1>6, <1>7 DEF Fair, LateOK, ClosedOK, Over, CancelDoubt, Doubt, Backed
<1>14. Fair(c', srv, wire, late, known, forgotten) /\ Settled(c')
  BY <1>6, <1>7, <1>8, <1>9, <1>10, <1>11, <1>12, <1>13 DEF Fair, Settled, Unaccepted
<1>15. Onward(c, c') /\ NoNewPost(c, c')
  <2>1. c.run.useAt \in Nat
    BY <1>1, Parts
  <2> QED BY <1>6, <2>1 DEF Onward, NoNewPost, Over
<1> QED BY <1>1, <1>14, <1>15, StoreStep DEF Good

\* The answer arrives.
LEMMA ReceiveReadKeeps ==
  ASSUME RunViewInv, ReceiveRead
  PROVE  RunViewInv' /\ StepOK
<1> DEFINE ans == c.read.ans
<1> DEFINE stale == c.read.stale
<1> DEFINE verifies == CanVerifyWrite(c)
<1> DEFINE shown == IF verifies THEN SeenByWrite(c, ans, stale) ELSE SeenByRead(c)
<1> DEFINE seen == IF verifies THEN ApplyWrite(c, ans, stale) ELSE ApplyRead(c)
<1>1. /\ c \in Stores /\ srv \in Servers /\ c.read.phase = "answer" /\ ReadFine(c) /\ ~Deciding(c)
      /\ UNCHANGED <<srv, wire, late, forgotten>>
      /\ c' = IF AutoEnds(seen) THEN Publish(seen) ELSE ContinueRead(Publish(seen), NeedsFresh(c))
      /\ known' = (known \/ c.read.fresh)
  BY NoReadBeside DEF ReceiveRead
<1>2. Fair(c, srv, wire, late, known, forgotten) /\ Settled(c) /\ TruthOK(c, srv) /\ UsageOK(c, srv)
  BY DEF RunViewInv, Good, Fair
<1>3. /\ ans \in Answers /\ ans.status # "none" /\ (ans.status = "done" => srv.status = "done")
      /\ ans.at <= srv.stage /\ (StaleUsage(stale) \/ c.run.useAt <= ans.at)
  BY <1>1, <1>2, Parts DEF TruthOK, UsageOK
<1>4. /\ RunTold(c, shown, srv) /\ shown \in Stores /\ SameButRun(c, shown) /\ Onward(c, shown)
  <2>1. PICK preserve \in BOOLEAN, isWrite \in BOOLEAN :
          shown = ApplySnapshot(c, ans, stale, preserve, isWrite)
    <3>1. CASE verifies
      BY <3>1 DEF SeenByWrite
    <3>2. CASE ~verifies
      BY <3>2 DEF SeenByRead
    <3> QED BY <3>1, <3>2
  <2> HIDE DEF shown, ans, stale
  <2> QED BY <1>1, <1>2, <1>3, <2>1, SnapshotTells
<1>5. Fair(shown, srv, wire, late, known, forgotten) /\ ~Deciding(shown)
  BY <1>1, <1>2, <1>4, ToldKeeps
<1>6. Settled(shown) /\ NoNewPost(c, shown)
  BY <1>2, <1>4 DEF SameButRun, Settled, NoNewPost, Unaccepted
<1>7. known \in BOOLEAN /\ known' \in BOOLEAN /\ (known => known')
  BY <1>1, <1>2 DEF Fair, TypesOK
<1>8. Sure(shown, seen, known')
  <2>1. CASE verifies
    <3> DEFINE r == ApplyWrite(c, ans, stale)
    <3>1. seen = r /\ shown = SeenByWrite(c, ans, stale)
      BY <2>1
    <3>2. c.read.same /\ c.write.phase = "unknown"
      BY <2>1 DEF CanVerifyWrite
    <3>3. known'
      BY <1>1, <3>2 DEF ReadFine
    <3>4. c.write # NoWrite /\ shown.write = c.write
      BY <1>4, <3>2 DEF NoWrite, SameButRun
    <3> HIDE DEF seen, shown, ans, stale
    <3>5. /\ r \in Stores /\ r.verified /\ ~r.read.same
          /\ r.run = shown.run /\ r.obs = shown.obs /\ r.attempt = shown.attempt
          /\ r.decided = shown.decided /\ r.backup = shown.backup /\ r.post = shown.post
          /\ r.problem = shown.problem
          /\ r.read.phase = shown.read.phase /\ r.read.ans = shown.read.ans
          /\ r.read.stale = shown.read.stale /\ r.read.auto = shown.read.auto
          /\ r.read.fresh = shown.read.fresh
          /\ IF Over(shown) \/ c.write = NoWrite THEN r.write = NoWrite
             ELSE r.write.phase = "unknown" /\ r.write.kind = c.write.kind
          /\ IF Over(shown) THEN ~r.appr.verified ELSE r.appr = shown.appr
      BY <1>1, <1>4, <3>1, ApplyWriteIs
    <3> HIDE DEF r
    <3> QED BY <3>1, <3>2, <3>3, <3>4, <3>5 DEF Sure
  <2>2. CASE ~verifies
    <3>1. seen = ApplyRead(c) /\ shown = SeenByRead(c)
      BY <2>2
    <3> HIDE DEF seen, shown
    <3> QED BY <1>1, <1>4, <3>1, ApplyReadIs
  <2> QED BY <2>1, <2>2
<1> HIDE DEF seen, shown, ans, stale, verifies
<1>9. /\ Fair(seen, srv, wire, late, known', forgotten) /\ ~Deciding(seen)
      /\ NoNewPost(shown, seen) /\ (Settled(shown) => Settled(seen))
  BY <1>5, <1>7, <1>8, SureKeeps
<1>10. seen \in Stores /\ ReadFine(seen) /\ seen.verified /\ ~seen.problem /\ seen.run = shown.run
  <2>1. seen.read.phase = "answer"
    BY <1>1, <1>4, <1>8 DEF SameButRun, Sure
  <2> QED BY <1>8, <1>9, <2>1 DEF Fair, ReadFine, Sure
<1>11. ReadOnly(seen, c')
  <2> DEFINE told == Publish(seen)
  <2>1. ReadOnly(seen, told) /\ (told.problem => seen.problem)
    BY <1>10, PublishReads
  <2> HIDE DEF told
  <2>2. CASE c' = told
    BY <2>1, <2>2
  <2>3. CASE c' = ContinueRead(told, NeedsFresh(c))
    <3>1. told \in Stores /\ ReadFine(told) /\ told.verified /\ ~told.problem
      BY <1>10, <2>1 DEF ReadOnly, ButRead
    <3>2. ReadOnly(told, c')
      BY <2>3, <3>1, ContinueReads
    <3> QED BY <2>1, <3>2, ReadTwice
  <2> QED BY <1>1, <2>2, <2>3 DEF told
<1>12. /\ Fair(c', srv, wire, late, known', forgotten)
       /\ Onward(seen, c') /\ NoNewPost(seen, c') /\ (Settled(seen) => Settled(c'))
  BY <1>9, <1>11, ReadKeeps
<1>13. Onward(c, c') /\ NoNewPost(c, c')
  <2>1. c'.run = shown.run
    BY <1>10, <1>11 DEF ReadOnly, ButRead
  <2> QED BY <1>4, <1>6, <1>9, <1>12, <2>1 DEF Onward, NoNewPost, Over
<1> QED BY <1>1, <1>6, <1>9, <1>12, <1>13, StoreStep DEF Good

\* A failure is tried again or shown.
LEMMA FailReadKeeps ==
  ASSUME RunViewInv, NEW recoverable \in BOOLEAN, FailRead(recoverable)
  PROVE  RunViewInv' /\ StepOK
<1>1. /\ c \in Stores /\ c.read.phase \in {"sent", "answer"} /\ ReadFine(c) /\ ~Deciding(c)
      /\ UNCHANGED <<srv, wire, late, known, forgotten>>
  BY NoReadBeside DEF FailRead
<1> DEFINE read == [c.read EXCEPT !.phase = "wait", !.tries = @ + 1]
<1> DEFINE failed == TRUE
<1> DEFINE tried == recoverable /\ c.read.tries < MaxTries /\ HasBudget(c)
<1>2. failed \in BOOLEAN /\ failed
  OBVIOUS
<1>3. c' = EndRead(c, failed) \/ c' = [c EXCEPT !.read = read]
  <2>1. CASE tried
    <3>1. c' = [c EXCEPT !.read.phase = "wait", !.read.tries = @ + 1]
      BY <2>1, Zenon DEF FailRead
    <3>2. [c EXCEPT !.read.phase = "wait", !.read.tries = @ + 1] = [c EXCEPT !.read = read]
      OBVIOUS
    <3> QED BY <3>1, <3>2
  <2>2. CASE ~tried
    BY <2>2, Zenon DEF FailRead
  <2> QED BY <2>1, <2>2
<1> HIDE DEF failed
<1>4. CASE c' = EndRead(c, failed)
  <2>1. ReadOnly(c, c')
    BY <1>1, <1>2, <1>4, EndReads
  <2> QED BY <1>1, <2>1, ReadStep
<1>5. CASE c' = [c EXCEPT !.read = read]
  <2>1. c.read \in Reads /\ c.read.tries + 1 \in Nat
    BY <1>1, Fields, Parts
  <2>2. /\ read \in Reads /\ read.phase = "wait" /\ read.ans = c.read.ans
        /\ read.same = c.read.same /\ read.fresh = c.read.fresh /\ read.auto = c.read.auto
    BY <2>1 DEF Reads
  <2> HIDE DEF read
  <2>3. c' \in Stores
    BY <1>1, <1>5, <2>2 DEF Stores
  <2>4. c'.read = read /\ c'.problem = c.problem /\ ButRead(c, c')
    BY <1>1, <1>5 DEF Stores, ButRead, SameWrite
  <2>5. ReadOnly(c, c')
    BY <1>1, <2>2, <2>3, <2>4 DEF ReadOnly, ReadFine, Asking
  <2> QED BY <1>1, <2>5, ReadStep
<1> QED BY <1>3, <1>4, <1>5

\* The timer reads by itself.
LEMMA UsageTimerKeeps ==
  ASSUME RunViewInv, UsageTimer
  PROVE  RunViewInv' /\ StepOK
<1>1. PICK no \in BOOLEAN, yes \in BOOLEAN : ~no /\ yes
  OBVIOUS
<1>2. /\ c \in Stores /\ ReadFine(c) /\ c.verified /\ ~Deciding(c)
      /\ UNCHANGED <<srv, wire, late, known, forgotten>>
      /\ c' = ReadSnapshot(c, no, yes)
  BY <1>1, NoReadBeside DEF UsageTimer, Eligible
<1>3. ReadOnly(c, c')
  BY <1>2, SnapshotReads
<1> QED BY <1>2, <1>3, ReadStep

\* The user wants the usage verified, with a new round.
LEMMA ContinueUsageKeeps ==
  ASSUME RunViewInv, ContinueUsage
  PROVE  RunViewInv' /\ StepOK
<1> DEFINE t == [c EXCEPT !.round = NoRound]
<1>1. PICK no \in BOOLEAN : ~no
  OBVIOUS
<1>2. /\ c \in Stores /\ ReadFine(c) /\ c.verified /\ ~Deciding(c)
      /\ UNCHANGED <<srv, wire, late, known, forgotten>>
      /\ c' = ReadSnapshot(t, no, no)
  BY <1>1, NoReadBeside DEF ContinueUsage, Eligible
<1>3. t \in Stores
  BY <1>2 DEF Stores, Rounds, NoRound
<1>4. t.read = c.read /\ t.problem = c.problem /\ t.verified = c.verified /\ ButRead(c, t)
  BY <1>2 DEF Stores, ButRead, SameWrite
<1> HIDE DEF t
<1>5. ReadFine(t) /\ ReadOnly(c, t)
  BY <1>2, <1>3, <1>4 DEF ReadFine, ReadOnly, Asking
<1>6. ReadOnly(t, c')
  BY <1>1, <1>2, <1>3, <1>5, SnapshotReads
<1>7. ReadOnly(c, c')
  BY <1>5, <1>6, ReadTwice
<1> QED BY <1>2, <1>7, ReadStep

\* A cancel in doubt is verified by a read.
LEMMA VerifyReads ==
  ASSUME NEW s \in Stores, ReadFine(s), NEW r, r = VerifyCancellation(s)
  PROVE  ReadOnly(s, r)
<1>1. CASE r = s
  BY <1>1 DEF ReadOnly, ButRead, SameWrite
<1>2. CASE r # s
  <2> DEFINE write == [s.write EXCEPT !.verifying = TRUE]
  <2> DEFINE t == SetWrite(s, write)
  <2> DEFINE u == [t EXCEPT !.writing = "verify"]
  <2>1. PICK no \in BOOLEAN : ~no
    OBVIOUS
  <2>2. r = ReadSnapshot(u, no, no) /\ s.write.kind = "cancel"
    BY <1>2, <2>1 DEF VerifyCancellation
  <2>3. s.write \in Writes
    BY Fields
  <2>4. /\ write \in Writes /\ write.kind = s.write.kind /\ write.phase = s.write.phase
        /\ write.verified = s.write.verified
    BY <2>3 DEF Writes
  <2> HIDE DEF write
  <2>5. /\ t \in Stores /\ t.write = write /\ ~t.read.same
        /\ t.read.phase = s.read.phase /\ t.read.ans = s.read.ans /\ t.read.stale = s.read.stale
        /\ t.read.auto = s.read.auto
        /\ t.run = s.run /\ t.verified = s.verified /\ t.obs = s.obs /\ t.attempt = s.attempt
        /\ t.appr = s.appr /\ t.decided = s.decided /\ t.backup = s.backup /\ t.post = s.post
        /\ t.problem = s.problem
    BY <2>4, SetWriteIs
  <2> HIDE DEF t
  <2>6. u \in Stores
    BY <2>5 DEF Stores, Writings
  <2>7. /\ u.write = t.write /\ u.read = t.read
        /\ u.run = t.run /\ u.verified = t.verified /\ u.obs = t.obs /\ u.attempt = t.attempt
        /\ u.appr = t.appr /\ u.decided = t.decided /\ u.backup = t.backup /\ u.post = t.post
        /\ u.problem = t.problem
    BY <2>5 DEF Stores
  <2> HIDE DEF u
  <2>8. ButRead(s, u)
    BY <2>2, <2>4, <2>5, <2>7 DEF ButRead, SameWrite
  <2>9. ReadFine(u) /\ ReadOnly(s, u)
    BY <2>5, <2>6, <2>7, <2>8 DEF ReadFine, ReadOnly, Asking
  <2>10. ReadOnly(u, r)
    BY <2>1, <2>2, <2>6, <2>9, SnapshotReads
  <2> QED BY <2>9, <2>10, ReadTwice
<1> QED BY <1>1, <1>2

\* The user asks for the status.
LEMMA QueryStatusKeeps ==
  ASSUME RunViewInv, QueryStatus
  PROVE  RunViewInv' /\ StepOK
<1>1. PICK no \in BOOLEAN : ~no
  OBVIOUS
<1>2. /\ c \in Stores /\ ReadFine(c)
      /\ UNCHANGED <<srv, wire, late, known, forgotten>>
      /\ c' = IF c.write.phase = "unknown" THEN VerifyCancellation(c)
              ELSE IF c.recovering \/ c.attempt.kind # "none" THEN c
              ELSE ReadSnapshot(c, no, no)
  BY <1>1, NoReadBeside DEF QueryStatus
<1>3. CASE c' = VerifyCancellation(c) /\ c.write.phase = "unknown"
  <2>1. ReadOnly(c, c') /\ ~Deciding(c)
    BY <1>2, <1>3, VerifyReads DEF Deciding, Unaccepted
  <2> QED BY <1>2, <2>1, ReadStep
<1>4. CASE c' = c
  <2>1. ReadOnly(c, c') /\ (Deciding(c) => c'.read.phase = "none")
    BY <1>2, <1>4 DEF ReadOnly, ButRead, SameWrite, RunViewInv, Good, Fair, DecidingOK
  <2> QED BY <1>2, <2>1, ReadStep
<1>5. CASE c' = ReadSnapshot(c, no, no) /\ c.attempt.kind = "none"
  <2>1. ReadOnly(c, c') /\ ~Deciding(c)
    BY <1>1, <1>2, <1>5, SnapshotReads DEF Deciding, Unaccepted
  <2> QED BY <1>2, <2>1, ReadStep
<1> QED BY <1>2, <1>3, <1>4, <1>5

-----------------------------------------------------------------------------
(* Observing the Run. *)

\* What is published disturbs nothing.
LEMMA PublishKeeps ==
  ASSUME NEW s, NEW v, NEW w, NEW l, NEW k, NEW g, Fair(s, v, w, l, k, g),
         NEW r, r = Publish(s)
  PROVE  /\ Fair(r, v, w, l, k, g) /\ (Deciding(r) <=> Deciding(s)) /\ ReadOnly(s, r)
         /\ Onward(s, r) /\ NoNewPost(s, r) /\ (Settled(s) => Settled(r))
<1>1. s \in Stores /\ ReadFine(s) /\ (Deciding(s) => s.read.phase = "none")
  BY DEF Fair, TypesOK, DecidingOK
<1>2. ReadOnly(s, r) /\ (s.read.phase = "none" => r.read = s.read)
  BY <1>1, PublishReads
<1> QED BY <1>1, <1>2, ReadKeeps

\* What is left of the invariant when a stream ends, of whatever kind.
Calm(s, v, l, k, g) ==
  /\ s \in Stores /\ v \in Servers /\ l \in SUBSET Lates /\ k \in BOOLEAN /\ g \in BOOLEAN
  /\ TruthOK(s, v) /\ UsageOK(s, v) /\ ReadFine(s) /\ WriteOK(s, k) /\ LateOK(s, v, l, g)
  /\ ~Unaccepted(s)

\* So it is between two streams.
LEMMA FairCalm ==
  ASSUME NEW s, NEW v, NEW w, NEW l, NEW k, NEW g, Fair(s, v, w, l, k, g),
         s.attempt.kind # "post" \/ ~Unaccepted(s)
  PROVE  Calm(s, v, l, k, g)
BY DEF Fair, TypesOK, Calm, WriteOK, Unaccepted

\* What becomes of a store that begins or gives up an observation.
Observing(s, r) ==
  /\ r \in Stores
  /\ r.run.status = s.run.status /\ r.run.useAt <= s.run.useAt
  /\ r.run.pending = "null" \/ r.run = s.run
  /\ r.attempt.kind \in {"get", "none"} /\ r.attempt.pause = -1 /\ ~r.attempt.meta
  /\ IF r.attempt.kind = "get" THEN r.obs = "connecting" ELSE r.obs \in {"wait", "failed"}
  /\ r.decided = s.decided /\ r.backup = s.backup /\ r.problem = s.problem
  /\ r.appr.pause = s.appr.pause /\ (r.appr.verified => s.appr.verified)
  /\ r.write.kind = s.write.kind /\ r.write.phase = s.write.phase
  /\ r.write.verified = s.write.verified /\ (s.write = NoWrite => r.write = s.write)
  /\ r.post.kind = s.post.kind /\ r.post.at = s.post.at /\ (r.post.kind = "none" => r.post = s.post)
  /\ r.read.phase = s.read.phase /\ r.read.ans = s.read.ans /\ r.read.auto = s.read.auto
  /\ r.read.same = s.read.same /\ r.read.fresh = s.read.fresh
  /\ StaleUsage(s.read.stale) => StaleUsage(r.read.stale)

\* Then nothing follows the Run for a moment, and nothing is disturbed.
LEMMA ObservingKeeps ==
  ASSUME NEW s, NEW v, NEW l, NEW k, NEW g, Calm(s, v, l, k, g), NEW r, Observing(s, r)
  PROVE  /\ Fair(r, v, <<>>, l, k, g) /\ Settled(r) /\ ~Deciding(r)
         /\ Onward(s, r) /\ NoNewPost(s, r)
<1> DEFINE w == <<>>
<1> USE DEF Observing
<1>0. /\ w \in Seq(Frames) /\ Len(w) = 0
      /\ s.run.useAt \in Nat /\ r.run.useAt \in Nat /\ v.stage \in Nat
      /\ s \in Stores /\ s.read.ans.at \in Nat
  BY Parts, RunViewConstants DEF Calm, Servers, Stages
<1>1. TypesOK(r, v, w, l, k, g)
  BY <1>0 DEF Calm, TypesOK
<1>2. TruthOK(r, v)
  BY DEF Calm, TruthOK, Over
<1>3. UsageOK(r, v)
  BY <1>0 DEF Calm, UsageOK
<1>4. ReadFine(r) /\ WriteOK(r, k)
  BY DEF Calm, ReadFine, WriteOK, Unaccepted
<1>5. ~Deciding(r) /\ DecidingOK(r, v, l)
  BY DEF Deciding, DecidingOK, Unaccepted
<1>6. ObsOK(r, w)
  BY DEF ObsOK
<1>7. WireOK(r, v, w, l, g)
  BY <1>0 DEF WireOK
<1>8. StreamOK(r, v, w, l, g)
  BY DEF StreamOK
<1>9. LateOK(r, v, l, g)
  BY DEF Calm, LateOK, Over, CancelDoubt, Backed
<1>10. ClosedOK(r, v, l, g)
  BY DEF ClosedOK
<1>11. Settled(r)
  BY DEF Settled, Unaccepted
<1>12. Onward(s, r) /\ NoNewPost(s, r)
  BY <1>0 DEF Onward, NoNewPost, Over
<1> HIDE DEF w
<1>13. Fair(r, v, w, l, k, g)
  BY <1>1, <1>2, <1>3, <1>4, <1>5, <1>6, <1>7, <1>8, <1>9, <1>10 DEF Fair
<1> QED BY <1>5, <1>11, <1>12, <1>13 DEF w

\* A GET observation begins.
LEMMA ConnectIs ==
  ASSUME NEW s \in Stores, NEW r, r = Connect(s)
  PROVE  Observing(s, r) /\ r.obs = "connecting"
<1> DEFINE b == BeginObservation(s)
<1> DEFINE attempt == [NoAttempt EXCEPT !.kind = "get"]
<1>1. r = [b EXCEPT !.obs = "connecting", !.recovering = TRUE, !.attempt = attempt]
  BY DEF Connect
<1>2. NoAttempt \in Attempts /\ NoAttempt.pause = -1 /\ ~NoAttempt.meta
  BY DEF Attempts, NoAttempt, Pauses
<1>3. attempt \in Attempts /\ attempt.kind = "get" /\ attempt.pause = -1 /\ ~attempt.meta
  BY <1>2 DEF Attempts
<1> HIDE DEF attempt
<1>4. /\ b \in Stores /\ SameButRun(s, b) /\ b.run.status = s.run.status
      /\ b.run.pending = "null" /\ b.run.useAt = 0
      /\ StaleUsage(s.read.stale) => StaleUsage(b.read.stale)
  BY BeginIs
<1> HIDE DEF b
<1>5. r \in Stores
  BY <1>1, <1>3, <1>4 DEF Stores, Observations
<1>6. /\ r.obs = "connecting" /\ r.attempt = attempt /\ r.run = b.run /\ r.decided = b.decided
      /\ r.backup = b.backup /\ r.problem = b.problem /\ r.appr = b.appr /\ r.write = b.write
      /\ r.post = b.post /\ r.read = b.read
  BY <1>1, <1>4 DEF Stores
<1>7. s.run.useAt \in Nat
  BY Parts
<1> QED BY <1>3, <1>4, <1>5, <1>6, <1>7 DEF Observing, SameButRun

\* An observation waits, or gives up.
LEMMA RecoverIs ==
  ASSUME NEW s \in Stores, NEW recoverable, NEW r, r = Recover(s, recoverable)
  PROVE  Observing(s, r)
<1> DEFINE again == recoverable /\ s.tries < MaxTries
<1> DEFINE obs == IF again THEN "wait" ELSE "failed"
<1> DEFINE appr == [s.appr EXCEPT !.verified = FALSE]
<1> DEFINE write == [s.write EXCEPT !.verifying = @ /\ (again \/ s.write.kind # "approval")]
<1>1. r = [s EXCEPT !.attempt = NoAttempt, !.obs = obs, !.recovering = again,
                    !.verified = FALSE, !.appr = appr, !.write = write]
  BY DEF Recover
<1>2. s.appr \in Apprs /\ s.write \in Writes /\ s.run.useAt \in Nat
  BY Fields, Parts
<1>3. appr \in Apprs /\ appr.pause = s.appr.pause /\ (appr.verified => s.appr.verified)
  BY <1>2 DEF Apprs
<1>4. /\ write \in Writes /\ write.kind = s.write.kind /\ write.phase = s.write.phase
      /\ write.verified = s.write.verified
  BY <1>2 DEF Writes
<1>5. again \in BOOLEAN /\ obs \in {"wait", "failed"}
  OBVIOUS
<1>6. s.write = NoWrite => write = s.write
  <2> HIDE DEF again
  <2> HAVE s.write = NoWrite
  <2>1. (NoWrite.verifying /\ (again \/ s.write.kind # "approval")) = NoWrite.verifying
    BY DEF NoWrite
  <2> QED BY <2>1 DEF NoWrite
<1>7. NoAttempt \in Attempts /\ NoAttempt.pause = -1 /\ NoAttempt.kind = "none" /\ ~NoAttempt.meta
  BY DEF Attempts, NoAttempt, Pauses
<1> HIDE DEF again, obs, appr, write
<1>8. r \in Stores
  BY <1>1, <1>3, <1>4, <1>5, <1>7 DEF Stores, Observations
<1>9. /\ r.obs = obs /\ r.attempt = NoAttempt /\ r.run = s.run /\ r.decided = s.decided
      /\ r.backup = s.backup /\ r.problem = s.problem /\ r.appr = appr /\ r.write = write
      /\ r.post = s.post /\ r.read = s.read
  BY <1>1 DEF Stores
<1> QED BY <1>2, <1>3, <1>4, <1>5, <1>6, <1>7, <1>8, <1>9 DEF Observing
\* The Run is observed, at once or after a failure.
LEMMA ObserveIs ==
  ASSUME NEW s \in Stores, NEW failed \in BOOLEAN, NEW r, r = ObserveRun(s, failed)
  PROVE  Observing(s, r)
<1> DEFINE t == [s EXCEPT !.tries = 0]
<1> DEFINE yes == TRUE
<1>1. r = Recover(t, yes) \/ r = Connect(t)
  BY Zenon DEF ObserveRun
<1> HIDE DEF yes
<1>2. t \in Stores
  BY DEF Stores
<1>3. /\ t.run = s.run /\ t.decided = s.decided
      /\ t.backup = s.backup /\ t.problem = s.problem /\ t.appr = s.appr /\ t.write = s.write
      /\ t.post = s.post /\ t.read = s.read
  BY DEF Stores
<1> HIDE DEF t
<1>4. Observing(t, r)
  BY <1>1, <1>2, RecoverIs, ConnectIs
<1> QED BY <1>3, <1>4 DEF Observing

\* An observation begins again.
LEMMA ReconnectedKeeps ==
  ASSUME RunViewInv, Reconnected
  PROVE  RunViewInv' /\ StepOK
<1> DEFINE t == [c EXCEPT !.tries = @ + 1]
<1> DEFINE o == Connect(t)
<1>1. /\ c \in Stores /\ c.obs = "wait" /\ UNCHANGED <<srv, wire, late, known, forgotten>>
      /\ c' = Publish(o)
  BY NoReadBeside DEF Reconnected
<1>2. Fair(c, srv, wire, late, known, forgotten) /\ Settled(c)
  BY DEF RunViewInv, Good
<1>3. wire = <<>> /\ c.attempt.kind = "none"
  BY <1>1, <1>2, Parts DEF Fair, ObsOK
<1>4. Calm(c, srv, late, known, forgotten)
  BY <1>2, <1>3, FairCalm
<1>5. c.tries + 1 \in Nat
  BY <1>1, Fields
<1>6. t \in Stores
  BY <1>1, <1>5 DEF Stores
<1>7. /\ t.run = c.run /\ t.decided = c.decided
      /\ t.backup = c.backup /\ t.problem = c.problem /\ t.appr = c.appr /\ t.write = c.write
      /\ t.post = c.post /\ t.read = c.read
  BY <1>1 DEF Stores
<1> HIDE DEF t
<1>8. Observing(t, o)
  BY <1>6, ConnectIs
<1> HIDE DEF o
<1>9. Observing(c, o)
  BY <1>7, <1>8 DEF Observing
<1>10. /\ Fair(o, srv, wire, late, known, forgotten) /\ Settled(o)
       /\ Onward(c, o) /\ NoNewPost(c, o)
  BY <1>3, <1>4, <1>9, ObservingKeeps
<1>11. /\ Fair(c', srv, wire, late, known, forgotten) /\ Settled(c')
       /\ ReadOnly(o, c') /\ NoNewPost(o, c') /\ Onward(o, c')
  BY <1>1, <1>10, PublishKeeps
<1>12. Onward(c, c') /\ NoNewPost(c, c')
  BY <1>10, <1>11 DEF Onward, NoNewPost, ReadOnly, ButRead, Over
<1> QED BY <1>1, <1>11, <1>12, StoreStep DEF Good

\* The budget of retries is given back.
LEMMA StableKeeps ==
  ASSUME RunViewInv, Stable
  PROVE  RunViewInv' /\ StepOK
<1>1. /\ c \in Stores /\ ReadFine(c) /\ UNCHANGED <<srv, wire, late, known, forgotten>>
      /\ c' = [c EXCEPT !.tries = 0]
  BY NoReadBeside DEF Stable
<1>2. c' \in Stores
  BY <1>1 DEF Stores
<1>3. /\ c'.problem = c.problem /\ c'.read = c.read /\ ButRead(c, c')
  BY <1>1 DEF Stores, ButRead, SameWrite
<1>4. ReadOnly(c, c')
  BY <1>1, <1>2, <1>3 DEF ReadOnly, ReadFine, Asking
<1>5. Deciding(c) => c'.read.phase = "none"
  BY <1>3 DEF RunViewInv, Good, Fair, DecidingOK
<1> QED BY <1>1, <1>4, <1>5, ReadStep

-----------------------------------------------------------------------------
(* Frames. *)

\* One after the other.
LEMMA Joined ==
  ASSUME NEW S, NEW w \in Seq(S), NEW u \in Seq(S), NEW x, x = w \o u
  PROVE  /\ x \in Seq(S) /\ Len(x) = Len(w) + Len(u) /\ Len(w) \in Nat /\ Len(u) \in Nat
         /\ \A i \in 1..Len(w) : i \in 1..Len(x) /\ x[i] = w[i]
         /\ \A i \in 1..Len(u) : Len(w) + i \in 1..Len(x) /\ x[Len(w) + i] = u[i]
         /\ \A i \in 1..Len(x) : i \in 1..Len(w)
            \/ (i - Len(w) \in 1..Len(u) /\ x[i] = u[i - Len(w)])
OBVIOUS

\* Frames of the kinds there are.
LEMMA FrameIs ==
  /\ \A status \in Statuses, pending \in {"none", "yes", "no"}, at \in Nat :
       /\ Meta(status, pending, at) \in Frames
       /\ Meta(status, pending, at).kind = "meta" /\ Meta(status, pending, at).status = status
       /\ Meta(status, pending, at).pending = pending /\ Meta(status, pending, at).at = at
  /\ \A at \in Nat : Required(at) \in Frames /\ Required(at).kind = "required"
     /\ Required(at).at = at
  /\ \A at \in Nat : Resolved(at) \in Frames /\ Resolved(at).kind = "resolved"
     /\ Resolved(at).at = at
  /\ End \in Frames /\ End.kind = "eof"
BY DEF Meta, Required, Resolved, End, Frames, Told, Asked
\* Short sequences, one after the other.
LEMMA Tuple2 ==
  ASSUME NEW a, NEW b
  PROVE  <<a>> \o <<b>> = <<a, b>>
<1> DEFINE S == {a, b}
<1> DEFINE x == <<a>> \o <<b>>
<1> DEFINE y == <<a, b>>
<1>1. x \in Seq(S) /\ Len(x) = 2 /\ x[1] = a /\ x[2] = b
  OBVIOUS
<1>2. y \in Seq(S) /\ Len(y) = 2 /\ y[1] = a /\ y[2] = b
  OBVIOUS
<1> HIDE DEF x, y
<1>3. x = y
  BY <1>1, <1>2, SeqEqual
<1> QED BY <1>3 DEF x, y

\* With three elements.
LEMMA Tuple3 ==
  ASSUME NEW a, NEW b, NEW d
  PROVE  <<a, b>> \o <<d>> = <<a, b, d>>
<1> DEFINE S == {a, b, d}
<1> DEFINE x == <<a, b>> \o <<d>>
<1> DEFINE y == <<a, b, d>>
<1>1. x \in Seq(S) /\ Len(x) = 3 /\ x[1] = a /\ x[2] = b /\ x[3] = d
  OBVIOUS
<1>2. y \in Seq(S) /\ Len(y) = 3 /\ y[1] = a /\ y[2] = b /\ y[3] = d
  OBVIOUS
<1> HIDE DEF x, y
<1>3. x = y
  BY <1>1, <1>2, SeqEqual
<1> QED BY <1>3 DEF x, y

\* With four.
LEMMA Tuple4 ==
  ASSUME NEW a, NEW b, NEW d, NEW e
  PROVE  <<a, b, d>> \o <<e>> = <<a, b, d, e>>
<1> DEFINE S == {a, b, d, e}
<1> DEFINE x == <<a, b, d>> \o <<e>>
<1> DEFINE y == <<a, b, d, e>>
<1>1. x \in Seq(S) /\ Len(x) = 4 /\ x[1] = a /\ x[2] = b /\ x[3] = d /\ x[4] = e
  OBVIOUS
<1>2. y \in Seq(S) /\ Len(y) = 4 /\ y[1] = a /\ y[2] = b /\ y[3] = d /\ y[4] = e
  OBVIOUS
<1> HIDE DEF x, y
<1>3. x = y
  BY <1>1, <1>2, SeqEqual
<1> QED BY <1>3 DEF x, y

\* What comes first.
LEMMA Heads ==
  ASSUME NEW S, NEW w \in Seq(S), Len(w) >= 1
  PROVE  w # <<>> /\ Head(w) = w[1]
OBVIOUS

\* What a GET replays: the metadata, the decision before, the request that waits, and the end.
ReplayOf(v, m, q, p, e) ==
  <<m>> \o (IF v.stage > 0 THEN <<q>> ELSE <<>>)
        \o (IF v.status = "interrupted" THEN <<p>> ELSE <<>>)
        \o (IF Ended(v.status) THEN <<e>> ELSE <<>>)
\* Its shape.
ReplayShape(v, m, q, p, e, w) ==
  /\ Len(w) \in 1..4 /\ w[1] = m /\ w # <<>> /\ Head(w) = m
  /\ \A i \in 1..Len(w) : \/ w[i] = m \/ (v.stage > 0 /\ w[i] = q)
                          \/ (v.status = "interrupted" /\ w[i] = p)
                          \/ (Ended(v.status) /\ w[i] = e)
  /\ \A i \in 1..Len(w) : w[i].kind = "eof" => i = Len(w)
  /\ \A i, j \in 1..Len(w) : i < j /\ w[i].kind = "required" => w[j].kind = "eof"
  /\ Ended(v.status) => \E i \in 1..Len(w) : w[i] = e
  /\ v.status = "interrupted" => \E i \in 1..Len(w) : w[i] = p

\* It has this shape.
LEMMA Replayed ==
  ASSUME NEW v \in Servers, v.stage \in Nat,
         NEW m, NEW q, NEW p, NEW e, NEW S, m \in S, v.stage > 0 => q \in S, p \in S, e \in S,
         m.kind = "meta", q.kind = "resolved", p.kind = "required", e.kind = "eof",
         NEW w, w = ReplayOf(v, m, q, p, e)
  PROVE  w \in Seq(S) /\ ReplayShape(v, m, q, p, e, w)
<1> DEFINE T == {m, q, p, e}
<1>0. m \in T /\ q \in T /\ p \in T /\ e \in T
  OBVIOUS
<1> HIDE DEF T
<1>8. /\ <<m>> \o <<>> = <<m>> /\ <<m, q>> \o <<>> = <<m, q>>
      /\ <<m>> \o <<q>> = <<m, q>> /\ <<m>> \o <<p>> = <<m, p>> /\ <<m>> \o <<e>> = <<m, e>>
      /\ <<m, q>> \o <<p>> = <<m, q, p>> /\ <<m, q>> \o <<e>> = <<m, q, e>>
      /\ <<m, p>> \o <<e>> = <<m, p, e>> /\ <<m, q, p>> \o <<e>> = <<m, q, p, e>>
  <2>1. <<m>> \in Seq(T) /\ <<m, q>> \in Seq(T)
    BY <1>0
  <2>2. <<m>> \o <<>> = <<m>>
    BY <2>1, ConcatEmptySeq, Zenon
  <2>3. <<m, q>> \o <<>> = <<m, q>>
    BY <2>1, ConcatEmptySeq, Zenon
  <2>4. <<m>> \o <<q>> = <<m, q>> /\ <<m>> \o <<p>> = <<m, p>> /\ <<m>> \o <<e>> = <<m, e>>
    BY Tuple2, Zenon
  <2>5. <<m, q>> \o <<p>> = <<m, q, p>> /\ <<m, q>> \o <<e>> = <<m, q, e>>
    BY Tuple3, Zenon
  <2>6. <<m, p>> \o <<e>> = <<m, p, e>>
    BY Tuple3, Zenon
  <2>7. <<m, q, p>> \o <<e>> = <<m, q, p, e>>
    BY Tuple4, Zenon
  <2> QED BY <2>2, <2>3, <2>4, <2>5, <2>6, <2>7, Zenon
<1>1. CASE v.stage > 0 /\ v.status = "interrupted"
  <2>1. w = <<m>> \o <<q>> \o <<p>> \o <<e>>
    BY <1>1 DEF Ended, ReplayOf
  <2>2. w = <<m, q, p, e>>
    BY <2>1, <1>8, Zenon
  <2>3. w \in Seq(S)
    BY <1>1, <2>2
  <2>4. Len(w) = 4 /\ w[1] = m /\ w[2] = q /\ w[3] = p /\ w[4] = e
    BY <2>2
  <2>5. w # <<>> /\ Head(w) = m
    <3>1. Len(w) >= 1
      BY <2>4
    <3>2. w # <<>> /\ Head(w) = w[1]
      BY <2>3, <3>1, Heads, Zenon
    <3> QED BY <2>4, <3>2
  <2>6. \A i \in 1..4 : i = 1 \/ i = 2 \/ i = 3 \/ i = 4
    OBVIOUS
  <2>7. \A i \in 1..Len(w) : \/ w[i] = m \/ (v.stage > 0 /\ w[i] = q)
                              \/ (v.status = "interrupted" /\ w[i] = p)
                              \/ (Ended(v.status) /\ w[i] = e)
    BY <1>1, <2>4, <2>6 DEF Ended
  <2>8. \A i \in 1..Len(w) : w[i].kind = "eof" => i = Len(w)
    BY <2>4, <2>6
  <2>9. \A i, j \in 1..Len(w) : i < j /\ w[i].kind = "required" => w[j].kind = "eof"
    BY <2>4, <2>6
  <2>10. /\ Ended(v.status) => \E i \in 1..Len(w) : w[i] = e
         /\ v.status = "interrupted" => \E i \in 1..Len(w) : w[i] = p
    BY <1>1, <2>4 DEF Ended
  <2> QED BY <2>3, <2>4, <2>5, <2>7, <2>8, <2>9, <2>10 DEF ReplayShape
<1>2. CASE v.stage > 0 /\ v.status = "done"
  <2>1. w = <<m>> \o <<q>> \o <<>> \o <<e>>
    BY <1>2 DEF Ended, ReplayOf
  <2>2. w = <<m, q, e>>
    BY <2>1, <1>8, Zenon
  <2>3. w \in Seq(S)
    BY <1>2, <2>2
  <2>4. Len(w) = 3 /\ w[1] = m /\ w[2] = q /\ w[3] = e
    BY <2>2
  <2>5. w # <<>> /\ Head(w) = m
    <3>1. Len(w) >= 1
      BY <2>4
    <3>2. w # <<>> /\ Head(w) = w[1]
      BY <2>3, <3>1, Heads, Zenon
    <3> QED BY <2>4, <3>2
  <2>6. \A i \in 1..3 : i = 1 \/ i = 2 \/ i = 3
    OBVIOUS
  <2>7. \A i \in 1..Len(w) : \/ w[i] = m \/ (v.stage > 0 /\ w[i] = q)
                              \/ (v.status = "interrupted" /\ w[i] = p)
                              \/ (Ended(v.status) /\ w[i] = e)
    BY <1>2, <2>4, <2>6 DEF Ended
  <2>8. \A i \in 1..Len(w) : w[i].kind = "eof" => i = Len(w)
    BY <2>4, <2>6
  <2>9. \A i, j \in 1..Len(w) : i < j /\ w[i].kind = "required" => w[j].kind = "eof"
    BY <2>4, <2>6
  <2>10. /\ Ended(v.status) => \E i \in 1..Len(w) : w[i] = e
         /\ v.status = "interrupted" => \E i \in 1..Len(w) : w[i] = p
    BY <1>2, <2>4 DEF Ended
  <2> QED BY <2>3, <2>4, <2>5, <2>7, <2>8, <2>9, <2>10 DEF ReplayShape
<1>3. CASE v.stage > 0 /\ v.status = "running"
  <2>1. w = <<m>> \o <<q>> \o <<>> \o <<>>
    BY <1>3 DEF Ended, ReplayOf
  <2>2. w = <<m, q>>
    BY <2>1, <1>8, Zenon
  <2>3. w \in Seq(S)
    BY <1>3, <2>2
  <2>4. Len(w) = 2 /\ w[1] = m /\ w[2] = q
    BY <2>2
  <2>5. w # <<>> /\ Head(w) = m
    <3>1. Len(w) >= 1
      BY <2>4
    <3>2. w # <<>> /\ Head(w) = w[1]
      BY <2>3, <3>1, Heads, Zenon
    <3> QED BY <2>4, <3>2
  <2>6. \A i \in 1..2 : i = 1 \/ i = 2
    OBVIOUS
  <2>7. \A i \in 1..Len(w) : \/ w[i] = m \/ (v.stage > 0 /\ w[i] = q)
                              \/ (v.status = "interrupted" /\ w[i] = p)
                              \/ (Ended(v.status) /\ w[i] = e)
    BY <1>3, <2>4, <2>6 DEF Ended
  <2>8. \A i \in 1..Len(w) : w[i].kind = "eof" => i = Len(w)
    BY <2>4, <2>6
  <2>9. \A i, j \in 1..Len(w) : i < j /\ w[i].kind = "required" => w[j].kind = "eof"
    BY <2>4, <2>6
  <2>10. /\ Ended(v.status) => \E i \in 1..Len(w) : w[i] = e
         /\ v.status = "interrupted" => \E i \in 1..Len(w) : w[i] = p
    BY <1>3, <2>4 DEF Ended
  <2> QED BY <2>3, <2>4, <2>5, <2>7, <2>8, <2>9, <2>10 DEF ReplayShape
<1>4. CASE ~(v.stage > 0) /\ v.status = "interrupted"
  <2>1. w = <<m>> \o <<>> \o <<p>> \o <<e>>
    BY <1>4 DEF Ended, ReplayOf
  <2>2. w = <<m, p, e>>
    BY <2>1, <1>8, Zenon
  <2>3. w \in Seq(S)
    BY <1>4, <2>2
  <2>4. Len(w) = 3 /\ w[1] = m /\ w[2] = p /\ w[3] = e
    BY <2>2
  <2>5. w # <<>> /\ Head(w) = m
    <3>1. Len(w) >= 1
      BY <2>4
    <3>2. w # <<>> /\ Head(w) = w[1]
      BY <2>3, <3>1, Heads, Zenon
    <3> QED BY <2>4, <3>2
  <2>6. \A i \in 1..3 : i = 1 \/ i = 2 \/ i = 3
    OBVIOUS
  <2>7. \A i \in 1..Len(w) : \/ w[i] = m \/ (v.stage > 0 /\ w[i] = q)
                              \/ (v.status = "interrupted" /\ w[i] = p)
                              \/ (Ended(v.status) /\ w[i] = e)
    BY <1>4, <2>4, <2>6 DEF Ended
  <2>8. \A i \in 1..Len(w) : w[i].kind = "eof" => i = Len(w)
    BY <2>4, <2>6
  <2>9. \A i, j \in 1..Len(w) : i < j /\ w[i].kind = "required" => w[j].kind = "eof"
    BY <2>4, <2>6
  <2>10. /\ Ended(v.status) => \E i \in 1..Len(w) : w[i] = e
         /\ v.status = "interrupted" => \E i \in 1..Len(w) : w[i] = p
    BY <1>4, <2>4 DEF Ended
  <2> QED BY <2>3, <2>4, <2>5, <2>7, <2>8, <2>9, <2>10 DEF ReplayShape
<1>5. CASE ~(v.stage > 0) /\ v.status = "done"
  <2>1. w = <<m>> \o <<>> \o <<>> \o <<e>>
    BY <1>5 DEF Ended, ReplayOf
  <2>2. w = <<m, e>>
    BY <2>1, <1>8, Zenon
  <2>3. w \in Seq(S)
    BY <1>5, <2>2
  <2>4. Len(w) = 2 /\ w[1] = m /\ w[2] = e
    BY <2>2
  <2>5. w # <<>> /\ Head(w) = m
    <3>1. Len(w) >= 1
      BY <2>4
    <3>2. w # <<>> /\ Head(w) = w[1]
      BY <2>3, <3>1, Heads, Zenon
    <3> QED BY <2>4, <3>2
  <2>6. \A i \in 1..2 : i = 1 \/ i = 2
    OBVIOUS
  <2>7. \A i \in 1..Len(w) : \/ w[i] = m \/ (v.stage > 0 /\ w[i] = q)
                              \/ (v.status = "interrupted" /\ w[i] = p)
                              \/ (Ended(v.status) /\ w[i] = e)
    BY <1>5, <2>4, <2>6 DEF Ended
  <2>8. \A i \in 1..Len(w) : w[i].kind = "eof" => i = Len(w)
    BY <2>4, <2>6
  <2>9. \A i, j \in 1..Len(w) : i < j /\ w[i].kind = "required" => w[j].kind = "eof"
    BY <2>4, <2>6
  <2>10. /\ Ended(v.status) => \E i \in 1..Len(w) : w[i] = e
         /\ v.status = "interrupted" => \E i \in 1..Len(w) : w[i] = p
    BY <1>5, <2>4 DEF Ended
  <2> QED BY <2>3, <2>4, <2>5, <2>7, <2>8, <2>9, <2>10 DEF ReplayShape
<1>6. CASE ~(v.stage > 0) /\ v.status = "running"
  <2>1. w = <<m>> \o <<>> \o <<>> \o <<>>
    BY <1>6 DEF Ended, ReplayOf
  <2>2. w = <<m>>
    BY <2>1, <1>8, Zenon
  <2>3. w \in Seq(S)
    BY <1>6, <2>2
  <2>4. Len(w) = 1 /\ w[1] = m
    BY <2>2
  <2>5. w # <<>> /\ Head(w) = m
    <3>1. Len(w) >= 1
      BY <2>4
    <3>2. w # <<>> /\ Head(w) = w[1]
      BY <2>3, <3>1, Heads, Zenon
    <3> QED BY <2>4, <3>2
  <2>6. \A i \in 1..1 : i = 1
    OBVIOUS
  <2>7. \A i \in 1..Len(w) : \/ w[i] = m \/ (v.stage > 0 /\ w[i] = q)
                              \/ (v.status = "interrupted" /\ w[i] = p)
                              \/ (Ended(v.status) /\ w[i] = e)
    BY <1>6, <2>4, <2>6 DEF Ended
  <2>8. \A i \in 1..Len(w) : w[i].kind = "eof" => i = Len(w)
    BY <2>4, <2>6
  <2>9. \A i, j \in 1..Len(w) : i < j /\ w[i].kind = "required" => w[j].kind = "eof"
    BY <2>4, <2>6
  <2>10. /\ Ended(v.status) => \E i \in 1..Len(w) : w[i] = e
         /\ v.status = "interrupted" => \E i \in 1..Len(w) : w[i] = p
    BY <1>6, <2>4 DEF Ended
  <2> QED BY <2>3, <2>4, <2>5, <2>7, <2>8, <2>9, <2>10 DEF ReplayShape
<1>7. v.status \in {"running", "interrupted", "done"}
  BY DEF Servers, Statuses
<1> QED BY <1>1, <1>2, <1>3, <1>4, <1>5, <1>6, <1>7

\* The backend accepts the GET.
LEMMA OpenGetKeeps ==
  ASSUME RunViewInv, OpenGet
  PROVE  RunViewInv' /\ StepOK
<1> DEFINE m == Meta(srv.status, Pending(srv.settled), srv.stage)
<1> DEFINE q == Resolved(srv.stage - 1)
<1> DEFINE p == Required(srv.stage)
<1>1. /\ c \in Stores /\ srv \in Servers /\ ReadFine(c) /\ c.obs = "connecting"
      /\ c.attempt.kind = "get" /\ wire = <<>>
      /\ UNCHANGED <<srv, late, known, forgotten>>
      /\ c' = [c EXCEPT !.obs = "open"]
  BY NoReadBeside DEF OpenGet
<1>2. wire' = ReplayOf(srv, m, q, p, End)
  <2> DEFINE a == IF srv.stage > 0 THEN <<q>> ELSE <<>>
  <2> DEFINE b == IF srv.status = "interrupted" THEN <<p>> ELSE <<>>
  <2> DEFINE d == IF Ended(srv.status) THEN <<End>> ELSE <<>>
  <2>1. wire' = <<m>> \o (a \o b) \o d
    BY Zenon DEF OpenGet, Replay
  <2> DEFINE S == {m, q, p, End}
  <2> HIDE DEF m, q, p
  <2>2. a \in Seq(S) /\ b \in Seq(S) /\ d \in Seq(S) /\ <<m>> \in Seq(S)
    <3>1. <<>> \in Seq(S) /\ <<m>> \in Seq(S) /\ <<q>> \in Seq(S) /\ <<p>> \in Seq(S)
          /\ <<End>> \in Seq(S)
      OBVIOUS
    <3> QED BY <3>1
  <2> HIDE DEF a, b, d, S
  <2>3. <<m>> \o (a \o b) = (<<m>> \o a) \o b
    BY <2>2, ConcatAssociative
  <2> QED BY <2>1, <2>3, Zenon DEF a, b, d, ReplayOf
<1>3. /\ srv.stage \in Nat /\ srv.status \in Statuses
         /\ Pending(srv.settled) \in {"none", "yes", "no"}
  BY <1>1, RunViewConstants DEF Servers, Stages, Pending
<1>4. /\ m \in Frames /\ m.kind = "meta" /\ m.status = srv.status /\ m.at = srv.stage
      /\ p \in Frames /\ p.kind = "required" /\ p.at = srv.stage
      /\ End \in Frames /\ End.kind = "eof"
      /\ q.kind = "resolved" /\ q.at = srv.stage - 1
      /\ srv.stage > 0 => q \in Frames
  <2>1. srv.stage > 0 => srv.stage - 1 \in Nat
    BY <1>3
  <2>2. q.kind = "resolved" /\ q.at = srv.stage - 1
    BY DEF Resolved
  <2> QED BY <1>3, <2>1, <2>2, FrameIs
<1> HIDE DEF m, q, p
<1> DEFINE w == wire'
<1>5. /\ Len(w) \in 1..4 /\ w[1] = m /\ w # <<>> /\ Head(w) = m
      /\ w \in Seq(Frames)
      /\ \A i \in 1..Len(w) : \/ w[i] = m \/ (srv.stage > 0 /\ w[i] = q)
                              \/ (srv.status = "interrupted" /\ w[i] = p)
                              \/ (Ended(srv.status) /\ w[i] = End)
      /\ \A i \in 1..Len(w) : w[i].kind = "eof" => i = Len(w)
      /\ \A i, j \in 1..Len(w) : i < j /\ w[i].kind = "required" => w[j].kind = "eof"
      /\ Ended(srv.status) => \E i \in 1..Len(w) : w[i] = End
      /\ srv.status = "interrupted" => \E i \in 1..Len(w) : w[i] = p
  <2> HIDE DEF w
  <2>1. w = ReplayOf(srv, m, q, p, End)
    BY <1>2 DEF w
  <2>2. m \in Frames /\ (srv.stage > 0 => q \in Frames) /\ p \in Frames /\ End \in Frames
    BY <1>4
  <2>3. m.kind = "meta" /\ q.kind = "resolved" /\ p.kind = "required" /\ End.kind = "eof"
    BY <1>4
  <2>4. srv \in Servers /\ srv.stage \in Nat
    BY <1>1, <1>3
  <2>5. w \in Seq(Frames) /\ ReplayShape(srv, m, q, p, End, w)
    BY <2>1, <2>2, <2>3, <2>4, Replayed
  <2> QED BY <2>5 DEF ReplayShape
<1> HIDE DEF w
<1>6. Fair(c, srv, wire, late, known, forgotten) /\ Settled(c)
  BY DEF RunViewInv, Good
<1>7. c' \in Stores
  BY <1>1 DEF Stores, Observations
<1>8. /\ c'.obs = "open" /\ c'.read = c.read /\ c'.problem = c.problem /\ c'.run = c.run
      /\ c'.verified = c.verified /\ c'.attempt = c.attempt
      /\ c'.appr = c.appr /\ c'.decided = c.decided /\ c'.post = c.post
      /\ c'.write = c.write /\ c'.backup = c.backup
  BY <1>1 DEF Stores
<1>9. TypesOK(c', srv, w, late, known, forgotten)
  BY <1>5, <1>6, <1>7 DEF Fair, TypesOK
<1>10. TruthOK(c', srv) /\ UsageOK(c', srv) /\ ReadFine(c') /\ WriteOK(c', known)
  BY <1>6, <1>8 DEF Fair, TruthOK, UsageOK, Over, ReadFine, WriteOK, Unaccepted
<1>11. ~Deciding(c') /\ DecidingOK(c', srv, late)
  BY <1>1, <1>8 DEF Deciding, DecidingOK, Unaccepted
<1>12. ~c'.attempt.meta /\ c'.attempt.pause = -1
  BY <1>1, <1>6, <1>8 DEF Fair, ObsOK
<1>13. ObsOK(c', w)
  BY <1>1, <1>4, <1>5, <1>8, <1>12 DEF ObsOK
<1>14. \A i \in Stages : LateAt(late, i) => i <= srv.stage
  BY <1>3, <1>6 DEF Fair, LateOK, Past, Stages
<1>15. \A i \in 1..Len(w) : FrameOK(w[i], c', srv, late, forgotten)
  <2> TAKE i \in 1..Len(w)
  <2>1. srv.status = "interrupted" => Past(srv, srv.stage) /\ Latest(late, srv.stage)
        /\ Paused(srv, srv.stage)
    BY <1>14 DEF Past, Latest, Paused
  <2>2. ~Unaccepted(c')
    BY <1>1, <1>6, <1>8 DEF Fair, WriteOK, Unaccepted
  <2> QED BY <1>3, <1>4, <1>5, <2>1, <2>2 DEF FrameOK
<1>16. WireOK(c', srv, w, late, forgotten)
  <2>1. \A i, j \in 1..Len(w) :
          i < j /\ w[i].kind = "resolved" /\ w[j].kind = "required" => w[i].at < w[j].at
    BY <1>3, <1>4, <1>5
  <2> QED BY <1>5, <1>15, <2>1 DEF WireOK
<1>17. StreamOK(c', srv, w, late, forgotten)
  <2>1. Ended(srv.status) => HasEnd(w)
    BY <1>4, <1>5 DEF HasEnd
  <2>2. ~Ended(srv.status) => srv.status = "running" /\ \A i \in 1..Len(w) : w[i].kind # "required"
    BY <1>3, <1>4, <1>5 DEF Ended, Statuses
  <2>3. HasEnd(w) => Ended(srv.status)
    BY <1>4, <1>5 DEF HasEnd
  <2>4. Ended(srv.status) => HasOutcome(w)
    <3>1. CASE srv.status = "done"
      BY <1>4, <1>5, <3>1 DEF HasOutcome
    <3>2. CASE srv.status = "interrupted"
      BY <1>4, <1>5, <3>2 DEF HasOutcome
    <3> QED BY <3>1, <3>2 DEF Ended
  <2> QED BY <1>12, <2>1, <2>2, <2>3, <2>4 DEF StreamOK
<1>18. LateOK(c', srv, late, forgotten) /\ ClosedOK(c', srv, late, forgotten)
  BY <1>6, <1>8 DEF Fair, LateOK, ClosedOK, Over, CancelDoubt, Backed
<1>19. Fair(c', srv, w, late, known, forgotten) /\ Settled(c')
  BY <1>1, <1>8, <1>9, <1>10, <1>11, <1>13, <1>16, <1>17, <1>18 DEF Fair, Settled, Unaccepted
<1>20. Onward(c, c') /\ NoNewPost(c, c')
  <2>1. c.run.useAt \in Nat
    BY <1>1, Parts
  <2> QED BY <1>8, <2>1 DEF Onward, NoNewPost, Over
<1> QED BY <1>1, <1>19, <1>20, StoreStep DEF Good, w
-----------------------------------------------------------------------------
(* Receiving frames. *)

\* One less.
LEMMA OneLess ==
  ASSUME NEW a, NEW b \in Nat, b >= 1, a = b - 1
  PROVE  a # b /\ a \in Nat /\ \A i \in Nat : i + 1 = b => i = a
OBVIOUS

\* What follows the first frame.
LEMMA TailIs ==
  ASSUME NEW S, NEW w \in Seq(S), w # <<>>, NEW t, t = Tail(w)
  PROVE  /\ t \in Seq(S) /\ Len(t) = Len(w) - 1 /\ Len(t) \in Nat /\ t # w
         /\ Len(w) \in Nat /\ Head(w) = w[1] /\ 1 \in 1..Len(w) /\ Head(w) \in S
         /\ \A i \in 1..Len(t) : i + 1 \in 1..Len(w) /\ t[i] = w[i + 1]
         /\ \A i \in 1..Len(w) : i = 1 \/ (i - 1 \in 1..Len(t) /\ t[i - 1] = w[i])
<1>1. Len(w) \in Nat /\ Len(w) >= 1
  OBVIOUS
<1>2. t \in Seq(S) /\ Len(t) = Len(w) - 1
  OBVIOUS
<1>3. \A i \in 1..Len(t) : t[i] = w[i + 1]
  OBVIOUS
<1>4. \A i \in 1..Len(w) : i = 1 \/ (i - 1 \in 1..Len(t) /\ i - 1 + 1 = i)
  BY <1>1, <1>2
<1>5. t # w /\ Len(t) \in Nat
  <2>1. Len(t) # Len(w) /\ Len(t) \in Nat
    BY <1>1, <1>2, OneLess, Zenon
  <2> QED BY <2>1, Zenon
<1>6. Head(w) = w[1] /\ 1 \in 1..Len(w) /\ Head(w) \in S
  OBVIOUS
<1>7. \A i \in 1..Len(t) : i + 1 \in 1..Len(w)
  BY <1>1, <1>2
<1> QED BY <1>1, <1>2, <1>3, <1>4, <1>5, <1>6, <1>7, Zenon

\* What the wire still holds.
WireLess(s, v, w, l, g) ==
  \A i \in 1..Len(w) : FrameOK(w[i], s, v, l, g)

\* The order of the frames stays.
LEMMA TailWire ==
  ASSUME NEW s, NEW v, NEW w \in Seq(Frames), NEW l, NEW g, WireOK(s, v, w, l, g), w # <<>>,
         NEW t, t = Tail(w), NEW r, WireLess(r, v, t, l, g)
  PROVE  WireOK(r, v, t, l, g)
<1>1. /\ t \in Seq(Frames) /\ Len(t) = Len(w) - 1 /\ Len(t) \in Nat /\ Len(w) \in Nat
      /\ \A i \in 1..Len(t) : i + 1 \in 1..Len(w) /\ t[i] = w[i + 1]
  BY TailIs
<1>2. \A i \in 1..Len(t) : t[i].kind = "eof" => i = Len(t)
  <2> TAKE i \in 1..Len(t)
  <2> HAVE t[i].kind = "eof"
  <2>1. i + 1 \in 1..Len(w) /\ w[i + 1].kind = "eof"
    BY <1>1
  <2>2. \A n \in 1..Len(w) : w[n].kind = "eof" => n = Len(w)
    BY DEF WireOK
  <2>3. i + 1 = Len(w)
    BY <2>1, <2>2, Zenon
  <2>4. i \in Nat /\ Len(w) >= 1
    BY <1>1
  <2> QED BY <1>1, <2>3, <2>4, OneLess, Zenon
<1>3. \A i, j \in 1..Len(t) : i < j => i + 1 \in 1..Len(w) /\ j + 1 \in 1..Len(w) /\ i + 1 < j + 1
  BY <1>1
<1>4. \A i, j \in 1..Len(t) : i < j /\ t[i].kind = "required"
      => t[j].kind \in {"meta", "usage", "eof"}
  <2> TAKE i, j \in 1..Len(t)
  <2> HAVE i < j /\ t[i].kind = "required"
  <2>1. i + 1 \in 1..Len(w) /\ j + 1 \in 1..Len(w) /\ i + 1 < j + 1 /\ w[i + 1].kind = "required"
    BY <1>1, <1>3
  <2>2. w[j + 1].kind \in {"meta", "usage", "eof"}
    BY <2>1 DEF WireOK
  <2> QED BY <1>1, <2>2
<1>5. \A i, j \in 1..Len(t) :
        i < j /\ t[i].kind = "resolved" /\ t[j].kind = "required" => t[i].at < t[j].at
  <2> TAKE i, j \in 1..Len(t)
  <2> HAVE i < j /\ t[i].kind = "resolved" /\ t[j].kind = "required"
  <2>1. /\ i + 1 \in 1..Len(w) /\ j + 1 \in 1..Len(w) /\ i + 1 < j + 1
        /\ w[i + 1] = t[i] /\ w[j + 1] = t[j]
    BY <1>1, <1>3
  <2>2. w[i + 1].at < w[j + 1].at
    BY <2>1 DEF WireOK
  <2> QED BY <2>1, <2>2
<1> QED BY <1>2, <1>4, <1>5 DEF WireOK, WireLess

\* Its end is not lost, nor its outcome.
LEMMA TailStream ==
  ASSUME NEW w \in Seq(Frames), w # <<>>, NEW t, t = Tail(w)
  PROVE  /\ HasEnd(t) => HasEnd(w)
         /\ HasEnd(w) => HasEnd(t) \/ Head(w).kind = "eof"
         /\ HasOutcome(w) => \/ HasOutcome(t) \/ Head(w).kind = "required"
                             \/ (Head(w).kind = "meta" /\ Head(w).status = "done")
<1>1. /\ Head(w) = w[1]
      /\ \A i \in 1..Len(t) : i + 1 \in 1..Len(w) /\ t[i] = w[i + 1]
      /\ \A i \in 1..Len(w) : i = 1 \/ (i - 1 \in 1..Len(t) /\ t[i - 1] = w[i])
  BY TailIs
<1>2. HasEnd(t) => HasEnd(w)
  BY <1>1 DEF HasEnd
<1>3. HasEnd(w) => HasEnd(t) \/ Head(w).kind = "eof"
  BY <1>1 DEF HasEnd
<1>4. HasOutcome(w) => \/ HasOutcome(t) \/ Head(w).kind = "required"
                       \/ (Head(w).kind = "meta" /\ Head(w).status = "done")
  BY <1>1 DEF HasOutcome
<1> QED BY <1>2, <1>3, <1>4

\* A step that changes the wire.
LEMMA WireStep ==
  ASSUME RunViewInv, Good(c', srv', wire', late', known', forgotten'),
         Over(c) => Over(c'), NoNewPost(c, c'), wire' # wire
  PROVE  RunViewInv' /\ StepOK
BY DEF RunViewInv, StepOK, NoNewPost

\* What the metadata of a stream does to the store.
Shown(s, r) ==
  /\ r \in Stores /\ r.verified /\ r.attempt.meta /\ ~r.appr.verified
  /\ r.attempt.kind = s.attempt.kind /\ r.attempt.pause = s.attempt.pause
  /\ r.run = s.run /\ r.obs = s.obs /\ r.decided = s.decided /\ r.backup = s.backup
  /\ r.write = s.write /\ r.post = s.post /\ r.read = s.read /\ r.problem = s.problem

\* After the metadata.
LEMMA ShownKeeps ==
  ASSUME NEW s, NEW v, NEW w, NEW l, NEW k, NEW g, Fair(s, v, w, l, k, g),
         s.obs = "open", w # <<>>, Head(w).kind \in {"meta", "usage"},
         NEW seen, RunTold(s, seen, v),
         Head(w).kind = "meta" /\ Head(w).status = "done" => Over(seen),
         NEW r, Shown(seen, r), NEW t, t = Tail(w)
  PROVE  Fair(r, v, t, l, k, g) /\ ~Deciding(r)
<1> USE DEF Shown, RunTold, SameButRun
<1>1. TypesOK(r, v, t, l, k, g)
  <2>1. t \in Seq(Frames)
    BY TailIs DEF Fair, TypesOK
  <2> QED BY <2>1 DEF Fair, TypesOK
<1>2. TruthOK(r, v)
  BY DEF Fair, TruthOK, Over
<1>3. UsageOK(r, v)
  <2>1. s \in Stores /\ seen \in Stores
    BY DEF Fair, TypesOK
  <2>2. s.run.useAt \in Nat /\ seen.run.useAt \in Nat /\ seen.read.ans.at \in Nat
    BY <2>1, Parts
  <2> QED BY <2>2 DEF Fair, UsageOK
<1>4. ReadFine(r) /\ WriteOK(r, k)
  BY DEF Fair, ReadFine, WriteOK, Unaccepted
<1>5. ~Deciding(r)
  BY DEF Deciding
<1>6. DecidingOK(r, v, l)
  BY <1>5 DEF DecidingOK
<1>7. ObsOK(r, t)
  BY DEF Fair, ObsOK
<1>8. /\ CancelDoubt(s, g) => CancelDoubt(r, g)
      /\ Doubt(s, g) => Doubt(r, g)
      /\ Unaccepted(r) => Unaccepted(s)
  BY DEF CancelDoubt, Doubt, Unaccepted
<1>9. (\A j : Backed(s, j) => Backed(r, j)) /\ (Over(s) => Over(r))
  BY DEF Backed, Over
<1>10. w \in Seq(Frames) /\ Head(w) = w[1] /\ 1 \in 1..Len(w)
  BY TailIs DEF Fair, TypesOK
<1>11. \A i \in 1..Len(t) : i + 1 \in 1..Len(w) /\ t[i] = w[i + 1]
  BY <1>10, TailIs
<1>12. WireLess(r, v, t, l, g)
  <2>1. \A i \in 1..Len(w) : FrameOK(w[i], r, v, l, g)
    BY <1>8, <1>9 DEF Fair, WireOK, FrameOK
  <2> QED BY <1>11, <2>1 DEF WireLess
<1>13. WireOK(r, v, t, l, g)
  BY <1>10, <1>12, TailWire DEF Fair
<1>14. StreamOK(r, v, t, l, g)
  <2>1. /\ HasEnd(t) <=> HasEnd(w)
        /\ HasOutcome(w) => HasOutcome(t) \/ Over(r)
    BY <1>10, TailStream DEF Over
  <2>2. (\A i \in 1..Len(w) : w[i].kind # "required")
        => (\A i \in 1..Len(t) : t[i].kind # "required")
    BY <1>11
  <2>3. (\A i \in 1..Len(w) : w[i].kind \in {"meta", "usage", "eof"}) =>
          (\A i \in 1..Len(t) : t[i].kind \in {"meta", "usage", "eof"})
    BY <1>11
  <2> QED BY <1>8, <1>9, <2>1, <2>2, <2>3 DEF Fair, StreamOK
<1>15. LateOK(r, v, l, g)
  BY <1>8, <1>9 DEF Fair, LateOK
<1>16. ClosedOK(r, v, l, g)
  BY DEF ClosedOK
<1> QED BY <1>1, <1>2, <1>3, <1>4, <1>5, <1>6, <1>7, <1>13, <1>14, <1>15, <1>16 DEF Fair

\* Another status of the backup.
LEMMA MarkIs ==
  ASSUME NEW s \in Stores, NEW from, NEW status \in {"none", "pending", "unknown", "accepted"},
         NEW r, r = Mark(s, from, status)
  PROVE  /\ r \in Stores /\ r.backup.pause = s.backup.pause
         /\ IF s.backup.status \in from THEN r.backup.status = status ELSE r.backup = s.backup
         /\ r.run = s.run /\ r.verified = s.verified /\ r.obs = s.obs /\ r.attempt = s.attempt
         /\ r.tries = s.tries /\ r.recovering = s.recovering /\ r.appr = s.appr
         /\ r.draft = s.draft /\ r.accepted = s.accepted /\ r.decided = s.decided
         /\ r.write = s.write /\ r.writing = s.writing /\ r.post = s.post
         /\ r.read = s.read /\ r.problem = s.problem
<1>1. CASE ~(s.backup.status \in from)
  BY <1>1 DEF Mark
<1>2. CASE s.backup.status \in from
  <2> DEFINE backup == [s.backup EXCEPT !.status = status]
  <2>1. r = [s EXCEPT !.backup = backup]
    BY <1>2 DEF Mark
  <2>2. s.backup \in Backups
    BY Fields
  <2>3. backup \in Backups /\ backup.pause = s.backup.pause /\ backup.status = status
    BY <2>2 DEF Backups
  <2> HIDE DEF backup
  <2>4. r \in Stores
    BY <2>1, <2>3 DEF Stores
  <2>5. /\ r.backup = backup
        /\ r.run = s.run /\ r.verified = s.verified /\ r.obs = s.obs /\ r.attempt = s.attempt
        /\ r.tries = s.tries /\ r.recovering = s.recovering /\ r.appr = s.appr
        /\ r.draft = s.draft /\ r.accepted = s.accepted /\ r.decided = s.decided
        /\ r.write = s.write /\ r.writing = s.writing /\ r.post = s.post
        /\ r.read = s.read /\ r.problem = s.problem
    BY <2>1 DEF Stores
  <2> QED BY <1>2, <2>3, <2>4, <2>5
<1> QED BY <1>1, <1>2

\* What the acceptance of a decision does to the store.
Accepted(s, r) ==
  \/ r = s /\ ~(s.attempt.kind = "post" /\ Unaccepted(s))
  \/ /\ s.attempt.kind = "post" /\ Unaccepted(s)
     /\ r \in Stores /\ r.write = NoWrite
     /\ r.backup.pause = s.backup.pause /\ ~r.read.same
     /\ r.backup.status = s.backup.status \/ r.backup.status = "accepted"
     /\ r.read.phase = s.read.phase /\ r.read.ans = s.read.ans /\ r.read.stale = s.read.stale
     /\ r.read.auto = s.read.auto /\ r.read.fresh = s.read.fresh
     /\ r.run = s.run /\ r.verified = s.verified /\ r.obs = s.obs /\ r.attempt = s.attempt
     /\ r.appr = s.appr /\ r.decided = s.decided /\ r.post = s.post /\ r.problem = s.problem

\* So it is.
LEMMA AcceptIs ==
  ASSUME NEW s \in Stores, NEW r, r = Accept(s)
  PROVE  Accepted(s, r)
<1>1. CASE ~(s.attempt.kind = "post" /\ Unaccepted(s))
  BY <1>1 DEF Accept, Accepted, Unaccepted
<1>2. CASE s.attempt.kind = "post" /\ Unaccepted(s)
  <2> DEFINE m == Mark(s, {"pending"}, "accepted")
  <2> DEFINE n == SetWrite(m, NoWrite)
  <2>1. r = [n EXCEPT !.writing = "none", !.accepted = s.decided]
    BY <1>2 DEF Accept, Unaccepted
  <2>2. /\ m \in Stores /\ m.backup.pause = s.backup.pause
        /\ m.backup.status = s.backup.status \/ m.backup.status = "accepted"
        /\ m.run = s.run /\ m.verified = s.verified /\ m.obs = s.obs /\ m.attempt = s.attempt
        /\ m.appr = s.appr /\ m.decided = s.decided /\ m.post = s.post
        /\ m.read = s.read /\ m.problem = s.problem
    BY MarkIs
  <2> HIDE DEF m
  <2>3. NoWrite \in Writes
    BY DEF Writes, NoWrite
  <2>4. /\ n \in Stores /\ n.write = NoWrite /\ ~n.read.same
        /\ n.read.phase = m.read.phase /\ n.read.ans = m.read.ans /\ n.read.stale = m.read.stale
        /\ n.read.auto = m.read.auto /\ n.read.fresh = m.read.fresh
        /\ n.run = m.run /\ n.verified = m.verified /\ n.obs = m.obs /\ n.attempt = m.attempt
        /\ n.appr = m.appr /\ n.decided = m.decided /\ n.backup = m.backup /\ n.post = m.post
        /\ n.problem = m.problem
    BY <2>2, <2>3, SetWriteIs
  <2> HIDE DEF n
  <2>5. s.decided \in Pauses
    BY Fields
  <2>6. r \in Stores
    BY <2>1, <2>4, <2>5 DEF Stores, Writings
  <2>7. /\ r.run = n.run /\ r.verified = n.verified /\ r.obs = n.obs /\ r.attempt = n.attempt
        /\ r.appr = n.appr /\ r.decided = n.decided /\ r.backup = n.backup /\ r.post = n.post
        /\ r.problem = n.problem /\ r.read = n.read /\ r.write = n.write
    BY <2>1, <2>4 DEF Stores
  <2> QED BY <1>2, <2>2, <2>4, <2>6, <2>7 DEF Accepted
<1> QED BY <1>1, <1>2

\* The acceptance disturbs nothing: the pause is over for the backend too.
LEMMA AcceptedKeeps ==
  ASSUME NEW s, NEW v, NEW w, NEW l, NEW k, NEW g, Fair(s, v, w, l, k, g),
         s.obs = "open", s.attempt.meta, s.verified,
         Unaccepted(s) => s.attempt.pause = -1 /\ s.decided < v.stage,
         NEW r, Accepted(s, r)
  PROVE  /\ Fair(r, v, w, l, k, g) /\ Settled(r) /\ NoNewPost(s, r) /\ r.run = s.run
<1>1. CASE r = s /\ ~(s.attempt.kind = "post" /\ Unaccepted(s))
  BY <1>1 DEF NoNewPost, Settled
<1>2. CASE ~(r = s /\ ~(s.attempt.kind = "post" /\ Unaccepted(s)))
  <2>0. /\ s.attempt.kind = "post" /\ Unaccepted(s) /\ r \in Stores /\ r.write = NoWrite
        /\ r.backup.pause = s.backup.pause /\ ~r.read.same
        /\ r.backup.status = s.backup.status \/ r.backup.status = "accepted"
        /\ r.read.phase = s.read.phase /\ r.read.ans = s.read.ans /\ r.read.stale = s.read.stale
        /\ r.read.auto = s.read.auto /\ r.read.fresh = s.read.fresh
        /\ r.run = s.run /\ r.verified = s.verified /\ r.obs = s.obs /\ r.attempt = s.attempt
        /\ r.appr = s.appr /\ r.decided = s.decided /\ r.post = s.post /\ r.problem = s.problem
    BY <1>2, Zenon DEF Accepted
  <2>15. NoWrite.kind = "none" /\ NoWrite.phase = "none" /\ ~NoWrite.verified
    BY DEF NoWrite
  <2>16. /\ r.write.kind = "none" /\ r.write.phase = "none" /\ ~r.write.verified
         /\ s.attempt.pause = -1 /\ s.decided < v.stage
    BY <2>0, <2>15
  <2> USE <2>0, <2>16
  <2>1. s.write.kind = "approval" /\ s.post.kind # "cancel" /\ s.post = NoPost
    BY Parts DEF Fair, TypesOK, WriteOK, Unaccepted
  <2>2. TypesOK(r, v, w, l, k, g)
    BY DEF Fair, TypesOK
  <2>3. TruthOK(r, v)
    BY DEF Fair, TruthOK, Over
  <2>4. UsageOK(r, v)
    BY DEF Fair, UsageOK
  <2>5. ReadFine(r) /\ WriteOK(r, k)
    BY <2>1 DEF Fair, ReadFine, WriteOK, Unaccepted
  <2>6. ~Deciding(r) /\ DecidingOK(r, v, l)
    BY DEF Deciding, DecidingOK
  <2>7. ObsOK(r, w)
    BY DEF Fair, ObsOK
  <2>8. /\ CancelDoubt(s, g) => CancelDoubt(r, g)
        /\ ~Unaccepted(r) /\ (Over(s) => Over(r))
    BY <2>1 DEF CancelDoubt, Unaccepted, Over
  <2>9. \A j : Backed(s, j) => Backed(r, j) \/ j = s.decided
    BY <2>1 DEF Fair, WriteOK, Backed
  <2>10. WireOK(r, v, w, l, g)
    BY <2>8, <2>9 DEF Fair, WireOK, FrameOK
  <2>11. StreamOK(r, v, w, l, g)
    BY <2>8 DEF Fair, StreamOK
  <2>12. LateOK(r, v, l, g)
    <3>1. v.stage \in Nat /\ s.decided \in Pauses
      BY Fields, RunViewConstants DEF Fair, TypesOK, Servers, Stages
    <3>2. \A j \in Stages : Paused(v, j) => j # s.decided
      BY <3>1 DEF Paused, Pauses
    <3> QED BY <2>8, <2>9, <3>2 DEF Fair, LateOK
  <2>13. ClosedOK(r, v, l, g)
    BY DEF ClosedOK
  <2>14. Settled(r) /\ NoNewPost(s, r)
    BY <2>8 DEF Settled, NoNewPost
  <2> QED BY <2>2, <2>3, <2>4, <2>5, <2>6, <2>7, <2>10, <2>11, <2>12, <2>13, <2>14 DEF Fair
<1> QED BY <1>1, <1>2

\* Metadata and usage are received.
LEMMA MetadataKeeps ==
  ASSUME RunViewInv, ReceiveFrame, Head(wire).kind \in {"meta", "usage"}
  PROVE  RunViewInv' /\ StepOK
<1> DEFINE f == Head(wire)
<1> DEFINE m == [status |-> f.status, pending |-> f.pending, usage |-> f.kind = "usage", useAt |-> f.at]
<1> DEFINE seen == Metadata(c, m)
<1> DEFINE attempt == [seen.attempt EXCEPT !.meta = TRUE]
<1> DEFINE appr == [pause |-> c.attempt.pause, verified |-> FALSE]
<1> DEFINE x == [seen EXCEPT !.attempt = attempt, !.verified = TRUE, !.appr = appr]
<1> DEFINE p == Publish(x)
<1> DEFINE a == Accept(p)
<1>1. /\ c \in Stores /\ srv \in Servers /\ c.obs = "open" /\ wire # <<>> /\ wire' = Tail(wire)
      /\ UNCHANGED <<srv, late, forgotten>>
      /\ known' = known
  BY NoReadBeside DEF ReceiveFrame, RunViewInv, Good, Fair, TypesOK
<1>2. c' = Publish(a)
  BY Zenon DEF ReceiveFrame, OnMetadata
<1>3. Fair(c, srv, wire, late, known, forgotten) /\ Settled(c)
  BY DEF RunViewInv, Good
<1>4. /\ wire \in Seq(Frames) /\ f \in Frames /\ f = wire[1] /\ 1 \in 1..Len(wire) /\ wire' # wire
  BY <1>1, <1>3, TailIs DEF Fair, TypesOK
<1>5. FrameOK(f, c, srv, late, forgotten)
  BY <1>3, <1>4 DEF Fair, WireOK
<1>6. f \in Told
  BY <1>4, FrameIs DEF Frames, Asked
<1>7. /\ m \in Partials /\ (m.status = "done" => srv.status = "done") /\ m.useAt <= srv.stage
      /\ m.status = f.status
  BY <1>5, <1>6 DEF Told, Partials, FrameOK
<1> HIDE DEF f, m
<1>8. RunTold(c, seen, srv)
  BY <1>1, <1>3, <1>7, MetadataTells DEF Fair
<1>9. seen.run.status = m.status \/ Over(seen)
  BY <1>1, <1>7, MetadataIs DEF Over
<1> HIDE DEF seen
<1>10. seen \in Stores /\ SameButRun(c, seen) /\ (Over(c) => Over(seen))
  BY <1>8 DEF RunTold
<1>11. Shown(seen, x)
  <2>1. seen.attempt \in Attempts /\ c.attempt.pause \in Pauses
    BY <1>1, <1>10, Fields, Parts
  <2>2. /\ attempt \in Attempts /\ attempt.meta /\ attempt.kind = seen.attempt.kind
        /\ attempt.pause = seen.attempt.pause
    BY <2>1 DEF Attempts
  <2>3. appr \in Apprs /\ ~appr.verified
    BY <2>1 DEF Apprs
  <2> HIDE DEF attempt, appr
  <2>4. x \in Stores
    BY <1>10, <2>2, <2>3 DEF Stores
  <2>5. /\ x.verified /\ x.attempt = attempt /\ x.appr = appr
        /\ x.run = seen.run /\ x.obs = seen.obs /\ x.decided = seen.decided
        /\ x.backup = seen.backup /\ x.write = seen.write /\ x.post = seen.post
        /\ x.read = seen.read /\ x.problem = seen.problem
    BY <1>10 DEF Stores
  <2> HIDE DEF x
  <2> QED BY <2>2, <2>3, <2>4, <2>5 DEF Shown
<1> HIDE DEF x
<1>12. Fair(x, srv, wire', late, known, forgotten)
  <2>1. f.kind = "meta" /\ f.status = "done" => Over(seen)
    BY <1>7, <1>9 DEF Over
  <2> QED BY <1>1, <1>3, <1>8, <1>11, <2>1, ShownKeeps DEF f
<1>13. /\ Fair(p, srv, wire', late, known, forgotten) /\ ReadOnly(x, p) /\ NoNewPost(x, p)
       /\ Onward(x, p)
  BY <1>12, PublishKeeps
<1> HIDE DEF p
<1>14. /\ p \in Stores /\ p.obs = "open" /\ p.attempt.meta /\ p.verified /\ p.run = seen.run
       /\ p.attempt.pause = c.attempt.pause /\ p.decided = c.decided
  BY <1>1, <1>10, <1>11, <1>13 DEF ReadOnly, ButRead, Shown, SameButRun
<1>15. Unaccepted(p) => Unaccepted(c)
  BY <1>10, <1>11, <1>13 DEF ReadOnly, ButRead, SameWrite, Shown, SameButRun, Unaccepted, NoWrite
<1>16. Unaccepted(c) => c.attempt.pause = -1 /\ c.decided < srv.stage
  BY <1>1, <1>3 DEF Fair, WriteOK, Settled, Deciding, DecidingOK
<1>17. Accepted(p, a)
  BY <1>14, AcceptIs
<1> HIDE DEF a
<1>18. /\ Fair(a, srv, wire', late, known, forgotten) /\ Settled(a) /\ NoNewPost(p, a)
       /\ a.run = p.run
  BY <1>13, <1>14, <1>15, <1>16, <1>17, AcceptedKeeps
<1>19. /\ Fair(c', srv, wire', late, known, forgotten) /\ Settled(c') /\ NoNewPost(a, c')
       /\ Onward(a, c')
  BY <1>2, <1>18, PublishKeeps
<1>20. (Over(c) => Over(c')) /\ NoNewPost(c, c')
  <2>1. NoNewPost(c, x)
    BY <1>10, <1>11 DEF NoNewPost, Shown, SameButRun
  <2>2. Over(c) => Over(a)
    BY <1>10, <1>14, <1>18 DEF Over
  <2> QED BY <1>13, <1>18, <1>19, <2>1, <2>2 DEF NoNewPost, Onward
<1> QED BY <1>1, <1>4, <1>19, <1>20, WireStep DEF Good

\* What a frame about approvals does to the store.
Heard(s, f, r) ==
  /\ r \in Stores
  /\ r.run = s.run /\ r.verified = s.verified /\ r.obs = s.obs /\ r.post = s.post
  /\ r.problem = s.problem
  /\ r.read.phase = s.read.phase /\ r.read.ans = s.read.ans /\ r.read.stale = s.read.stale
  /\ r.read.auto = s.read.auto /\ r.read.fresh = s.read.fresh /\ (r.read.same => s.read.same)
  /\ r.attempt.kind = s.attempt.kind /\ r.attempt.meta = s.attempt.meta
  /\ r.attempt.pause = (IF f.kind = "required" THEN f.at ELSE -1)
  /\ ~r.appr.verified
  /\ r.backup = s.backup \/ (f.kind = "resolved" /\ s.backup.pause = f.at)
  /\ r.write.kind = "approval" => r.backup.pause = r.decided /\ r.backup.status # "none"
  /\ f.kind = "required" /\ Backed(s, f.at) => r.write.kind # "none"
  /\ \/ r.write = s.write
     \/ s.write.kind \in {"none", "approval"} /\ r.write = NoWrite
     \/ /\ s.write.kind \in {"none", "approval"} /\ ~r.write.verified
        /\ r.write.kind = "approval" /\ r.write.phase = "unknown"

\* A request or a decision is heard of.
LEMMA HeardIs ==
  ASSUME NEW s \in Stores, NEW k, WriteOK(s, k), NEW f \in Asked,
         NEW r, r = OnApproval(s, f)
  PROVE  Heard(s, f, r)
<1> DEFINE pause == IF f.kind = "required" THEN f.at ELSE -1
<1> DEFINE resolved == f.kind = "resolved"
<1> DEFINE draft == IF pause # -1 THEN pause ELSE IF resolved /\ s.draft = f.at THEN -1 ELSE s.draft
<1> DEFINE over == s.write.kind = "approval"
    /\ (IF resolved THEN s.decided = f.at ELSE s.decided # f.at)
<1> DEFINE backup == IF resolved /\ s.backup.pause = f.at THEN NoBackup ELSE s.backup
<1> DEFINE u == IF over THEN SetWrite(s, NoWrite) ELSE s
<1> DEFINE attempt == [u.attempt EXCEPT !.pause = pause]
<1> DEFINE appr == [pause |-> pause, verified |-> FALSE]
<1> DEFINE t == [u EXCEPT !.attempt = attempt, !.appr = appr, !.draft = draft, !.backup = backup]
<1>1. r = Restore(t)
  BY DEF OnApproval
<1>2. /\ f.kind \in {"required", "resolved"} /\ f.at \in Nat
  BY DEF Asked
<1>3. /\ s.decided \in Pauses /\ s.draft \in Pauses /\ s.backup \in Backups /\ s.write \in Writes
      /\ s.backup.status \in {"none", "pending", "unknown", "accepted"} /\ s.read \in Reads
      /\ s.attempt \in Attempts
  BY Fields, Parts
<1>4. NoWrite \in Writes /\ NoWrite.kind = "none" /\ NoWrite.phase = "none" /\ ~NoWrite.verified
  BY DEF Writes, NoWrite
<1>5. NoBackup \in Backups /\ NoBackup.status = "none"
  BY DEF Backups, NoBackup, Pauses
<1>6. /\ u \in Stores /\ u.write = (IF over THEN NoWrite ELSE s.write)
      /\ u.read.phase = s.read.phase /\ u.read.ans = s.read.ans /\ u.read.stale = s.read.stale
      /\ u.read.auto = s.read.auto /\ u.read.fresh = s.read.fresh /\ (u.read.same => s.read.same)
      /\ u.run = s.run /\ u.verified = s.verified /\ u.obs = s.obs /\ u.attempt = s.attempt
      /\ u.accepted = s.accepted /\ u.decided = s.decided
      /\ u.post = s.post /\ u.problem = s.problem
  <2>1. CASE over
    BY <1>4, <2>1, SetWriteIs
  <2>2. CASE ~over
    BY <2>2
  <2> QED BY <2>1, <2>2
<1> HIDE DEF u
<1>7. /\ pause \in Pauses /\ draft \in Pauses
      /\ f.kind = "required" => pause = f.at /\ draft = f.at /\ ~resolved /\ f.at # -1
      /\ f.kind # "required" => pause = -1 /\ resolved
  BY <1>2, <1>3 DEF Pauses
<1>8. /\ backup \in Backups /\ (backup = s.backup \/ (resolved /\ s.backup.pause = f.at /\ backup = NoBackup))
      /\ backup = NoBackup \/ ~(resolved /\ s.backup.pause = f.at)
  BY <1>3, <1>5
<1>9. /\ attempt \in Attempts /\ attempt.kind = s.attempt.kind /\ attempt.meta = s.attempt.meta
      /\ attempt.pause = pause
  BY <1>3, <1>6, <1>7 DEF Attempts
<1>10. appr \in Apprs /\ ~appr.verified
  BY <1>7 DEF Apprs
<1>11. \/ over /\ s.write.kind = "approval"
       \/ ~over /\ s.write.kind # "approval"
       \/ ~over /\ s.write.kind = "approval" /\ resolved /\ s.decided # f.at
       \/ ~over /\ s.write.kind = "approval" /\ ~resolved /\ s.decided = f.at
  OBVIOUS
<1> HIDE DEF pause, resolved, draft, over, backup, attempt, appr
<1>12. t \in Stores
  BY <1>6, <1>7, <1>8, <1>9, <1>10 DEF Stores
<1>13. /\ t.attempt = attempt /\ t.appr = appr /\ t.draft = draft /\ t.backup = backup
       /\ t.write = u.write /\ t.read = u.read /\ t.run = u.run /\ t.verified = u.verified
       /\ t.obs = u.obs /\ t.decided = u.decided /\ t.post = u.post /\ t.problem = u.problem
  BY <1>6 DEF Stores
<1> HIDE DEF t
<1>14. t.write.kind = "approval" => t.backup.pause = t.decided /\ t.backup.status # "none"
  BY <1>4, <1>6, <1>7, <1>8, <1>11, <1>13 DEF WriteOK, resolved
<1>15. \/ t.write = s.write
       \/ s.write.kind = "approval" /\ t.write = NoWrite
  BY <1>6, <1>11, <1>13
<1> DEFINE mine == t.draft # -1 /\ t.backup.pause = t.draft
<1> DEFINE free == t.write = NoWrite \/ (t.write.kind = "approval" /\ t.decided # t.draft)
<1> DEFINE unknown == [NoWrite EXCEPT !.kind = "approval", !.phase = "unknown"]
<1>16. \/ r = t /\ ~(mine /\ t.backup.status \in {"pending", "unknown"} /\ free)
       \/ r = [t EXCEPT !.accepted = t.draft] /\ t.backup.status = "accepted"
       \/ /\ r = [SetWrite(t, unknown) EXCEPT !.decided = t.draft]
          /\ mine /\ t.backup.status # "none" /\ free
  BY <1>1 DEF Restore
<1>17. unknown \in Writes /\ unknown.kind = "approval" /\ unknown.phase = "unknown"
       /\ ~unknown.verified
  BY <1>4 DEF Writes
<1>18. f.kind = "required" /\ Backed(s, f.at) =>
         mine /\ t.backup.status \in {"pending", "unknown"}
  BY <1>7, <1>8, <1>13 DEF Backed
<1>19. ~free => t.write.kind # "none"
  BY <1>15 DEF WriteOK
<1> HIDE DEF mine, free, unknown
<1>20. CASE r = t /\ ~(mine /\ t.backup.status \in {"pending", "unknown"} /\ free)
  <2>1. f.kind = "required" /\ Backed(s, f.at) => r.write.kind # "none"
    BY <1>18, <1>19, <1>20
  <2> QED BY <1>6, <1>7, <1>8, <1>9, <1>10, <1>12, <1>13, <1>14, <1>15, <1>20, <2>1 DEF Heard,
    resolved
<1>21. CASE r = [t EXCEPT !.accepted = t.draft] /\ t.backup.status = "accepted"
  <2>1. t.draft \in Pauses
    BY <1>12, Fields
  <2>2. r \in Stores
    BY <1>12, <1>21, <2>1 DEF Stores
  <2>3. /\ r.attempt = t.attempt /\ r.appr = t.appr /\ r.backup = t.backup /\ r.write = t.write
        /\ r.read = t.read /\ r.run = t.run /\ r.verified = t.verified /\ r.obs = t.obs
        /\ r.decided = t.decided /\ r.post = t.post /\ r.problem = t.problem
    BY <1>12, <1>21 DEF Stores
  <2>4. ~(f.kind = "required" /\ Backed(s, f.at))
    BY <1>18, <1>21
  <2> QED BY <1>6, <1>7, <1>8, <1>9, <1>10, <1>13, <1>14, <1>15, <2>2, <2>3, <2>4 DEF Heard,
    resolved
<1>22. CASE /\ r = [SetWrite(t, unknown) EXCEPT !.decided = t.draft]
            /\ mine /\ t.backup.status # "none" /\ free
  <2> DEFINE n == SetWrite(t, unknown)
  <2>1. /\ n \in Stores /\ n.write = unknown /\ ~n.read.same
        /\ n.read.phase = t.read.phase /\ n.read.ans = t.read.ans /\ n.read.stale = t.read.stale
        /\ n.read.auto = t.read.auto /\ n.read.fresh = t.read.fresh
        /\ n.run = t.run /\ n.verified = t.verified /\ n.obs = t.obs /\ n.attempt = t.attempt
        /\ n.appr = t.appr /\ n.backup = t.backup /\ n.post = t.post /\ n.problem = t.problem
    BY <1>12, <1>17, SetWriteIs
  <2>2. r = [n EXCEPT !.decided = t.draft]
    BY <1>22
  <2> HIDE DEF n
  <2>3. t.draft \in Pauses
    BY <1>12, Fields
  <2>4. r \in Stores
    BY <2>1, <2>2, <2>3 DEF Stores
  <2>5. /\ r.attempt = n.attempt /\ r.appr = n.appr /\ r.backup = n.backup /\ r.write = n.write
        /\ r.read = n.read /\ r.run = n.run /\ r.verified = n.verified /\ r.obs = n.obs
        /\ r.decided = t.draft /\ r.post = n.post /\ r.problem = n.problem
    BY <2>1, <2>2 DEF Stores
  <2>6. t.backup.pause = t.draft /\ t.backup.status # "none"
    BY <1>22 DEF mine
  <2>7. s.write.kind \in {"none", "approval"}
    BY <1>4, <1>15, <1>22 DEF free
  <2> QED BY <1>6, <1>7, <1>8, <1>9, <1>10, <1>13, <1>17, <2>1, <2>4, <2>5, <2>6, <2>7 DEF Heard,
    resolved
<1> QED BY <1>16, <1>20, <1>21, <1>22

\* What was heard disturbs nothing.
LEMMA HeardKeeps ==
  ASSUME NEW s, NEW v, NEW w, NEW l, NEW k, NEW g, Fair(s, v, w, l, k, g), Settled(s),
         s.obs = "open", w # <<>>, Head(w).kind \in {"required", "resolved"},
         NEW r, Heard(s, Head(w), r)
  PROVE  Fair(r, v, Tail(w), l, k, g) /\ Settled(r) /\ NoNewPost(s, r) /\ r.run = s.run
<1> DEFINE f == Head(w)
<1> DEFINE t == Tail(w)
<1>0. f.kind \in {"required", "resolved"} /\ f = Head(w) /\ t = Tail(w) /\ Heard(s, f, r)
  OBVIOUS
<1> HIDE DEF f, t
<1>1. /\ r \in Stores
      /\ r.run = s.run /\ r.verified = s.verified /\ r.obs = s.obs /\ r.post = s.post
      /\ r.problem = s.problem
      /\ r.read.phase = s.read.phase /\ r.read.ans = s.read.ans /\ r.read.stale = s.read.stale
      /\ r.read.auto = s.read.auto /\ r.read.fresh = s.read.fresh /\ (r.read.same => s.read.same)
      /\ r.attempt.kind = s.attempt.kind /\ r.attempt.meta = s.attempt.meta
      /\ r.attempt.pause = (IF f.kind = "required" THEN f.at ELSE -1)
      /\ ~r.appr.verified
      /\ r.backup = s.backup \/ (f.kind = "resolved" /\ s.backup.pause = f.at)
      /\ r.write.kind = "approval" => r.backup.pause = r.decided /\ r.backup.status # "none"
      /\ f.kind = "required" /\ Backed(s, f.at) => r.write.kind # "none"
  BY <1>0 DEF Heard
<1>2. NoWrite.kind = "none" /\ NoWrite.phase = "none" /\ ~NoWrite.verified
  BY DEF NoWrite
<1>3. \/ r.write = s.write
      \/ s.write.kind \in {"none", "approval"} /\ r.write = NoWrite
      \/ /\ s.write.kind \in {"none", "approval"} /\ ~r.write.verified
         /\ r.write.kind = "approval" /\ r.write.phase = "unknown"
  BY <1>0 DEF Heard
<1>4. s.attempt.meta /\ ~Unaccepted(s)
  <2>1. s.attempt.meta
    BY DEF Fair, ObsOK
  <2> QED BY <2>1 DEF Fair, WriteOK, Settled
<1>5. ~Unaccepted(r)
  BY <1>2, <1>3, <1>4 DEF Unaccepted
<1>6. /\ s.write.kind \in {"none", "approval"} => s.post.kind # "cancel"
      /\ s.write.kind = "cancel" => r.write = s.write
  BY <1>3 DEF Fair, WriteOK
<1>7. /\ w \in Seq(Frames) /\ f = w[1] /\ 1 \in 1..Len(w) /\ t \in Seq(Frames)
      /\ \A i \in 1..Len(t) : i + 1 \in 1..Len(w) /\ t[i] = w[i + 1] /\ 1 < i + 1
      /\ \A i \in 1..Len(w) : i = 1 \/ (i - 1 \in 1..Len(t) /\ t[i - 1] = w[i])
  <2>1. w \in Seq(Frames)
    BY DEF Fair, TypesOK
  <2>2. \A i \in 1..Len(t) : 1 < i + 1
    BY <1>0, <2>1, TailIs
  <2> QED BY <1>0, <2>1, <2>2, TailIs
<1>8. FrameOK(f, s, v, l, g) /\ v.stage \in Nat
  BY <1>7, RunViewConstants DEF Fair, WireOK, TypesOK, Servers, Stages
<1>9. f.at \in Nat
  BY <1>7, FrameIs DEF Frames, Asked, Told
<1>10. TypesOK(r, v, t, l, k, g)
  BY <1>1, <1>7 DEF Fair, TypesOK
<1>11. TruthOK(r, v) /\ UsageOK(r, v) /\ ReadFine(r)
  BY <1>1 DEF Fair, TruthOK, Over, UsageOK, ReadFine
<1>12. WriteOK(r, k)
  <2>1. CASE r.write = s.write
    BY <1>1, <1>5, <2>1 DEF Fair, WriteOK
  <2>2. CASE s.write.kind \in {"none", "approval"} /\ r.write = NoWrite
    BY <1>1, <1>2, <1>5, <1>6, <2>2 DEF Fair, WriteOK
  <2>3. CASE /\ s.write.kind \in {"none", "approval"} /\ ~r.write.verified
             /\ r.write.kind = "approval" /\ r.write.phase = "unknown"
    BY <1>1, <1>5, <1>6, <2>3 DEF Fair, WriteOK
  <2> QED BY <1>3, <2>1, <2>2, <2>3
<1>13. DecidingOK(r, v, l)
  BY <1>1, <1>5 DEF DecidingOK, Deciding
<1>14. ObsOK(r, t)
  BY <1>1, <1>4, <1>6 DEF Fair, ObsOK
<1>15. /\ CancelDoubt(s, g) => CancelDoubt(r, g)
       /\ Over(s) <=> Over(r)
  BY <1>1, <1>6 DEF CancelDoubt, Over
<1>16. WireLess(r, v, t, l, g)
  <2> SUFFICES ASSUME NEW i \in 1..Len(t)
               PROVE  FrameOK(t[i], r, v, l, g)
    BY DEF WireLess
  <2>1. i + 1 \in 1..Len(w) /\ t[i] = w[i + 1] /\ 1 < i + 1
    BY <1>7
  <2>2. FrameOK(t[i], s, v, l, g)
    BY <2>1 DEF Fair, WireOK
  <2>3. t[i].kind = "required" => f.kind = "resolved" /\ f.at < t[i].at
    BY <1>7, <2>1 DEF Fair, WireOK
  <2>4. t[i].kind = "required" /\ Backed(s, t[i].at) => Backed(r, t[i].at)
    BY <1>1, <1>9, <2>3 DEF Backed
  <2> QED BY <1>5, <1>15, <2>2, <2>4 DEF FrameOK
<1>17. WireOK(r, v, t, l, g)
  BY <1>7, <1>16, TailWire DEF Fair
<1>18. StreamOK(r, v, t, l, g)
  <2>1. HasEnd(t) <=> HasEnd(w)
    BY <1>7, TailStream
  <2>2. HasOutcome(w) => HasOutcome(t) \/ f.kind = "required"
    BY <1>7, TailStream
  <2>3. (\A i \in 1..Len(w) : w[i].kind # "required") =>
          f.kind # "required" /\ \A i \in 1..Len(t) : t[i].kind # "required"
    BY <1>7
  <2>4. s.attempt.pause = -1
    BY <1>7 DEF Fair, StreamOK
  <2>5. r.obs = "open" /\ ~HasEnd(t) =>
          v.status = "running" /\ r.attempt.pause = -1
          /\ \A i \in 1..Len(t) : t[i].kind # "required"
    BY <1>1, <2>1, <2>3 DEF Fair, StreamOK
  <2>6. r.obs = "open" /\ HasEnd(t) => Over(r) \/ r.attempt.pause # -1 \/ HasOutcome(t)
    BY <1>1, <1>9, <1>15, <2>1, <2>2, <2>4 DEF Fair, StreamOK
  <2>7. ASSUME r.attempt.pause # -1
        PROVE  /\ Past(v, r.attempt.pause) /\ Latest(l, r.attempt.pause)
               /\ \A i \in 1..Len(t) : t[i].kind \in {"meta", "usage", "eof"}
               /\ Over(r) \/ Doubt(r, g) \/ (Paused(v, r.attempt.pause) /\ ~LateAt(l, r.attempt.pause))
    <3>1. f.kind = "required" /\ r.attempt.pause = f.at
      BY <1>1, <2>7
    <3>2. Past(v, f.at) /\ Latest(l, f.at)
      BY <1>8, <3>1 DEF FrameOK
    <3>3. \A i \in 1..Len(t) : t[i].kind \in {"meta", "usage", "eof"}
      BY <1>7, <3>1 DEF Fair, WireOK
    <3>4. Over(s) \/ CancelDoubt(s, g) \/ Paused(v, f.at) \/ Backed(s, f.at)
      BY <1>8, <3>1 DEF FrameOK
    <3>5. Paused(v, f.at) /\ LateAt(l, f.at) => Backed(s, f.at)
      <4>1. f.at \in Stages
        <5>1. v.stage \in 0..MaxStage /\ MaxStage \in Nat
          BY RunViewConstants DEF Fair, TypesOK, Servers, Stages
        <5>2. f.at <= v.stage
          BY <1>8, <3>1 DEF FrameOK
        <5> QED BY <1>9, <5>1, <5>2 DEF Stages
      <4> QED BY <4>1 DEF Fair, LateOK
    <3>6. Backed(s, f.at) => Doubt(r, g)
      BY <1>1, <3>1 DEF Doubt
    <3>7. CancelDoubt(s, g) => Doubt(r, g)
      BY <1>15 DEF CancelDoubt, Doubt
    <3> QED BY <1>15, <3>1, <3>2, <3>3, <3>4, <3>5, <3>6, <3>7
  <2> QED BY <2>5, <2>6, <2>7 DEF StreamOK
<1>19. LateOK(r, v, l, g)
  <2>1. \A j \in Stages : Backed(s, j) /\ Paused(v, j) => Backed(r, j)
    BY <1>1, <1>8, <1>9 DEF Backed, Paused, FrameOK
  <2> QED BY <1>1, <1>15, <2>1 DEF Fair, LateOK
<1>20. ClosedOK(r, v, l, g)
  BY <1>1 DEF ClosedOK
<1>21. Settled(r) /\ NoNewPost(s, r)
  BY <1>1, <1>2, <1>3, <1>5 DEF Settled, NoNewPost
<1>22. Fair(r, v, t, l, k, g)
  BY <1>10, <1>11, <1>12, <1>13, <1>14, <1>17, <1>18, <1>19, <1>20 DEF Fair
<1> QED BY <1>1, <1>21, <1>22 DEF t

\* A frame about approvals is received.
LEMMA ApprovalKeeps ==
  ASSUME RunViewInv, ReceiveFrame, Head(wire).kind \in {"required", "resolved"}
  PROVE  RunViewInv' /\ StepOK
<1> DEFINE f == Head(wire)
<1>1. /\ c \in Stores /\ srv \in Servers /\ c.obs = "open" /\ wire # <<>> /\ wire' = Tail(wire)
      /\ UNCHANGED <<srv, late, forgotten>>
      /\ known' = known
  BY NoReadBeside DEF ReceiveFrame, RunViewInv, Good, Fair, TypesOK
<1>2. c' = OnApproval(c, f)
  BY Zenon DEF ReceiveFrame
<1>3. Fair(c, srv, wire, late, known, forgotten) /\ Settled(c)
  BY DEF RunViewInv, Good
<1>4. /\ wire \in Seq(Frames) /\ f \in Frames /\ wire' # wire
  BY <1>1, <1>3, TailIs DEF Fair, TypesOK
<1>5. f \in Asked
  BY <1>4, FrameIs DEF Frames, Told
<1>6. Heard(c, f, c')
  BY <1>1, <1>2, <1>3, <1>5, HeardIs DEF Fair
<1>7. /\ Fair(c', srv, Tail(wire), late, known, forgotten) /\ Settled(c') /\ NoNewPost(c, c')
      /\ c'.run = c.run
  BY <1>1, <1>3, <1>6, HeardKeeps
<1> QED BY <1>1, <1>4, <1>7, WireStep DEF Good, Over

\* A stream that ended with its execution.
Closed(s, r) ==
  /\ r \in Stores
  /\ r.run = s.run /\ r.verified = s.verified /\ r.obs = "closed" /\ r.attempt = NoAttempt
  /\ r.post = s.post /\ r.decided = s.decided /\ r.backup = s.backup /\ r.problem = s.problem
  /\ r.read.phase = s.read.phase /\ r.read.ans = s.read.ans /\ r.read.stale = s.read.stale
  /\ r.read.auto = s.read.auto /\ r.read.fresh = s.read.fresh /\ (r.read.same => s.read.same)
  /\ r.appr.pause = (IF s.run.status = "interrupted" THEN s.attempt.pause ELSE -1)
  /\ r.appr.verified => s.run.status = "interrupted"
  /\ r.write.kind = s.write.kind /\ r.write.phase = s.write.phase
  /\ \/ r.write = s.write
     \/ s.attempt.kind = "get" /\ s.write.phase = "unknown"

\* Nothing is disturbed, and what was heard is what the Run is in.
LEMMA ClosedKeeps ==
  ASSUME NEW s, NEW v, NEW w, NEW l, NEW k, NEW g, Fair(s, v, w, l, k, g), Settled(s),
         s.obs = "open", w # <<>>, Head(w).kind = "eof", Ended(s.run.status),
         NEW r, Closed(s, r), NEW k2 \in BOOLEAN, k => k2, s.attempt.kind = "get" => k2
  PROVE  /\ Tail(w) = <<>>
         /\ Fair(r, v, <<>>, l, k2, g) /\ Settled(r) /\ ~Deciding(r) /\ NoNewPost(s, r)
<1> DEFINE t == <<>>
<1> USE DEF Closed
<1>1. w \in Seq(Frames) /\ Head(w) = w[1] /\ 1 \in 1..Len(w) /\ Len(w) \in Nat
  BY TailIs DEF Fair, TypesOK
<1>2. Len(w) = 1
  BY <1>1 DEF Fair, WireOK
<1>3. Tail(w) = <<>>
  <2> DEFINE u == Tail(w)
  <2>1. u \in Seq(Frames) /\ Len(u) = Len(w) - 1
    BY <1>1, TailIs
  <2> HIDE DEF u
  <2>2. u = <<>>
    BY <1>2, <2>1
  <2> QED BY <2>2 DEF u
<1>4. HasEnd(w) /\ ~HasOutcome(w)
  <2>1. \A i \in 1..Len(w) : i = 1
    BY <1>2
  <2> QED BY <1>1, <2>1 DEF HasEnd, HasOutcome
<1>5. Over(s) \/ s.attempt.pause # -1
  BY <1>4 DEF Fair, StreamOK
<1>6. s.attempt.meta /\ ~Unaccepted(s)
  <2>1. s.attempt.meta
    BY DEF Fair, ObsOK
  <2> QED BY <2>1 DEF Fair, WriteOK, Settled
<1>7. NoAttempt.kind = "none" /\ ~NoAttempt.meta /\ NoAttempt.pause = -1
  BY DEF NoAttempt
<1>8. s.run.status = "interrupted" \/ Over(s)
  BY DEF Ended, Over
<1>9. t \in Seq(Frames) /\ Len(t) = 0
  OBVIOUS
<1>10. TypesOK(r, v, t, l, k2, g)
  BY <1>9 DEF Fair, TypesOK
<1>11. TruthOK(r, v) /\ UsageOK(r, v) /\ ReadFine(r)
  BY DEF Fair, TruthOK, Over, UsageOK, ReadFine
<1>12. ~Unaccepted(r) /\ ~Deciding(r)
  BY <1>6 DEF Unaccepted, Deciding
<1>13. WriteOK(r, k2)
  <2>1. r.write.kind = "none" => r.write = s.write
    BY DEF Fair, WriteOK
  <2>2. r.write.phase = "pending" => r.write = s.write
    OBVIOUS
  <2> QED BY <1>12, <2>1, <2>2 DEF Fair, WriteOK
<1>14. DecidingOK(r, v, l) /\ ObsOK(r, t)
  BY <1>6, <1>7, <1>12 DEF Fair, DecidingOK, ObsOK
<1>15. WireOK(r, v, t, l, g)
  BY <1>9 DEF WireOK
<1>16. StreamOK(r, v, t, l, g)
  BY <1>7 DEF StreamOK
<1>17. /\ CancelDoubt(s, g) => CancelDoubt(r, g)
       /\ Doubt(s, g) => Doubt(r, g)
       /\ Over(s) => Over(r)
  BY DEF CancelDoubt, Doubt, Over
<1>18. s.run.status = "interrupted" =>
         /\ s.attempt.pause # -1 /\ Past(v, s.attempt.pause) /\ Latest(l, s.attempt.pause)
         /\ Doubt(s, g) \/ (Paused(v, s.attempt.pause) /\ ~LateAt(l, s.attempt.pause))
  BY <1>5 DEF Fair, StreamOK, Over
<1>19. LateOK(r, v, l, g)
  BY <1>17, <1>18 DEF Fair, LateOK, Backed
<1>20. ClosedOK(r, v, l, g)
  BY <1>8, <1>17, <1>18 DEF ClosedOK
<1>21. Settled(r) /\ NoNewPost(s, r)
  BY <1>7 DEF Settled, NoNewPost
<1> HIDE DEF t
<1>22. Fair(r, v, t, l, k2, g)
  BY <1>10, <1>11, <1>13, <1>14, <1>15, <1>16, <1>19, <1>20 DEF Fair
<1> QED BY <1>3, <1>12, <1>21, <1>22 DEF t

\* The end of a stream of which the Run goes on is a failure; any other is final, and a
\* GET confirms what is unknown.
LEMMA FinishKeeps ==
  ASSUME RunViewInv, ReceiveFrame, Head(wire).kind = "eof"
  PROVE  RunViewInv' /\ StepOK
<1> DEFINE get == c.attempt.kind = "get"
<1> DEFINE paused == c.run.status = "interrupted"
<1>1. /\ c \in Stores /\ srv \in Servers /\ ReadFine(c) /\ c.obs = "open" /\ wire # <<>>
      /\ wire' = Tail(wire) /\ UNCHANGED <<srv, late, forgotten>>
      /\ known' = (known \/ (get /\ Ended(c.run.status)))
  BY NoReadBeside DEF ReceiveFrame, RunViewInv, Good, Fair, TypesOK
<1>2. c' = Finish(c)
  BY Zenon DEF ReceiveFrame
<1>3. Fair(c, srv, wire, late, known, forgotten) /\ Settled(c)
  BY DEF RunViewInv, Good
<1>4. wire \in Seq(Frames) /\ wire' # wire
  BY <1>1, <1>3, TailIs DEF Fair, TypesOK
<1>5. c.attempt.meta /\ ~Unaccepted(c)
  <2>1. c.attempt.meta
    BY <1>1, <1>3 DEF Fair, ObsOK
  <2> QED BY <2>1, <1>3 DEF Fair, WriteOK, Settled
<1>6. wire' = <<>>
  <2>1. Head(wire) = wire[1] /\ 1 \in 1..Len(wire) /\ Len(wire) \in Nat
        /\ wire' \in Seq(Frames) /\ Len(wire') = Len(wire) - 1
    BY <1>1, <1>4, TailIs
  <2>2. Len(wire) = 1
    BY <1>3, <2>1 DEF Fair, WireOK
  <2> QED BY <2>1, <2>2
<1>7. CASE ~Ended(c.run.status)
  <2> DEFINE u == [c EXCEPT !.tries = 0]
  <2> DEFINE yes == TRUE
  <2>1. c' = Recover(c, yes) \/ c' = Recover(u, yes)
    BY <1>2, <1>7, Zenon DEF Finish
  <2> HIDE DEF yes
  <2>2. u \in Stores
    BY <1>1 DEF Stores
  <2>3. /\ u.run = c.run /\ u.decided = c.decided
        /\ u.backup = c.backup /\ u.problem = c.problem /\ u.appr = c.appr /\ u.write = c.write
        /\ u.post = c.post /\ u.read = c.read
    BY <1>1 DEF Stores
  <2> HIDE DEF u
  <2>4. Observing(c, c') \/ Observing(u, c')
    BY <1>1, <2>1, <2>2, RecoverIs
  <2>5. Observing(c, c')
    BY <2>3, <2>4 DEF Observing
  <2>6. known' = known
    BY <1>1, <1>3, <1>7 DEF Fair, TypesOK
  <2>7. Calm(c, srv, late, known, forgotten)
    BY <1>3, <1>5, FairCalm
  <2>8. /\ Fair(c', srv, wire', late, known, forgotten) /\ Settled(c')
        /\ Onward(c, c') /\ NoNewPost(c, c')
    BY <1>6, <2>5, <2>7, ObservingKeeps
  <2> QED BY <1>1, <1>4, <2>6, <2>8, WireStep DEF Good, Onward
<1>8. CASE Ended(c.run.status)
  <2> DEFINE confirms == get /\ c.write.kind = "approval" /\ c.write.phase = "unknown"
  <2> DEFINE write == [c.write EXCEPT !.verified = TRUE, !.verifying = FALSE]
  <2> DEFINE u == IF confirms THEN SetWrite(c, write) ELSE c
  <2> DEFINE appr == [pause |-> IF paused THEN c.attempt.pause ELSE -1, verified |-> get /\ paused]
  <2> DEFINE closed == [u EXCEPT !.appr = appr]
  <2> DEFINE boundary == TRUE
  <2> DEFINE no == FALSE
  <2> DEFINE asked == ReadSnapshot(closed, boundary, no)
  <2> DEFINE read == Publish(asked)
  <2> DEFINE ended == [read EXCEPT !.obs = "closed", !.recovering = FALSE, !.attempt = NoAttempt,
                                   !.tries = 0]
  <2>1. \/ c' = ended
        \/ c' = ObserveRun(ended, no)
    BY <1>2, <1>8, Zenon DEF Finish
  <2>2. boundary \in BOOLEAN /\ no \in BOOLEAN /\ ~no
    OBVIOUS
  <2>3. c.write \in Writes /\ c.attempt.pause \in Pauses
    BY <1>1, Fields, Parts
  <2>4. write \in Writes /\ write.kind = c.write.kind /\ write.phase = c.write.phase
    BY <2>3 DEF Writes
  <2> HIDE DEF boundary, no, write
  <2>5. /\ u \in Stores /\ u.write.kind = c.write.kind /\ u.write.phase = c.write.phase
        /\ u.write = c.write \/ (get /\ c.write.phase = "unknown")
        /\ u.read.phase = c.read.phase /\ u.read.ans = c.read.ans /\ u.read.stale = c.read.stale
        /\ u.read.auto = c.read.auto /\ u.read.fresh = c.read.fresh /\ (u.read.same => c.read.same)
        /\ u.run = c.run /\ u.verified = c.verified /\ u.obs = c.obs /\ u.attempt = c.attempt
        /\ u.decided = c.decided
        /\ u.backup = c.backup /\ u.post = c.post /\ u.problem = c.problem
    <3>1. CASE confirms
      BY <1>1, <2>4, <3>1, SetWriteIs
    <3>2. CASE ~confirms
      BY <1>1, <3>2
    <3> QED BY <3>1, <3>2
  <2> HIDE DEF u
  <2>6. /\ appr \in Apprs /\ appr.pause = (IF paused THEN c.attempt.pause ELSE -1)
        /\ (appr.verified => paused)
    BY <2>3 DEF Apprs, Pauses
  <2> HIDE DEF appr
  <2>7. closed \in Stores
    BY <2>5, <2>6 DEF Stores
  <2>8. /\ closed.appr = appr /\ closed.write = u.write /\ closed.read = u.read
        /\ closed.run = u.run /\ closed.verified = u.verified /\ closed.obs = u.obs
        /\ closed.attempt = u.attempt /\ closed.decided = u.decided
        /\ closed.backup = u.backup /\ closed.post = u.post /\ closed.problem = u.problem
    BY <2>5 DEF Stores
  <2> HIDE DEF closed
  <2>9. ReadFine(closed)
    BY <1>1, <2>5, <2>8 DEF ReadFine
  <2>10. ReadOnly(closed, asked)
    BY <2>2, <2>7, <2>9, SnapshotReads
  <2> HIDE DEF asked
  <2>11. ReadOnly(asked, read)
    BY <2>10, PublishReads DEF ReadOnly
  <2> HIDE DEF read
  <2>12. ReadOnly(closed, read)
    BY <2>10, <2>11, ReadTwice
  <2> DEFINE shut == [closed EXCEPT !.obs = "closed", !.attempt = NoAttempt]
  <2>13. NoAttempt \in Attempts
    BY DEF NoAttempt, Attempts, Pauses
  <2>14. shut \in Stores
    BY <2>7, <2>13 DEF Stores, Observations
  <2>15. /\ shut.obs = "closed" /\ shut.attempt = NoAttempt /\ shut.appr = closed.appr
         /\ shut.write = closed.write /\ shut.read = closed.read /\ shut.run = closed.run
         /\ shut.verified = closed.verified /\ shut.decided = closed.decided
         /\ shut.backup = closed.backup /\ shut.post = closed.post /\ shut.problem = closed.problem
    BY <2>7 DEF Stores
  <2> HIDE DEF shut
  <2>16. Closed(c, shut)
    BY <2>5, <2>6, <2>8, <2>14, <2>15 DEF Closed
  <2>17. known \in BOOLEAN /\ known' \in BOOLEAN /\ (known => known') /\ (get => known')
    BY <1>1, <1>3, <1>8 DEF Fair, TypesOK
  <2>18. /\ Fair(shut, srv, <<>>, late, known', forgotten) /\ Settled(shut) /\ ~Deciding(shut)
         /\ NoNewPost(c, shut)
    BY <1>1, <1>3, <1>8, <2>16, <2>17, ClosedKeeps
  <2>19. read \in Stores
    BY <2>12 DEF ReadOnly
  <2>20. ended \in Stores
    BY <2>13, <2>19 DEF Stores, Observations
  <2>21. /\ ended.obs = "closed" /\ ended.attempt = NoAttempt /\ ended.appr = read.appr
         /\ ended.write = read.write /\ ended.read = read.read /\ ended.run = read.run
         /\ ended.verified = read.verified /\ ended.decided = read.decided
         /\ ended.backup = read.backup /\ ended.post = read.post /\ ended.problem = read.problem
    BY <2>19 DEF Stores
  <2> HIDE DEF ended
  <2>22. ButRead(shut, ended)
    BY <2>12, <2>15, <2>21 DEF ReadOnly, ButRead, SameWrite, Over
  <2>23. ReadOnly(shut, ended)
    BY <2>12, <2>15, <2>20, <2>21, <2>22 DEF ReadOnly, ReadFine, Asking
  <2>24. /\ Fair(ended, srv, <<>>, late, known', forgotten) /\ Settled(ended)
         /\ NoNewPost(shut, ended)
    BY <2>18, <2>23, ReadKeeps
  <2>25. ended.run = c.run
    BY <2>5, <2>8, <2>15, <2>22 DEF ButRead
  <2>26. CASE c' = ended
    <3>1. (Over(c) => Over(c')) /\ NoNewPost(c, c')
      BY <2>18, <2>24, <2>25, <2>26 DEF NoNewPost, Over
    <3> QED BY <1>1, <1>4, <1>6, <2>24, <2>26, <3>1, WireStep DEF Good
  <2>27. CASE c' = ObserveRun(ended, no)
    <3>1. Observing(ended, c')
      BY <2>2, <2>20, <2>27, ObserveIs
    <3>2. ended.attempt.kind # "post"
      BY <2>21 DEF NoAttempt
    <3>3. Calm(ended, srv, late, known', forgotten)
      BY <2>24, <3>2, FairCalm
    <3>4. /\ Fair(c', srv, <<>>, late, known', forgotten) /\ Settled(c')
          /\ Onward(ended, c') /\ NoNewPost(ended, c')
      BY <3>1, <3>3, ObservingKeeps
    <3>5. (Over(c) => Over(c')) /\ NoNewPost(c, c')
      BY <2>18, <2>24, <2>25, <3>4 DEF NoNewPost, Over, Onward
    <3> QED BY <1>1, <1>4, <1>6, <3>4, <3>5, WireStep DEF Good
  <2> QED BY <2>1, <2>26, <2>27
<1> QED BY <1>7, <1>8

\* A frame is received.
LEMMA ReceiveFrameKeeps ==
  ASSUME RunViewInv, ReceiveFrame
  PROVE  RunViewInv' /\ StepOK
<1>1. wire \in Seq(Frames) /\ wire # <<>>
  BY DEF RunViewInv, Good, Fair, TypesOK, ReceiveFrame
<1>2. Head(wire) \in Frames
  BY <1>1, TailIs
<1>3. Head(wire).kind \in {"meta", "usage", "required", "resolved", "eof"}
  BY <1>2, FrameIs DEF Frames, Told, Asked
<1> QED BY <1>3, MetadataKeeps, ApprovalKeeps, FinishKeeps

-----------------------------------------------------------------------------
(* What is lost. *)

\* An observation that begins or is given up, as it is published.
LEMMA ObservedKeeps ==
  ASSUME NEW s, NEW v, NEW l, NEW k, NEW g, Calm(s, v, l, k, g), NEW t, Observing(s, t),
         NEW r, r = Publish(t)
  PROVE  /\ Fair(r, v, <<>>, l, k, g) /\ Settled(r) /\ ~Deciding(r)
         /\ Onward(s, r) /\ NoNewPost(s, r)
         /\ r.run.status = s.run.status /\ (r.run.pending = "null" \/ r.run = s.run)
<1>1. /\ Fair(t, v, <<>>, l, k, g) /\ Settled(t) /\ ~Deciding(t)
      /\ Onward(s, t) /\ NoNewPost(s, t)
  BY ObservingKeeps
<1>2. /\ Fair(r, v, <<>>, l, k, g) /\ (Deciding(r) <=> Deciding(t)) /\ ReadOnly(t, r)
      /\ Onward(t, r) /\ NoNewPost(t, r) /\ (Settled(t) => Settled(r))
  BY <1>1, PublishKeeps
<1>3. r.run = t.run
  BY <1>2 DEF ReadOnly, ButRead
<1>4. Onward(s, r) /\ NoNewPost(s, r)
  BY <1>1, <1>2, <1>3 DEF Onward, NoNewPost, Over
<1>5. r.run.status = s.run.status /\ (r.run.pending = "null" \/ r.run = s.run)
  BY <1>3 DEF Observing
<1> QED BY <1>1, <1>2, <1>4, <1>5

\* A decision of which nothing was heard, and now never will be.
Unsure(s) ==
  [SetWrite(MarkUnknown(s), [s.write EXCEPT !.phase = "unknown", !.verifying = TRUE])
     EXCEPT !.writing = "none", !.verified = FALSE, !.read.fresh = FALSE]

\* The decision may still arrive: it is late, and in the backup.
LEMMA UnsureCalm ==
  ASSUME NEW s, NEW v, NEW w, NEW l, NEW k, NEW g, Fair(s, v, w, l, k, g), Deciding(s),
         NEW r, r = Unsure(s), NEW l2,
         l2 \in {l, l \cup {[kind |-> "approval", at |-> s.decided]}}, NEW k2 \in BOOLEAN
  PROVE  /\ Calm(r, v, l2, k2, g) /\ r \in Stores /\ NoNewPost(s, r) /\ r.run = s.run
<1> DEFINE write == [s.write EXCEPT !.phase = "unknown", !.verifying = TRUE]
<1> DEFINE from == {"pending", "unknown"}
<1> DEFINE t == Mark(s, from, "unknown")
<1> DEFINE u == SetWrite(t, write)
<1> DEFINE read == [u.read EXCEPT !.fresh = FALSE]
<1>1. r = [u EXCEPT !.writing = "none", !.verified = FALSE, !.read = read]
  BY DEF Unsure, MarkUnknown
<1>2. /\ s \in Stores /\ s.write \in Writes /\ s.write.kind = "approval"
      /\ s.write.phase = "pending" /\ s.backup.status = "pending" /\ s.backup.pause = s.decided
      /\ ~s.write.verified /\ s.post.kind = "none" /\ s.read.phase = "none" /\ ~s.appr.verified
      /\ s.decided \in Pauses /\ s.decided # -1 /\ Past(v, s.decided)
  BY Fields DEF Fair, TypesOK, DecidingOK, Deciding, Unaccepted, WriteOK
<1>3. /\ write \in Writes /\ write.kind = "approval" /\ write.phase = "unknown" /\ ~write.verified
  BY <1>2 DEF Writes
<1> HIDE DEF write
<1>4. s.backup.status \in from
  BY <1>2
<1> HIDE DEF from
<1>5. /\ t \in Stores /\ t.backup.pause = s.backup.pause /\ t.backup.status = "unknown"
      /\ t.run = s.run /\ t.appr = s.appr /\ t.decided = s.decided /\ t.post = s.post
      /\ t.read = s.read /\ t.problem = s.problem
  BY <1>2, <1>4, MarkIs
<1> HIDE DEF t
<1>6. /\ u \in Stores /\ u.write = write /\ u.read \in Reads /\ ~u.read.same
      /\ u.read.phase = t.read.phase /\ u.read.ans = t.read.ans /\ u.read.stale = t.read.stale
      /\ u.run = t.run /\ u.appr = t.appr /\ u.decided = t.decided /\ u.backup = t.backup
      /\ u.post = t.post /\ u.problem = t.problem
  BY <1>3, <1>5, SetWriteIs
<1> HIDE DEF u
<1>7. /\ read \in Reads /\ ~read.same /\ read.phase = u.read.phase /\ read.ans = u.read.ans
      /\ read.stale = u.read.stale
  BY <1>6 DEF Reads
<1> HIDE DEF read
<1>8. r \in Stores
  BY <1>1, <1>6, <1>7 DEF Stores, Writings
<1>9. /\ r.read = read /\ ~r.verified /\ r.write = u.write /\ r.run = u.run /\ r.appr = u.appr
      /\ r.decided = u.decided /\ r.backup = u.backup /\ r.post = u.post /\ r.problem = u.problem
  BY <1>1, <1>6 DEF Stores
<1> HIDE DEF Unsure
<1>10. r.run = s.run /\ (Over(r) <=> Over(s))
  BY <1>5, <1>6, <1>9 DEF Over
<1>11. TruthOK(r, v) /\ UsageOK(r, v)
  BY <1>5, <1>6, <1>7, <1>9, <1>10 DEF Fair, TruthOK, UsageOK
<1>12. ReadFine(r) /\ WriteOK(r, k2) /\ ~Unaccepted(r)
  BY <1>2, <1>3, <1>5, <1>6, <1>7, <1>9 DEF Fair, ReadFine, WriteOK, Unaccepted
<1>13. s.decided \in Stages
  <2>1. v.stage \in 0..MaxStage /\ MaxStage \in Nat
    BY RunViewConstants DEF Fair, TypesOK, Servers, Stages
  <2> QED BY <1>2, <2>1 DEF Past, Stages, Pauses
<1>14. l2 \in SUBSET Lates
  BY <1>13 DEF Fair, TypesOK, Lates
<1>15. /\ \A p \in l2 : p.kind = "cancel" => p \in l
       /\ \A j \in Stages : LateAt(l2, j) => LateAt(l, j) \/ j = s.decided
  BY DEF LateAt
<1>16. LateOK(r, v, l2, g)
  <2>1. \A p \in l2 : p.kind = "cancel" => Over(r) \/ CancelDoubt(r, g)
    BY <1>2, <1>10, <1>15 DEF Fair, LateOK, CancelDoubt
  <2>2. \A j \in Stages : LateAt(l2, j) => Past(v, j) /\ (Paused(v, j) => Backed(r, j))
    <3> TAKE j \in Stages
    <3> HAVE LateAt(l2, j)
    <3>1. Backed(s, j) => Backed(r, j)
      BY <1>5, <1>6, <1>9 DEF Backed
    <3>2. j = s.decided => Past(v, j) /\ Backed(r, j)
      BY <1>2, <1>5, <1>6, <1>9 DEF Backed
    <3> QED BY <1>15, <3>1, <3>2 DEF Fair, LateOK
  <2> QED BY <1>2, <1>5, <1>6, <1>9, <2>1, <2>2 DEF LateOK
<1>17. NoNewPost(s, r)
  BY <1>2 DEF NoNewPost
<1> QED BY <1>8, <1>10, <1>11, <1>12, <1>14, <1>16, <1>17 DEF Calm, Fair, TypesOK

\* A stream breaks.
LEMMA BreakStreamKeeps ==
  ASSUME RunViewInv, NEW recoverable \in BOOLEAN, BreakStream(recoverable)
  PROVE  RunViewInv' /\ StepOK
<1>1. /\ c \in Stores /\ wire' = <<>> /\ UNCHANGED <<srv, forgotten>>
      /\ known' = IF Undecided THEN FALSE ELSE known
      /\ late' = IF Undecided /\ c.obs = "connecting"
                 THEN late \cup {[kind |-> "approval", at |-> c.decided]} ELSE late
  BY NoReadBeside DEF BreakStream
<1>2. Fair(c, srv, wire, late, known, forgotten) /\ Settled(c)
  BY DEF RunViewInv, Good
<1>3. known \in BOOLEAN /\ (Undecided <=> c.attempt.kind = "post" /\ Unaccepted(c))
  BY <1>2 DEF Undecided, Unaccepted, Fair, TypesOK
<1>4. CASE Undecided
  <2> DEFINE u == Unsure(c)
  <2> DEFINE no == FALSE
  <2> DEFINE t == ObserveRun(u, no)
  <2>1. Deciding(c)
    BY <1>2, <1>3, <1>4 DEF Settled, Deciding
  <2>2. c' = Publish(t)
    BY <1>4, Zenon DEF BreakStream, Unsure
  <2>3. late' \in {late, late \cup {[kind |-> "approval", at |-> c.decided]}} /\ known' \in BOOLEAN
    BY <1>1, <1>4
  <2>4. no \in BOOLEAN
    OBVIOUS
  <2> HIDE DEF no
  <2>5. /\ Calm(u, srv, late', known', forgotten) /\ u \in Stores /\ NoNewPost(c, u)
        /\ u.run = c.run
    BY <1>2, <2>1, <2>3, UnsureCalm
  <2> HIDE DEF u
  <2>6. Observing(u, t)
    BY <2>4, <2>5, ObserveIs
  <2> HIDE DEF t
  <2>7. /\ Fair(c', srv, <<>>, late', known', forgotten) /\ Settled(c')
        /\ Onward(u, c') /\ NoNewPost(u, c')
    BY <2>2, <2>5, <2>6, ObservedKeeps
  <2>8. Onward(c, c') /\ NoNewPost(c, c')
    BY <2>5, <2>7 DEF Onward, NoNewPost, Over
  <2> QED BY <1>1, <2>7, <2>8, StoreStep DEF Good
<1>5. CASE ~Undecided
  <2> DEFINE z == [c EXCEPT !.tries = 0]
  <2> DEFINE t == Recover(c, recoverable)
  <2> DEFINE x == Recover(z, recoverable)
  <2>1. c' = Publish(t) \/ c' = Publish(x)
    BY <1>5, Zenon DEF BreakStream
  <2>2. known' = known /\ late' = late
    BY <1>1, <1>5
  <2>3. z \in Stores
    BY <1>1 DEF Stores
  <2>4. /\ z.run = c.run /\ z.decided = c.decided
        /\ z.backup = c.backup /\ z.problem = c.problem /\ z.appr = c.appr /\ z.write = c.write
        /\ z.post = c.post /\ z.read = c.read
    BY <1>1 DEF Stores
  <2> HIDE DEF z
  <2>5. Observing(c, t)
    BY <1>1, RecoverIs
  <2>6. Observing(z, x)
    BY <2>3, RecoverIs
  <2>7. Observing(c, x)
    BY <2>4, <2>6 DEF Observing
  <2> HIDE DEF t, x
  <2>8. Calm(c, srv, late, known, forgotten)
    BY <1>2, <1>3, <1>5, FairCalm
  <2>9. /\ Fair(c', srv, <<>>, late, known, forgotten) /\ Settled(c')
        /\ Onward(c, c') /\ NoNewPost(c, c')
    BY <2>1, <2>5, <2>7, <2>8, ObservedKeeps
  <2> QED BY <1>1, <2>2, <2>9, StoreStep DEF Good
<1> QED BY <1>4, <1>5

\* The backend refuses a decision.
LEMMA RefuseApprovalKeeps ==
  ASSUME RunViewInv, RefuseApproval
  PROVE  RunViewInv' /\ StepOK
<1> DEFINE u == Unsure(c)
<1> DEFINE no == FALSE
<1> DEFINE t == ObserveRun(u, no)
<1>1. /\ UNCHANGED <<srv, wire, late, forgotten>> /\ known' \in BOOLEAN
  BY DEF RefuseApproval
<1>2. Fair(c, srv, wire, late, known, forgotten) /\ Settled(c)
  BY DEF RunViewInv, Good
<1>3. Deciding(c) /\ wire = <<>>
  BY <1>2 DEF RefuseApproval, Undecided, Deciding, Unaccepted, Settled, Fair, ObsOK
<1>4. c' = Publish(t)
  BY Zenon DEF RefuseApproval, Unsure
<1>5. no \in BOOLEAN
  OBVIOUS
<1> HIDE DEF no
<1>6. Calm(u, srv, late, known', forgotten) /\ u \in Stores /\ NoNewPost(c, u) /\ u.run = c.run
  BY <1>1, <1>2, <1>3, UnsureCalm
<1> HIDE DEF u
<1>7. Observing(u, t)
  BY <1>5, <1>6, ObserveIs
<1> HIDE DEF t
<1>8. /\ Fair(c', srv, <<>>, late, known', forgotten) /\ Settled(c')
      /\ Onward(u, c') /\ NoNewPost(u, c')
  BY <1>4, <1>6, <1>7, ObservedKeeps
<1>9. Onward(c, c') /\ NoNewPost(c, c')
  BY <1>6, <1>8 DEF Onward, NoNewPost, Over
<1> QED BY <1>1, <1>3, <1>8, <1>9, StoreStep DEF Good

-----------------------------------------------------------------------------
(* The selection is stopped. *)

\* What is left of the store: every reader and writer is gone, and a write is unknown.
Stopped(s, r) ==
  /\ r \in Stores /\ r.run = s.run /\ r.decided = s.decided /\ r.problem = s.problem
  /\ ~r.appr.verified /\ ~r.verified
  /\ r.attempt = NoAttempt /\ r.post = NoPost /\ r.read = NoRead
  /\ r.backup.pause = s.backup.pause
  /\ \/ r.backup.status = s.backup.status
     \/ s.backup.status \in {"pending", "unknown"} /\ r.backup.status = "unknown"
  /\ IF s.write = NoWrite THEN r.write = NoWrite
     ELSE r.write.kind = s.write.kind /\ r.write.phase = "unknown" /\ ~r.write.verified

\* What nothing is.
LEMMA Nothings ==
  /\ NoAttempt \in Attempts /\ NoAttempt.kind = "none" /\ NoAttempt.pause = -1 /\ ~NoAttempt.meta
  /\ NoPost \in Posts /\ NoPost.kind = "none" /\ NoPost.at = "none"
  /\ NoAnswer \in Answers /\ NoAnswer.status = "none" /\ NoAnswer.at = 0
  /\ NoRead \in Reads /\ NoRead.phase = "none" /\ ~NoRead.same /\ NoRead.ans = NoAnswer
  /\ NoWrite \in Writes /\ NoWrite.kind = "none" /\ NoWrite.phase = "none" /\ ~NoWrite.verified
  /\ NoBackup \in Backups /\ NoBackup.status = "none"
  /\ NoRound \in Rounds
<1>1. NoAttempt \in Attempts /\ NoAttempt.kind = "none" /\ NoAttempt.pause = -1 /\ ~NoAttempt.meta
  BY DEF NoAttempt, Attempts, Pauses
<1>2. NoPost \in Posts /\ NoPost.kind = "none" /\ NoPost.at = "none"
  BY DEF NoPost, Posts
<1>3. NoAnswer \in Answers /\ NoAnswer.status = "none" /\ NoAnswer.at = 0
  BY DEF NoAnswer, Answers
<1>4. NoRead \in Reads /\ NoRead.phase = "none" /\ ~NoRead.same /\ NoRead.ans = NoAnswer
  BY <1>3 DEF NoRead, Reads
<1>5. NoWrite \in Writes /\ NoWrite.kind = "none" /\ NoWrite.phase = "none" /\ ~NoWrite.verified
  BY DEF NoWrite, Writes
<1>6. NoBackup \in Backups /\ NoBackup.status = "none"
  BY DEF NoBackup, Backups, Pauses
<1>7. NoRound \in Rounds
  BY DEF NoRound, Rounds
<1> QED BY <1>1, <1>2, <1>3, <1>4, <1>5, <1>6, <1>7

\* So the selection is stopped.
LEMMA StopIs ==
  ASSUME NEW s \in Stores, NEW r, r = StopSelection(s)
  PROVE  Stopped(s, r) /\ r.obs = "paused"
<1> DEFINE write == IF s.write = NoWrite THEN NoWrite
                    ELSE [s.write EXCEPT !.phase = "unknown", !.verified = FALSE, !.verifying = FALSE]
<1> DEFINE from == {"pending", "unknown"}
<1> DEFINE m == Mark(s, from, "unknown")
<1> DEFINE t == IF s.write.kind = "approval" /\ s.write.phase = "pending" THEN m ELSE s
<1> DEFINE appr == [t.appr EXCEPT !.verified = FALSE]
<1>1. r = [t EXCEPT !.read = NoRead, !.write = write, !.writing = "none", !.post = NoPost,
                    !.attempt = NoAttempt, !.recovering = FALSE, !.tries = 0, !.obs = "paused",
                    !.verified = FALSE, !.appr = appr]
  BY DEF StopSelection, MarkUnknown
<1>2. /\ write \in Writes
      /\ IF s.write = NoWrite THEN write = NoWrite
         ELSE write.kind = s.write.kind /\ write.phase = "unknown" /\ ~write.verified
  BY Fields, Nothings DEF Writes
<1> HIDE DEF write
<1>3. s.backup.status \in {"none", "pending", "unknown", "accepted"}
  BY Parts
<1>4. /\ t \in Stores /\ t.run = s.run /\ t.appr = s.appr /\ t.decided = s.decided
      /\ t.problem = s.problem /\ t.backup.pause = s.backup.pause
      /\ \/ t.backup.status = s.backup.status
         \/ s.backup.status \in from /\ t.backup.status = "unknown"
  <2> HIDE DEF from
  <2>1. /\ m \in Stores /\ m.run = s.run /\ m.appr = s.appr /\ m.decided = s.decided
        /\ m.problem = s.problem /\ m.backup.pause = s.backup.pause
        /\ IF s.backup.status \in from THEN m.backup.status = "unknown" ELSE m.backup = s.backup
    BY MarkIs
  <2> HIDE DEF m
  <2> QED BY <2>1
<1> HIDE DEF t
<1>5. t.appr \in Apprs
  BY <1>4, Fields
<1>6. appr \in Apprs /\ ~appr.verified
  BY <1>5 DEF Apprs
<1> HIDE DEF appr
<1>7. r \in Stores
  <2>1. NoRead \in Reads /\ NoPost \in Posts /\ NoAttempt \in Attempts
    BY Nothings
  <2>2. "paused" \in Observations /\ "none" \in Writings
    BY DEF Observations, Writings
  <2>3. write \in Writes
    BY <1>2
  <2>4. t \in Stores
    BY <1>4
  <2> DEFINE x == [t EXCEPT !.read = NoRead, !.write = write, !.writing = "none", !.post = NoPost,
                            !.attempt = NoAttempt]
  <2> DEFINE no == FALSE
  <2> DEFINE zero == 0
  <2>5. x \in Stores
    BY <2>1, <2>2, <2>3, <2>4 DEF Stores
  <2>6. r = [x EXCEPT !.recovering = no, !.tries = zero, !.obs = "paused", !.verified = no,
                      !.appr = appr]
    BY <1>1
  <2>7. no \in BOOLEAN /\ zero \in Nat
    OBVIOUS
  <2> HIDE DEF x, no, zero
  <2> QED BY <1>6, <2>2, <2>5, <2>6, <2>7 DEF Stores
<1>8. /\ r.read = NoRead /\ r.write = write /\ r.post = NoPost /\ r.attempt = NoAttempt
      /\ r.obs = "paused" /\ ~r.verified /\ r.appr = appr /\ r.run = t.run
      /\ r.decided = t.decided /\ r.problem = t.problem /\ r.backup = t.backup
  BY <1>1, <1>4 DEF Stores
<1> QED BY <1>2, <1>4, <1>6, <1>7, <1>8 DEF Stopped

\* The POSTs that are abandoned with it.
Left(s, l, l2) ==
  \A p \in l2 : \/ p \in l
                \/ p = [kind |-> "cancel", at |-> 0] /\ s.post.kind = "cancel"
                \/ p = [kind |-> "approval", at |-> s.decided] /\ Deciding(s)

\* They are known to be late, as a write or in the backup.
LEMMA StoppedCalm ==
  ASSUME NEW s, NEW v, NEW w, NEW l, NEW k, NEW g, Fair(s, v, w, l, k, g),
         NEW r, Stopped(s, r), NEW l2, Left(s, l, l2), NEW k2 \in BOOLEAN
  PROVE  Calm(r, v, l2, k2, g)
<1> USE DEF Stopped
<1>1. s \in Stores /\ v \in Servers /\ l \in SUBSET Lates /\ v.stage \in Stages /\ v.stage \in Nat
  BY RunViewConstants DEF Fair, TypesOK, Servers, Stages
<1>2. Over(r) <=> Over(s)
  BY DEF Over
<1>3. s.decided \in Pauses
  BY <1>1, Fields
<1>4. Deciding(s) => /\ s.decided \in Stages /\ Past(v, s.decided) /\ s.backup.pause = s.decided
                     /\ s.backup.status = "pending"
  <2> HAVE Deciding(s)
  <2>1. /\ s.decided # -1 /\ Past(v, s.decided) /\ s.backup.pause = s.decided
        /\ s.backup.status = "pending"
    BY DEF Fair, DecidingOK, Deciding, Unaccepted, WriteOK
  <2>2. s.decided \in Stages
    <3>1. v.stage \in 0..MaxStage /\ MaxStage \in Nat
      BY <1>1, RunViewConstants DEF Stages
    <3> QED BY <1>3, <2>1, <3>1 DEF Past, Stages, Pauses
  <2> QED BY <2>1, <2>2
<1>5. l2 \in SUBSET Lates
  <2>1. 0 \in Stages
    BY RunViewConstants DEF Stages
  <2> QED BY <1>1, <1>4, <2>1 DEF Left, Lates
<1>6. TruthOK(r, v) /\ UsageOK(r, v) /\ ReadFine(r)
  BY <1>1, <1>2, Nothings DEF Fair, TruthOK, UsageOK, ReadFine
<1>7. WriteOK(r, k2) /\ ~Unaccepted(r)
  BY Nothings DEF Fair, WriteOK, Unaccepted
<1>8. CancelDoubt(s, g) => CancelDoubt(r, g)
  BY Nothings DEF CancelDoubt
<1>9. \A p \in l2 : p.kind = "cancel" => Over(r) \/ CancelDoubt(r, g)
  <2>1. s.post.kind = "cancel" => CancelDoubt(s, g)
    BY DEF Fair, WriteOK, CancelDoubt
  <2> QED BY <1>2, <1>8, <2>1 DEF Fair, LateOK, Left
<1>10. \A j : Backed(s, j) => Backed(r, j)
  BY DEF Backed
<1>11. \A j \in Stages : LateAt(l2, j) => Past(v, j) /\ (Paused(v, j) => Backed(r, j))
  <2> TAKE j \in Stages
  <2> HAVE LateAt(l2, j)
  <2>1. LateAt(l, j) \/ (j = s.decided /\ Deciding(s))
    BY DEF LateAt, Left
  <2>2. Deciding(s) => Backed(s, s.decided)
    BY <1>4 DEF Backed
  <2> QED BY <1>4, <1>10, <2>1, <2>2 DEF Fair, LateOK
<1>12. LateOK(r, v, l2, g)
  BY <1>9, <1>11 DEF LateOK
<1> QED BY <1>1, <1>5, <1>6, <1>7, <1>12 DEF Calm, Fair, TypesOK

\* What the step leaves late.
LEMMA AbandonLeaves ==
  ASSUME RunViewInv, Abandon
  PROVE  Left(c, late, late') /\ known' \in BOOLEAN /\ wire' = <<>>
<1>1. known' \in BOOLEAN /\ wire' = <<>> /\ late' = late \cup Abandoned
  BY DEF Abandon, RunViewInv, Good, Fair, TypesOK
<1>2. Undecided /\ c.obs = "connecting" => Deciding(c)
  BY DEF RunViewInv, Good, Fair, ObsOK, Undecided, Deciding, Unaccepted
<1>3. \A p \in Abandoned : \/ p = [kind |-> "cancel", at |-> 0] /\ c.post.kind = "cancel"
                           \/ p = [kind |-> "approval", at |-> c.decided] /\ Deciding(c)
  BY <1>2 DEF Abandoned
<1> QED BY <1>1, <1>3 DEF Left

\* The user reconnects.
LEMMA ReconnectKeeps ==
  ASSUME RunViewInv, Reconnect
  PROVE  RunViewInv' /\ StepOK
<1> DEFINE u == StopSelection(c)
<1> DEFINE no == FALSE
<1> DEFINE t == ObserveRun(u, no)
<1>1. c \in Stores /\ UNCHANGED <<srv, forgotten>>
  BY NoReadBeside DEF Reconnect
<1>2. Left(c, late, late') /\ known' \in BOOLEAN /\ wire' = <<>>
  BY AbandonLeaves DEF Reconnect
<1>3. c' = Publish(t)
  BY Zenon DEF Reconnect
<1>4. no \in BOOLEAN
  OBVIOUS
<1> HIDE DEF no
<1>5. Fair(c, srv, wire, late, known, forgotten)
  BY DEF RunViewInv, Good
<1>6. Stopped(c, u)
  BY <1>1, StopIs
<1> HIDE DEF u
<1>7. Calm(u, srv, late', known', forgotten)
  BY <1>2, <1>5, <1>6, StoppedCalm
<1>8. u \in Stores /\ u.run = c.run /\ NoNewPost(c, u)
  BY <1>6, Nothings DEF Stopped, NoNewPost
<1>9. Observing(u, t)
  BY <1>4, <1>8, ObserveIs
<1> HIDE DEF t
<1>10. /\ Fair(c', srv, <<>>, late', known', forgotten) /\ Settled(c')
       /\ Onward(u, c') /\ NoNewPost(u, c')
  BY <1>3, <1>7, <1>9, ObservedKeeps
<1>11. Onward(c, c') /\ NoNewPost(c, c')
  BY <1>8, <1>10 DEF Onward, NoNewPost, Over
<1> QED BY <1>1, <1>2, <1>10, <1>11, StoreStep DEF Good

-----------------------------------------------------------------------------
(* Writing. *)

\* A decision goes out.
LEMMA SubmitKeeps ==
  ASSUME RunViewInv, SubmitApproval
  PROVE  RunViewInv' /\ StepOK
<1> DEFINE u == StopSelection(c)
<1> DEFINE write == [NoWrite EXCEPT !.kind = "approval", !.phase = "pending"]
<1> DEFINE backup == [pause |-> c.appr.pause, status |-> "pending"]
<1> DEFINE attempt == [NoAttempt EXCEPT !.kind = "post"]
<1> DEFINE pause == c.appr.pause
<1>1. /\ c \in Stores /\ srv \in Servers /\ UNCHANGED <<srv, late, known, forgotten>>
      /\ wire' = <<>> /\ c.verified /\ c.run.status = "interrupted" /\ c.appr.verified
      /\ \/ c.write = NoWrite
         \/ c.write.kind = "approval" /\ c.write.phase = "unknown" /\ c.write.verified
  BY NoReadBeside DEF SubmitApproval, CanSubmitApproval
<1>2. c' = [u EXCEPT !.write = write, !.writing = "post", !.decided = pause, !.backup = backup,
                     !.obs = "connecting", !.attempt = attempt]
  BY DEF SubmitApproval
<1>3. Fair(c, srv, wire, late, known, forgotten)
  BY DEF RunViewInv, Good
<1>4. Stopped(c, u)
  BY <1>1, StopIs
<1> HIDE DEF u
<1>5. /\ pause \in Pauses /\ pause # -1 /\ Past(srv, pause) /\ Latest(late, pause)
  BY <1>1, <1>3, Parts DEF Fair, LateOK
<1> HIDE DEF pause
<1>6. /\ write \in Writes /\ write.kind = "approval" /\ write.phase = "pending" /\ ~write.verified
  BY Nothings DEF Writes
<1>7. /\ backup \in Backups /\ backup.pause = pause /\ backup.status = "pending"
  BY <1>5 DEF Backups, pause
<1>8. /\ attempt \in Attempts /\ attempt.kind = "post" /\ ~attempt.meta /\ attempt.pause = -1
  BY Nothings DEF Attempts
<1> HIDE DEF write, backup, attempt
<1>9. u \in Stores
  BY <1>4 DEF Stopped
<1>10. c' \in Stores
  BY <1>2, <1>5, <1>6, <1>7, <1>8, <1>9 DEF Stores, Observations, Writings
<1>11. /\ c'.write = write /\ c'.decided = pause /\ c'.backup = backup /\ c'.obs = "connecting"
       /\ c'.attempt = attempt /\ c'.run = u.run /\ c'.verified = u.verified /\ c'.appr = u.appr
       /\ c'.post = u.post /\ c'.read = u.read /\ c'.problem = u.problem
  BY <1>2, <1>9 DEF Stores
<1>12. /\ c'.run = c.run /\ ~c'.verified /\ ~c'.appr.verified /\ c'.post = NoPost
       /\ c'.read = NoRead
  BY <1>4, <1>11 DEF Stopped
<1> DEFINE w == <<>>
<1>13. w \in Seq(Frames) /\ Len(w) = 0
  OBVIOUS
<1>14. srv.stage \in Nat
  BY <1>1, RunViewConstants DEF Servers, Stages
<1>15. TypesOK(c', srv, w, late, known, forgotten)
  BY <1>3, <1>10, <1>13 DEF Fair, TypesOK
<1>16. TruthOK(c', srv) /\ UsageOK(c', srv) /\ ReadFine(c')
  BY <1>1, <1>3, <1>12, <1>14, Nothings DEF Fair, TruthOK, UsageOK, ReadFine, Over
<1>17. WriteOK(c', known)
  BY <1>6, <1>7, <1>8, <1>11, <1>12, Nothings DEF WriteOK, Unaccepted
<1>18. DecidingOK(c', srv, late)
  BY <1>1, <1>5, <1>6, <1>7, <1>8, <1>11, <1>12, Nothings DEF DecidingOK, Deciding, Unaccepted
<1>19. ObsOK(c', w)
  BY <1>8, <1>11 DEF ObsOK
<1>20. WireOK(c', srv, w, late, forgotten)
  BY <1>13 DEF WireOK
<1>21. StreamOK(c', srv, w, late, forgotten)
  BY <1>8, <1>11 DEF StreamOK
<1>22. LateOK(c', srv, late, forgotten)
  <2>1. \A p \in late : p.kind = "cancel" => CancelDoubt(c', forgotten)
    BY <1>1, <1>3, Nothings DEF Fair, LateOK, Over, CancelDoubt
  <2>2. \A j \in Stages : LateAt(late, j) => Past(srv, j) /\ (Paused(srv, j) => Backed(c', j))
    <3> TAKE j \in Stages
    <3> HAVE LateAt(late, j)
    <3>1. Past(srv, j)
      BY <1>3 DEF Fair, LateOK
    <3>2. Paused(srv, j) => j = pause
      <4>1. j <= pause /\ j \in Nat
        BY <1>5 DEF Latest, Stages
      <4> QED BY <1>5, <1>14, <4>1 DEF Paused, Past, Pauses
    <3>3. Backed(c', pause)
      BY <1>7, <1>11 DEF Backed
    <3> QED BY <3>1, <3>2, <3>3
  <2> QED BY <1>12, <2>1, <2>2 DEF LateOK
<1>23. ClosedOK(c', srv, late, forgotten)
  BY <1>11 DEF ClosedOK
<1> HIDE DEF w
<1>24. Fair(c', srv, w, late, known, forgotten) /\ Settled(c')
  BY <1>8, <1>11, <1>15, <1>16, <1>17, <1>18, <1>19, <1>20, <1>21, <1>22, <1>23
     DEF Fair, Settled
<1>25. RunViewInv'
  BY <1>1, <1>24 DEF RunViewInv, Good, w
<1>26. StepOK
  <2>1. c.run.useAt \in Nat
    BY <1>1, Parts
  <2>2. c.write.phase = "unknown" => known
    BY <1>1, <1>3, Nothings DEF Fair, WriteOK
  <2> QED BY <1>12, <2>1, <2>2 DEF StepOK, Over
<1> QED BY <1>25, <1>26

\* A cancel goes out, or is lost; the streams go on.
Cancelling(s, r) ==
  /\ r \in Stores /\ r.run = s.run /\ r.obs = s.obs /\ r.attempt = s.attempt /\ r.appr = s.appr
  /\ r.decided = s.decided /\ r.backup = s.backup /\ r.problem = s.problem
  /\ r.read.phase = s.read.phase /\ r.read.ans = s.read.ans /\ r.read.stale = s.read.stale
  /\ r.read.auto = s.read.auto /\ ~r.read.same
  /\ r.write.kind = "cancel" /\ ~r.write.verified
  /\ \/ /\ r.write.phase = "pending" /\ r.post.kind = "cancel" /\ r.post.at = "server"
        /\ r.verified = s.verified
     \/ r.write.phase = "unknown" /\ r.post = NoPost

\* Whatever is in doubt now, a cancel is.
LEMMA CancellingKeeps ==
  ASSUME NEW s, NEW v, NEW w, NEW l, NEW k, NEW g, Fair(s, v, w, l, k, g), ~Deciding(s),
         NEW r, Cancelling(s, r), NEW k2 \in BOOLEAN, NEW l2 \in SUBSET Lates,
         \A p \in l2 : p \in l \/ p.kind = "cancel"
  PROVE  Fair(r, v, w, l2, k2, g) /\ ~Deciding(r) /\ (Settled(s) => Settled(r))
<1> USE DEF Cancelling
<1>1. /\ ~Unaccepted(r) /\ CancelDoubt(r, g) /\ Doubt(r, g) /\ (Over(r) <=> Over(s))
      /\ s.attempt.kind = "post" => s.obs # "connecting"
  BY DEF Unaccepted, CancelDoubt, Doubt, Over, Fair, DecidingOK
<1>2. /\ \A j : LateAt(l2, j) => LateAt(l, j)
      /\ \A j : Latest(l, j) => Latest(l2, j)
      /\ \A j : Backed(r, j) <=> Backed(s, j)
  BY DEF LateAt, Latest, Backed
<1>3. TypesOK(r, v, w, l2, k2, g)
  BY DEF Fair, TypesOK
<1>4. TruthOK(r, v) /\ UsageOK(r, v) /\ ReadFine(r)
  BY <1>1, Nothings DEF Fair, TruthOK, UsageOK, ReadFine
<1>5. WriteOK(r, k2)
  BY <1>1, Nothings DEF WriteOK
<1>6. ~Deciding(r) /\ DecidingOK(r, v, l2)
  BY <1>1 DEF Deciding, DecidingOK
<1>7. ObsOK(r, w)
  BY DEF Fair, ObsOK
<1>8. WireOK(r, v, w, l2, g)
  <2>1. \A i \in 1..Len(w) : FrameOK(w[i], r, v, l2, g)
    BY <1>1, <1>2 DEF Fair, WireOK, FrameOK
  <2> QED BY <2>1 DEF Fair, WireOK
<1>9. StreamOK(r, v, w, l2, g)
  BY <1>1, <1>2 DEF Fair, StreamOK
<1>10. LateOK(r, v, l2, g)
  BY <1>1, <1>2 DEF Fair, LateOK
<1>11. ClosedOK(r, v, l2, g)
  BY <1>1 DEF ClosedOK
<1>12. Settled(s) => Settled(r)
  BY <1>1 DEF Settled
<1> QED BY <1>3, <1>4, <1>5, <1>6, <1>7, <1>8, <1>9, <1>10, <1>11, <1>12 DEF Fair

\* The user cancels the Run.
LEMMA CancelKeeps ==
  ASSUME RunViewInv, Cancel
  PROVE  RunViewInv' /\ StepOK
<1> DEFINE write == [NoWrite EXCEPT !.kind = "cancel", !.phase = "pending"]
<1> DEFINE t == SetWrite(c, write)
<1> DEFINE post == [NoPost EXCEPT !.kind = "cancel", !.at = "server"]
<1>1. /\ c \in Stores /\ UNCHANGED <<srv, wire, late, known, forgotten>> /\ c.verified
      /\ ~Deciding(c)
      /\ c.write = NoWrite \/ (c.write.phase = "unknown" /\ c.write.verified)
  BY NoReadBeside DEF Cancel, CanCancel
<1>2. c' = [t EXCEPT !.writing = "post", !.post = post]
  BY DEF Cancel
<1>3. Fair(c, srv, wire, late, known, forgotten) /\ Settled(c)
  BY DEF RunViewInv, Good
<1>4. /\ write \in Writes /\ write.kind = "cancel" /\ write.phase = "pending" /\ ~write.verified
  BY Nothings DEF Writes
<1>5. /\ post \in Posts /\ post.kind = "cancel" /\ post.at = "server"
  BY Nothings DEF Posts
<1> HIDE DEF write, post
<1>6. /\ t \in Stores /\ t.write = write
      /\ t.read \in Reads /\ ~t.read.same
      /\ t.read.phase = c.read.phase /\ t.read.ans = c.read.ans /\ t.read.stale = c.read.stale
      /\ t.read.auto = c.read.auto
      /\ t.run = c.run /\ t.verified = c.verified /\ t.obs = c.obs /\ t.attempt = c.attempt
      /\ t.appr = c.appr /\ t.decided = c.decided /\ t.backup = c.backup /\ t.problem = c.problem
  <2>1. c \in Stores /\ write \in Writes
    BY <1>1, <1>4
  <2> QED BY <2>1, SetWriteIs
<1> HIDE DEF t
<1>7. c' \in Stores
  BY <1>2, <1>5, <1>6 DEF Stores, Writings
<1>8. /\ c'.post = post /\ c'.write = t.write /\ c'.read = t.read /\ c'.run = t.run
      /\ c'.verified = t.verified /\ c'.obs = t.obs /\ c'.attempt = t.attempt
      /\ c'.appr = t.appr /\ c'.decided = t.decided /\ c'.backup = t.backup
      /\ c'.problem = t.problem
  BY <1>2, <1>6 DEF Stores
<1>9. Cancelling(c, c')
  BY <1>4, <1>5, <1>6, <1>7, <1>8 DEF Cancelling
<1>10. known \in BOOLEAN /\ late \in SUBSET Lates
  BY <1>3 DEF Fair, TypesOK
<1>11. Fair(c', srv, wire, late, known, forgotten) /\ Settled(c')
  <2>1. Fair(c, srv, wire, late, known, forgotten) /\ ~Deciding(c)
    BY <1>1, <1>3, Zenon
  <2>2. \A p \in late : p \in late \/ p.kind = "cancel"
    OBVIOUS
  <2> QED BY <1>3, <1>9, <1>10, <2>1, <2>2, CancellingKeeps
<1>12. StepOK
  <2>1. c.run.useAt \in Nat
    BY <1>1, Parts
  <2>2. c.write.phase = "unknown" => known
    BY <1>1, <1>3, Nothings DEF Fair, WriteOK
  <2> QED BY <1>9, <2>1, <2>2 DEF StepOK, Over, Cancelling
<1> QED BY <1>1, <1>11, <1>12 DEF RunViewInv, Good

\* A cancel is lost, and verified.
LEMMA FailCancelKeeps ==
  ASSUME RunViewInv, FailCancel
  PROVE  RunViewInv' /\ StepOK
<1> DEFINE write == [c.write EXCEPT !.phase = "unknown"]
<1> DEFINE t == SetWrite(c, write)
<1> DEFINE read == [t.read EXCEPT !.fresh = FALSE]
<1> DEFINE lost == [t EXCEPT !.post = NoPost, !.writing = "none", !.verified = FALSE, !.read = read]
<1> DEFINE told == Publish(lost)
<1>1. /\ c \in Stores /\ UNCHANGED <<srv, wire, forgotten>> /\ c.post.kind = "cancel"
      /\ ~Deciding(c) /\ known' \in BOOLEAN
      /\ late' \in {late, late \cup {[kind |-> "cancel", at |-> 0]}}
  BY NoReadBeside DEF FailCancel
<1>2. c' = VerifyCancellation(told)
  BY DEF FailCancel
<1>3. Fair(c, srv, wire, late, known, forgotten) /\ Settled(c)
  BY DEF RunViewInv, Good
<1>4. c.write \in Writes /\ c.write.kind = "cancel" /\ c.write.phase = "pending"
      /\ ~c.write.verified
  BY <1>1, <1>3, Fields DEF Fair, WriteOK
<1>5. write \in Writes /\ write.kind = "cancel" /\ write.phase = "unknown" /\ ~write.verified
  BY <1>4 DEF Writes
<1> HIDE DEF write
<1>6. /\ t \in Stores /\ t.write = write
      /\ t.read \in Reads /\ ~t.read.same
      /\ t.read.phase = c.read.phase /\ t.read.ans = c.read.ans /\ t.read.stale = c.read.stale
      /\ t.read.auto = c.read.auto
      /\ t.run = c.run /\ t.obs = c.obs /\ t.attempt = c.attempt
      /\ t.appr = c.appr /\ t.decided = c.decided /\ t.backup = c.backup /\ t.problem = c.problem
  BY <1>1, <1>5, SetWriteIs
<1> HIDE DEF t
<1>7. /\ read \in Reads /\ ~read.same /\ read.phase = t.read.phase /\ read.ans = t.read.ans
      /\ read.stale = t.read.stale /\ read.auto = t.read.auto
  BY <1>6 DEF Reads
<1> HIDE DEF read
<1>8. lost \in Stores
  BY <1>6, <1>7, Nothings DEF Stores, Writings
<1>9. /\ lost.post = NoPost /\ lost.read = read /\ lost.write = t.write /\ lost.run = t.run
      /\ lost.obs = t.obs /\ lost.attempt = t.attempt /\ lost.appr = t.appr
      /\ lost.decided = t.decided /\ lost.backup = t.backup /\ lost.problem = t.problem
  BY <1>6 DEF Stores
<1> HIDE DEF lost
<1>10. Cancelling(c, lost)
  BY <1>5, <1>6, <1>7, <1>8, <1>9 DEF Cancelling
<1>11. late' \in SUBSET Lates /\ \A p \in late' : p \in late \/ p.kind = "cancel"
  <2>1. 0 \in Stages
    BY RunViewConstants DEF Stages
  <2> QED BY <1>1, <1>3, <2>1 DEF Fair, TypesOK, Lates
<1>12. Fair(lost, srv, wire, late', known', forgotten) /\ ~Deciding(lost) /\ Settled(lost)
  BY <1>1, <1>3, <1>10, <1>11, CancellingKeeps
<1>13. /\ Fair(told, srv, wire, late', known', forgotten) /\ ~Deciding(told) /\ Settled(told)
       /\ ReadOnly(lost, told) /\ NoNewPost(lost, told)
  BY <1>12, PublishKeeps
<1> HIDE DEF told
<1>14. told \in Stores /\ ReadFine(told)
  BY <1>13 DEF Fair, TypesOK
<1>15. ReadOnly(told, c')
  BY <1>2, <1>14, VerifyReads
<1>16. /\ Fair(c', srv, wire, late', known', forgotten) /\ Settled(c')
       /\ NoNewPost(told, c')
  BY <1>13, <1>15, ReadKeeps
<1>17. c'.run = c.run /\ NoNewPost(c, c')
  BY <1>4, <1>10, <1>13, <1>15 DEF ReadOnly, ButRead, Cancelling, NoNewPost
<1>18. Onward(c, c')
  <2>1. c.run.useAt \in Nat
    BY <1>1, Parts
  <2> QED BY <1>17, <2>1 DEF Onward, Over
<1> QED BY <1>1, <1>16, <1>17, <1>18, StoreStep DEF Good

-----------------------------------------------------------------------------
(* A Run is opened. *)

\* As long as its history was not read, the Run may be over without the window's knowledge.
Calmer(s, v, l, k, g) ==
  /\ s \in Stores /\ v \in Servers /\ l \in SUBSET Lates /\ k \in BOOLEAN /\ g \in BOOLEAN
  /\ TruthOK(s, v) /\ UsageOK(s, v) /\ ReadFine(s) /\ WriteOK(s, k) /\ ~Unaccepted(s)
  /\ \A p \in l : p.kind = "cancel" => v.status = "done" \/ CancelDoubt(s, g)
  /\ \A j \in Stages : LateAt(l, j) => Past(v, j) /\ (Paused(v, j) => Backed(s, j))
  /\ ~s.appr.verified

\* Then it tells.
LEMMA ToldCalm ==
  ASSUME NEW s, NEW v, NEW l, NEW k, NEW g, Calmer(s, v, l, k, g),
         NEW r, RunTold(s, r, v), r.run.status = v.status
  PROVE  Calm(r, v, l, k, g) /\ NoNewPost(s, r)
<1> USE DEF RunTold, SameButRun
<1>1. TruthOK(r, v) /\ ReadFine(r)
  BY DEF Calmer, TruthOK, ReadFine, Over
<1>2. UsageOK(r, v)
  <2>1. /\ s \in Stores /\ r \in Stores /\ v.stage \in Nat
    BY RunViewConstants DEF Calmer, Servers, Stages
  <2>2. s.run.useAt \in Nat /\ r.run.useAt \in Nat /\ s.read.ans.at \in Nat
    BY <2>1, Parts
  <2> QED BY <2>2, <2>1 DEF Calmer, UsageOK
<1>3. WriteOK(r, k) /\ ~Unaccepted(r)
  BY DEF Calmer, WriteOK, Unaccepted
<1>4. LateOK(r, v, l, g)
  BY DEF Calmer, LateOK, Over, CancelDoubt, Backed
<1>5. NoNewPost(s, r)
  BY DEF NoNewPost
<1> QED BY <1>1, <1>2, <1>3, <1>4, <1>5 DEF Calmer, Calm

\* Reading disturbs nothing.
LEMMA ReadCalm ==
  ASSUME NEW s, NEW v, NEW l, NEW k, NEW g, Calm(s, v, l, k, g), NEW r, ReadOnly(s, r)
  PROVE  Calm(r, v, l, k, g) /\ NoNewPost(s, r)
<1> USE DEF ReadOnly, ButRead, SameWrite
<1>1. TruthOK(r, v)
  BY Nothings DEF Calm, TruthOK, Over
<1>2. UsageOK(r, v)
  <2>1. 0 <= v.stage
    BY RunViewConstants DEF Calm, Servers, Stages
  <2> QED BY <2>1, Nothings DEF Calm, UsageOK
<1>3. ReadFine(r)
  OBVIOUS
<1>4. WriteOK(r, k) /\ ~Unaccepted(r)
  BY Nothings DEF Calm, WriteOK, Unaccepted
<1>5. LateOK(r, v, l, g)
  BY Nothings DEF Calm, LateOK, TruthOK, Over, CancelDoubt, Backed, Paused
<1>6. NoNewPost(s, r)
  BY Nothings DEF NoNewPost
<1> QED BY <1>1, <1>2, <1>3, <1>4, <1>5, <1>6 DEF Calm

\* A Run that is over is not followed; what it used is being read.
LEMMA ClosedCalm ==
  ASSUME NEW s, NEW v, NEW l, NEW k, NEW g, Calm(s, v, l, k, g), Over(s), s.attempt = NoAttempt,
         Asking(s), NEW r, r = [s EXCEPT !.obs = "closed"]
  PROVE  Fair(r, v, <<>>, l, k, g) /\ Settled(r) /\ ~Deciding(r) /\ r.run = s.run /\ NoNewPost(s, r)
<1> DEFINE w == <<>>
<1>1. w \in Seq(Frames) /\ Len(w) = 0
  OBVIOUS
<1>2. s \in Stores
  BY DEF Calm
<1>3. r \in Stores
  BY <1>2 DEF Stores, Observations
<1>4. /\ r.run = s.run /\ r.verified = s.verified /\ r.obs = "closed" /\ r.attempt = NoAttempt
      /\ r.appr = s.appr /\ r.decided = s.decided /\ r.backup = s.backup /\ r.write = s.write
      /\ r.post = s.post /\ r.read = s.read /\ r.problem = s.problem
  BY <1>2 DEF Stores
<1>5. TypesOK(r, v, w, l, k, g)
  BY <1>1, <1>3 DEF Calm, TypesOK
<1>6. TruthOK(r, v) /\ UsageOK(r, v) /\ ReadFine(r)
  BY <1>4 DEF Calm, TruthOK, UsageOK, ReadFine, Over
<1>7. WriteOK(r, k) /\ ~Unaccepted(r)
  BY <1>4 DEF Calm, WriteOK, Unaccepted
<1>8. ~Deciding(r) /\ DecidingOK(r, v, l) /\ ObsOK(r, w) /\ Settled(r)
  BY <1>4, <1>7, Nothings DEF Deciding, DecidingOK, ObsOK, Asking, Settled
<1>9. WireOK(r, v, w, l, g)
  BY <1>1 DEF WireOK
<1>10. StreamOK(r, v, w, l, g)
  BY <1>4, Nothings DEF StreamOK
<1>11. LateOK(r, v, l, g)
  BY <1>4 DEF Calm, LateOK, Over, CancelDoubt, Backed
<1>12. ClosedOK(r, v, l, g)
  BY <1>4 DEF ClosedOK, Over
<1>13. NoNewPost(s, r)
  BY <1>4 DEF NoNewPost
<1> HIDE DEF w
<1>14. Fair(r, v, w, l, k, g)
  BY <1>5, <1>6, <1>7, <1>8, <1>9, <1>10, <1>11, <1>12 DEF Fair
<1> QED BY <1>4, <1>8, <1>13, <1>14 DEF w

\* The Run is opened with what its history tells.
LEMMA OpenedKeeps ==
  ASSUME NEW s, NEW l, NEW k, NEW g, Calmer(s, srv, l, k, g), s.attempt = NoAttempt,
         s.read = NoRead, ~s.verified, NEW r, r = Opened(s)
  PROVE  /\ Fair(r, srv, <<>>, l, k, g) /\ Settled(r)
         /\ Onward(s, r) /\ NoNewPost(s, r) /\ r.run.status = srv.status
         /\ s.run.pending = "null" => r.run.pending = "null"
<1> DEFINE m == [status |-> srv.status, pending |-> "none", usage |-> FALSE, useAt |-> 0]
<1> DEFINE t0 == Metadata(s, m)
<1> DEFINE t == Publish(t0)
<1> DEFINE no == FALSE
<1> DEFINE q == ReadSnapshot(t, no, no)
<1> DEFINE read == Publish(q)
<1> DEFINE z == [read EXCEPT !.obs = "closed"]
<1> DEFINE y == ObserveRun(read, no)
<1>1. r = Publish(IF read.run.status = "done" THEN z ELSE y)
  BY Zenon DEF Opened
<1>2. no \in BOOLEAN /\ ~no
  OBVIOUS
<1> HIDE DEF no
<1>3. /\ s \in Stores /\ srv \in Servers /\ srv.status \in Statuses /\ srv.stage \in Nat
      /\ TruthOK(s, srv) /\ UsageOK(s, srv)
  BY RunViewConstants DEF Calmer, Servers, Stages
<1>4. /\ m \in Partials /\ m.status = srv.status /\ m.pending = "none" /\ m.useAt = 0
      /\ m.useAt <= srv.stage
  BY <1>3 DEF Partials
<1> HIDE DEF m
<1>5. RunTold(s, t0, srv)
  BY <1>3, <1>4, MetadataTells
<1>6. /\ t0.run.status = srv.status
      /\ t0.run.pending = "null" \/ t0.run.useAt >= s.run.useAt
      /\ s.run.pending = "null" => t0.run.pending = "null"
  <2>1. /\ t0.run.status = m.status \/ (Over(s) /\ m.status # "done")
        /\ t0.run.useAt \in {0, s.run.useAt, m.useAt}
        /\ t0.run.pending = "null" \/ t0.run.useAt = s.run.useAt
        /\ s.run.pending = "null" => t0.run.pending = "null"
    BY <1>3, <1>4, MetadataIs
  <2>2. Over(s) => srv.status = "done"
    BY <1>3 DEF TruthOK
  <2>3. s.run.useAt \in Nat
    BY <1>3, Parts
  <2> QED BY <1>4, <2>1, <2>2, <2>3
<1>7. Calm(t0, srv, l, k, g) /\ NoNewPost(s, t0)
  BY <1>5, <1>6, ToldCalm
<1>8. t0.attempt = NoAttempt /\ t0.read.phase = "none" /\ ~t0.verified
  BY <1>5, Nothings DEF RunTold, SameButRun
<1> HIDE DEF t0
<1>9. ReadOnly(t0, t) /\ t.read.phase = "none" /\ ~t.verified
  <2>1. t0 \in Stores /\ ReadFine(t0)
    BY <1>7 DEF Calm
  <2>2. ReadOnly(t0, t) /\ t.read = t0.read
    BY <1>8, <2>1, PublishReads
  <2> QED BY <1>8, <2>2 DEF ReadOnly, ButRead
<1>10. Calm(t, srv, l, k, g) /\ NoNewPost(t0, t)
  BY <1>7, <1>9, ReadCalm
<1> HIDE DEF t
<1>11. ReadOnly(t, q) /\ q.read.phase # "none" /\ ~q.read.auto
  <2>1. t \in Stores /\ ReadFine(t)
    BY <1>10 DEF Calm
  <2>2. ReadOnly(t, q) /\ q.read.phase # "none" /\ q.read.auto = no
    BY <1>2, <1>9, <2>1, SnapshotReads
  <2> QED BY <1>2, <2>2
<1>12. Calm(q, srv, l, k, g) /\ NoNewPost(t, q)
  BY <1>10, <1>11, ReadCalm
<1> HIDE DEF q
<1>13. ReadOnly(q, read)
  BY <1>12, PublishReads DEF Calm
<1>14. Calm(read, srv, l, k, g) /\ NoNewPost(q, read)
  BY <1>12, <1>13, ReadCalm
<1> HIDE DEF read
<1>15. read.run = t0.run /\ read.attempt = NoAttempt /\ NoNewPost(s, read)
  BY <1>7, <1>8, <1>9, <1>10, <1>11, <1>12, <1>13, <1>14 DEF ReadOnly, ButRead, NoNewPost
<1>16. CASE read.run.status = "done"
  <2>1. r = Publish(z)
    BY <1>1, <1>16, Zenon
  <2>2. Asking(read)
    BY <1>9, <1>11, <1>13 DEF ReadOnly, ButRead, Asking
  <2>3. /\ Fair(z, srv, <<>>, l, k, g) /\ Settled(z) /\ z.run = read.run /\ NoNewPost(read, z)
    BY <1>14, <1>15, <1>16, <2>2, ClosedCalm DEF Over
  <2> HIDE DEF z
  <2>4. /\ Fair(r, srv, <<>>, l, k, g) /\ Settled(r) /\ ReadOnly(z, r) /\ NoNewPost(z, r)
    BY <2>1, <2>3, PublishKeeps
  <2>5. r.run = t0.run /\ NoNewPost(s, r)
    BY <1>15, <2>3, <2>4 DEF ReadOnly, ButRead, NoNewPost
  <2>6. Onward(s, r)
    BY <1>5, <1>6, <2>5 DEF Onward, RunTold, Over
  <2> QED BY <1>6, <2>4, <2>5, <2>6
<1>17. CASE read.run.status # "done"
  <2>1. r = Publish(y)
    BY <1>1, <1>17, Zenon
  <2>2. Observing(read, y)
    BY <1>2, <1>14, ObserveIs DEF Calm
  <2> HIDE DEF y
  <2>3. /\ Fair(r, srv, <<>>, l, k, g) /\ Settled(r) /\ Onward(read, r) /\ NoNewPost(read, r)
    BY <1>14, <2>1, <2>2, ObservedKeeps
  <2>4. r.run.status = srv.status /\ (r.run.pending = "null" \/ r.run = t0.run)
    <3>1. r.run.status = read.run.status /\ (r.run.pending = "null" \/ r.run = read.run)
      BY <1>14, <2>1, <2>2, ObservedKeeps
    <3> QED BY <1>6, <1>15, <3>1
  <2>5. Onward(s, r) /\ (s.run.pending = "null" => r.run.pending = "null")
    BY <1>5, <1>6, <2>4 DEF Onward, RunTold, Over
  <2>6. NoNewPost(s, r)
    BY <1>15, <2>3 DEF NoNewPost
  <2> QED BY <2>3, <2>4, <2>5, <2>6
<1> QED BY <1>16, <1>17

\* A store that was stopped can be opened.
LEMMA StoppedCalmer ==
  ASSUME NEW s, NEW v, NEW l, NEW k, NEW g, Calm(s, v, l, k, g), ~s.appr.verified
  PROVE  Calmer(s, v, l, k, g)
BY DEF Calm, Calmer, LateOK, TruthOK

\* The user opens the conversation again.
LEMMA ReloadKeeps ==
  ASSUME RunViewInv, Reload
  PROVE  RunViewInv' /\ StepOK
<1> DEFINE u == StopSelection(c)
<1>1. c \in Stores /\ UNCHANGED <<srv, forgotten>> /\ c' = Opened(u)
  BY NoReadBeside DEF Reload
<1>2. Left(c, late, late') /\ known' \in BOOLEAN /\ wire' = <<>>
  BY AbandonLeaves DEF Reload
<1>3. Fair(c, srv, wire, late, known, forgotten)
  BY DEF RunViewInv, Good
<1>4. Stopped(c, u)
  BY <1>1, StopIs
<1> HIDE DEF u
<1>5. Calm(u, srv, late', known', forgotten)
  BY <1>2, <1>3, <1>4, StoppedCalm
<1>6. /\ u.attempt = NoAttempt /\ u.read = NoRead /\ ~u.verified /\ ~u.appr.verified
      /\ u.run = c.run /\ NoNewPost(c, u)
  BY <1>4, Nothings DEF Stopped, NoNewPost
<1>7. Calmer(u, srv, late', known', forgotten)
  BY <1>5, <1>6, StoppedCalmer
<1>8. /\ Fair(c', srv, <<>>, late', known', forgotten) /\ Settled(c')
      /\ Onward(u, c') /\ NoNewPost(u, c')
  BY <1>1, <1>6, <1>7, OpenedKeeps
<1>9. Onward(c, c') /\ NoNewPost(c, c')
  BY <1>6, <1>8 DEF Onward, NoNewPost, Over
<1> QED BY <1>1, <1>2, <1>8, <1>9, StoreStep DEF Good

\* Of the Run nothing is known but its backup.
LEMMA UnknownIs ==
  ASSUME NEW b \in Backups, NEW r, r = Unknown(b)
  PROVE  /\ r \in Stores /\ r.run.status = "running" /\ r.run.pending = "null" /\ r.run.useAt = 0
         /\ ~r.verified /\ r.obs = "paused" /\ r.attempt = NoAttempt
         /\ ~r.appr.verified /\ r.backup = b /\ r.write = NoWrite /\ r.post = NoPost
         /\ r.read = NoRead /\ ~r.problem
<1> DEFINE run == [status |-> "running", pending |-> "null", useAt |-> 0]
<1> DEFINE appr == [pause |-> -1, verified |-> FALSE]
<1>1. run \in Runs /\ run.status = "running" /\ run.pending = "null" /\ run.useAt = 0
  BY DEF Runs, Statuses, Pendings
<1>2. appr \in Apprs /\ ~appr.verified
  BY DEF Apprs, Pauses
<1>3. r = [run |-> run,
           exec |-> 0, verified |-> FALSE, obs |-> "paused", attempt |-> NoAttempt, tries |-> 0,
           recovering |-> FALSE, appr |-> appr, draft |-> -1,
           accepted |-> -1, decided |-> -1, backup |-> b, write |-> NoWrite, writing |-> "none",
           post |-> NoPost, read |-> NoRead, round |-> NoRound,
           problem |-> FALSE]
  BY DEF Unknown
<1> HIDE DEF run, appr
<1>4. r \in Stores
  BY <1>1, <1>2, <1>3, Nothings DEF Stores, Observations, Writings, Pauses
<1> QED BY <1>1, <1>2, <1>3, <1>4

\* Nothing is wrong with that, when what is late is in the backup or forgotten.
LEMMA UnknownCalmer ==
  ASSUME NEW b \in Backups, NEW r, r = Unknown(b), NEW v \in Servers, NEW l \in SUBSET Lates,
         NEW k \in BOOLEAN, NEW g \in BOOLEAN,
         \A p \in l : p.kind = "cancel" => v.status = "done" \/ g,
         \A j \in Stages : LateAt(l, j) => Past(v, j) /\ (Paused(v, j) => Backed(r, j))
  PROVE  Calmer(r, v, l, k, g)
<1>1. /\ r \in Stores /\ r.run.status = "running" /\ r.run.useAt = 0
      /\ ~r.appr.verified /\ r.write = NoWrite /\ r.post = NoPost
      /\ r.read = NoRead /\ ~r.problem
  BY UnknownIs
<1>2. 0 <= v.stage
  BY RunViewConstants DEF Servers, Stages
<1>3. TruthOK(r, v) /\ UsageOK(r, v) /\ ReadFine(r)
  BY <1>1, <1>2, Nothings DEF TruthOK, UsageOK, ReadFine, Over
<1>4. WriteOK(r, k) /\ ~Unaccepted(r)
  BY <1>1, Nothings DEF WriteOK, Unaccepted
<1> QED BY <1>1, <1>3, <1>4 DEF Calmer, CancelDoubt

\* The application is closed and opened again.
LEMMA RestartKeeps ==
  ASSUME RunViewInv, Restart
  PROVE  RunViewInv' /\ StepOK
<1> DEFINE m == MarkUnknown(c)
<1> DEFINE b == m.backup
<1> DEFINE u == Unknown(b)
<1> DEFINE s == StopSelection(c)
<1>1. /\ c \in Stores /\ srv \in Servers /\ srv' = srv /\ c' = Opened(u)
      /\ forgotten' = (forgotten \/ c.write.kind = "cancel")
  BY NoReadBeside DEF Restart
<1>2. Left(c, late, late') /\ known' \in BOOLEAN /\ wire' = <<>>
  BY AbandonLeaves DEF Restart
<1>3. Fair(c, srv, wire, late, known, forgotten)
  BY DEF RunViewInv, Good
<1>4. Stopped(c, s)
  BY <1>1, StopIs
<1> HIDE DEF s
<1>5. Calm(s, srv, late', known', forgotten)
  BY <1>2, <1>3, <1>4, StoppedCalm
<1>6. b \in Backups /\ \A j : Backed(s, j) => b.pause = j /\ b.status \in {"pending", "unknown"}
  <2> DEFINE from == {"pending", "unknown"}
  <2>1. m = Mark(c, from, "unknown")
    BY DEF MarkUnknown
  <2>2. c.backup.status \in {"none", "pending", "unknown", "accepted"}
    BY <1>1, Parts
  <2>3. \A j : Backed(s, j) => c.backup.pause = j /\ c.backup.status \in from
    BY <1>4 DEF Stopped, Backed
  <2> HIDE DEF m, from
  <2>4. /\ m \in Stores /\ m.backup.pause = c.backup.pause
        /\ IF c.backup.status \in from THEN m.backup.status = "unknown" ELSE m.backup = c.backup
    BY <1>1, <2>1, MarkIs
  <2>5. b \in Backups
    BY <2>4, Fields
  <2> QED BY <2>3, <2>4, <2>5
<1> HIDE DEF m, b
<1>7. /\ u \in Stores /\ u.attempt = NoAttempt /\ u.read = NoRead /\ ~u.verified
      /\ u.run.pending = "null" /\ u.write = NoWrite /\ u.backup = b
  BY <1>6, UnknownIs
<1>8. Calmer(u, srv, late', known', forgotten')
  <2>1. forgotten' \in BOOLEAN /\ late' \in SUBSET Lates
    BY <1>1, <1>3, <1>5 DEF Fair, TypesOK, Calm
  <2>2. \A p \in late' : p.kind = "cancel" => srv.status = "done" \/ forgotten'
    BY <1>1, <1>4, <1>5, Nothings DEF Calm, LateOK, TruthOK, Over, CancelDoubt, Stopped
  <2>3. \A j : Backed(s, j) => Backed(u, j)
    BY <1>6, <1>7 DEF Backed
  <2>4. \A j \in Stages : LateAt(late', j) => Past(srv, j) /\ (Paused(srv, j) => Backed(u, j))
    BY <1>5, <2>3 DEF Calm, LateOK
  <2> QED BY <1>1, <1>2, <1>6, <2>1, <2>2, <2>4, UnknownCalmer
<1> HIDE DEF u
<1>9. /\ Fair(c', srv, <<>>, late', known', forgotten') /\ Settled(c') /\ NoNewPost(u, c')
      /\ c'.run.status = srv.status /\ c'.run.pending = "null"
  BY <1>1, <1>7, <1>8, OpenedKeeps
<1>10. Over(c) => Over(c')
  BY <1>3, <1>9 DEF Fair, TruthOK, Over
<1>11. NoNewPost(c, c')
  BY <1>7, <1>9, Nothings DEF NoNewPost
<1>12. Onward(c, c')
  BY <1>9, <1>10 DEF Onward
<1> QED BY <1>1, <1>2, <1>9, <1>11, <1>12, StoreStep DEF Good

-----------------------------------------------------------------------------
(* The answer of a cancel. *)

\* It tells that the Run is over, and with that the write and its POST are.
Cancelled(s, r) ==
  /\ r \in Stores /\ r.run = s.run /\ r.verified /\ r.obs = s.obs /\ r.attempt = s.attempt
  /\ ~r.appr.verified /\ r.decided = s.decided /\ r.backup = s.backup /\ r.problem = s.problem
  /\ r.read.phase = s.read.phase /\ r.read.ans = s.read.ans /\ r.read.stale = s.read.stale
  /\ r.read.auto = s.read.auto /\ ~r.read.same
  /\ r.write = NoWrite /\ r.post = NoPost

\* Of a Run that is over nothing is in doubt.
LEMMA CancelledKeeps ==
  ASSUME NEW s, NEW v, NEW w, NEW l, NEW k, NEW g, Fair(s, v, w, l, k, g), Over(s), ~Deciding(s),
         NEW r, Cancelled(s, r)
  PROVE  Fair(r, v, w, l, k, g) /\ ~Deciding(r) /\ (Settled(s) => Settled(r))
<1> USE DEF Cancelled
<1>1. /\ ~Unaccepted(r) /\ Over(r)
      /\ s.attempt.kind = "post" => s.obs # "connecting"
  BY Nothings DEF Unaccepted, Over, Fair, DecidingOK
<1>2. TypesOK(r, v, w, l, k, g)
  BY DEF Fair, TypesOK
<1>3. TruthOK(r, v) /\ UsageOK(r, v) /\ ReadFine(r)
  BY <1>1, Nothings DEF Fair, TruthOK, UsageOK, ReadFine, Over
<1>4. WriteOK(r, k)
  BY <1>1, Nothings DEF WriteOK
<1>5. ~Deciding(r) /\ DecidingOK(r, v, l)
  BY <1>1 DEF Deciding, DecidingOK
<1>6. ObsOK(r, w)
  BY DEF Fair, ObsOK
<1>7. WireOK(r, v, w, l, g)
  <2>1. \A i \in 1..Len(w) : FrameOK(w[i], r, v, l, g)
    BY <1>1 DEF Fair, WireOK, FrameOK
  <2> QED BY <2>1 DEF Fair, WireOK
<1>8. StreamOK(r, v, w, l, g)
  BY <1>1 DEF Fair, StreamOK
<1>9. LateOK(r, v, l, g)
  BY <1>1 DEF Fair, LateOK, Backed
<1>10. ClosedOK(r, v, l, g)
  BY <1>1 DEF ClosedOK
<1>11. Settled(s) => Settled(r)
  BY <1>1 DEF Settled
<1> QED BY <1>2, <1>3, <1>4, <1>5, <1>6, <1>7, <1>8, <1>9, <1>10, <1>11 DEF Fair

\* The answer is received.
LEMMA ReceiveCancelKeeps ==
  ASSUME RunViewInv, ReceiveCancel
  PROVE  RunViewInv' /\ StepOK
<1> DEFINE ans == [status |-> "done", pending |-> c.post.ans, at |-> srv.stage]
<1> DEFINE stale == c.post.stale
<1> DEFINE seen == SeenByWrite(c, ans, stale)
<1> DEFINE y == ApplyWrite(c, ans, stale)
<1> DEFINE told == Publish(y)
<1> DEFINE free == [told EXCEPT !.post = NoPost, !.writing = "none"]
<1> DEFINE x == [y EXCEPT !.post = NoPost, !.writing = "none"]
<1> DEFINE yes == TRUE
<1> DEFINE no == FALSE
<1> DEFINE q == ReadSnapshot(free, yes, no)
<1>1. /\ c \in Stores /\ srv \in Servers /\ UNCHANGED <<srv, wire, late, known, forgotten>>
      /\ c.post.kind = "cancel" /\ c.post.at = "answer" /\ ~Deciding(c)
  BY NoReadBeside DEF ReceiveCancel
<1>2. c' = free \/ c' = Publish(q)
  BY Zenon DEF ReceiveCancel
<1>3. yes \in BOOLEAN /\ no \in BOOLEAN /\ ~no
  OBVIOUS
<1> HIDE DEF yes, no
<1>4. /\ Fair(c, srv, wire, late, known, forgotten) /\ Settled(c) /\ TruthOK(c, srv)
      /\ UsageOK(c, srv) /\ srv.status = "done"
  BY <1>1 DEF RunViewInv, Good, Fair, TruthOK
<1>5. /\ ans \in Answers /\ ans.status = "done" /\ ans.at = srv.stage /\ c.run.useAt <= ans.at
      /\ srv.stage \in Nat /\ ans.at <= srv.stage
  <2>1. srv.stage \in Nat
    BY <1>1, RunViewConstants DEF Servers, Stages
  <2>2. c.post.ans \in {"none", "yes", "no"}
    BY <1>1, Parts
  <2>3. ans \in Answers
    BY <2>1, <2>2 DEF Answers, Statuses
  <2> QED BY <1>4, <2>1, <2>3 DEF UsageOK
<1> HIDE DEF ans, stale
<1>6. RunTold(c, seen, srv) /\ seen \in Stores /\ SameButRun(c, seen) /\ Onward(c, seen)
      /\ Over(seen)
  <2>1. PICK preserve \in BOOLEAN, isWrite \in BOOLEAN :
          ~preserve /\ isWrite /\ seen = ApplySnapshot(c, ans, stale, preserve, isWrite)
    BY DEF SeenByWrite
  <2> HIDE DEF seen
  <2>2. ans.status # "none" /\ (ans.status = "done" => srv.status = "done")
    BY <1>4, <1>5
  <2> QED BY <1>1, <1>4, <1>5, <2>1, <2>2, SnapshotTells
<1>7. Fair(seen, srv, wire, late, known, forgotten) /\ ~Deciding(seen)
  BY <1>1, <1>4, <1>6, ToldKeeps
<1>8. Settled(seen) /\ NoNewPost(c, seen)
  BY <1>4, <1>6 DEF SameButRun, Settled, NoNewPost, Unaccepted
<1>9. /\ y \in Stores /\ y.verified /\ ~y.read.same
      /\ y.run = seen.run /\ y.obs = seen.obs /\ y.attempt = seen.attempt
      /\ y.decided = seen.decided /\ y.backup = seen.backup /\ y.problem = seen.problem
      /\ y.read.phase = seen.read.phase /\ y.read.ans = seen.read.ans
      /\ y.read.stale = seen.read.stale /\ y.read.auto = seen.read.auto
      /\ y.write = NoWrite /\ ~y.appr.verified
  <2> DEFINE z == seen
  <2>1. z = SeenByWrite(c, ans, stale) /\ z \in Stores /\ SameButRun(c, z) /\ Over(z)
    BY <1>6
  <2> HIDE DEF seen
  <2> QED BY <1>1, <2>1, ApplyWriteIs
<1> HIDE DEF seen, y
<1>10. x \in Stores
  BY <1>9, Nothings DEF Stores, Writings
<1>11. /\ x.post = NoPost /\ x.run = y.run /\ x.verified = y.verified /\ x.obs = y.obs
       /\ x.attempt = y.attempt /\ x.appr = y.appr /\ x.decided = y.decided
       /\ x.backup = y.backup /\ x.problem = y.problem /\ x.read = y.read /\ x.write = y.write
  BY <1>9 DEF Stores
<1> HIDE DEF x
<1>12. Cancelled(seen, x)
  BY <1>9, <1>10, <1>11 DEF Cancelled
<1>13. Fair(x, srv, wire, late, known, forgotten) /\ ~Deciding(x) /\ Settled(x)
  BY <1>6, <1>7, <1>8, <1>12, CancelledKeeps
<1>14. ReadOnly(y, told)
  <2>1. ReadFine(y)
    BY <1>11, <1>13 DEF Fair, ReadFine
  <2> QED BY <1>9, <2>1, PublishReads
<1> HIDE DEF told
<1>15. told \in Stores
  BY <1>14 DEF ReadOnly
<1>16. free \in Stores
  BY <1>15, Nothings DEF Stores, Writings
<1>17. /\ free.post = NoPost /\ free.run = told.run /\ free.verified = told.verified
       /\ free.obs = told.obs /\ free.attempt = told.attempt /\ free.appr = told.appr
       /\ free.decided = told.decided /\ free.backup = told.backup /\ free.problem = told.problem
       /\ free.read = told.read /\ free.write = told.write
  BY <1>15 DEF Stores
<1> HIDE DEF free
<1>18. ButRead(x, free)
  BY <1>11, <1>14, <1>17 DEF ReadOnly, ButRead, SameWrite, Over
<1>19. ReadOnly(x, free)
  BY <1>11, <1>14, <1>16, <1>17, <1>18 DEF ReadOnly, ReadFine, Asking
<1>20. free.run = seen.run
  BY <1>9, <1>11, <1>18 DEF ButRead
<1>21. /\ Fair(free, srv, wire, late, known, forgotten) /\ Settled(free) /\ NoNewPost(x, free)
       /\ ~Deciding(free)
  BY <1>13, <1>19, ReadKeeps
<1>22. NoNewPost(c, free) /\ Onward(c, free)
  <2>1. NoNewPost(seen, x)
    BY <1>12, Nothings DEF Cancelled, NoNewPost
  <2> QED BY <1>6, <1>8, <1>20, <1>21, <2>1 DEF NoNewPost, Onward, Over
<1>23. CASE c' = free
  BY <1>1, <1>21, <1>22, <1>23, StoreStep DEF Good
<1>24. CASE c' = Publish(q)
  <2>1. ReadFine(free)
    BY <1>21 DEF Fair
  <2>2. ReadOnly(free, q)
    BY <1>3, <1>16, <2>1, SnapshotReads
  <2> HIDE DEF q
  <2>3. /\ Fair(q, srv, wire, late, known, forgotten) /\ Settled(q) /\ NoNewPost(free, q)
    BY <1>21, <2>2, ReadKeeps
  <2>4. /\ Fair(c', srv, wire, late, known, forgotten) /\ Settled(c') /\ NoNewPost(q, c')
        /\ ReadOnly(q, c')
    BY <1>24, <2>3, PublishKeeps
  <2>5. c'.run = free.run
    BY <2>2, <2>4 DEF ReadOnly, ButRead
  <2>6. Onward(c, c') /\ NoNewPost(c, c')
    BY <1>22, <2>3, <2>4, <2>5 DEF Onward, NoNewPost, Over
  <2> QED BY <1>1, <2>4, <2>6, StoreStep DEF Good
<1> QED BY <1>2, <1>23, <1>24

-----------------------------------------------------------------------------
(* The backend goes on. *)

\* Something happened elsewhere.
LEMMA ElsewhereStep ==
  ASSUME RunViewInv, c' = c, Fair(c, srv', wire', late', known', forgotten')
  PROVE  RunViewInv' /\ StepOK
<1>1. Settled(c) /\ c \in Stores
  BY DEF RunViewInv, Good, Fair, TypesOK
<1>2. c.run.useAt \in Nat
  BY <1>1, Parts
<1>3. Onward(c, c') /\ NoNewPost(c, c')
  BY <1>2 DEF Onward, NoNewPost
<1> QED BY <1>1, <1>3, StoreStep DEF Good

\* A POST that was late is late no more.
LEMMA LateLess ==
  ASSUME NEW s, NEW v, NEW w, NEW l, NEW k, NEW g, Fair(s, v, w, l, k, g),
         NEW l2, l2 \subseteq l
  PROVE  Fair(s, v, w, l2, k, g)
<1>1. /\ \A j : LateAt(l2, j) => LateAt(l, j)
      /\ \A j : Latest(l, j) => Latest(l2, j)
  BY DEF LateAt, Latest
<1>2. TypesOK(s, v, w, l2, k, g)
  BY DEF Fair, TypesOK
<1>3. DecidingOK(s, v, l2)
  BY <1>1 DEF Fair, DecidingOK
<1>4. WireOK(s, v, w, l2, g)
  <2>1. \A i \in 1..Len(w) : FrameOK(w[i], s, v, l2, g)
    BY <1>1 DEF Fair, WireOK, FrameOK
  <2> QED BY <2>1 DEF Fair, WireOK
<1>5. StreamOK(s, v, w, l2, g)
  BY <1>1 DEF Fair, StreamOK
<1>6. LateOK(s, v, l2, g)
  BY <1>1 DEF Fair, LateOK
<1>7. ClosedOK(s, v, l2, g)
  BY <1>1 DEF Fair, ClosedOK
<1> QED BY <1>2, <1>3, <1>4, <1>5, <1>6, <1>7 DEF Fair

\* A decision resumes the Run: those that wait for it are in the backup.
Resuming(v, v2) ==
  /\ v2 \in Servers /\ v.status = "interrupted" /\ v2.status = "running" /\ v2.stage = v.stage + 1

\* Whatever is past stays so.
LEMMA ResumingPast ==
  ASSUME NEW v \in Servers, NEW v2, Resuming(v, v2)
  PROVE  /\ v.stage \in Nat /\ v2.stage \in Nat
         /\ \A j \in Nat : Past(v, j) => Past(v2, j) /\ j < v2.stage
         /\ \A j : ~Paused(v2, j) /\ (Paused(v, j) => j = v.stage)
<1>1. v.stage \in Nat /\ v2.stage \in Nat
  BY RunViewConstants DEF Resuming, Servers, Stages
<1>2. \A j \in Nat : Past(v, j) => Past(v2, j) /\ j < v2.stage
  BY <1>1 DEF Past, Resuming
<1>3. \A j : ~Paused(v2, j) /\ (Paused(v, j) => j = v.stage)
  BY DEF Paused, Resuming
<1> QED BY <1>1, <1>2, <1>3

\* A late decision is handled after all.
LEMMA ResumedKeeps ==
  ASSUME NEW s, NEW v, NEW w, NEW l, NEW k, NEW g, Fair(s, v, w, l, k, g),
         LateAt(l, v.stage), NEW v2, Resuming(v, v2), NEW l2, l2 \subseteq l
  PROVE  Fair(s, v2, w, l2, k, g)
<1>0. v \in Servers /\ v2 \in Servers /\ s \in Stores
  BY DEF Fair, TypesOK, Resuming
<1>1. /\ v.stage \in Nat /\ v2.stage \in Nat /\ v2.stage = v.stage + 1
      /\ v.status = "interrupted" /\ v2.status = "running"
      /\ \A j \in Nat : Past(v, j) => Past(v2, j) /\ j < v2.stage
      /\ \A j : ~Paused(v2, j) /\ (Paused(v, j) => j = v.stage)
  BY <1>0, ResumingPast DEF Resuming
<1>2. /\ \A j : LateAt(l2, j) => LateAt(l, j)
      /\ \A j : Latest(l, j) => Latest(l2, j)
  BY DEF LateAt, Latest
<1>3. v.stage \in Stages /\ Backed(s, v.stage)
  BY <1>0, <1>1 DEF Fair, LateOK, Servers, Paused
<1>4. TypesOK(s, v2, w, l2, k, g)
  BY <1>0 DEF Fair, TypesOK
<1>5. TruthOK(s, v2)
  BY <1>1 DEF Fair, TruthOK
<1>6. UsageOK(s, v2)
  <2>1. s.run.useAt \in Nat /\ s.read.ans.at \in Nat
    BY <1>0, Parts
  <2> QED BY <1>1, <2>1 DEF Fair, UsageOK
<1>7. DecidingOK(s, v2, l2)
  <2>1. s.decided \in Pauses
    BY <1>0, Fields
  <2>2. Deciding(s) => s.decided \in Nat
    BY <2>1 DEF Fair, DecidingOK, Pauses
  <2> QED BY <1>1, <1>2, <2>2 DEF Fair, DecidingOK
<1>8. WireOK(s, v2, w, l2, g)
  <2>1. \A i \in 1..Len(w) : FrameOK(w[i], s, v2, l2, g)
    <3> TAKE i \in 1..Len(w)
    <3>1. FrameOK(w[i], s, v, l, g) /\ w[i] \in Frames
      BY DEF Fair, WireOK, TypesOK
    <3>2. w[i].kind # "eof" => w[i].at \in Nat
      BY <3>1, FrameIs DEF Frames, Told, Asked
    <3>3. w[i].kind = "required" /\ Paused(v, w[i].at) => w[i].at < v2.stage /\ Backed(s, w[i].at)
      BY <1>1, <1>3
    <3>4. w[i].kind = "required" => w[i].at \in Nat
      BY <3>2
    <3> HIDE DEF FrameOK
    <3>5. w[i].kind # "eof" => w[i].at <= v2.stage
      BY <1>1, <3>1, <3>2 DEF FrameOK
    <3>6. ~(w[i].kind \in {"meta", "usage"} /\ w[i].status = "done")
      BY <1>1, <3>1 DEF FrameOK
    <3>7. w[i].kind = "resolved" => w[i].at < v2.stage
      BY <1>1, <3>1, <3>2 DEF FrameOK
    <3>8. w[i].kind = "required" =>
            /\ Past(v2, w[i].at) /\ Latest(l2, w[i].at) /\ (Unaccepted(s) => w[i].at # s.decided)
            /\ Over(s) \/ CancelDoubt(s, g) \/ Paused(v2, w[i].at)
               \/ (w[i].at < v2.stage /\ Backed(s, w[i].at))
      BY <1>1, <1>2, <3>1, <3>3, <3>4 DEF FrameOK
    <3> QED BY <3>5, <3>6, <3>7, <3>8 DEF FrameOK
  <2> QED BY <2>1 DEF Fair, WireOK
<1>9. StreamOK(s, v2, w, l2, g)
  <2>1. s.attempt.pause \in Pauses
    BY <1>0, Parts
  <2>2. ~(s.obs = "open" /\ ~HasEnd(w))
    BY <1>1 DEF Fair, StreamOK
  <2>3. s.attempt.pause # -1 =>
          Past(v2, s.attempt.pause) /\ Latest(l2, s.attempt.pause) /\ (Over(s) \/ Doubt(s, g))
    BY <1>1, <1>2, <2>1 DEF Fair, StreamOK, Pauses
  <2> QED BY <2>2, <2>3 DEF Fair, StreamOK
<1>10. LateOK(s, v2, l2, g)
  <2>1. s.appr.pause \in Pauses
    BY <1>0, Parts
  <2>2. \A j \in Stages : j \in Nat
    BY RunViewConstants DEF Stages
  <2>3. s.appr.verified => s.appr.pause # -1 /\ Past(v2, s.appr.pause) /\ Latest(l2, s.appr.pause)
    BY <1>1, <1>2, <2>1 DEF Fair, LateOK, Pauses
  <2>4. \A j \in Stages : LateAt(l2, j) => Past(v2, j) /\ (Paused(v2, j) => Backed(s, j))
    BY <1>1, <1>2, <2>2 DEF Fair, LateOK
  <2> QED BY <2>3, <2>4 DEF Fair, LateOK
<1>11. ClosedOK(s, v2, l2, g)
  BY <1>1 DEF Fair, ClosedOK
<1> QED BY <1>4, <1>5, <1>6, <1>7, <1>8, <1>9, <1>10, <1>11 DEF Fair

\* The backend takes the decision.
LEMMA ServeApprovalKeeps ==
  ASSUME RunViewInv, ServeApproval
  PROVE  RunViewInv' /\ StepOK
<1> DEFINE m == Meta("running", "none", srv.stage + 1)
<1> DEFINE q == Resolved(srv.stage)
<1> DEFINE w == <<m, q>>
<1>1. /\ c \in Stores /\ srv \in Servers /\ UNCHANGED <<late, known, forgotten>> /\ wire' = w
      /\ c' = [c EXCEPT !.obs = "open"]
      /\ srv' = [status |-> "running", stage |-> srv.stage + 1, settled |-> FALSE]
      /\ srv.status = "interrupted" /\ srv.stage = c.decided /\ srv.stage < MaxStage
      /\ Undecided /\ c.obs = "connecting"
  BY NoReadBeside DEF ServeApproval, CanResume, Resumed
<1>2. Fair(c, srv, wire, late, known, forgotten) /\ Settled(c)
  BY DEF RunViewInv, Good
<1>3. Deciding(c) /\ Unaccepted(c) /\ c.attempt.kind = "post"
  BY <1>1, <1>2 DEF Undecided, Deciding, Unaccepted, Settled
<1>4. Resuming(srv, srv')
  <2>1. srv.stage + 1 \in Stages
    BY <1>1, RunViewConstants DEF Servers, Stages
  <2> QED BY <1>1, <2>1 DEF Resuming, Servers, Statuses
<1>5. /\ srv.stage \in Nat /\ srv'.stage \in Nat /\ srv'.stage = srv.stage + 1
      /\ srv' \in Servers /\ srv'.status = "running"
      /\ \A j \in Nat : Past(srv, j) => Past(srv', j) /\ j < srv'.stage
      /\ \A j : ~Paused(srv', j) /\ (Paused(srv, j) => j = srv.stage)
  BY <1>1, <1>4, ResumingPast DEF Resuming
<1>6. /\ m \in Frames /\ m.kind = "meta" /\ m.status = "running" /\ m.at = srv'.stage
      /\ q \in Frames /\ q.kind = "resolved" /\ q.at = srv.stage
  <2>1. "running" \in Statuses /\ srv.stage + 1 \in Nat
    BY <1>5 DEF Statuses
  <2> QED BY <1>5, <2>1, FrameIs
<1> HIDE DEF m, q
<1>7. /\ w \in Seq(Frames) /\ Len(w) = 2 /\ w[1] = m /\ w[2] = q
      /\ \A i \in 1..Len(w) : w[i] = m \/ w[i] = q
  BY <1>6
<1>8. w # <<>> /\ Head(w) = m
  <2>1. Len(w) >= 1
    BY <1>7
  <2>2. w # <<>> /\ Head(w) = w[1]
    BY <1>7, <2>1, Heads, Zenon
  <2> QED BY <1>7, <2>2
<1> HIDE DEF w
<1>9. c' \in Stores
  BY <1>1 DEF Stores, Observations
<1>10. /\ c'.obs = "open" /\ c'.read = c.read /\ c'.problem = c.problem /\ c'.run = c.run
       /\ c'.verified = c.verified /\ c'.attempt = c.attempt
       /\ c'.appr = c.appr /\ c'.decided = c.decided /\ c'.post = c.post
       /\ c'.write = c.write /\ c'.backup = c.backup
  BY <1>1 DEF Stores
<1> DEFINE v == srv'
<1>11. v \in Servers /\ v.status = "running" /\ v.stage \in Nat /\ v.stage = srv.stage + 1
  BY <1>5
<1>12. /\ \A j \in Nat : Past(srv, j) => Past(v, j) /\ j < v.stage
       /\ \A j : ~Paused(v, j)
  BY <1>5
<1> HIDE DEF v
<1>13. TypesOK(c', v, w, late, known, forgotten)
  BY <1>2, <1>7, <1>9, <1>11 DEF Fair, TypesOK
<1>14. TruthOK(c', v)
  BY <1>1, <1>2, <1>10 DEF Fair, TruthOK, Over
<1>15. UsageOK(c', v)
  <2>1. c.run.useAt \in Nat /\ c.read.ans.at \in Nat
    BY <1>1, Parts
  <2> QED BY <1>2, <1>5, <1>10, <1>11, <2>1 DEF Fair, UsageOK
<1>16. ReadFine(c') /\ WriteOK(c', known)
  BY <1>2, <1>10 DEF Fair, ReadFine, WriteOK, Unaccepted
<1>17. DecidingOK(c', v, late)
  <2>1. c.decided \in Nat /\ Past(v, c.decided) /\ c.decided < v.stage
    BY <1>1, <1>2, <1>3, <1>5, <1>12 DEF Fair, DecidingOK
  <2> QED BY <1>2, <1>3, <1>10, <2>1 DEF Fair, DecidingOK, Deciding, Unaccepted
<1>18. ObsOK(c', w)
  BY <1>2, <1>3, <1>6, <1>8, <1>10 DEF ObsOK, Deciding
<1>19. WireOK(c', v, w, late, forgotten)
  <2>1. \A i \in 1..Len(w) : FrameOK(w[i], c', v, late, forgotten)
    <3> TAKE i \in 1..Len(w)
    <3>1. FrameOK(m, c', v, late, forgotten)
      BY <1>6, <1>11 DEF FrameOK, v
    <3>2. FrameOK(q, c', v, late, forgotten)
      BY <1>5, <1>6, <1>11 DEF FrameOK
    <3> QED BY <1>7, <3>1, <3>2
  <2> QED BY <1>6, <1>7, <2>1 DEF WireOK
<1>20. StreamOK(c', v, w, late, forgotten)
  <2>1. ~HasEnd(w) /\ \A i \in 1..Len(w) : w[i].kind # "required"
    BY <1>6, <1>7 DEF HasEnd
  <2>2. c.attempt.pause = -1
    BY <1>2, <1>3 DEF Fair, DecidingOK
  <2> QED BY <1>10, <1>11, <2>1, <2>2 DEF StreamOK
<1>21. LateOK(c', v, late, forgotten)
  <2>1. ~c.appr.verified
    BY <1>2, <1>3 DEF Fair, DecidingOK
  <2>2. \A j \in Stages : j \in Nat
    BY RunViewConstants DEF Stages
  <2>3. \A j \in Stages : LateAt(late, j) => Past(v, j) /\ ~Paused(v, j)
    BY <1>2, <1>12, <2>2 DEF Fair, LateOK
  <2> QED BY <1>2, <1>10, <2>1, <2>3 DEF Fair, LateOK, Over, CancelDoubt
<1>22. ClosedOK(c', v, late, forgotten)
  BY <1>10 DEF ClosedOK
<1>23. Fair(c', v, w, late, known, forgotten) /\ Settled(c')
  BY <1>2, <1>10, <1>13, <1>14, <1>15, <1>16, <1>17, <1>18, <1>19, <1>20, <1>21, <1>22
     DEF Fair, Settled, Unaccepted
<1>24. Onward(c, c') /\ NoNewPost(c, c')
  <2>1. c.run.useAt \in Nat
    BY <1>1, Parts
  <2> QED BY <1>10, <2>1 DEF Onward, NoNewPost, Over
<1> QED BY <1>1, <1>23, <1>24, StoreStep DEF Good, v

\* What an execution publishes when it pauses or ends.
Outcome(u, v) ==
  /\ HasEnd(u) /\ HasOutcome(u)
  /\ \A i \in 1..Len(u) : u[i].kind = "eof" => i = Len(u)
  /\ \A i \in 1..Len(u) :
       /\ u[i].kind \in {"meta", "usage", "required", "eof"}
       /\ u[i].kind # "eof" => u[i].at = v.stage
       /\ u[i].kind \in {"meta", "usage"} /\ u[i].status = "done" => v.status = "done"
       /\ u[i].kind = "required" => v.status = "interrupted"
  /\ \A i, j \in 1..Len(u) :
       i < j /\ u[i].kind = "required" => u[j].kind \in {"meta", "usage", "eof"}

\* It reaches the stream that is open, if that one goes on.
Sent(s, w, u, x) ==
  \/ s.obs = "open" /\ ~HasEnd(w) /\ x = w \o u
  \/ ~(s.obs = "open" /\ ~HasEnd(w)) /\ x = w

\* It pauses, or is over, and then a cancel was in doubt if it was paused.
Outgoing(s, v, v2, g) ==
  /\ v2 \in Servers /\ v2.stage = v.stage
  /\ \/ v.status = "running" /\ v2.status \in {"interrupted", "done"}
     \/ v2.status = "done" /\ (Over(s) \/ CancelDoubt(s, g))

\* The stream is told, and what was in doubt stays so.
LEMMA OutcomeKeeps ==
  ASSUME NEW s, NEW v, NEW w, NEW l, NEW k, NEW g, Fair(s, v, w, l, k, g), Settled(s),
         NEW v2, Outgoing(s, v, v2, g), NEW u \in Seq(Frames), Outcome(u, v2),
         NEW x, Sent(s, w, u, x)
  PROVE  Fair(s, v2, x, l, k, g)
<1>1. /\ s \in Stores /\ v \in Servers /\ v2 \in Servers /\ w \in Seq(Frames) /\ v2.stage = v.stage
      /\ v.stage \in Nat /\ v2.status \in {"interrupted", "done"}
      /\ v.status \in {"running", "interrupted", "done"}
      /\ v.status = "done" => v2.status = "done"
  BY RunViewConstants DEF Fair, TypesOK, Outgoing, Servers, Stages, Statuses, TruthOK, Over
<1>2. /\ \A j : Past(v, j) => Past(v2, j)
      /\ \A j : Paused(v, j) => Over(s) \/ CancelDoubt(s, g)
      /\ CancelDoubt(s, g) => Doubt(s, g)
  BY <1>1 DEF Past, Paused, Outgoing, CancelDoubt, Doubt
<1>3. \A f : FrameOK(f, s, v, l, g) => FrameOK(f, s, v2, l, g)
  BY <1>1, <1>2 DEF FrameOK
<1>4. TruthOK(s, v2) /\ UsageOK(s, v2) /\ DecidingOK(s, v2, l)
  BY <1>1, <1>2 DEF Fair, TruthOK, UsageOK, DecidingOK
<1>5. LateOK(s, v2, l, g)
  <2>1. \A j \in Stages : LateAt(l, j) => Past(v2, j) /\ (Paused(v2, j) => Backed(s, j))
    <3> TAKE j \in Stages
    <3> HAVE LateAt(l, j)
    <3>1. Past(v, j) /\ (Paused(v, j) => Backed(s, j)) /\ j \in Nat
      BY RunViewConstants DEF Fair, LateOK, Stages
    <3>2. Paused(v2, j) => v.status = "running" /\ j = v.stage
      BY <1>1 DEF Paused, Outgoing
    <3>3. v.status = "running" => j # v.stage
      BY <1>1, <3>1 DEF Past
    <3> QED BY <1>2, <3>1, <3>2, <3>3
  <2> QED BY <1>2, <2>1 DEF Fair, LateOK
<1>6. ClosedOK(s, v2, l, g)
  BY <1>2 DEF Fair, ClosedOK
<1>7. ReadFine(s) /\ WriteOK(s, k)
  BY DEF Fair
<1>8. CASE ~(s.obs = "open" /\ ~HasEnd(w)) /\ x = w
  <2>1. TypesOK(s, v2, x, l, k, g) /\ ObsOK(s, x)
    BY <1>1, <1>8 DEF Fair, TypesOK
  <2>2. WireOK(s, v2, x, l, g)
    BY <1>3, <1>8 DEF Fair, WireOK
  <2>3. StreamOK(s, v2, x, l, g)
    BY <1>2, <1>8 DEF Fair, StreamOK
  <2> QED BY <1>4, <1>5, <1>6, <1>7, <2>1, <2>2, <2>3 DEF Fair
<1>9. CASE s.obs = "open" /\ ~HasEnd(w) /\ x = w \o u
  <2>1. /\ x \in Seq(Frames) /\ Len(x) = Len(w) + Len(u) /\ Len(w) \in Nat /\ Len(u) \in Nat
        /\ \A i \in 1..Len(w) : i \in 1..Len(x) /\ x[i] = w[i]
        /\ \A i \in 1..Len(u) : Len(w) + i \in 1..Len(x) /\ x[Len(w) + i] = u[i]
        /\ \A i \in 1..Len(x) : i \in 1..Len(w)
           \/ (i - Len(w) \in 1..Len(u) /\ x[i] = u[i - Len(w)])
    BY <1>1, <1>9, Joined
  <2>2. /\ v.status = "running" /\ s.attempt.pause = -1
        /\ \A i \in 1..Len(w) : w[i].kind # "required" /\ w[i].kind # "eof"
    BY <1>9 DEF Fair, StreamOK, HasEnd
  <2>3. TypesOK(s, v2, x, l, k, g)
    BY <1>1, <2>1 DEF Fair, TypesOK
  <2>4. ObsOK(s, x)
    <3>1. s.obs = "open" /\ ~s.attempt.meta => x # <<>> /\ Head(x).kind = "meta"
      <4> HAVE s.obs = "open" /\ ~s.attempt.meta
      <4>1. w # <<>> /\ Head(w).kind = "meta"
        BY <1>9 DEF Fair, ObsOK
      <4>2. Head(w) = w[1] /\ 1 \in 1..Len(w)
        BY <1>1, <4>1, TailIs
      <4>3. x[1] = w[1] /\ Len(x) >= 1
        BY <2>1, <4>2
      <4>4. x # <<>> /\ Head(x) = x[1]
        BY <2>1, <4>3, Heads, Zenon
      <4> QED BY <4>1, <4>2, <4>3, <4>4
    <3> QED BY <1>9, <3>1 DEF Fair, ObsOK
  <2>5. \A i \in 1..Len(u) : FrameOK(u[i], s, v2, l, g)
    <3> TAKE i \in 1..Len(u)
    <3>1. u[i].kind = "required" =>
            /\ Past(v2, v.stage) /\ Latest(l, v.stage) /\ Paused(v2, v.stage)
            /\ Unaccepted(s) => v.stage # s.decided
      <4> HAVE u[i].kind = "required"
      <4>1. v2.status = "interrupted"
        BY DEF Outcome
      <4>2. Past(v2, v.stage) /\ Paused(v2, v.stage)
        BY <1>1, <4>1 DEF Past, Paused
      <4>3. Latest(l, v.stage)
        <5>1. \A j \in Stages : LateAt(l, j) => j <= v.stage
          BY <1>1, RunViewConstants DEF Fair, LateOK, Past, Stages
        <5> QED BY <5>1 DEF Latest
      <4>4. Unaccepted(s) => s.decided < v.stage
        BY <1>9 DEF Fair, WriteOK, Settled, Deciding, DecidingOK
      <4> QED BY <1>1, <4>2, <4>3, <4>4
    <3>2. /\ u[i].kind \in {"meta", "usage", "required", "eof"}
          /\ u[i].kind # "eof" => u[i].at = v.stage
          /\ u[i].kind \in {"meta", "usage"} /\ u[i].status = "done" => v2.status = "done"
      BY <1>1 DEF Outcome
    <3> QED BY <1>1, <3>1, <3>2 DEF FrameOK
  <2>6. WireOK(s, v2, x, l, g)
    <3>1. \A i \in 1..Len(w) : FrameOK(w[i], s, v2, l, g)
      BY <1>3 DEF Fair, WireOK
    <3>2. \A i \in 1..Len(x) : FrameOK(x[i], s, v2, l, g)
      <4> TAKE i \in 1..Len(x)
      <4>1. CASE i \in 1..Len(w)
        BY <2>1, <3>1, <4>1
      <4>2. CASE i - Len(w) \in 1..Len(u) /\ x[i] = u[i - Len(w)]
        BY <2>5, <4>2
      <4> QED BY <2>1, <4>1, <4>2
    <3>3. \A i \in 1..Len(x) : x[i].kind = "eof" => i = Len(x)
      <4> TAKE i \in 1..Len(x)
      <4> HAVE x[i].kind = "eof"
      <4>1. i - Len(w) \in 1..Len(u) /\ x[i] = u[i - Len(w)]
        BY <2>1, <2>2
      <4>2. i - Len(w) = Len(u)
        BY <4>1 DEF Outcome
      <4> QED BY <2>1, <4>2
    <3>4. ASSUME NEW i \in 1..Len(x), NEW j \in 1..Len(x), i < j, x[i].kind = "required"
          PROVE  /\ i - Len(w) \in 1..Len(u) /\ j - Len(w) \in 1..Len(u) /\ i - Len(w) < j - Len(w)
                 /\ x[i] = u[i - Len(w)] /\ x[j] = u[j - Len(w)]
      <4>1. i \notin 1..Len(w)
        BY <2>1, <2>2, <3>4
      <4>2. j \notin 1..Len(w)
        BY <2>1, <3>4, <4>1
      <4>3. i - Len(w) < j - Len(w)
        BY <2>1, <3>4
      <4> QED BY <2>1, <4>1, <4>2, <4>3
    <3>5. \A i, j \in 1..Len(x) :
            i < j /\ x[i].kind = "required" => x[j].kind \in {"meta", "usage", "eof"}
      BY <3>4 DEF Outcome
    <3>6. \A i, j \in 1..Len(x) :
            i < j /\ x[i].kind = "resolved" /\ x[j].kind = "required" => x[i].at < x[j].at
      <4> TAKE i, j \in 1..Len(x)
      <4> HAVE i < j /\ x[i].kind = "resolved" /\ x[j].kind = "required"
      <4>1. i \in 1..Len(w) /\ x[i] = w[i]
        BY <2>1 DEF Outcome
      <4>2. j - Len(w) \in 1..Len(u) /\ x[j] = u[j - Len(w)]
        BY <2>1, <2>2
      <4>3. x[j].at = v.stage
        BY <1>1, <4>2 DEF Outcome
      <4>4. x[i].at < v.stage
        BY <4>1 DEF Fair, WireOK, FrameOK
      <4> QED BY <4>3, <4>4
    <3> QED BY <3>2, <3>3, <3>5, <3>6 DEF WireOK
  <2>7. HasEnd(x) /\ HasOutcome(x)
    <3>1. PICK i \in 1..Len(u) : u[i].kind = "eof"
      BY DEF Outcome, HasEnd
    <3>2. Len(w) + i \in 1..Len(x) /\ x[Len(w) + i].kind = "eof"
      BY <2>1, <3>1
    <3>3. PICK j \in 1..Len(u) :
            u[j].kind = "required" \/ (u[j].kind = "meta" /\ u[j].status = "done")
      BY DEF Outcome, HasOutcome
    <3>4. /\ Len(w) + j \in 1..Len(x)
          /\ \/ x[Len(w) + j].kind = "required"
             \/ x[Len(w) + j].kind = "meta" /\ x[Len(w) + j].status = "done"
      BY <2>1, <3>3
    <3> QED BY <3>2, <3>4, Zenon DEF HasEnd, HasOutcome
  <2>8. StreamOK(s, v2, x, l, g)
    BY <2>2, <2>7 DEF StreamOK
  <2> QED BY <1>4, <1>5, <1>6, <1>7, <2>3, <2>4, <2>6, <2>8 DEF Fair
<1> QED BY <1>8, <1>9 DEF Sent

\* A concatenation of 3 elements, from the front.
LEMMA TupleAnd2 ==
  ASSUME NEW a, NEW b, NEW d
  PROVE  <<a>> \o <<b, d>> = <<a, b, d>>
<1> DEFINE S == {a, b, d}
<1> DEFINE x == <<a>> \o <<b, d>>
<1> DEFINE y == <<a, b, d>>
<1>1. x \in Seq(S) /\ Len(x) = 3 /\ x[1] = a /\ x[2] = b /\ x[3] = d
  OBVIOUS
<1>2. y \in Seq(S) /\ Len(y) = 3 /\ y[1] = a /\ y[2] = b /\ y[3] = d
  OBVIOUS
<1> HIDE DEF x, y
<1>3. x = y
  BY <1>1, <1>2, SeqEqual
<1> QED BY <1>3 DEF x, y

\* A concatenation of 4 elements, from the front.
LEMMA TupleAnd3 ==
  ASSUME NEW a, NEW b, NEW d, NEW e
  PROVE  <<a>> \o <<b, d, e>> = <<a, b, d, e>>
<1> DEFINE S == {a, b, d, e}
<1> DEFINE x == <<a>> \o <<b, d, e>>
<1> DEFINE y == <<a, b, d, e>>
<1>1. x \in Seq(S) /\ Len(x) = 4 /\ x[1] = a /\ x[2] = b /\ x[3] = d /\ x[4] = e
  OBVIOUS
<1>2. y \in Seq(S) /\ Len(y) = 4 /\ y[1] = a /\ y[2] = b /\ y[3] = d /\ y[4] = e
  OBVIOUS
<1> HIDE DEF x, y
<1>3. x = y
  BY <1>1, <1>2, SeqEqual
<1> QED BY <1>3 DEF x, y

\* Nothing before.
LEMMA NoneAnd ==
  ASSUME NEW S, NEW w \in Seq(S)
  PROVE  <<>> \o w = w
OBVIOUS

\* 2 frames.
LEMMA Frames2 ==
  ASSUME NEW a \in Frames, NEW b \in Frames
  PROVE  /\ <<a, b>> \in Seq(Frames) /\ Len(<<a, b>>) = 2
         /\ <<a, b>>[1] = a /\ <<a, b>>[2] = b
<1> HIDE DEF Frames
<1> QED OBVIOUS

\* 3 frames.
LEMMA Frames3 ==
  ASSUME NEW a \in Frames, NEW b \in Frames, NEW d \in Frames
  PROVE  /\ <<a, b, d>> \in Seq(Frames) /\ Len(<<a, b, d>>) = 3
         /\ <<a, b, d>>[1] = a /\ <<a, b, d>>[2] = b /\ <<a, b, d>>[3] = d
<1> HIDE DEF Frames
<1> QED OBVIOUS

\* 4 frames.
LEMMA Frames4 ==
  ASSUME NEW a \in Frames, NEW b \in Frames, NEW d \in Frames, NEW e \in Frames
  PROVE  /\ <<a, b, d, e>> \in Seq(Frames) /\ Len(<<a, b, d, e>>) = 4
         /\ <<a, b, d, e>>[1] = a /\ <<a, b, d, e>>[2] = b /\ <<a, b, d, e>>[3] = d
            /\ <<a, b, d, e>>[4] = e
<1> HIDE DEF Frames
<1> QED OBVIOUS

\* Publishing is sending.
LEMMA PublishedIs ==
  ASSUME RunViewInv, NEW u, Published(u)
  PROVE  Sent(c, wire, u, wire')
<1>1. wire \in Seq(Frames)
  BY DEF RunViewInv, Good, Fair, TypesOK
<1>2. (End \in {wire[k] : k \in 1..Len(wire)}) <=> HasEnd(wire)
  <2>1. \A i \in 1..Len(wire) : wire[i] \in Frames
    BY <1>1
  <2>2. \A f \in Frames : f.kind = "eof" => f = End
    BY DEF Frames, Told, Asked
  <2>3. End.kind = "eof"
    BY FrameIs
  <2> QED BY <2>1, <2>2, <2>3 DEF HasEnd
<1> QED BY <1>2 DEF Published, Sent

\* What is published first: usage, if it was settled in time.
LEMMA UsedIs ==
  ASSUME RunViewInv, NEW settled \in BOOLEAN
  PROVE  \/ Used(settled) = <<>>
         \/ \E f \in Frames : /\ Used(settled) = <<f>> /\ f.kind = "usage"
                              /\ f.status = "running" /\ f.at = srv.stage
<1>1. srv.stage \in Nat
  BY RunViewConstants DEF RunViewInv, Good, Fair, TypesOK, Servers, Stages
<1> DEFINE f == [Meta("running", "none", srv.stage) EXCEPT !.kind = "usage"]
<1>2. f \in Frames /\ f.kind = "usage" /\ f.status = "running" /\ f.at = srv.stage
  <2>1. f = [kind |-> "usage", status |-> "running", pending |-> "none", at |-> srv.stage]
    BY DEF Meta
  <2> HIDE DEF f
  <2> QED BY <1>1, <2>1 DEF Frames, Told, Statuses
<1>3. CASE settled
  <2>1. Used(settled) = <<f>>
    BY <1>3 DEF Used
  <2> HIDE DEF f
  <2> QED BY <1>2, <2>1
<1>4. CASE ~settled
  BY <1>4 DEF Used
<1> QED BY <1>3, <1>4

\* What a Run publishes that is over.
LEMMA DoneOutcome ==
  ASSUME RunViewInv, NEW settled \in BOOLEAN, NEW v2, v2.stage = srv.stage, v2.status = "done",
         NEW u, u = Used(settled) \o <<Meta("done", "none", srv.stage), End>>
  PROVE  u \in Seq(Frames) /\ Outcome(u, v2)
<1> DEFINE m == Meta("done", "none", srv.stage)
<1> DEFINE e == End
<1>1. srv.stage \in Nat
  BY RunViewConstants DEF RunViewInv, Good, Fair, TypesOK, Servers, Stages
<1>2. /\ m \in Frames /\ m.kind = "meta" /\ m.status = "done" /\ m.at = srv.stage
      /\ e \in Frames /\ e.kind = "eof"
  BY <1>1, FrameIs DEF Statuses
<1>3. u = Used(settled) \o <<m, e>>
  OBVIOUS
<1> HIDE DEF m, e
<1>4. CASE Used(settled) = <<>>
  <2>1. u = <<m, e>>
    <3>1. <<m, e>> \in Seq(Frames)
      BY <1>2
    <3> QED BY <1>3, <1>4, <3>1, NoneAnd
  <2>2. u \in Seq(Frames) /\ Len(u) = 2 /\ u[1] = m /\ u[2] = e
    BY <1>2, <2>1, Frames2, Zenon
  <2>3. \A i \in 1..2 : i = 1 \/ i = 2
    OBVIOUS
  <2> QED BY <1>2, <2>2, <2>3 DEF Outcome, HasEnd, HasOutcome
<1>5. CASE Used(settled) # <<>>
  <2>1. PICK f \in Frames : /\ Used(settled) = <<f>> /\ f.kind = "usage"
                            /\ f.status = "running" /\ f.at = srv.stage
    BY <1>5, UsedIs
  <2>2. u = <<f, m, e>>
    BY <1>3, <2>1, TupleAnd2, Zenon
  <2>3. u \in Seq(Frames) /\ Len(u) = 3 /\ u[1] = f /\ u[2] = m /\ u[3] = e
    <3>1. /\ <<f, m, e>> \in Seq(Frames) /\ Len(<<f, m, e>>) = 3
          /\ <<f, m, e>>[1] = f /\ <<f, m, e>>[2] = m /\ <<f, m, e>>[3] = e
      BY <1>2, <2>1, Frames3
    <3> QED BY <2>2, <3>1, Zenon
  <2>4. \A i \in 1..3 : i = 1 \/ i = 2 \/ i = 3
    OBVIOUS
  <2> QED BY <1>2, <2>1, <2>3, <2>4 DEF Outcome, HasEnd, HasOutcome
<1> QED BY <1>4, <1>5

\* What a Run publishes that pauses.
LEMMA PauseOutcome ==
  ASSUME RunViewInv, NEW settled \in BOOLEAN, NEW v2, v2.stage = srv.stage,
         v2.status = "interrupted",
         NEW u, u = Used(settled) \o
                    <<Required(srv.stage), Meta("interrupted", "none", srv.stage), End>>
  PROVE  u \in Seq(Frames) /\ Outcome(u, v2)
<1> DEFINE p == Required(srv.stage)
<1> DEFINE m == Meta("interrupted", "none", srv.stage)
<1> DEFINE e == End
<1>1. srv.stage \in Nat
  BY RunViewConstants DEF RunViewInv, Good, Fair, TypesOK, Servers, Stages
<1>2. /\ m \in Frames /\ m.kind = "meta" /\ m.status = "interrupted" /\ m.at = srv.stage
      /\ p \in Frames /\ p.kind = "required" /\ p.at = srv.stage
      /\ e \in Frames /\ e.kind = "eof"
  BY <1>1, FrameIs DEF Statuses
<1>3. u = Used(settled) \o <<p, m, e>>
  OBVIOUS
<1> HIDE DEF p, m, e
<1>4. CASE Used(settled) = <<>>
  <2>1. u = <<p, m, e>>
    <3>1. <<p, m, e>> \in Seq(Frames)
      BY <1>2
    <3> QED BY <1>3, <1>4, <3>1, NoneAnd
  <2>2. u \in Seq(Frames) /\ Len(u) = 3 /\ u[1] = p /\ u[2] = m /\ u[3] = e
    <3>1. /\ <<p, m, e>> \in Seq(Frames) /\ Len(<<p, m, e>>) = 3
          /\ <<p, m, e>>[1] = p /\ <<p, m, e>>[2] = m /\ <<p, m, e>>[3] = e
      BY <1>2, Frames3
    <3> QED BY <2>1, <3>1, Zenon
  <2>3. \A i \in 1..3 : i = 1 \/ i = 2 \/ i = 3
    OBVIOUS
  <2>4. HasEnd(u) /\ HasOutcome(u)
    BY <1>2, <2>2 DEF HasEnd, HasOutcome
  <2>5. \A i, j \in 1..Len(u) :
          i < j /\ u[i].kind = "required" => u[j].kind \in {"meta", "usage", "eof"}
    BY <1>2, <2>2, <2>3
  <2>6. \A i \in 1..Len(u) : u[i].kind = "eof" => i = Len(u)
    BY <1>2, <2>2, <2>3
  <2> QED BY <1>2, <2>2, <2>3, <2>4, <2>5, <2>6 DEF Outcome
<1>5. CASE Used(settled) # <<>>
  <2>1. PICK f \in Frames : /\ Used(settled) = <<f>> /\ f.kind = "usage"
                            /\ f.status = "running" /\ f.at = srv.stage
    BY <1>5, UsedIs
  <2>2. u = <<f, p, m, e>>
    BY <1>3, <2>1, TupleAnd3, Zenon
  <2>3. u \in Seq(Frames) /\ Len(u) = 4 /\ u[1] = f /\ u[2] = p /\ u[3] = m /\ u[4] = e
    <3>1. /\ <<f, p, m, e>> \in Seq(Frames) /\ Len(<<f, p, m, e>>) = 4
          /\ <<f, p, m, e>>[1] = f /\ <<f, p, m, e>>[2] = p /\ <<f, p, m, e>>[3] = m
             /\ <<f, p, m, e>>[4] = e
      BY <1>2, <2>1, Frames4
    <3> QED BY <2>2, <3>1, Zenon
  <2>4. \A i \in 1..4 : i = 1 \/ i = 2 \/ i = 3 \/ i = 4
    OBVIOUS
  <2> QED BY <1>2, <2>1, <2>3, <2>4 DEF Outcome, HasEnd, HasOutcome
<1> QED BY <1>4, <1>5

\* The Run is over.
LEMMA FinishedKeeps ==
  ASSUME RunViewInv, NEW settled \in BOOLEAN, Finished(settled),
         srv.status = "running" \/ Over(c) \/ CancelDoubt(c, forgotten)
  PROVE  Fair(c, srv', wire', late, known, forgotten) /\ srv'.status = "done"
<1> DEFINE u == Used(settled) \o <<Meta("done", "none", srv.stage), End>>
<1>1. /\ srv \in Servers /\ srv' = [srv EXCEPT !.status = "done", !.settled = settled]
      /\ Published(u)
  BY DEF Finished, RunViewInv, Good, Fair, TypesOK
<1>2. srv' \in Servers /\ srv'.stage = srv.stage /\ srv'.status = "done"
  BY <1>1 DEF Servers, Statuses
<1>3. Outgoing(c, srv, srv', forgotten)
  BY <1>2 DEF Outgoing
<1>4. u \in Seq(Frames) /\ Outcome(u, srv')
  BY <1>2, DoneOutcome
<1> HIDE DEF u
<1>5. Sent(c, wire, u, wire')
  BY <1>1, PublishedIs
<1>6. Fair(c, srv, wire, late, known, forgotten) /\ Settled(c)
  BY DEF RunViewInv, Good
<1> QED BY <1>2, <1>3, <1>4, <1>5, <1>6, OutcomeKeeps

\* The Run ends by itself.
LEMMA CompleteKeeps ==
  ASSUME RunViewInv, NEW settled \in BOOLEAN, Complete(settled)
  PROVE  RunViewInv' /\ StepOK
<1>1. Fair(c, srv', wire', late, known, forgotten)
  BY FinishedKeeps DEF Complete
<1> QED BY <1>1, ElsewhereStep DEF Complete

\* The Run pauses.
LEMMA PauseKeeps ==
  ASSUME RunViewInv, NEW settled \in BOOLEAN, Pause(settled)
  PROVE  RunViewInv' /\ StepOK
<1> DEFINE u == Used(settled) \o
                <<Required(srv.stage), Meta("interrupted", "none", srv.stage), End>>
<1>1. /\ srv \in Servers /\ srv.status = "running"
      /\ srv' = [srv EXCEPT !.status = "interrupted", !.settled = settled]
      /\ Published(u) /\ UNCHANGED <<late, c, known, forgotten>>
  BY DEF Pause, RunViewInv, Good, Fair, TypesOK
<1>2. srv' \in Servers /\ srv'.stage = srv.stage /\ srv'.status = "interrupted"
  BY <1>1 DEF Servers, Statuses
<1>3. Outgoing(c, srv, srv', forgotten)
  BY <1>1, <1>2 DEF Outgoing
<1>4. u \in Seq(Frames) /\ Outcome(u, srv')
  BY <1>2, PauseOutcome
<1> HIDE DEF u
<1>5. Sent(c, wire, u, wire')
  BY <1>1, PublishedIs
<1>6. Fair(c, srv, wire, late, known, forgotten) /\ Settled(c)
  BY DEF RunViewInv, Good
<1>7. Fair(c, srv', wire', late, known, forgotten)
  BY <1>3, <1>4, <1>5, <1>6, OutcomeKeeps
<1> QED BY <1>1, <1>7, ElsewhereStep

\* The usage of a Run that pauses or is over is settled.
LEMMA SettleKeeps ==
  ASSUME RunViewInv, Settle
  PROVE  RunViewInv' /\ StepOK
<1>1. Fair(c, srv, wire, late, known, forgotten) /\ srv \in Servers
  BY DEF RunViewInv, Good, Fair, TypesOK
<1>2. srv' \in Servers /\ srv'.stage = srv.stage /\ srv'.status = srv.status
  BY <1>1 DEF Settle, Servers
<1>3. TypesOK(c, srv', wire, late, known, forgotten)
  BY <1>1, <1>2 DEF Fair, TypesOK
<1>4. TruthOK(c, srv') /\ UsageOK(c, srv') /\ DecidingOK(c, srv', late)
  BY <1>1, <1>2 DEF Fair, TruthOK, UsageOK, DecidingOK, Past
<1>5. \A f : FrameOK(f, c, srv, late, forgotten) => FrameOK(f, c, srv', late, forgotten)
  BY <1>2 DEF FrameOK, Past, Paused
<1>6. WireOK(c, srv', wire, late, forgotten)
  BY <1>1, <1>5 DEF Fair, WireOK
<1>7. StreamOK(c, srv', wire, late, forgotten)
  BY <1>1, <1>2 DEF Fair, StreamOK, Past, Paused
<1>8. LateOK(c, srv', late, forgotten) /\ ClosedOK(c, srv', late, forgotten)
  BY <1>1, <1>2 DEF Fair, LateOK, ClosedOK, Past, Paused
<1>9. Fair(c, srv', wire, late, known, forgotten)
  BY <1>1, <1>3, <1>4, <1>6, <1>7, <1>8 DEF Fair
<1> QED BY <1>9, ElsewhereStep DEF Settle

\* The answer to the POST is on its way.
CancelServed(s, r) ==
  /\ s.post.kind = "cancel"
  /\ \E ans \in {"yes", "no"} : r = [s EXCEPT !.post.at = "answer", !.post.ans = ans]

\* The backend has handled the cancel.
LEMMA AnsweredKeeps ==
  ASSUME NEW s, NEW v, NEW w, NEW l, NEW k, NEW g, Fair(s, v, w, l, k, g), v.status = "done",
         NEW r, CancelServed(s, r)
  PROVE  Fair(r, v, w, l, k, g) /\ r.run = s.run /\ NoNewPost(s, r) /\ (Settled(s) => Settled(r))
<1>0. PICK ans \in {"yes", "no"} : r = [s EXCEPT !.post.at = "answer", !.post.ans = ans]
  BY DEF CancelServed
<1> DEFINE post == [s.post EXCEPT !.at = "answer", !.ans = ans]
<1>1. s \in Stores
  BY DEF Fair, TypesOK
<1>2. s.post \in Posts
  BY <1>1, Fields
<1>3. r = [s EXCEPT !.post = post]
  BY <1>0, <1>1, <1>2 DEF Stores, Posts
<1>4. post \in Posts /\ post.kind = "cancel"
  BY <1>2 DEF Posts, CancelServed
<1> HIDE DEF post
<1>5. r \in Stores
  BY <1>1, <1>3, <1>4 DEF Stores
<1>6. /\ r.post = post /\ r.obs = s.obs /\ r.read = s.read /\ r.problem = s.problem /\ r.run = s.run
      /\ r.verified = s.verified /\ r.attempt = s.attempt
      /\ r.appr = s.appr /\ r.decided = s.decided
      /\ r.write = s.write /\ r.backup = s.backup
  BY <1>1, <1>3 DEF Stores
<1>7. ~Unaccepted(s) /\ ~Unaccepted(r) /\ (Over(r) <=> Over(s)) /\ s.post.kind = "cancel"
  BY <1>6 DEF CancelServed, Fair, WriteOK, Unaccepted, Over
<1>8. /\ CancelDoubt(s, g) => CancelDoubt(r, g)
      /\ Doubt(s, g) => Doubt(r, g)
      /\ \A j : Backed(s, j) => Backed(r, j)
  BY <1>6 DEF CancelDoubt, Doubt, Backed
<1>9. TypesOK(r, v, w, l, k, g)
  BY <1>5 DEF Fair, TypesOK
<1>10. TruthOK(r, v) /\ UsageOK(r, v) /\ ReadFine(r)
  BY <1>6, <1>7 DEF Fair, TruthOK, UsageOK, ReadFine
<1>11. WriteOK(r, k)
  BY <1>4, <1>6, <1>7 DEF Fair, WriteOK
<1>12. DecidingOK(r, v, l) /\ ObsOK(r, w)
  BY <1>6, <1>7 DEF Fair, DecidingOK, Deciding, ObsOK, Asking
<1>13. WireOK(r, v, w, l, g)
  <2>1. \A i \in 1..Len(w) : FrameOK(w[i], r, v, l, g)
    BY <1>7, <1>8 DEF Fair, WireOK, FrameOK
  <2> QED BY <2>1 DEF Fair, WireOK
<1>14. StreamOK(r, v, w, l, g)
  BY <1>6, <1>7, <1>8 DEF Fair, StreamOK
<1>15. LateOK(r, v, l, g) /\ ClosedOK(r, v, l, g)
  BY <1>6, <1>7, <1>8 DEF Fair, LateOK, ClosedOK
<1>16. NoNewPost(s, r) /\ (Settled(s) => Settled(r))
  BY <1>6, <1>7 DEF NoNewPost, Settled
<1> QED BY <1>6, <1>9, <1>10, <1>11, <1>12, <1>13, <1>14, <1>15, <1>16 DEF Fair

\* A cancel is handled.
LEMMA ServeCancelKeeps ==
  ASSUME RunViewInv, ServeCancel
  PROVE  RunViewInv' /\ StepOK
<1> DEFINE no == FALSE
<1> DEFINE ans == Pending(srv'.settled)
<1>1. /\ c \in Stores /\ c.post.kind = "cancel" /\ UNCHANGED <<late, known, forgotten>>
      /\ c' = [c EXCEPT !.post.at = "answer", !.post.ans = ans]
  BY NoReadBeside DEF ServeCancel
<1>2. (srv.status = "done" /\ srv' = srv /\ wire' = wire) \/ Finished(no)
  BY Zenon DEF ServeCancel
<1>3. no \in BOOLEAN
  OBVIOUS
<1> HIDE DEF no
<1>4. Fair(c, srv, wire, late, known, forgotten) /\ Settled(c)
  BY DEF RunViewInv, Good
<1>5. CancelDoubt(c, forgotten)
  BY <1>1, <1>4 DEF Fair, WriteOK, CancelDoubt
<1>6. Fair(c, srv', wire', late, known, forgotten) /\ srv'.status = "done"
  <2>1. CASE srv.status = "done" /\ srv' = srv /\ wire' = wire
    BY <1>4, <2>1
  <2>2. CASE Finished(no)
    BY <1>3, <1>5, <2>2, FinishedKeeps
  <2> QED BY <1>2, <2>1, <2>2
<1>7. ans \in {"yes", "no"}
  BY DEF Pending
<1> HIDE DEF ans
<1>8. CancelServed(c, c')
  BY <1>1, <1>7 DEF CancelServed
<1>9. Settled(c) /\ srv'.status = "done"
  BY <1>4, <1>6
<1>10. /\ Fair(c', srv', wire', late, known, forgotten) /\ c'.run = c.run /\ NoNewPost(c, c')
       /\ Settled(c')
  BY <1>6, <1>8, <1>9, AnsweredKeeps, Zenon
<1>11. Onward(c, c')
  <2>1. c.run.useAt \in Nat
    BY <1>1, Parts
  <2> QED BY <1>10, <2>1 DEF Onward, Over
<1> QED BY <1>1, <1>10, <1>11, StoreStep DEF Good

\* A POST that is late is handled.
LEMMA ServeLateKeeps ==
  ASSUME RunViewInv, ServeLate
  PROVE  RunViewInv' /\ StepOK
<1> DEFINE no == FALSE
<1>1. PICK p \in late :
        /\ late' = late \ {p}
        /\ IF p.kind = "cancel" /\ srv.status # "done" THEN Finished(no)
           ELSE IF p.kind = "approval" /\ CanResume(p.at) THEN srv' = Resumed /\ UNCHANGED wire
           ELSE UNCHANGED <<srv, wire>>
  BY Zenon DEF ServeLate
<1>2. UNCHANGED <<c, known, forgotten>> /\ no \in BOOLEAN
  BY DEF ServeLate
<1> HIDE DEF no
<1>3. Fair(c, srv, wire, late, known, forgotten) /\ late' \subseteq late
  BY <1>1 DEF RunViewInv, Good
<1>4. CASE p.kind = "cancel" /\ Finished(no)
  <2>1. Over(c) \/ CancelDoubt(c, forgotten)
    BY <1>3, <1>4 DEF Fair, LateOK
  <2>2. Fair(c, srv', wire', late, known, forgotten)
    BY <1>2, <1>4, <2>1, FinishedKeeps
  <2>3. Fair(c, srv', wire', late', known, forgotten)
    BY <1>3, <2>2, LateLess
  <2> QED BY <1>2, <2>3, ElsewhereStep
<1>5. CASE p.kind = "approval" /\ CanResume(p.at) /\ srv' = Resumed /\ wire' = wire
  <2>1. srv \in Servers /\ late \in SUBSET Lates
    BY <1>3 DEF Fair, TypesOK
  <2>2. LateAt(late, srv.stage)
    BY <1>5, <2>1 DEF LateAt, Lates, CanResume
  <2>3. Resuming(srv, srv')
    <3>1. srv.stage + 1 \in Stages
      BY <1>5, <2>1, RunViewConstants DEF CanResume, Servers, Stages
    <3> QED BY <1>5, <3>1 DEF Resuming, Resumed, CanResume, Servers, Statuses
  <2>4. Fair(c, srv', wire, late', known, forgotten)
    BY <1>3, <2>2, <2>3, ResumedKeeps
  <2> QED BY <1>2, <1>5, <2>4, ElsewhereStep
<1>6. CASE srv' = srv /\ wire' = wire
  <2>1. Fair(c, srv, wire, late', known, forgotten)
    BY <1>3, LateLess
  <2> QED BY <1>2, <1>6, <2>1, ElsewhereStep
<1> QED BY <1>1, <1>4, <1>5, <1>6

-----------------------------------------------------------------------------
(* The theorems. *)

\* The window opens a Run that just began.
LEMMA Starts ==
  ASSUME Init
  PROVE  RunViewInv
<1> DEFINE no == FALSE
<1> DEFINE u == Unknown(NoBackup)
<1> DEFINE q == ReadSnapshot(u, no, no)
<1>1. c = ObserveRun(q, no)
  BY Zenon DEF Init
<1>2. no \in BOOLEAN /\ ~no
  OBVIOUS
<1>3. srv = [status |-> "running", stage |-> 0, settled |-> no]
  BY Zenon DEF Init
<1>4. wire = <<>> /\ late = {} /\ known \in BOOLEAN /\ forgotten \in BOOLEAN
  BY DEF Init
<1> HIDE DEF no
<1>5. srv \in Servers /\ late \in SUBSET Lates
  BY <1>2, <1>3, <1>4, RunViewConstants DEF Servers, Statuses, Stages
<1>6. NoBackup \in Backups
  BY DEF NoBackup, Backups, Pauses
<1>7. /\ u \in Stores /\ u.run.status = "running" /\ u.run.useAt = 0 /\ ~u.appr.verified
      /\ u.write = NoWrite /\ u.post = NoPost /\ u.read = NoRead /\ ~u.problem
  BY <1>6, UnknownIs
<1> HIDE DEF u
<1>8. Calm(u, srv, late, known, forgotten)
  <2>1. 0 <= srv.stage
    BY <1>5, RunViewConstants DEF Servers, Stages
  <2>2. TruthOK(u, srv) /\ UsageOK(u, srv) /\ ReadFine(u)
    BY <1>7, <2>1, Nothings DEF TruthOK, UsageOK, ReadFine, Over
  <2>3. WriteOK(u, known) /\ ~Unaccepted(u)
    BY <1>7, Nothings DEF WriteOK, Unaccepted
  <2>4. LateOK(u, srv, late, forgotten)
    BY <1>4, <1>7 DEF LateOK, LateAt
  <2> QED BY <1>4, <1>5, <1>7, <2>2, <2>3, <2>4 DEF Calm
<1>9. ReadOnly(u, q)
  <2>1. ReadFine(u)
    BY <1>8 DEF Calm
  <2> QED BY <1>2, <1>7, <2>1, SnapshotReads
<1> HIDE DEF q
<1>10. Calm(q, srv, late, known, forgotten)
  BY <1>8, <1>9, ReadCalm
<1>11. Observing(q, c)
  BY <1>1, <1>2, <1>10, ObserveIs DEF Calm
<1>12. Fair(c, srv, <<>>, late, known, forgotten) /\ Settled(c)
  BY <1>10, <1>11, ObservingKeeps
<1> QED BY <1>4, <1>12 DEF RunViewInv, Good

\* Every handler, and every step of the backend, keeps the invariant.
LEMMA Steps ==
  ASSUME RunViewInv, Next
  PROVE  RunViewInv' /\ StepOK
<1>1. CASE Window
  <2>1. CASE SendRead
    BY <2>1, SendReadKeeps
  <2>2. CASE AnswerRead
    BY <2>2, AnswerReadKeeps
  <2>3. CASE ReceiveRead
    BY <2>3, ReceiveReadKeeps
  <2>4. CASE UsageTimer
    BY <2>4, UsageTimerKeeps
  <2>5. CASE OpenGet
    BY <2>5, OpenGetKeeps
  <2>6. CASE Reconnected
    BY <2>6, ReconnectedKeeps
  <2>7. CASE ReceiveFrame
    BY <2>7, ReceiveFrameKeeps
  <2>8. CASE ServeCancel
    BY <2>8, ServeCancelKeeps
  <2>9. CASE ReceiveCancel
    BY <2>9, ReceiveCancelKeeps
  <2>10. CASE ServeApproval
    BY <2>10, ServeApprovalKeeps
  <2>11. CASE RefuseApproval
    BY <2>11, RefuseApprovalKeeps
  <2> QED BY <1>1, <2>1, <2>2, <2>3, <2>4, <2>5, <2>6, <2>7, <2>8, <2>9, <2>10, <2>11 DEF Window
<1>2. CASE Stable
  BY <1>2, StableKeeps
<1>3. CASE Failure
  <2>1. ASSUME NEW recoverable \in BOOLEAN, FailRead(recoverable)
        PROVE  RunViewInv' /\ StepOK
    BY <2>1, FailReadKeeps
  <2>2. ASSUME NEW recoverable \in BOOLEAN, BreakStream(recoverable)
        PROVE  RunViewInv' /\ StepOK
    BY <2>2, BreakStreamKeeps
  <2>3. CASE FailCancel
    BY <2>3, FailCancelKeeps
  <2> QED BY <1>3, <2>1, <2>2, <2>3 DEF Failure
<1>4. CASE User
  <2>1. CASE ContinueUsage
    BY <2>1, ContinueUsageKeeps
  <2>2. CASE Cancel
    BY <2>2, CancelKeeps
  <2>3. CASE SubmitApproval
    BY <2>3, SubmitKeeps
  <2>4. CASE Reconnect
    BY <2>4, ReconnectKeeps
  <2>5. CASE QueryStatus
    BY <2>5, QueryStatusKeeps
  <2>6. CASE Reload
    BY <2>6, ReloadKeeps
  <2>7. CASE Restart
    BY <2>7, RestartKeeps
  <2> QED BY <1>4, <2>1, <2>2, <2>3, <2>4, <2>5, <2>6, <2>7 DEF User
<1>5. CASE Backend
  <2>1. ASSUME NEW settled \in BOOLEAN, Pause(settled)
        PROVE  RunViewInv' /\ StepOK
    BY <2>1, PauseKeeps
  <2>2. ASSUME NEW settled \in BOOLEAN, Complete(settled)
        PROVE  RunViewInv' /\ StepOK
    BY <2>2, CompleteKeeps
  <2>3. CASE Settle
    BY <2>3, SettleKeeps
  <2>4. CASE ServeLate
    BY <2>4, ServeLateKeeps
  <2> QED BY <1>5, <2>1, <2>2, <2>3, <2>4 DEF Backend
<1> QED BY <1>1, <1>2, <1>3, <1>4, <1>5 DEF Next

\* The invariant of the store, the backend and everything on its way between them holds
\* always: what ConversationStore keeps of one Run is the truth about the Run, or is marked
\* as in doubt, or a request that will tell is out.
THEOREM StoreIsFair == Spec => []RunViewInv
<1>1. Init => RunViewInv
  BY Starts
<1>2. RunViewInv /\ [Next]_vars => RunViewInv'
  <2>1. RunViewInv /\ Next => RunViewInv'
    BY Steps
  <2>2. RunViewInv /\ UNCHANGED vars => RunViewInv'
    BY DEF vars, RunViewInv, Good, Fair, TypesOK, TruthOK, UsageOK, ReadFine, WriteOK, DecidingOK,
           ObsOK, WireOK, StreamOK, LateOK, ClosedOK, Settled
  <2> QED BY <2>1, <2>2
<1> QED BY <1>1, <1>2, PTL DEF Spec

\* The store is of its shape, and its readers and writers exclude each other: a write is
\* pending as long as its POST is out, and the decision of a pause is backed up.
THEOREM TypeCorrect == Spec => []TypeOK
<1>1. RunViewInv => TypeOK
  <2> SUFFICES ASSUME RunViewInv PROVE TypeOK
    OBVIOUS
  <2>1. /\ c \in Stores /\ srv \in Servers /\ late \subseteq Lates
        /\ WriteOK(c, known) /\ ObsOK(c, wire)
    BY DEF RunViewInv, Good, Fair, TypesOK
  <2>2. /\ c.run.status \in Statuses /\ c.run.pending \in Pendings /\ c.exec \in Nat
        /\ c.read.phase \in {"none", "wait", "sent", "answer"} /\ c.read.stale \subseteq Versions
        /\ c.write.kind \in {"none", "cancel", "approval"}
        /\ c.write.phase \in {"none", "pending", "unknown"}
        /\ c.attempt.kind \in {"none", "get", "post"}
    BY <2>1, Fields, Parts
  <2>3. c.attempt.kind # "none" => c.obs \in {"connecting", "open"}
    BY <2>1 DEF ObsOK
  <2>4. c.write.phase = "pending" <=> (c.post.kind = "cancel" \/ Undecided)
    BY <2>1, <2>2 DEF WriteOK, Unaccepted, Undecided
  <2>5. /\ c.write.kind = "none" <=> c.write.phase = "none"
        /\ c.write.kind = "approval" => (c.backup.pause = c.decided /\ c.backup.status # "none")
    BY <2>1 DEF WriteOK
  <2> QED BY <2>1, <2>2, <2>3, <2>4, <2>5 DEF TypeOK, Servers, Lates
<1> QED BY <1>1, StoreIsFair, PTL

\* When everything has come to rest, the window shows what the backend has, or says that it
\* stopped trying: no answer that lost a race is the last word but for the one case of a
\* GET that was answered between two pauses.
THEOREM RestIsAgreement == Spec => []RestAgrees
<1>1. RunViewInv => RestAgrees
  <2> SUFFICES ASSUME RunViewInv, AtRest PROVE Agrees \/ GaveUp \/ Unfollowed
    BY DEF RestAgrees
  <2>1. /\ c \in Stores /\ srv \in Servers /\ TruthOK(c, srv) /\ WriteOK(c, known)
        /\ ObsOK(c, wire) /\ ClosedOK(c, srv, late, forgotten) /\ c.obs # "paused"
    BY DEF RunViewInv, Good, Fair, TypesOK, Settled
  <2>2. /\ c.run.status \in Statuses /\ c.write.phase \in {"none", "pending", "unknown"}
        /\ c.write.kind \in {"none", "cancel", "approval"} /\ c.obs \in Observations
    BY <2>1, Fields, Parts
  <2>3. /\ ~forgotten /\ srv.status # "running" /\ c.read.phase = "none" /\ c.post.kind = "none"
        /\ c.obs \notin {"connecting", "wait"} /\ c.attempt.kind = "none"
        /\ ~(Eligible(c) /\ c.round.pause = "none")
    BY Nothings DEF AtRest
  <2>4. c.obs \in {"closed", "failed"}
    BY <2>1, <2>2, <2>3 DEF ObsOK, Observations
  <2>5. c.write.kind # "none" => GaveUp
    BY <2>1, <2>2, <2>3 DEF WriteOK, Unaccepted, GaveUp
  <2>6. CASE ~GaveUp
    <3>1. c.obs = "closed" /\ c.write.kind = "none" /\ ~c.problem /\ c.round.pause = "none"
      BY <2>4, <2>5, <2>6 DEF GaveUp
    <3>2. c.verified
      BY <2>1, <2>3, <3>1 DEF ObsOK, Asking
    <3>3. Over(c) \/ Paused(srv, c.appr.pause)
      BY <2>1, <2>3, <3>1 DEF ClosedOK, Doubt
    <3>4. Ended(c.run.status) => c.run.pending # "yes"
      BY <2>3, <3>1, <3>2 DEF Eligible
    <3>5. CASE Over(c)
      <4>1. c.run.status = "done" /\ srv.status = "done"
        BY <2>1, <3>5 DEF TruthOK, Over
      <4>2. Agrees
        BY <3>4, <4>1 DEF Agrees, Ended
      <4> QED BY <4>2
    <3>6. CASE ~Over(c)
      <4>1. srv.status = "interrupted" /\ srv.stage = c.appr.pause
        BY <3>3, <3>6 DEF Paused
      <4>2. CASE c.run.status = "running"
        BY <3>1, <4>1, <4>2 DEF Unfollowed
      <4>3. CASE c.run.status = "interrupted"
        <5>1. Agrees
          BY <3>4, <4>1, <4>3 DEF Agrees, Ended
        <5> QED BY <5>1
      <4> QED BY <2>2, <3>6, <4>2, <4>3 DEF Over, Statuses
    <3> QED BY <3>5, <3>6
  <2> QED BY <2>6
<1> QED BY <1>1, StoreIsFair, PTL

\* What the window has learned of the usage of a Run, or of its end, no late answer takes
\* back.
THEOREM NothingLearnedIsLost == Spec => NothingIsTakenBack
<1>1. RunViewInv /\ [Next]_vars =>
        [wire' # wire \/ c'.run.pending = "null" \/ c'.run.useAt >= c.run.useAt]_vars
  BY Steps DEF StepOK
<1>2. RunViewInv /\ [Next]_vars => [c.run.status = "done" => c'.run.status = "done"]_vars
  BY Steps DEF StepOK, Over
<1>3. Spec => NoOlderUsage
  BY <1>1, StoreIsFair, PTL DEF Spec, NoOlderUsage
<1>4. Spec => OverIsOver
  BY <1>2, StoreIsFair, PTL DEF Spec, OverIsOver
<1> QED BY <1>3, <1>4 DEF NothingIsTakenBack

\* A write whose outcome is unknown is sent again only after the backend was read by a
\* request that began after the outcome was lost.
THEOREM NothingIsRepeatedBlindly == Spec => NoBlindRepeat
<1>1. RunViewInv /\ [Next]_vars =>
        [(c.write.phase = "unknown" /\ c'.write.phase = "pending") => known]_vars
  BY Steps DEF StepOK
<1> QED BY <1>1, StoreIsFair, PTL DEF Spec, NoBlindRepeat
=============================================================================
