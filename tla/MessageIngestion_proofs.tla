----------------------- MODULE MessageIngestion_proofs -----------------------
(***************************************************************************)
(* That a Run's messages are whole, for any number of Runs and messages:   *)
(* types, the four parts of MessagesAreWhole, and the seal of final Runs.  *)
(***************************************************************************)
EXTENDS MessageIngestion, TLAPS

-----------------------------------------------------------------------------
(* The inductive invariant.                                                 *)

Working == exec # NoRun

\* The task, the Run it executes, and the message it works on.
TaskInv ==
  /\ Working <=> ~At("idle")
  /\ Working => up
  /\ Working => status[exec] # "absent" /\ \A q \in Runs : status[q] \in Active => q = exec
  /\ \A r, q \in Runs : status[r] \in Active /\ status[q] \in Active => r = q
  /\ pc.at \in {"consume", "settle"} => status[exec] \in {"running", "cancelled"}
  /\ pc.at \in {"reserve", "append"} => status[exec] = "running"
  /\ Working /\ abort => status[exec] = "cancelled"
  /\ pc.at \in {"consume", "reserve", "append"} => outcome = "none"
  /\ At("settle") => outcome # "none"
  /\ At("settle") /\ outcome = "aborted" => status[exec] = "cancelled"
  /\ At("settle") /\ outcome \in {"completed", "interrupted"} => saved \subseteq seen
  /\ At("reserve") => pc.id \in (live \cap Texts) \ seen
  /\ At("append") => pc.id \in seen
  /\ ~up => \A r \in Runs : status[r] \in Active => r \in cut
  /\ \A r \in givenup : status[r] = "error"
  /\ exec \in givenup => At("finish")

\* The preview state of a Run: sealed exactly while a final Run still has its task,
\* gone with the Run or the process, and of messages the Run has shown.  Only the state
\* of a Run that was given up in its pause stays, unsealed.
PreviewOk(r) ==
  /\ preview[r].sealed <=> exec = r /\ status[r] \in Terminal /\ r \notin givenup
  /\ preview[r].sealed => preview[r].text = {}
  /\ exec # r /\ status[r] \notin Active /\ r \notin givenup => preview[r] = Fresh
  /\ ~up => preview[r] = Fresh
  /\ \A s \in preview[r].sequences : [id |-> s.id, run |-> r, seq |-> s.seq] \in shown
  /\ \A m \in preview[r].text : \E s \in preview[r].sequences : s.id = m
  /\ \A m \in preview[r].committed : Row(m) # {} /\ m \in saved
  /\ exec = r => preview[r].committed \cap live \subseteq seen

PreviewInv == \A r \in Runs : PreviewOk(r)

\* Where messages come from: the Run that generated a message reserves its number,
\* and another Run writes it only once that Run is final.
AuthorInv ==
  /\ seen \subseteq saved
  /\ \A m \in saved : author[m] # NoRun
  /\ \A m \in Ids : author[m] # NoRun => status[author[m]] # "absent"
  /\ Working => \A m \in live : /\ author[m] = exec
                                /\ Row(m) # {} => m \in seen \/ status[exec] \in Terminal
  /\ \A v \in reserved : author[v.id] = v.run
  /\ \A f \in rows : /\ author[f.id] # NoRun
                     /\ f.run = author[f.id] \/ status[author[f.id]] \in Terminal
                     /\ f.gen # "complete" => status[f.run] \in Terminal

\* The numbers of previews: whatever is shown has its number reserved, a message has
\* one number, and the row takes it.
NumberInv ==
  /\ shown = reserved
  /\ \A v, w \in reserved : v.id = w.id => v = w
  /\ \A v \in reserved, f \in rows : f.id = v.id => f.run = v.run /\ f.seq = v.seq

\* Text that was shown and has no message yet is still in the buffer of its Run.
TextInv ==
  \A p \in shown : p.run \notin cut \cup givenup /\ Row(p.id) = {} =>
    p.id \in preview[p.run].text \/ status[p.run] = "completed"

\* A message of its own that a running Run has seen is written, or about to be.
SeenInv ==
  Working /\ status[exec] = "running" /\ outcome # "failed" =>
    \A m \in seen : author[m] = exec =>
      \/ \E f \in Row(m) : f.run = exec /\ f.gen = "complete"
      \/ At("append") /\ pc.id = m

IInv ==
  /\ TypeOK /\ TaskInv /\ PreviewInv /\ AuthorInv /\ NumberInv /\ TextInv /\ SeenInv
  /\ FinishedRunIsWhole /\ ConflictNeedsLoss

-----------------------------------------------------------------------------
(* Facts about a state.                                                     *)

\* A Run that is not active, and was not given up in its pause, has no text in its
\* buffer.
LEMMA TextGone ==
  ASSUME PreviewInv, TaskInv, TypeOK, NEW r \in Runs, status[r] \notin Active, r \notin givenup
  PROVE  preview[r].text = {}
<1>1. PreviewOk(r)
  BY DEF PreviewInv
<1>2. CASE exec = r
  <2>1. status[r] \in Terminal
    BY <1>2, ConstantsAssumption DEF TaskInv, TypeOK, Working
  <2> QED BY <1>1, <1>2, <2>1 DEF PreviewOk
<1>3. CASE exec # r
  BY <1>1, <1>3 DEF PreviewOk, Fresh
<1> QED BY <1>2, <1>3

\* Until a task has settled its Run has a local execution, and its preview is sealed
\* once the Run is final.
LEMMA AtWork ==
  ASSUME IInv, pc.at \notin {"idle", "finish"}
  PROVE  /\ exec \in Runs /\ up /\ PreviewOk(exec)
         /\ preview[exec].sealed <=> status[exec] \in Terminal
<1>1. exec \in Runs /\ up /\ exec \notin givenup
  BY DEF IInv, TypeOK, TaskInv, Working, At
<1>2. PreviewOk(exec)
  BY <1>1 DEF IInv, PreviewInv
<1> QED BY <1>1, <1>2 DEF PreviewOk

-----------------------------------------------------------------------------
(* Invocations, the Graph, and the steps of the task that write no message.  *)

LEMMA StartRunKeeps ==
  ASSUME IInv, NEW r \in Runs, StartRun(r)
  PROVE  IInv'
<1>1. /\ up /\ exec = NoRun /\ status[r] = "absent" /\ \A q \in Runs : status[q] \notin Active
      /\ status' = [status EXCEPT ![r] = "running"]
      /\ exec' = r /\ pc' = Place("consume", NoId) /\ outcome' = "none" /\ abort' = FALSE
      /\ live' = {} /\ seen' = {}
      /\ UNCHANGED <<rows, reserved, counter, author, saved, up, preview, shown, conflicts,
                     cut, givenup>>
  BY DEF StartRun, Invoke, db, graph, task, history
<1>2. NumberInv' /\ ConflictNeedsLoss'
  BY <1>1 DEF IInv, NumberInv, ConflictNeedsLoss
<1>3. TypeOK'
  BY <1>1, ConstantsAssumption DEF IInv, TypeOK, Terminal, Active, Places, Fresh, Place, Idle
<1>4. TaskInv'
  BY <1>1, ConstantsAssumption DEF IInv, TypeOK, TaskInv, At, Working, Active, Terminal, Place,
    Idle
<1>5. PreviewInv'
  BY <1>1, ConstantsAssumption DEF IInv, TypeOK, TaskInv, PreviewInv, PreviewOk, AuthorInv, Row,
    Active, Terminal, Fresh, At, Working
<1>6. AuthorInv'
  BY <1>1, ConstantsAssumption DEF IInv, TypeOK, TaskInv, AuthorInv, PreviewInv, PreviewOk, Row,
    Working, Active, Terminal, At
<1>7. TextInv'
  BY <1>1, ConstantsAssumption DEF IInv, TypeOK, TextInv, PreviewInv, PreviewOk, AuthorInv,
    NumberInv, TaskInv, Row, Active, Terminal, Fresh
<1>8. SeenInv'
  BY <1>1, ConstantsAssumption DEF IInv, TypeOK, SeenInv, TaskInv, AuthorInv, PreviewInv,
    PreviewOk, Working, Row, At, Place, Active, Terminal
<1>9. FinishedRunIsWhole'
  BY <1>1, ConstantsAssumption DEF IInv, TypeOK, FinishedRunIsWhole, Whole, AuthorInv, TaskInv, Row,
    Terminal, Active, Working, At
<1> QED BY <1>2, <1>3, <1>4, <1>5, <1>6, <1>7, <1>8, <1>9 DEF IInv

LEMMA ResumeRunKeeps ==
  ASSUME IInv, NEW r \in Runs, ResumeRun(r)
  PROVE  IInv'
<1>1. /\ up /\ exec = NoRun /\ status[r] = "interrupted"
      /\ status' = [status EXCEPT ![r] = "running"]
      /\ exec' = r /\ pc' = Place("consume", NoId) /\ outcome' = "none" /\ abort' = FALSE
      /\ live' = {} /\ seen' = {}
      /\ UNCHANGED <<rows, reserved, counter, author, saved, up, preview, shown, conflicts,
                     cut, givenup>>
  BY DEF ResumeRun, Invoke, db, graph, task, history
<1>2. NumberInv' /\ ConflictNeedsLoss'
  BY <1>1 DEF IInv, NumberInv, ConflictNeedsLoss
<1>3. TypeOK'
  BY <1>1, ConstantsAssumption DEF IInv, TypeOK, Terminal, Active, Places, Fresh, Place, Idle
<1>4. TaskInv'
  BY <1>1, ConstantsAssumption DEF IInv, TypeOK, TaskInv, At, Working, Active, Terminal, Place,
    Idle
<1>5. PreviewInv'
  BY <1>1, ConstantsAssumption DEF IInv, TypeOK, TaskInv, PreviewInv, PreviewOk, AuthorInv, Row,
    Active, Terminal, Fresh, At, Working
<1>6. AuthorInv'
  BY <1>1, ConstantsAssumption DEF IInv, TypeOK, TaskInv, AuthorInv, PreviewInv, PreviewOk, Row,
    Working, Active, Terminal, At
<1>7. TextInv'
  BY <1>1, ConstantsAssumption DEF IInv, TypeOK, TextInv, PreviewInv, PreviewOk, AuthorInv,
    NumberInv, TaskInv, Row, Active, Terminal, Fresh
<1>8. SeenInv'
  BY <1>1, ConstantsAssumption DEF IInv, TypeOK, SeenInv, TaskInv, AuthorInv, PreviewInv,
    PreviewOk, Working, Row, At, Place, Active, Terminal
<1>9. FinishedRunIsWhole'
  BY <1>1, ConstantsAssumption DEF IInv, TypeOK, FinishedRunIsWhole, Whole, AuthorInv, TaskInv, Row,
    Terminal, Active, Working, At
<1> QED BY <1>2, <1>3, <1>4, <1>5, <1>6, <1>7, <1>8, <1>9 DEF IInv

LEMMA GenerateKeeps ==
  ASSUME IInv, NEW m \in Ids, Generate(m)
  PROVE  IInv'
<1>1. /\ pc.at \in {"consume", "reserve", "append"} /\ author[m] = NoRun
      /\ author' = [author EXCEPT ![m] = exec] /\ live' = live \cup {m}
      /\ UNCHANGED <<status, rows, reserved, counter, saved, up, exec, pc, outcome, abort,
                     seen, preview, shown, conflicts, cut, givenup>>
  BY DEF Generate, GraphAlive, At, db, graph, task, history
<1>2. NumberInv' /\ TextInv'
  BY <1>1 DEF IInv, NumberInv, TextInv, Row
<1>3. TypeOK'
  BY <1>1, ConstantsAssumption DEF IInv, TypeOK, Terminal, Active, Places, Fresh, Place, Idle
<1>4. TaskInv'
  BY <1>1, ConstantsAssumption DEF IInv, TypeOK, TaskInv, At, Working, Active, Terminal, Place,
    Idle
<1>5. PreviewInv'
  BY <1>1, ConstantsAssumption DEF IInv, TypeOK, TaskInv, PreviewInv, PreviewOk, AuthorInv, Row,
    Active, Terminal, Fresh, At, Working
<1>6. AuthorInv'
  BY <1>1, ConstantsAssumption DEF IInv, TypeOK, TaskInv, AuthorInv, PreviewInv, PreviewOk, Row,
    Working, Active, Terminal, At
<1>7. SeenInv'
  BY <1>1, ConstantsAssumption DEF IInv, TypeOK, SeenInv, TaskInv, AuthorInv, PreviewInv,
    PreviewOk, Working, Row, At, Place, Active, Terminal
<1>8. FinishedRunIsWhole'
  BY <1>1, ConstantsAssumption DEF IInv, TypeOK, FinishedRunIsWhole, Whole, AuthorInv, TaskInv, Row,
    Terminal, Active, Working, At
<1>9. ConflictNeedsLoss'
  BY <1>1, ConstantsAssumption DEF IInv, TypeOK, ConflictNeedsLoss, AuthorInv
<1> QED BY <1>2, <1>3, <1>4, <1>5, <1>6, <1>7, <1>8, <1>9 DEF IInv

LEMMA SaveKeeps ==
  ASSUME IInv, NEW m \in Ids, Save(m)
  PROVE  IInv'
<1>1. /\ pc.at \in {"consume", "reserve", "append"} /\ m \in live /\ m \notin saved
      /\ saved' = saved \cup {m}
      /\ UNCHANGED <<status, rows, reserved, counter, author, up, exec, pc, outcome, abort,
                     live, seen, preview, shown, conflicts, cut, givenup>>
  BY DEF Save, GraphAlive, At, db, graph, task, history
<1>2. NumberInv' /\ TextInv' /\ SeenInv' /\ ConflictNeedsLoss'
  BY <1>1 DEF IInv, NumberInv, TextInv, Row, SeenInv, Working, At, ConflictNeedsLoss
<1>3. TypeOK'
  BY <1>1, ConstantsAssumption DEF IInv, TypeOK, Terminal, Active, Places, Fresh, Place, Idle
<1>4. TaskInv'
  BY <1>1, ConstantsAssumption DEF IInv, TypeOK, TaskInv, At, Working, Active, Terminal, Place,
    Idle
<1>5. PreviewInv'
  BY <1>1, ConstantsAssumption DEF IInv, TypeOK, TaskInv, PreviewInv, PreviewOk, AuthorInv, Row,
    Active, Terminal, Fresh, At, Working
<1>6. AuthorInv'
  BY <1>1, ConstantsAssumption DEF IInv, TypeOK, TaskInv, AuthorInv, PreviewInv, PreviewOk, Row,
    Working, Active, Terminal, At
<1>7. FinishedRunIsWhole'
  BY <1>1, ConstantsAssumption DEF IInv, TypeOK, FinishedRunIsWhole, Whole, AuthorInv, TaskInv, Row,
    Terminal, Active, Working, At
<1> QED BY <1>2, <1>3, <1>4, <1>5, <1>6, <1>7 DEF IInv

LEMMA ValueKeeps ==
  ASSUME IInv, NEW m \in Ids, Value(m)
  PROVE  IInv'
<1>1. /\ pc.at = "consume" /\ m \in saved /\ m \notin seen /\ seen' = seen \cup {m}
      /\ pc' = IF preview[exec].sealed THEN pc ELSE Place("append", m)
      /\ UNCHANGED <<status, rows, reserved, counter, author, saved, up, exec, outcome,
                     abort, live, preview, shown, conflicts, cut, givenup>>
  BY DEF Value, At, Here, db, graph, task, history
<1>2. NumberInv' /\ TextInv' /\ FinishedRunIsWhole' /\ ConflictNeedsLoss'
  BY <1>1 DEF IInv, NumberInv, TextInv, Row, FinishedRunIsWhole, Whole, ConflictNeedsLoss
<1>3. TypeOK'
  BY <1>1, ConstantsAssumption DEF IInv, TypeOK, Terminal, Active, Places, Fresh, Place, Idle
<1>4. TaskInv'
  <2>1. exec \in Runs /\ (preview[exec].sealed <=> status[exec] \in Terminal)
    BY <1>1 DEF IInv, TypeOK, TaskInv, PreviewInv, PreviewOk, Working, At
  <2> QED BY <1>1, <2>1 DEF IInv, TypeOK, TaskInv, At, Working, Active, Terminal, Place
<1>5. PreviewInv'
  BY <1>1, ConstantsAssumption DEF IInv, TypeOK, TaskInv, PreviewInv, PreviewOk, AuthorInv, Row,
    Active, Terminal, Fresh, At, Working
<1>6. AuthorInv'
  BY <1>1, ConstantsAssumption DEF IInv, TypeOK, TaskInv, AuthorInv, PreviewInv, PreviewOk, Row,
    Working, Active, Terminal, At
<1>7. SeenInv'
  BY <1>1, ConstantsAssumption DEF IInv, TypeOK, SeenInv, TaskInv, AuthorInv, PreviewInv,
    PreviewOk, Working, Row, At, Place, Active, Terminal
<1> QED BY <1>2, <1>3, <1>4, <1>5, <1>6, <1>7 DEF IInv

LEMMA ConsumerFailsKeeps ==
  ASSUME IInv, ConsumerFails
  PROVE  IInv'
<1>1. /\ pc.at \in {"consume", "reserve", "append"}
      /\ outcome' = "failed" /\ pc' = Place("settle", NoId)
      /\ UNCHANGED <<status, rows, reserved, counter, author, saved, up, exec, abort, live,
                     seen, preview, shown, conflicts, cut, givenup>>
  BY DEF ConsumerFails, Outcome, GraphAlive, At, db, graph, task, history
<1>2. PreviewInv' /\ AuthorInv' /\ NumberInv' /\ TextInv' /\ FinishedRunIsWhole'
      /\ ConflictNeedsLoss'
  BY <1>1 DEF IInv, PreviewInv, PreviewOk, Row, AuthorInv, Working, NumberInv, TextInv,
    FinishedRunIsWhole, Whole, ConflictNeedsLoss
<1>3. TypeOK'
  BY <1>1, ConstantsAssumption DEF IInv, TypeOK, Terminal, Active, Places, Fresh, Place, Idle
<1>4. TaskInv'
  BY <1>1, ConstantsAssumption DEF IInv, TypeOK, TaskInv, At, Working, Active, Terminal, Place,
    Idle
<1>5. SeenInv'
  BY <1>1, ConstantsAssumption DEF IInv, TypeOK, SeenInv, TaskInv, AuthorInv, PreviewInv,
    PreviewOk, Working, Row, At, Place, Active, Terminal
<1> QED BY <1>2, <1>3, <1>4, <1>5 DEF IInv

LEMMA ConsumerAbortsKeeps ==
  ASSUME IInv, ConsumerAborts
  PROVE  IInv'
<1>1. /\ pc.at \in {"consume", "reserve", "append"} /\ abort
      /\ outcome' = "aborted" /\ pc' = Place("settle", NoId)
      /\ UNCHANGED <<status, rows, reserved, counter, author, saved, up, exec, abort, live,
                     seen, preview, shown, conflicts, cut, givenup>>
  BY DEF ConsumerAborts, Outcome, GraphAlive, At, db, graph, task, history
<1>2. PreviewInv' /\ AuthorInv' /\ NumberInv' /\ TextInv' /\ FinishedRunIsWhole'
      /\ ConflictNeedsLoss'
  BY <1>1 DEF IInv, PreviewInv, PreviewOk, Row, AuthorInv, Working, NumberInv, TextInv,
    FinishedRunIsWhole, Whole, ConflictNeedsLoss
<1>3. TypeOK'
  BY <1>1, ConstantsAssumption DEF IInv, TypeOK, Terminal, Active, Places, Fresh, Place, Idle
<1>4. TaskInv'
  BY <1>1, ConstantsAssumption DEF IInv, TypeOK, TaskInv, At, Working, Active, Terminal, Place,
    Idle
<1>5. SeenInv'
  BY <1>1, ConstantsAssumption DEF IInv, TypeOK, SeenInv, TaskInv, AuthorInv, PreviewInv,
    PreviewOk, Working, Row, At, Place, Active, Terminal
<1> QED BY <1>2, <1>3, <1>4, <1>5 DEF IInv

LEMMA StreamEndsKeeps ==
  ASSUME IInv, StreamEnds
  PROVE  IInv'
<1>1. /\ pc.at = "consume" /\ saved \subseteq seen
      /\ outcome' \in {"completed", "interrupted"} /\ pc' = Place("settle", NoId)
      /\ UNCHANGED <<status, rows, reserved, counter, author, saved, up, exec, abort, live,
                     seen, preview, shown, conflicts, cut, givenup>>
  BY DEF StreamEnds, Outcome, At, db, graph, task, history
<1>2. PreviewInv' /\ AuthorInv' /\ NumberInv' /\ TextInv' /\ FinishedRunIsWhole'
      /\ ConflictNeedsLoss'
  BY <1>1 DEF IInv, PreviewInv, PreviewOk, Row, AuthorInv, Working, NumberInv, TextInv,
    FinishedRunIsWhole, Whole, ConflictNeedsLoss
<1>3. TypeOK'
  BY <1>1, ConstantsAssumption DEF IInv, TypeOK, Terminal, Active, Places, Fresh, Place, Idle
<1>4. TaskInv'
  BY <1>1, ConstantsAssumption DEF IInv, TypeOK, TaskInv, At, Working, Active, Terminal, Place,
    Idle
<1>5. SeenInv'
  BY <1>1, ConstantsAssumption DEF IInv, TypeOK, SeenInv, TaskInv, AuthorInv, PreviewInv,
    PreviewOk, Working, Row, At, Place, Active, Terminal
<1> QED BY <1>2, <1>3, <1>4, <1>5 DEF IInv

LEMMA SettleFailsKeeps ==
  ASSUME IInv, SettleFails
  PROVE  IInv'
<1>1. /\ pc.at = "settle" /\ outcome # "failed" /\ pc' = Place("finish", NoId)
      /\ UNCHANGED <<status, rows, reserved, counter, author, saved, up, exec, outcome,
                     abort, live, seen, preview, shown, conflicts, cut, givenup>>
  BY DEF SettleFails, At, db, graph, task, history
<1>2. PreviewInv' /\ AuthorInv' /\ NumberInv' /\ TextInv' /\ FinishedRunIsWhole'
      /\ ConflictNeedsLoss'
  BY <1>1 DEF IInv, PreviewInv, PreviewOk, Row, AuthorInv, Working, NumberInv, TextInv,
    FinishedRunIsWhole, Whole, ConflictNeedsLoss
<1>3. TypeOK'
  BY <1>1, ConstantsAssumption DEF IInv, TypeOK, Terminal, Active, Places, Fresh, Place, Idle
<1>4. TaskInv'
  BY <1>1, ConstantsAssumption DEF IInv, TypeOK, TaskInv, At, Working, Active, Terminal, Place,
    Idle
<1>5. SeenInv'
  BY <1>1, ConstantsAssumption DEF IInv, TypeOK, SeenInv, TaskInv, AuthorInv, PreviewInv,
    PreviewOk, Working, Row, At, Place, Active, Terminal
<1> QED BY <1>2, <1>3, <1>4, <1>5 DEF IInv

LEMMA FinishKeeps ==
  ASSUME IInv, Finish
  PROVE  IInv'
<1>1. /\ pc.at = "finish" /\ exec' = NoRun /\ pc' = Idle
      /\ preview' = IF preview[exec].sealed THEN [preview EXCEPT ![exec] = Fresh] ELSE preview
      /\ UNCHANGED <<status, rows, reserved, counter, author, saved, up, outcome, abort,
                     live, seen, shown, conflicts, cut, givenup>>
  BY DEF Finish, At, Here, db, graph, task, history
<1>2. NumberInv' /\ FinishedRunIsWhole' /\ ConflictNeedsLoss'
  BY <1>1 DEF IInv, NumberInv, FinishedRunIsWhole, Whole, Row, ConflictNeedsLoss
<1>3. TypeOK'
  BY <1>1, ConstantsAssumption DEF IInv, TypeOK, Terminal, Active, Places, Fresh, Place, Idle
<1>4. TaskInv'
  BY <1>1, ConstantsAssumption DEF IInv, TypeOK, TaskInv, At, Working, Active, Terminal, Place,
    Idle
<1>5. PreviewInv'
  <2>1. /\ exec \in Runs
        /\ preview[exec].sealed <=> status[exec] \in Terminal /\ exec \notin givenup
    BY <1>1 DEF IInv, TypeOK, TaskInv, PreviewInv, PreviewOk, Working, At
  <2> SUFFICES ASSUME NEW r \in Runs PROVE PreviewOk(r)'
    BY DEF PreviewInv
  <2>2. PreviewOk(r) /\ exec' # r
    BY <1>1, ConstantsAssumption DEF IInv, PreviewInv
  <2>3. CASE r # exec
    <3>1. preview'[r] = preview[r]
      BY <1>1, <2>3 DEF IInv, TypeOK
    <3> QED BY <1>1, <2>2, <2>3, <3>1 DEF PreviewOk, Row
  <2>4. CASE r = exec /\ preview[r].sealed
    <3>1. preview'[r] = Fresh
      BY <1>1, <2>1, <2>4 DEF IInv, TypeOK
    <3> QED BY <1>1, <2>1, <2>2, <2>4, <3>1 DEF PreviewOk, Fresh
  <2>5. CASE r = exec /\ ~preview[r].sealed
    <3>1. preview' = preview /\ (status[r] \in Active \/ r \in givenup) /\ up
      BY <1>1, <2>1, <2>5, ConstantsAssumption DEF IInv, TaskInv, TypeOK, Working, At
    <3> QED BY <1>1, <2>1, <2>2, <2>5, <3>1 DEF PreviewOk, Row, Terminal, Active
  <2> QED BY <2>3, <2>4, <2>5
<1>6. AuthorInv'
  BY <1>1, ConstantsAssumption DEF IInv, TypeOK, TaskInv, AuthorInv, PreviewInv, PreviewOk, Row,
    Working, Active, Terminal, At
<1>7. TextInv'
  BY <1>1, ConstantsAssumption DEF IInv, TypeOK, TextInv, PreviewInv, PreviewOk, AuthorInv,
    NumberInv, TaskInv, Row, Active, Terminal, Fresh
<1>8. SeenInv'
  BY <1>1, ConstantsAssumption DEF IInv, TypeOK, SeenInv, TaskInv, AuthorInv, PreviewInv,
    PreviewOk, Working, Row, At, Place, Active, Terminal
<1> QED BY <1>2, <1>3, <1>4, <1>5, <1>6, <1>7, <1>8 DEF IInv

LEMMA StopKeeps ==
  ASSUME IInv, Stop
  PROVE  IInv'
<1>1. /\ up /\ up' = FALSE /\ exec' = NoRun /\ pc' = Idle /\ outcome' = "none" /\ abort' = FALSE
      /\ live' = {} /\ seen' = {} /\ preview' = [r \in Runs |-> Fresh]
      /\ cut' = cut \cup {r \in Runs : status[r] \in Active}
      /\ UNCHANGED <<status, rows, reserved, counter, author, saved, shown, conflicts,
                     givenup>>
  BY DEF Stop, db, graph, history
<1>2. NumberInv' /\ FinishedRunIsWhole'
  BY <1>1 DEF IInv, NumberInv, FinishedRunIsWhole, Whole, Row
<1>3. TypeOK'
  BY <1>1, ConstantsAssumption DEF IInv, TypeOK, Terminal, Active, Places, Fresh, Place, Idle
<1>4. TaskInv'
  BY <1>1, ConstantsAssumption DEF IInv, TypeOK, TaskInv, At, Working, Active, Terminal, Place,
    Idle
<1>5. PreviewInv'
  BY <1>1, ConstantsAssumption DEF IInv, TypeOK, TaskInv, PreviewInv, PreviewOk, AuthorInv, Row,
    Active, Terminal, Fresh, At, Working
<1>6. AuthorInv'
  BY <1>1, ConstantsAssumption DEF IInv, TypeOK, TaskInv, AuthorInv, PreviewInv, PreviewOk, Row,
    Working, Active, Terminal, At
<1>7. TextInv'
  <2> SUFFICES ASSUME NEW p \in shown, p.run \notin cut' \cup givenup, Row(p.id) = {}
               PROVE  status[p.run] = "completed"
    BY <1>1 DEF TextInv, Row
  <2>1. p.run \in Runs /\ p.run \notin cut \cup givenup /\ status[p.run] \notin Active
    BY <1>1 DEF IInv, TypeOK
  <2>2. preview[p.run].text = {}
    BY <2>1, TextGone DEF IInv
  <2> QED BY <2>1, <2>2 DEF IInv, TextInv
<1>8. SeenInv'
  BY <1>1, ConstantsAssumption DEF IInv, TypeOK, SeenInv, TaskInv, AuthorInv, PreviewInv,
    PreviewOk, Working, Row, At, Place, Active, Terminal
<1>9. ConflictNeedsLoss'
  BY <1>1, ConstantsAssumption DEF IInv, TypeOK, ConflictNeedsLoss, AuthorInv
<1> QED BY <1>2, <1>3, <1>4, <1>5, <1>6, <1>7, <1>8, <1>9 DEF IInv

LEMMA FailRecoveryKeeps ==
  ASSUME IInv, NEW r \in Runs, FailRecovery(r)
  PROVE  IInv'
<1>1. /\ up /\ status[r] = "interrupted"
      /\ status' = [status EXCEPT ![r] = "error"] /\ givenup' = givenup \cup {r}
      /\ UNCHANGED <<rows, reserved, counter, author, saved, up, exec, pc, outcome, abort,
                     live, seen, preview, shown, conflicts, cut>>
  BY DEF FailRecovery, db, graph, task, history
<1>2. NumberInv' /\ ConflictNeedsLoss'
  BY <1>1 DEF IInv, NumberInv, ConflictNeedsLoss
<1>3. TypeOK'
  BY <1>1, ConstantsAssumption DEF IInv, TypeOK, Terminal, Active, Places, Fresh, Place, Idle
<1>4. TaskInv'
  BY <1>1, ConstantsAssumption DEF IInv, TypeOK, TaskInv, At, Working, Active, Terminal, Places
<1>5. PreviewInv'
  BY <1>1, ConstantsAssumption DEF IInv, TypeOK, TaskInv, PreviewInv, PreviewOk, AuthorInv, Row,
    Active, Terminal, Fresh, At, Working
<1>6. AuthorInv'
  BY <1>1, ConstantsAssumption DEF IInv, TypeOK, TaskInv, AuthorInv, PreviewInv, PreviewOk, Row,
    Working, Active, Terminal, At
<1>7. TextInv'
  BY <1>1, ConstantsAssumption DEF IInv, TypeOK, TextInv, Row, Active, Terminal
<1>8. SeenInv'
  BY <1>1, ConstantsAssumption DEF IInv, TypeOK, SeenInv, TaskInv, AuthorInv, Working, Row, At
<1>9. FinishedRunIsWhole'
  BY <1>1, ConstantsAssumption DEF IInv, TypeOK, FinishedRunIsWhole, Whole, AuthorInv, Row
<1> QED BY <1>2, <1>3, <1>4, <1>5, <1>6, <1>7, <1>8, <1>9 DEF IInv

LEMMA RestartKeeps ==
  ASSUME IInv, Restart
  PROVE  IInv'
<1>1. /\ ~up /\ up' = TRUE
      /\ UNCHANGED <<rows, reserved, counter, author, saved, exec, pc, outcome, abort,
                     live, seen, preview, shown, conflicts, cut>>
  BY DEF Restart, db, graph, task, history
<1>a. PICK broken \in SUBSET {r \in Runs : status[r] = "interrupted"} :
        /\ status' = [r \in Runs |-> IF status[r] = "running" \/ r \in broken THEN "error"
                                                                           ELSE status[r]]
        /\ givenup' = givenup \cup broken
  BY DEF Restart
<1>2. NumberInv' /\ ConflictNeedsLoss'
  BY <1>1, <1>a DEF IInv, NumberInv, ConflictNeedsLoss
<1>3. TypeOK'
  BY <1>1, <1>a, ConstantsAssumption DEF IInv, TypeOK, Terminal, Active, Places, Fresh, Place, Idle
<1>4. TaskInv'
  BY <1>1, <1>a, ConstantsAssumption DEF IInv, TypeOK, TaskInv, At, Working, Active, Terminal,
    Place,
    Idle
<1>5. PreviewInv'
  BY <1>1, <1>a, ConstantsAssumption DEF IInv, TypeOK, TaskInv, PreviewInv, PreviewOk, AuthorInv,
    Row,
    Active, Terminal, Fresh, At, Working
<1>6. AuthorInv'
  BY <1>1, <1>a, ConstantsAssumption DEF IInv, TypeOK, TaskInv, AuthorInv, PreviewInv, PreviewOk,
    Row,
    Working, Active, Terminal, At
<1>7. TextInv'
  BY <1>1, <1>a, ConstantsAssumption DEF IInv, TypeOK, TextInv, PreviewInv, PreviewOk, AuthorInv,
    NumberInv, TaskInv, Row, Active, Terminal, Fresh
<1>8. SeenInv'
  BY <1>1, <1>a, ConstantsAssumption DEF IInv, TypeOK, SeenInv, TaskInv, AuthorInv, PreviewInv,
    PreviewOk, Working, Row, At, Place, Active, Terminal
<1>9. FinishedRunIsWhole'
  BY <1>1, <1>a, ConstantsAssumption DEF IInv, TypeOK, FinishedRunIsWhole, Whole, AuthorInv,
    TaskInv, Row,
    Terminal, Active, Working, At
<1> QED BY <1>2, <1>3, <1>4, <1>5, <1>6, <1>7, <1>8, <1>9 DEF IInv

-----------------------------------------------------------------------------
(* Ingestion.                                                               *)

\* A message the Graph generates is shown under the number that is reserved for it:
\* whatever way ingest_delta takes, this is its effect.
Shows(m, n) ==
  /\ \A v \in reserved : v.id = m => v = [id |-> m, run |-> exec, seq |-> n]
  /\ reserved' = reserved \cup {[id |-> m, run |-> exec, seq |-> n]}
  /\ shown' = shown \cup {[id |-> m, run |-> exec, seq |-> n]}
  /\ preview' = [preview EXCEPT ![exec].text = @ \cup {m},
                                ![exec].sequences = @ \cup {[id |-> m, seq |-> n]}]
  /\ UNCHANGED <<status, rows, author, saved, up, exec, abort, live, seen, cut, givenup>>

LEMMA ShowKeeps ==
  ASSUME IInv, NEW m \in Texts, NEW n \in Nat, Shows(m, n),
         pc.at \in {"consume", "reserve"}, status[exec] = "running",
         m \in live, author[m] = exec, m \notin seen
  PROVE  PreviewInv' /\ AuthorInv' /\ NumberInv' /\ TextInv'
<1>1. exec \in Runs /\ PreviewOk(exec)
  BY AtWork
<1>0. /\ \A v \in reserved : v.id = m => v = [id |-> m, run |-> exec, seq |-> n]
      /\ reserved' = reserved \cup {[id |-> m, run |-> exec, seq |-> n]}
      /\ shown' = shown \cup {[id |-> m, run |-> exec, seq |-> n]}
      /\ UNCHANGED <<status, rows, author, saved, up, exec, abort, live, seen, cut, givenup>>
  BY DEF Shows
<1>2. /\ preview'[exec] = [preview[exec] EXCEPT !.text = @ \cup {m},
                                                !.sequences = @ \cup {[id |-> m, seq |-> n]}]
      /\ \A r \in Runs : r # exec => preview'[r] = preview[r]
  BY <1>1 DEF Shows, IInv, TypeOK
<1>3. preview[exec] \in [sequences : SUBSET [id : Texts, seq : Nat], text : SUBSET Texts,
                         committed : SUBSET Ids, sealed : BOOLEAN]
  BY <1>1 DEF IInv, TypeOK
<1>4. /\ preview'[exec].text = preview[exec].text \cup {m}
      /\ preview'[exec].sequences = preview[exec].sequences \cup {[id |-> m, seq |-> n]}
      /\ preview'[exec].committed = preview[exec].committed
      /\ preview'[exec].sealed = preview[exec].sealed
  BY <1>2, <1>3
<1>5. Row(m) = {} /\ m \in Ids
  BY <1>1, ConstantsAssumption DEF IInv, AuthorInv, Working, Terminal
<1>6. PreviewInv'
  <2> SUFFICES ASSUME NEW r \in Runs PROVE PreviewOk(r)'
    BY DEF PreviewInv
  <2>1. CASE r # exec
    BY <2>1, <1>0, <1>2 DEF IInv, PreviewInv, PreviewOk, Row
  <2>2. CASE r = exec
    <3>1. ~preview[exec].sealed
      BY <1>1 DEF PreviewOk, Terminal
    <3>2. up
      BY <1>1, AtWork
    <3>3. \A s \in preview'[exec].sequences : [id |-> s.id, run |-> exec, seq |-> s.seq] \in shown'
      BY <1>0, <1>1, <1>4 DEF PreviewOk
    <3>4. \A x \in preview'[exec].text : \E s \in preview'[exec].sequences : s.id = x
      <4> SUFFICES ASSUME NEW x \in preview'[exec].text
                   PROVE  \E s \in preview'[exec].sequences : s.id = x
        OBVIOUS
      <4>1. CASE x = m
        <5>1. [id |-> m, seq |-> n].id = x /\ [id |-> m, seq |-> n] \in preview'[exec].sequences
          BY <1>4, <4>1
        <5> QED BY <5>1
      <4>2. CASE x \in preview[exec].text
        <5>1. PICK s \in preview[exec].sequences : s.id = x
          BY <4>2, <1>1 DEF PreviewOk
        <5> QED BY <5>1, <1>4
      <4> QED BY <4>1, <4>2, <1>4
    <3> QED BY <2>2, <1>0, <1>1, <1>4, <3>1, <3>2, <3>3, <3>4 DEF PreviewOk, Row, Terminal, Active
  <2> QED BY <2>1, <2>2
<1>7. AuthorInv'
  BY <1>0, <1>1 DEF IInv, AuthorInv, Working, Row
<1>8. NumberInv'
  BY <1>0, <1>5 DEF IInv, NumberInv, Row
<1>9. TextInv'
  <2> SUFFICES ASSUME NEW p \in shown', p.run \notin cut \cup givenup, Row(p.id) = {}
               PROVE  p.id \in preview'[p.run].text \/ status[p.run] = "completed"
    BY <1>0 DEF TextInv, Row
  <2>1. CASE p \in shown
    <3>1. p.run \in Runs /\ (p.id \in preview[p.run].text \/ status[p.run] = "completed")
      BY <2>1 DEF IInv, TextInv, TypeOK
    <3> QED BY <3>1, <1>2, <1>4
  <2>2. CASE p = [id |-> m, run |-> exec, seq |-> n]
    BY <2>2, <1>4
  <2> QED BY <2>1, <2>2, <1>0
<1> QED BY <1>6, <1>7, <1>8, <1>9

\* The type of a preview state, and of changes of its fields.
PreviewType == [sequences : SUBSET [id : Texts, seq : Nat], text : SUBSET Texts,
                committed : SUBSET Ids, sealed : BOOLEAN]

LEMMA ShowTyped ==
  ASSUME NEW p \in [Runs -> PreviewType], NEW r \in Runs, NEW m \in Texts, NEW n \in Nat
  PROVE  [p EXCEPT ![r].text = @ \cup {m}, ![r].sequences = @ \cup {[id |-> m, seq |-> n]}]
           \in [Runs -> PreviewType]
<1> DEFINE x == [p[r] EXCEPT !.text = @ \cup {m}, !.sequences = @ \cup {[id |-> m, seq |-> n]}]
<1>1. x \in PreviewType
  <2>1. p[r] \in PreviewType
    OBVIOUS
  <2>2. [id |-> m, seq |-> n] \in [id : Texts, seq : Nat]
    OBVIOUS
  <2>3. /\ p[r].text \cup {m} \in SUBSET Texts
        /\ p[r].sequences \cup {[id |-> m, seq |-> n]} \in SUBSET [id : Texts, seq : Nat]
    BY <2>1, <2>2 DEF PreviewType
  <2> QED BY <2>1, <2>3 DEF PreviewType
<1>2. [p EXCEPT ![r].text = @ \cup {m}, ![r].sequences = @ \cup {[id |-> m, seq |-> n]}]
        = [p EXCEPT ![r] = x]
  BY Zenon DEF PreviewType
<1> HIDE DEF x
<1> QED BY <1>1, <1>2

LEMMA CommitTyped ==
  ASSUME NEW p \in [Runs -> PreviewType], NEW r \in Runs, NEW m \in Ids
  PROVE  [p EXCEPT ![r].committed = @ \cup {m}, ![r].text = @ \ {m}] \in [Runs -> PreviewType]
<1> DEFINE x == [p[r] EXCEPT !.committed = @ \cup {m}, !.text = @ \ {m}]
<1>1. x \in PreviewType
  BY DEF PreviewType
<1>2. [p EXCEPT ![r].committed = @ \cup {m}, ![r].text = @ \ {m}] = [p EXCEPT ![r] = x]
  BY Zenon DEF PreviewType
<1> HIDE DEF x
<1> QED BY <1>1, <1>2

LEMMA DeltaKeeps ==
  ASSUME IInv, NEW m \in Ids, Delta(m)
  PROVE  IInv'
<1>1. /\ pc.at = "consume" /\ m \in live /\ m \in Texts /\ m \notin seen /\ ~preview[exec].sealed
      /\ UNCHANGED <<status, rows, reserved, counter, author, saved, up, exec, abort, live, seen,
                     cut, givenup>>
  BY DEF Delta, At, Here, db, graph
<1>2. exec \in Runs /\ PreviewOk(exec) /\ status[exec] = "running"
  BY <1>1, AtWork DEF IInv, TaskInv, Terminal
<1>3. m \notin preview[exec].committed /\ author[m] = exec
  BY <1>1, <1>2, ConstantsAssumption DEF PreviewOk, IInv, AuthorInv, Working
<1>4. CASE {s \in preview[exec].sequences : s.id = m} = {}
  <2>1. pc' = Place("reserve", m) /\ UNCHANGED <<outcome, preview, shown, conflicts>>
    BY <1>3, <1>4 DEF Delta, Here
  <2>2. PreviewInv' /\ AuthorInv' /\ NumberInv' /\ TextInv' /\ FinishedRunIsWhole'
        /\ ConflictNeedsLoss'
    BY <1>1, <2>1 DEF IInv, PreviewInv, PreviewOk, Row, AuthorInv, Working, NumberInv, TextInv,
      FinishedRunIsWhole, Whole, ConflictNeedsLoss
  <2>3. TypeOK'
    BY <1>1, <2>1 DEF IInv, TypeOK, Places, Place
  <2>4. TaskInv'
    BY <1>1, <1>2, <2>1 DEF IInv, TaskInv, At, Working, Place
  <2>5. SeenInv'
    BY <1>1, <2>1 DEF IInv, SeenInv, Working, Row, At, Place
  <2> QED BY <2>2, <2>3, <2>4, <2>5 DEF IInv
<1>5. CASE {s \in preview[exec].sequences : s.id = m} # {}
  <2>1. PICK s \in preview[exec].sequences : s.id = m /\ Show(m, s.seq)
             /\ UNCHANGED <<pc, outcome, conflicts>>
    BY <1>3, <1>5 DEF Delta, Here
  <2>2. s = [id |-> m, seq |-> s.seq] /\ s.seq \in Nat
    BY <1>2, <2>1 DEF IInv, TypeOK
  <2>3. [id |-> m, run |-> exec, seq |-> s.seq] \in shown
    BY <1>2, <2>1 DEF PreviewOk
  <2>4. /\ shown' = shown \cup {[id |-> m, run |-> exec, seq |-> s.seq]} /\ shown' = shown
        /\ preview' = [preview EXCEPT ![exec].text = @ \cup {m},
                                      ![exec].sequences = @ \cup {[id |-> m, seq |-> s.seq]}]
    BY <2>1, <2>3 DEF Show
  <2>5. /\ \A v \in reserved : v.id = m => v = [id |-> m, run |-> exec, seq |-> s.seq]
        /\ reserved' = reserved \cup {[id |-> m, run |-> exec, seq |-> s.seq]}
    BY <1>1, <2>3 DEF IInv, NumberInv
  <2>6. PreviewInv' /\ AuthorInv' /\ NumberInv' /\ TextInv'
    BY <1>1, <1>2, <1>3, <2>2, <2>4, <2>5, ShowKeeps DEF Shows
  <2>7. FinishedRunIsWhole' /\ ConflictNeedsLoss' /\ TaskInv' /\ SeenInv'
    BY <1>1, <2>1 DEF IInv, Row, Working, FinishedRunIsWhole, Whole, ConflictNeedsLoss, TaskInv,
      SeenInv,
      At
  <2>8. TypeOK'
    BY <1>1, <1>2, <2>1, <2>2, <2>4, ShowTyped DEF IInv, TypeOK, PreviewType
  <2> QED BY <2>6, <2>7, <2>8 DEF IInv
<1> QED BY <1>4, <1>5

LEMMA ReserveKeeps ==
  ASSUME IInv, Reserve
  PROVE  IInv'
<1> DEFINE m == pc.id
           n == SeqOf(m)
           v == [id |-> m, run |-> exec, seq |-> n]
<1>1. /\ pc.at = "reserve"
      /\ UNCHANGED <<status, rows, author, saved, up, exec, abort, live, seen, cut, givenup>>
  BY DEF Reserve, At, graph
<1>2. exec \in Runs /\ PreviewOk(exec) /\ status[exec] = "running" /\ m \in Texts /\ m \in live
      /\ m \notin seen
  BY <1>1, AtWork DEF IInv, TaskInv, At
<1>3. author[m] = exec /\ Row(m) = {} /\ m \in Ids
  BY <1>1, <1>2, ConstantsAssumption DEF IInv, AuthorInv, Working, Terminal
<1>4. OwnReservation(exec, m)
  BY <1>3 DEF OwnReservation, Reservation, IInv, AuthorInv
<1>5. /\ IF Reservation(m) # {} THEN UNCHANGED <<reserved, counter>>
         ELSE /\ reserved' = reserved \cup {[id |-> m, run |-> exec, seq |-> counter + 1]}
              /\ counter' = counter + 1
      /\ Show(m, n) /\ pc' = Place("consume", NoId) /\ UNCHANGED <<outcome, conflicts>>
  BY <1>3, <1>4 DEF Reserve, Back
<1>6. /\ \A w \in reserved : w.id = m => w = v
      /\ reserved' = reserved \cup {v} /\ n \in Nat /\ counter' \in Nat
  <2>1. CASE Reservation(m) = {}
    <3>1. n = counter + 1 /\ counter \in Nat
      BY <2>1 DEF SeqOf, IInv, TypeOK
    <3>2. \A w \in reserved : w.id # m
      BY <2>1 DEF Reservation
    <3> QED BY <2>1, <3>1, <3>2, <1>5
  <2>2. CASE Reservation(m) # {}
    <3> DEFINE c == CHOOSE w \in Reservation(m) : TRUE
    <3>1. c \in reserved /\ c.id = m
      BY <2>2 DEF Reservation
    <3>2. n = c.seq
      BY <2>2 DEF SeqOf
    <3>3. c.run = exec
      BY <3>1, <1>3 DEF IInv, AuthorInv
    <3>4. c \in [id : Texts, run : Runs, seq : Nat]
      BY <3>1 DEF IInv, TypeOK
    <3> HIDE DEF c
    <3>5. c = v /\ n \in Nat
      BY <3>1, <3>2, <3>3, <3>4
    <3>6. \A w \in reserved : w.id = m => w = c
      BY <3>1 DEF IInv, NumberInv
    <3>7. UNCHANGED <<reserved, counter>> /\ counter \in Nat
      BY <2>2, <1>5 DEF IInv, TypeOK
    <3> QED BY <3>1, <3>5, <3>6, <3>7
  <2> QED BY <2>1, <2>2
<1> HIDE DEF m, n
<1>7. /\ shown' = shown \cup {v}
      /\ preview' = [preview EXCEPT ![exec].text = @ \cup {m},
                                    ![exec].sequences = @ \cup {[id |-> m, seq |-> n]}]
  BY <1>5 DEF Show
<1>8. PreviewInv' /\ AuthorInv' /\ NumberInv' /\ TextInv'
  BY <1>1, <1>2, <1>3, <1>6, <1>7, ShowKeeps DEF Shows
<1>9. FinishedRunIsWhole' /\ ConflictNeedsLoss'
  BY <1>1, <1>5 DEF IInv, FinishedRunIsWhole, Whole, ConflictNeedsLoss, Row
<1>10. TaskInv'
  BY <1>1, <1>2, <1>5 DEF IInv, TaskInv, At, Working, Place
<1>11. SeenInv'
  BY <1>1, <1>5 DEF IInv, SeenInv, Working, Row, At, Place
<1>12. preview' \in [Runs -> [sequences : SUBSET [id : Texts, seq : Nat], text : SUBSET Texts,
                                committed : SUBSET Ids, sealed : BOOLEAN]]
  BY <1>2, <1>6, <1>7, ShowTyped DEF IInv, TypeOK, PreviewType
<1>13. TypeOK'
  BY <1>1, <1>2, <1>5, <1>6, <1>7, <1>12 DEF IInv, TypeOK, Places, Place
<1> QED BY <1>8, <1>9, <1>10, <1>11, <1>13 DEF IInv

LEMMA AppendKeeps ==
  ASSUME IInv, Append
  PROVE  IInv'
<1> DEFINE m == pc.id
<1>1. /\ pc.at = "append"
      /\ UNCHANGED <<status, reserved, author, saved, up, exec, abort, live, seen, shown, cut,
                     givenup>>
  BY DEF Append, At, graph
<1>2. exec \in Runs /\ PreviewOk(exec) /\ status[exec] = "running" /\ m \in seen
  BY <1>1, AtWork DEF IInv, TaskInv, At
<1>3. m \in saved /\ m \in Ids /\ author[m] \in Runs /\ status[author[m]] # "absent"
  BY <1>2 DEF IInv, TypeOK, AuthorInv
<1>4. author[m] # exec => status[author[m]] \in Terminal
  BY <1>1, <1>2, <1>3, ConstantsAssumption DEF IInv, TypeOK, TaskInv, Working, Active
<1>5. CASE Row(m) = {} /\ ~OwnReservation(exec, m)
  <2>1. /\ outcome' = "failed" /\ pc' = Place("settle", NoId)
        /\ conflicts' = conflicts \cup {<<exec, m>>} /\ UNCHANGED <<rows, counter, preview>>
    BY <1>5 DEF Append, Conflict, Outcome
  <2>2. author[m] \in cut
    <3>1. PICK v \in reserved : v.id = m /\ v.run # exec
      BY <1>5 DEF OwnReservation, Reservation
    <3>2. v.run = author[m] /\ v \in shown
      BY <3>1 DEF IInv, AuthorInv, NumberInv
    <3>3. status[author[m]] \in Terminal
      BY <1>4, <3>1, <3>2
    <3>4. status[author[m]] # "completed" /\ author[m] \notin givenup
      BY <1>3, <1>5 DEF IInv, FinishedRunIsWhole, Whole
    <3>5. preview[author[m]].text = {}
      BY <1>3, <3>3, <3>4, TextGone DEF IInv, Terminal, Active
    <3> QED BY <1>5, <3>1, <3>2, <3>4, <3>5 DEF IInv, TextInv
  <2>3. ConflictNeedsLoss'
    BY <1>1, <2>1, <2>2 DEF IInv, ConflictNeedsLoss
  <2>4. PreviewInv' /\ AuthorInv' /\ NumberInv' /\ TextInv' /\ FinishedRunIsWhole'
    BY <1>1, <2>1 DEF IInv, PreviewInv, PreviewOk, Row, AuthorInv, Working, NumberInv, TextInv,
      FinishedRunIsWhole, Whole
  <2>5. TypeOK'
    BY <1>1, <1>2, <1>3, <2>1 DEF IInv, TypeOK, Places, Place
  <2>6. TaskInv'
    BY <1>1, <1>2, <2>1 DEF IInv, TaskInv, At, Working, Place
  <2>7. SeenInv'
    BY <2>1 DEF SeenInv
  <2> QED BY <2>3, <2>4, <2>5, <2>6, <2>7 DEF IInv
<1>6. CASE Row(m) # {} /\ \E f \in Row(m) : f.gen # "complete"
  <2>1. pc' = Place("consume", NoId) /\ UNCHANGED <<rows, counter, preview, outcome, conflicts>>
    BY <1>6 DEF Append, Back
  <2>2. author[m] # exec
    BY <1>2, <1>6 DEF IInv, AuthorInv, Row, Terminal
  <2>3. PreviewInv' /\ AuthorInv' /\ NumberInv' /\ TextInv' /\ FinishedRunIsWhole'
        /\ ConflictNeedsLoss'
    BY <1>1, <2>1 DEF IInv, PreviewInv, PreviewOk, Row, AuthorInv, Working, NumberInv, TextInv,
      FinishedRunIsWhole, Whole, ConflictNeedsLoss
  <2>4. TypeOK'
    BY <1>1, <2>1 DEF IInv, TypeOK, Places, Place
  <2>5. TaskInv'
    BY <1>1, <1>2, <2>1 DEF IInv, TaskInv, At, Working, Place
  <2>6. SeenInv'
    BY <1>1, <2>1, <2>2 DEF IInv, SeenInv, Working, Row, At
  <2> QED BY <2>3, <2>4, <2>5, <2>6 DEF IInv
<1>7. CASE (Row(m) = {} /\ OwnReservation(exec, m))
           \/ (Row(m) # {} /\ \A f \in Row(m) : f.gen = "complete")
  <2>1. /\ pc' = Place("consume", NoId) /\ UNCHANGED <<outcome, conflicts>>
        /\ preview' = [preview EXCEPT ![exec].committed = @ \cup {m}, ![exec].text = @ \ {m}]
        /\ IF Row(m) = {} THEN WriteRow(exec, m, "complete") ELSE UNCHANGED <<rows, counter>>
    BY <1>7 DEF Append, Back, Row
  <2>2. /\ counter' \in Nat /\ rows \subseteq rows'
        /\ \A f \in rows' \ rows : /\ f.id = m /\ f.run = exec /\ f.gen = "complete"
                                      /\ f.seq \in Nat
                                   /\ f = [id |-> m, run |-> exec, seq |-> f.seq, gen |-> "complete"]
                                   /\ \A v \in reserved : v.id = m => v.run = exec /\ v.seq = f.seq
        /\ \E f \in rows' : f.id = m
    <3>1. CASE Row(m) # {}
      <4>1. PICK f \in rows : f.id = m
        BY <3>1 DEF Row
      <4>2. rows' = rows /\ counter' = counter /\ counter \in Nat
        BY <2>1, <3>1 DEF IInv, TypeOK
      <4> QED BY <4>1, <4>2
    <3>2. CASE Row(m) = {}
      <4>1. /\ rows' = rows \cup {[id |-> m, run |-> exec, seq |-> SeqOf(m), gen |-> "complete"]}
            /\ counter' = IF Reservation(m) = {} THEN counter + 1 ELSE counter
        BY <2>1, <3>2 DEF WriteRow
      <4>2. OwnReservation(exec, m) /\ counter \in Nat
        BY <1>7, <3>2 DEF IInv, TypeOK
      <4>3. SeqOf(m) \in Nat /\ \A v \in reserved : v.id = m => v.run = exec /\ v.seq = SeqOf(m)
        <5>1. CASE Reservation(m) = {}
          BY <5>1, <4>2 DEF Reservation, SeqOf
        <5>2. CASE Reservation(m) # {}
          <6> DEFINE c == CHOOSE w \in Reservation(m) : TRUE
          <6>1. c \in reserved /\ c.id = m
            BY <5>2 DEF Reservation
          <6>2. SeqOf(m) = c.seq
            BY <5>2 DEF SeqOf
          <6> HIDE DEF c
          <6>3. c.seq \in Nat /\ \A w \in reserved : w.id = m => w = c
            BY <6>1 DEF IInv, NumberInv, TypeOK
          <6> QED BY <4>2, <6>2, <6>3 DEF OwnReservation, Reservation
        <5> QED BY <5>1, <5>2
      <4> DEFINE e == [id |-> m, run |-> exec, seq |-> SeqOf(m), gen |-> "complete"]
      <4>4. e \in rows' /\ rows \subseteq rows' /\ counter' \in Nat /\ \A f \in rows' \ rows : f = e
        BY <4>1, <4>2
      <4>5. e.id = m /\ e.run = exec /\ e.seq = SeqOf(m) /\ e.gen = "complete"
        OBVIOUS
      <4> HIDE DEF e
      <4>6. e = [id |-> m, run |-> exec, seq |-> e.seq, gen |-> "complete"]
        BY <4>5 DEF e
      <4> QED BY <4>3, <4>4, <4>5, <4>6
    <3> QED BY <3>1, <3>2
  <2>3. /\ preview'[exec].text = preview[exec].text \ {m}
        /\ preview'[exec].sequences = preview[exec].sequences
        /\ preview'[exec].committed = preview[exec].committed \cup {m}
        /\ preview'[exec].sealed = preview[exec].sealed
        /\ \A r \in Runs : r # exec => preview'[r] = preview[r]
    BY <1>2, <2>1 DEF IInv, TypeOK
  <2> HIDE DEF m
  <2>4. TypeOK'
    <3>1. preview' \in [Runs -> [sequences : SUBSET [id : Texts, seq : Nat], text : SUBSET Texts,
                                 committed : SUBSET Ids, sealed : BOOLEAN]]
      BY <1>2, <1>3, <2>1, CommitTyped DEF IInv, TypeOK, PreviewType
    <3>2. rows' \subseteq [id : Ids, run : Runs, seq : Nat, gen : Gens]
      <4>1. \A f \in rows' \ rows : f \in [id : Ids, run : Runs, seq : Nat, gen : Gens]
        BY <1>2, <1>3, <2>2 DEF Gens
      <4> QED BY <4>1 DEF IInv, TypeOK
    <3> QED BY <1>1, <2>1, <2>2, <3>1, <3>2 DEF IInv, TypeOK, Places, Place
  <2>5. TaskInv'
    BY <1>1, <1>2, <2>1 DEF IInv, TaskInv, At, Working, Place
  <2>6. ~preview[exec].sealed /\ up
    BY <1>1, <1>2, AtWork DEF Terminal
  <2>7. PreviewInv'
    <3> SUFFICES ASSUME NEW r \in Runs PROVE PreviewOk(r)'
      BY DEF PreviewInv
    <3>1. PreviewOk(r)
      BY DEF IInv, PreviewInv
    <3>2. CASE r # exec
      BY <1>1, <2>2, <2>3, <3>1, <3>2 DEF PreviewOk, Row
    <3>3. CASE r = exec
      BY <1>1, <1>2, <1>3, <2>2, <2>3, <2>6, <3>1, <3>3 DEF PreviewOk, Row, Terminal, Active
    <3> QED BY <3>2, <3>3
  <2>8. AuthorInv'
    <3>1. \A f \in rows' \ rows : author[f.id] \in Runs
          /\ (f.run = author[f.id] \/ status[author[f.id]] \in Terminal)
      BY <2>2, <1>3, <1>4
    <3>2. \A q \in live : Row(q)' # {} => Row(q) # {} \/ q = m
      BY <2>2 DEF Row
    <3> QED BY <1>1, <1>2, <2>2, <3>1, <3>2, ConstantsAssumption DEF IInv, AuthorInv, Working
  <2>9. NumberInv'
    BY <1>1, <2>2 DEF IInv, NumberInv
  <2>10. TextInv'
    <3> SUFFICES ASSUME NEW p \in shown, p.run \notin cut \cup givenup, \A f \in rows' : f.id # p.id
                 PROVE  p.id \in preview'[p.run].text \/ status[p.run] = "completed"
      BY <1>1 DEF TextInv, Row
    <3>1. p.id # m /\ Row(p.id) = {} /\ p.run \in Runs
      BY <2>2 DEF Row, IInv, TypeOK
    <3>2. p.id \in preview[p.run].text \/ status[p.run] = "completed"
      BY <3>1 DEF IInv, TextInv
    <3> QED BY <2>3, <3>1, <3>2
  <2>11. SeenInv'
    <3> SUFFICES ASSUME NEW x \in seen, author[x] = exec, outcome # "failed"
                 PROVE  \E f \in rows' : f.id = x /\ f.run = exec /\ f.gen = "complete"
      BY <1>1, <2>1 DEF SeenInv, Row
    <3>1. CASE x # m
      BY <1>1, <1>2, <2>2, <3>1, ConstantsAssumption DEF IInv, SeenInv, Working, Row, m
    <3>2. CASE x = m
      <4>1. PICK f \in rows' : f.id = m
        BY <2>2
      <4>2. CASE f \notin rows
        BY <4>1, <4>2, <3>2, <2>2
      <4>3. CASE f \in rows
        BY <4>1, <4>3, <3>2, <1>2, <1>7 DEF IInv, AuthorInv, Row, m, Terminal
      <4> QED BY <4>2, <4>3
    <3> QED BY <3>1, <3>2
  <2>12. FinishedRunIsWhole' /\ ConflictNeedsLoss'
    BY <1>1, <2>1, <2>2 DEF IInv, FinishedRunIsWhole, Whole, ConflictNeedsLoss, Row
  <2> QED BY <2>4, <2>5, <2>7, <2>8, <2>9, <2>10, <2>11, <2>12 DEF IInv
<1> QED BY <1>5, <1>6, <1>7

-----------------------------------------------------------------------------
(* Sealing.                                                                 *)

\* The texts in the buffer of a Run become messages of that Run, at the numbers they
\* were shown with, unless a message holds them already.
LEMMA BufferWritten ==
  ASSUME IInv, NEW r \in Runs, NEW gen \in {"error", "cancelled"}, WriteBuffered(r, gen)
  PROVE  /\ rows \subseteq rows' /\ rows' \subseteq [id : Ids, run : Runs, seq : Nat, gen : Gens]
         /\ \A f \in rows' \ rows : /\ f.id \in preview[r].text /\ f.run = r /\ author[f.id] = r
                                    /\ f.gen = gen
                                    /\ \A v \in reserved : v.id = f.id => v.run = r /\ v.seq = f.seq
         /\ \A m \in preview[r].text : \E f \in rows' : f.id = m
<1>1. rows' = rows \cup {[id |-> m, run |-> r, seq |-> SeqOf(m), gen |-> gen] : m \in Buffered(r)}
  BY DEF WriteBuffered
<1>2. PreviewOk(r) /\ preview[r].text \subseteq Texts
  BY DEF IInv, PreviewInv, TypeOK
<1>3. ASSUME NEW m \in preview[r].text
      PROVE  /\ author[m] = r /\ SeqOf(m) \in Nat /\ m \in Ids
             /\ \A v \in reserved : v.id = m => v.run = r /\ v.seq = SeqOf(m)
  <2> DEFINE c == CHOOSE w \in Reservation(m) : TRUE
  <2>1. PICK s \in preview[r].sequences : s.id = m
    BY <1>2 DEF PreviewOk
  <2> DEFINE v == [id |-> s.id, run |-> r, seq |-> s.seq]
  <2>2. v \in reserved /\ v.id = m /\ v.run = r
    BY <1>2, <2>1 DEF PreviewOk, IInv, NumberInv
  <2> HIDE DEF v
  <2>3. Reservation(m) # {}
    BY <2>2 DEF Reservation
  <2>4. c \in reserved /\ c.id = m
    BY <2>3 DEF Reservation
  <2>5. SeqOf(m) = c.seq
    BY <2>3 DEF SeqOf
  <2> HIDE DEF c
  <2>6. \A w \in reserved : w.id = m => w = c
    BY <2>4 DEF IInv, NumberInv
  <2>7. author[m] = r /\ m \in Ids
    BY <2>2, <1>2, ConstantsAssumption DEF IInv, AuthorInv
  <2>8. c.seq \in Nat
    BY <2>4 DEF IInv, TypeOK
  <2> QED BY <2>2, <2>5, <2>6, <2>7, <2>8
<1>4. ASSUME NEW f \in rows' \ rows
      PROVE  /\ f \in [id : Ids, run : Runs, seq : Nat, gen : Gens]
             /\ f.id \in preview[r].text /\ f.run = r /\ author[f.id] = r /\ f.gen = gen
             /\ \A v \in reserved : v.id = f.id => v.run = r /\ v.seq = f.seq
  <2>1. PICK m \in preview[r].text : f = [id |-> m, run |-> r, seq |-> SeqOf(m), gen |-> gen]
    BY <1>1 DEF Buffered
  <2>2. f.id = m /\ f.run = r /\ f.seq = SeqOf(m) /\ f.gen = gen
    BY <2>1
  <2> QED BY <2>1, <2>2, <1>3 DEF Gens
<1>5. ASSUME NEW m \in preview[r].text
      PROVE  \E f \in rows' : f.id = m
  <2>1. CASE Row(m) # {}
    BY <1>1, <2>1 DEF Row
  <2>2. CASE Row(m) = {}
    <3>1. m \in Buffered(r)
      BY <1>2, <2>2 DEF Buffered, PreviewOk
    <3> DEFINE e == [id |-> m, run |-> r, seq |-> SeqOf(m), gen |-> gen]
    <3>2. e \in rows' /\ e.id = m
      BY <1>1, <3>1
    <3> QED BY <3>2
  <2> QED BY <2>1, <2>2
<1> QED BY <1>1, <1>4, <1>5 DEF IInv, TypeOK

\* A Run is sealed with its buffer written, by a settlement or by a cancellation.
Seals(r, s, gen) ==
  /\ status' = [status EXCEPT ![r] = s]
  /\ WriteBuffered(r, gen)
  /\ Seal(r)
  /\ UNCHANGED <<reserved, counter, author, saved, up, exec, outcome, live, seen, shown, conflicts,
                 cut, givenup>>

LEMMA SealKeeps ==
  ASSUME IInv, NEW r \in Runs, NEW s \in {"error", "cancelled"}, Seals(r, s, s),
         exec = r, status[r] \in Active,
         pc'.at \in {"consume", "settle", "finish"}
  PROVE  PreviewInv' /\ AuthorInv' /\ NumberInv' /\ TextInv' /\ SeenInv'
         /\ FinishedRunIsWhole' /\ ConflictNeedsLoss'
<1>1. /\ status' = [status EXCEPT ![r] = s]
      /\ UNCHANGED <<reserved, counter, author, saved, up, exec, outcome, live, seen, shown,
                     conflicts, cut, givenup>>
  BY DEF Seals
<1>2. /\ rows \subseteq rows'
      /\ \A f \in rows' \ rows : /\ f.id \in preview[r].text /\ f.run = r /\ author[f.id] = r
                                 /\ f.gen = s
                                 /\ \A v \in reserved : v.id = f.id => v.run = r /\ v.seq = f.seq
      /\ \A m \in preview[r].text : \E f \in rows' : f.id = m
  BY BufferWritten DEF Seals
<1>3. /\ preview'[r].text = {} /\ preview'[r].sealed
      /\ preview'[r].sequences = preview[r].sequences
      /\ preview'[r].committed = preview[r].committed
      /\ \A q \in Runs : q # r => preview'[q] = preview[q]
  BY DEF Seals, Seal, IInv, TypeOK
<1>4. status'[r] = s /\ s \in Terminal /\ \A q \in Runs : q # r => status'[q] = status[q]
  BY <1>1 DEF IInv, TypeOK, Terminal
<1>0. r \notin givenup
  BY DEF IInv, TaskInv, Active
<1>5. PreviewInv'
  <2> SUFFICES ASSUME NEW q \in Runs PROVE PreviewOk(q)'
    BY DEF PreviewInv
  <2>1. PreviewOk(q) /\ up
    BY ConstantsAssumption DEF IInv, PreviewInv, TaskInv, Working
  <2>2. CASE q # r
    BY <2>1, <2>2, <1>1, <1>2, <1>3, <1>4 DEF PreviewOk, Row
  <2>3. CASE q = r
    BY <2>1, <2>3, <1>0, <1>1, <1>2, <1>3, <1>4 DEF PreviewOk, Row
  <2> QED BY <2>2, <2>3
<1>6. AuthorInv'
  <2>1. status'[r] \in Terminal /\ \A q \in Runs : status[q] \in Terminal => status'[q] \in Terminal
    BY <1>4
  <2>2. \A m \in Ids : author[m] # NoRun => author[m] \in Runs /\ status'[author[m]] # "absent"
    BY <1>4 DEF IInv, AuthorInv, TypeOK
  <2>3. ASSUME NEW f \in rows'
        PROVE  /\ author[f.id] # NoRun
               /\ f.run = author[f.id] \/ status'[author[f.id]] \in Terminal
               /\ f.gen # "complete" => status'[f.run] \in Terminal
    <3>1. CASE f \in rows
      <4>1. f.run \in Runs /\ f.id \in Ids
        BY <3>1 DEF IInv, TypeOK
      <4> QED BY <3>1, <4>1, <2>1, <2>2 DEF IInv, AuthorInv
    <3>2. CASE f \notin rows
      BY <3>2, <1>2, <2>1, ConstantsAssumption
    <3> QED BY <3>1, <3>2
  <2> QED BY <1>1, <2>1, <2>2, <2>3 DEF IInv, AuthorInv, Working
<1>7. NumberInv'
  BY <1>1, <1>2 DEF IInv, NumberInv
<1>8. TextInv'
  <2> SUFFICES ASSUME NEW p \in shown, p.run \notin cut \cup givenup, \A f \in rows' : f.id # p.id
               PROVE  p.id \in preview'[p.run].text \/ status'[p.run] = "completed"
    BY <1>1 DEF TextInv, Row
  <2>1. Row(p.id) = {} /\ p.run \in Runs
    BY <1>2 DEF Row, IInv, TypeOK
  <2>2. p.id \in preview[p.run].text \/ status[p.run] = "completed"
    BY <2>1 DEF IInv, TextInv
  <2>3. p.run # r
    BY <2>2, <1>2 DEF Active
  <2> QED BY <2>1, <2>2, <2>3, <1>3, <1>4
<1>9. SeenInv'
  BY <1>1, <1>4 DEF SeenInv
<1>10. FinishedRunIsWhole'
  <2> SUFFICES ASSUME NEW m \in saved, Whole(author[m])'
               PROVE  \E f \in Row(m) : f.run = author[m] /\ f.gen = "complete"
    BY <1>1, <1>2 DEF FinishedRunIsWhole, Whole, Row
  <2>1. author[m] \in Runs
    BY DEF IInv, AuthorInv, TypeOK
  <2> QED BY <2>1, <1>0, <1>1, <1>4 DEF IInv, FinishedRunIsWhole, Whole, Terminal
<1>11. ConflictNeedsLoss'
  BY <1>1 DEF IInv, ConflictNeedsLoss
<1> QED BY <1>5, <1>6, <1>7, <1>8, <1>9, <1>10, <1>11

LEMMA SealTyped ==
  ASSUME TypeOK, NEW r \in Runs, Seal(r)
  PROVE  preview' \in [Runs -> [sequences : SUBSET [id : Texts, seq : Nat], text : SUBSET Texts,
                                committed : SUBSET Ids, sealed : BOOLEAN]]
<1> DEFINE T == [sequences : SUBSET [id : Texts, seq : Nat], text : SUBSET Texts,
                 committed : SUBSET Ids, sealed : BOOLEAN]
           x == [preview[r] EXCEPT !.sealed = TRUE, !.text = {}]
<1>1. preview \in [Runs -> T]
  BY DEF TypeOK
<1>2. x \in T
  BY <1>1
<1>3. preview' = [preview EXCEPT ![r] = x]
  BY Zenon DEF Seal
<1> HIDE DEF x
<1> QED BY <1>1, <1>2, <1>3

LEMMA SettleKeeps ==
  ASSUME IInv, Settle
  PROVE  IInv'
<1>1. /\ pc.at = "settle" /\ pc' = Place("finish", NoId)
      /\ UNCHANGED <<reserved, counter, author, saved, up, exec, outcome, abort, live, seen, shown,
                     conflicts, cut, givenup>>
  BY DEF Settle, At, graph, history
<1>2. exec \in Runs /\ PreviewOk(exec) /\ status[exec] \in {"running", "cancelled"}
      /\ outcome \in {"completed", "interrupted", "failed", "aborted"}
      /\ (outcome = "aborted" => status[exec] = "cancelled") /\ exec \notin givenup
  BY <1>1, AtWork DEF IInv, TaskInv, At, TypeOK
<1>3. ASSUME \A q \in Runs : q # exec => status'[q] = status[q],
             status'[exec] # "absent", abort => status'[exec] = "cancelled",
             status[exec] \notin Active => status'[exec] \notin Active
      PROVE  TaskInv'
  BY <1>1, <1>2, <1>3, ConstantsAssumption DEF IInv, TypeOK, TaskInv, Working, At, Place, Active
<1>4. CASE status[exec] = "cancelled"
  <2>1. UNCHANGED <<status, rows>> /\ Seal(exec)
    BY <1>4 DEF Settle, Terminal
  <2>2. preview[exec].sealed /\ preview[exec].text = {}
    BY <1>2, <1>4 DEF PreviewOk, Terminal
  <2>3. preview' = preview
    <3>1. [preview[exec] EXCEPT !.sealed = TRUE, !.text = {}] = preview[exec]
      BY <1>2, <2>2 DEF IInv, TypeOK
    <3>2. preview' = [preview EXCEPT ![exec] = [preview[exec] EXCEPT !.sealed = TRUE, !.text = {}]]
      BY <2>1, Zenon DEF Seal
    <3> QED BY <1>2, <3>1, <3>2 DEF IInv, TypeOK
  <2>4. PreviewInv' /\ AuthorInv' /\ NumberInv' /\ TextInv' /\ FinishedRunIsWhole'
        /\ ConflictNeedsLoss'
    BY <1>1, <2>1, <2>3 DEF IInv, PreviewInv, PreviewOk, Row, AuthorInv, Working, NumberInv,
      TextInv,
      FinishedRunIsWhole, Whole, ConflictNeedsLoss
  <2>5. SeenInv'
    BY <1>1, <1>4, <2>1 DEF SeenInv
  <2>6. TypeOK'
    BY <1>1, <2>1, <2>3, ConstantsAssumption DEF IInv, TypeOK, Places, Place
  <2>7. TaskInv'
    BY <1>2, <1>3, <1>4, <2>1 DEF IInv, TypeOK, TaskInv, Working
  <2> QED BY <2>4, <2>5, <2>6, <2>7 DEF IInv
<1>5. CASE status[exec] = "running" /\ outcome = "failed"
  <2>1. status' = [status EXCEPT ![exec] = "error"] /\ WriteBuffered(exec, "error")
    BY <1>5 DEF Settle, Target
  <2>2. status'[exec] = "error" /\ \A q \in Runs : q # exec => status'[q] = status[q]
    BY <1>2, <2>1 DEF IInv, TypeOK
  <2>3. Seal(exec)
    BY <2>2 DEF Settle, Terminal
  <2>4. Seals(exec, "error", "error")
    BY <1>1, <2>1, <2>3 DEF Seals
  <2>5. PreviewInv' /\ AuthorInv' /\ NumberInv' /\ TextInv' /\ SeenInv' /\ FinishedRunIsWhole'
        /\ ConflictNeedsLoss'
    <3>1. pc'.at = "finish" /\ status[exec] \in Active
      BY <1>1, <1>5 DEF Place, Active
    <3> QED BY <1>2, <2>4, <3>1, SealKeeps
  <2>6. TypeOK'
    <3>1. rows' \subseteq [id : Ids, run : Runs, seq : Nat, gen : Gens]
      BY <1>2, <2>1, BufferWritten
    <3>2. preview' \in [Runs -> [sequences : SUBSET [id : Texts, seq : Nat], text : SUBSET Texts,
                                 committed : SUBSET Ids, sealed : BOOLEAN]]
      BY <1>2, <2>3, SealTyped DEF IInv
    <3>3. status' \in [Runs -> Terminal \cup Active \cup {"absent"}]
      BY <2>1 DEF IInv, TypeOK, Terminal
    <3> QED BY <1>1, <3>1, <3>2, <3>3, ConstantsAssumption DEF IInv, TypeOK, Places, Place
  <2>7. TaskInv'
    BY <1>2, <1>3, <1>5, <2>2, <2>6, ConstantsAssumption DEF IInv, TypeOK, TaskInv, Working, Active
  <2> QED BY <2>5, <2>6, <2>7 DEF IInv
<1>6. CASE status[exec] = "running" /\ outcome \in {"completed", "interrupted"}
  <2>1. status' = [status EXCEPT ![exec] = outcome] /\ rows' = rows
    BY <1>6 DEF Settle, Target
  <2>2. status'[exec] = outcome /\ \A q \in Runs : q # exec => status'[q] = status[q]
    BY <1>2, <2>1 DEF IInv, TypeOK
  <2>3. IF outcome = "completed" THEN Seal(exec) ELSE UNCHANGED preview
    BY <1>6, <2>2 DEF Settle, Terminal
  <2>4. /\ preview'[exec].sequences = preview[exec].sequences
        /\ preview'[exec].committed = preview[exec].committed
        /\ outcome = "completed" => preview'[exec].text = {} /\ preview'[exec].sealed
        /\ outcome = "interrupted" => preview' = preview
        /\ \A q \in Runs : q # exec => preview'[q] = preview[q]
    BY <1>2, <1>6, <2>3 DEF Seal, IInv, TypeOK
  <2>5. TypeOK'
    <3>1. preview' \in [Runs -> [sequences : SUBSET [id : Texts, seq : Nat], text : SUBSET Texts,
                                 committed : SUBSET Ids, sealed : BOOLEAN]]
      BY <1>2, <2>3, SealTyped DEF IInv, TypeOK
    <3>2. status' \in [Runs -> Terminal \cup Active \cup {"absent"}]
      BY <1>6, <2>1 DEF IInv, TypeOK, Terminal, Active
    <3> QED BY <1>1, <2>1, <3>1, <3>2, ConstantsAssumption DEF IInv, TypeOK, Places, Place
  <2>6. ~abort /\ up
    BY <1>1, <1>2, <1>6, ConstantsAssumption DEF IInv, TaskInv, Working
  <2>7. TaskInv'
    BY <1>2, <1>3, <1>6, <2>2, <2>5, <2>6 DEF IInv, TypeOK, Active
  <2>8. PreviewInv'
    <3> SUFFICES ASSUME NEW q \in Runs PROVE PreviewOk(q)'
      BY DEF PreviewInv
    <3>1. PreviewOk(q)
      BY DEF IInv, PreviewInv
    <3>2. CASE q # exec
      BY <3>1, <3>2, <1>1, <2>1, <2>2, <2>4 DEF PreviewOk, Row
    <3>3. CASE q = exec
      <4>1. ~preview[exec].sealed
        BY <1>2, <1>6 DEF PreviewOk, Terminal
      <4> QED BY <3>1, <3>3, <4>1, <1>1, <1>2, <1>6, <2>1, <2>2, <2>4, <2>6 DEF PreviewOk, Row,
        Terminal
    <3> QED BY <3>2, <3>3
  <2>9. AuthorInv'
    <3>1. \A q \in Runs : /\ status'[q] = "absent" => status[q] = "absent"
                          /\ status[q] \in Terminal => status'[q] \in Terminal
      BY <1>6, <2>2 DEF Terminal
    <3>2. \A m \in Ids : author[m] # NoRun => author[m] \in Runs
      BY DEF IInv, TypeOK
    <3>3. \A f \in rows : f.run \in Runs /\ f.id \in Ids
      BY DEF IInv, TypeOK
    <3> QED BY <1>1, <1>2, <2>1, <3>1, <3>2, <3>3 DEF IInv, AuthorInv, Working, Row
  <2>10. NumberInv' /\ ConflictNeedsLoss'
    BY <1>1, <2>1 DEF IInv, NumberInv, ConflictNeedsLoss
  <2>11. TextInv'
    <3> SUFFICES ASSUME NEW p \in shown, p.run \notin cut \cup givenup, Row(p.id) = {}
                 PROVE  p.id \in preview'[p.run].text \/ status'[p.run] = "completed"
      BY <1>1, <2>1 DEF TextInv, Row
    <3>1. p.run \in Runs /\ (p.id \in preview[p.run].text \/ status[p.run] = "completed")
      BY DEF IInv, TypeOK, TextInv
    <3> QED BY <1>6, <2>2, <2>4, <3>1
  <2>12. ASSUME NEW m \in saved, author[m] = exec
         PROVE  \E f \in Row(m) : f.run = exec /\ f.gen = "complete"
    <3>1. m \in seen
      BY <1>1, <1>6 DEF IInv, TaskInv, At
    <3> QED BY <1>1, <1>2, <1>6, <2>12, <3>1, ConstantsAssumption DEF IInv, SeenInv, Working, At
  <2>13. FinishedRunIsWhole'
    <3> SUFFICES ASSUME NEW m \in saved, Whole(author[m])'
                 PROVE  \E f \in Row(m) : f.run = author[m] /\ f.gen = "complete"
      BY <1>1, <2>1 DEF FinishedRunIsWhole, Whole, Row
    <3>1. author[m] \in Runs
      BY DEF IInv, AuthorInv, TypeOK
    <3>2. CASE author[m] = exec
      BY <3>2, <2>12
    <3>3. CASE author[m] # exec
      BY <1>1, <3>1, <3>3, <2>2 DEF IInv, FinishedRunIsWhole, Whole
    <3> QED BY <3>2, <3>3
  <2>14. SeenInv'
    BY <1>1, <1>6, <2>2 DEF SeenInv
  <2> QED BY <2>5, <2>7, <2>8, <2>9, <2>10, <2>11, <2>13, <2>14 DEF IInv
<1> QED BY <1>2, <1>4, <1>5, <1>6

LEMMA CancelRunKeeps ==
  ASSUME IInv, NEW r \in Runs, CancelRun(r)
  PROVE  IInv'
<1>1. /\ up /\ status[r] \in Active
      /\ exec = r => pc.at \notin {"reserve", "append"}
      /\ status' = [status EXCEPT ![r] = "cancelled"]
      /\ WriteBuffered(r, "cancelled")
      /\ UNCHANGED <<reserved, counter, author, saved, up, exec, pc, outcome, live, seen, shown,
                     conflicts, cut, givenup>>
  BY DEF CancelRun, graph, history
<1>2. /\ rows \subseteq rows' /\ rows' \subseteq [id : Ids, run : Runs, seq : Nat, gen : Gens]
      /\ \A f \in rows' \ rows : /\ f.id \in preview[r].text /\ f.run = r /\ author[f.id] = r
                                 /\ f.gen = "cancelled"
                                 /\ \A v \in reserved : v.id = f.id => v.run = r /\ v.seq = f.seq
      /\ \A m \in preview[r].text : \E f \in rows' : f.id = m
  BY <1>1, BufferWritten
<1>0. r \notin givenup
  BY <1>1 DEF IInv, TaskInv, Active
<1>3. status'[r] = "cancelled" /\ \A q \in Runs : q # r => status'[q] = status[q]
  BY <1>1 DEF IInv, TypeOK
<1>4. /\ status' \in [Runs -> Terminal \cup Active \cup {"absent"}]
      /\ \A q \in Runs : status'[q] \in Active => status[q] \in Active
      /\ \A q \in Runs : status'[q] = "absent" => status[q] = "absent"
      /\ \A q \in Runs : status[q] \in Terminal => status'[q] \in Terminal
  BY <1>1, <1>3 DEF IInv, TypeOK, Terminal, Active
<1>5. CASE exec = r
  <2>1. Seal(r) /\ abort' = TRUE
    BY <1>5 DEF CancelRun
  <2>2. pc.at \in {"consume", "settle", "finish"}
    BY <1>1, <1>5, ConstantsAssumption DEF IInv, TypeOK, TaskInv, Working, Places, At
  <2>3. Seals(r, "cancelled", "cancelled")
    BY <1>1, <2>1 DEF Seals
  <2>4. PreviewInv' /\ AuthorInv' /\ NumberInv' /\ TextInv' /\ SeenInv' /\ FinishedRunIsWhole'
        /\ ConflictNeedsLoss'
    BY <1>1, <1>5, <2>2, <2>3, SealKeeps
  <2>5. TypeOK'
    <3>1. preview' \in [Runs -> [sequences : SUBSET [id : Texts, seq : Nat], text : SUBSET Texts,
                                 committed : SUBSET Ids, sealed : BOOLEAN]]
      BY <2>1, SealTyped DEF IInv
    <3> QED BY <1>1, <1>2, <1>4, <2>1, <3>1 DEF IInv, TypeOK
  <2>6. TaskInv'
    BY <1>0, <1>1, <1>3, <1>4, <1>5, <2>1, <2>2 DEF IInv, TypeOK, TaskInv, Working, At
  <2> QED BY <2>4, <2>5, <2>6 DEF IInv
<1>6. CASE exec # r
  <2>1. preview' = [preview EXCEPT ![r] = Fresh] /\ UNCHANGED abort
    BY <1>6 DEF CancelRun
  <2>2. exec = NoRun
    BY <1>1, <1>6 DEF IInv, TaskInv, Working
  <2>3. preview'[r] = Fresh /\ \A q \in Runs : q # r => preview'[q] = preview[q]
    BY <2>1 DEF IInv, TypeOK
  <2>4. TypeOK'
    <3>1. Fresh \in [sequences : SUBSET [id : Texts, seq : Nat], text : SUBSET Texts,
                     committed : SUBSET Ids, sealed : BOOLEAN]
      BY DEF Fresh
    <3>2. preview' \in [Runs -> [sequences : SUBSET [id : Texts, seq : Nat], text : SUBSET Texts,
                                 committed : SUBSET Ids, sealed : BOOLEAN]]
      BY <2>1, <3>1 DEF IInv, TypeOK
    <3> QED BY <1>1, <1>2, <1>4, <2>1, <3>2 DEF IInv, TypeOK
  <2>5. TaskInv'
    BY <1>0, <1>1, <1>3, <1>4, <2>1, <2>2, ConstantsAssumption DEF IInv, TypeOK, TaskInv, Working,
      At
  <2>6. PreviewInv'
    <3> SUFFICES ASSUME NEW q \in Runs PROVE PreviewOk(q)'
      BY DEF PreviewInv
    <3>1. PreviewOk(q)
      BY DEF IInv, PreviewInv
    <3>2. CASE q # r
      BY <3>1, <3>2, <1>1, <1>2, <1>3, <2>3 DEF PreviewOk, Row
    <3>3. CASE q = r
      BY <3>3, <1>1, <1>6, <2>3 DEF PreviewOk, Fresh
    <3> QED BY <3>2, <3>3
  <2>7. AuthorInv'
    <3>1. ASSUME NEW f \in rows'
          PROVE  /\ author[f.id] # NoRun
                 /\ f.run = author[f.id] \/ status'[author[f.id]] \in Terminal
                 /\ f.gen # "complete" => status'[f.run] \in Terminal
      <4>1. CASE f \in rows
        <5>1. f.run \in Runs /\ f.id \in Ids
          BY <4>1 DEF IInv, TypeOK
        <5>2. author[f.id] \in Runs
          BY <4>1, <5>1 DEF IInv, AuthorInv, TypeOK
        <5> QED BY <4>1, <5>1, <5>2, <1>4 DEF IInv, AuthorInv
      <4>2. CASE f \notin rows
        BY <4>2, <1>2, <1>3, ConstantsAssumption DEF Terminal
      <4> QED BY <4>1, <4>2
    <3>2. \A m \in Ids : author[m] # NoRun => author[m] \in Runs
      BY DEF IInv, TypeOK
    <3> QED BY <1>1, <1>4, <2>2, <3>1, <3>2 DEF IInv, AuthorInv, Working
  <2>8. NumberInv' /\ ConflictNeedsLoss'
    BY <1>1, <1>2 DEF IInv, NumberInv, ConflictNeedsLoss
  <2>9. TextInv'
    <3> SUFFICES ASSUME NEW p \in shown, p.run \notin cut \cup givenup, \A f \in rows' : f.id # p.id
                 PROVE  p.id \in preview'[p.run].text \/ status'[p.run] = "completed"
      BY <1>1 DEF TextInv, Row
    <3>1. Row(p.id) = {} /\ p.run \in Runs
      BY <1>2 DEF Row, IInv, TypeOK
    <3>2. p.id \in preview[p.run].text \/ status[p.run] = "completed"
      BY <3>1 DEF IInv, TextInv
    <3>3. p.run # r
      BY <3>2, <1>1, <1>2 DEF Active
    <3> QED BY <3>1, <3>2, <3>3, <1>3, <2>3
  <2>10. SeenInv'
    BY <1>1, <2>2 DEF SeenInv, Working
  <2>11. FinishedRunIsWhole'
    <3> SUFFICES ASSUME NEW m \in saved, Whole(author[m])'
                 PROVE  \E f \in Row(m) : f.run = author[m] /\ f.gen = "complete"
      BY <1>1, <1>2 DEF FinishedRunIsWhole, Whole, Row
    <3>1. author[m] \in Runs
      BY DEF IInv, AuthorInv, TypeOK
    <3> QED BY <3>1, <1>0, <1>1, <1>3 DEF IInv, FinishedRunIsWhole, Whole
  <2> QED BY <2>4, <2>5, <2>6, <2>7, <2>8, <2>9, <2>10, <2>11 DEF IInv
<1> QED BY <1>5, <1>6

-----------------------------------------------------------------------------
(* Together.                                                                *)

LEMMA InitHolds == Init => IInv
<1> SUFFICES ASSUME Init PROVE IInv
  OBVIOUS
<1>1. TypeOK
  BY DEF Init, TypeOK, Places, Place, Idle, Fresh
<1>2. TaskInv
  BY DEF Init, TaskInv, Working, At, Place, Idle, Active
<1>3. PreviewInv
  BY ConstantsAssumption DEF Init, PreviewInv, PreviewOk, Fresh
<1>4. AuthorInv /\ NumberInv /\ TextInv /\ SeenInv
  BY DEF Init, AuthorInv, NumberInv, TextInv, SeenInv, Working, Row
<1>5. FinishedRunIsWhole /\ ConflictNeedsLoss
  BY DEF Init, FinishedRunIsWhole, Whole, ConflictNeedsLoss
<1> QED BY <1>1, <1>2, <1>3, <1>4, <1>5 DEF IInv

LEMMA StutterKeeps ==
  ASSUME IInv, UNCHANGED vars
  PROVE  IInv'
<1>1. UNCHANGED <<status, rows, reserved, counter, author, saved, up, exec, pc, outcome, abort,
                  live, seen, preview, shown, conflicts, cut, givenup>>
  BY DEF vars, db, graph, task, history
<1>2. TypeOK' /\ TaskInv'
  BY <1>1 DEF IInv, TypeOK, TaskInv, Working, At
<1>3. PreviewInv' /\ AuthorInv' /\ NumberInv' /\ TextInv' /\ SeenInv'
  BY <1>1 DEF IInv, PreviewInv, PreviewOk, AuthorInv, NumberInv, TextInv, SeenInv, Row, Working, At
<1>4. FinishedRunIsWhole' /\ ConflictNeedsLoss'
  BY <1>1 DEF IInv, FinishedRunIsWhole, Whole, ConflictNeedsLoss, Row
<1> QED BY <1>2, <1>3, <1>4 DEF IInv

LEMMA StepKeeps ==
  ASSUME IInv, [Next]_vars
  PROVE  IInv'
<1>1. ASSUME NEW r \in Runs, StartRun(r) \/ ResumeRun(r) \/ CancelRun(r) \/ FailRecovery(r)
      PROVE  IInv'
  BY <1>1, StartRunKeeps, ResumeRunKeeps, CancelRunKeeps, FailRecoveryKeeps
<1>2. ASSUME NEW m \in Ids, Generate(m) \/ Save(m) \/ Delta(m) \/ Value(m)
      PROVE  IInv'
  BY <1>2, GenerateKeeps, SaveKeeps, DeltaKeeps, ValueKeeps
<1>3. CASE Reserve \/ Append \/ ConsumerFails \/ ConsumerAborts \/ StreamEnds
  BY <1>3, ReserveKeeps, AppendKeeps, ConsumerFailsKeeps, ConsumerAbortsKeeps, StreamEndsKeeps
<1>4. CASE Settle \/ SettleFails \/ Finish \/ Stop \/ Restart
  BY <1>4, SettleKeeps, SettleFailsKeeps, FinishKeeps, StopKeeps, RestartKeeps
<1>5. CASE UNCHANGED vars
  BY <1>5, StutterKeeps
<1> QED BY <1>1, <1>2, <1>3, <1>4, <1>5 DEF Next

\* The invariant holds in every state the Runs of a thread can reach.
THEOREM Inductive == Spec => []IInv
<1> QED BY InitHolds, StepKeeps, PTL DEF Spec

\* Every variable has its type; what is shown and reserved is of messages with text.
THEOREM TypeCorrect == Spec => []TypeOK
<1>1. IInv => TypeOK
  BY DEF IInv
<1> QED BY Inductive, <1>1, PTL

LEMMA WholeInState == IInv => MessagesAreWhole
<1> SUFFICES ASSUME IInv PROVE MessagesAreWhole
  OBVIOUS
<1>1. PreviewIsTheMessage
  BY DEF IInv, NumberInv, PreviewIsTheMessage
<1>2. ShownTextIsKept
  <2> SUFFICES ASSUME NEW p \in shown, status[p.run] \in {"cancelled", "error"},
                      p.run \notin cut \cup givenup
               PROVE  Row(p.id) # {}
    BY DEF ShownTextIsKept
  <2>1. preview[p.run].text = {}
    BY TextGone DEF IInv, TypeOK, Active
  <2> QED BY <2>1 DEF IInv, TextInv
<1> QED BY <1>1, <1>2 DEF IInv, MessagesAreWhole

\* Nothing a Run has said gets lost between the Graph's events, the checkpoint and the
\* tables, nor stands in the way of what is said next: for any number of Runs and
\* messages, however their failures, cancellations, ingestions, recoveries and the ends
\* of processes interleave.  Text a Run had shown and not finished when it paused is
\* kept by a failure or a cancellation, and given up by a recovery (runs.py:274-306).
THEOREM WholeMessages == Spec => []MessagesAreWhole
<1> QED BY Inductive, WholeInState, PTL

LEMMA StepSeals ==
  ASSUME IInv, Next
  PROVE  \A e \in (shown' \ shown) \cup (reserved' \ reserved) \cup (rows' \ rows) :
           status[e.run] \notin Terminal
<1>1. ASSUME NEW r \in Runs, StartRun(r) \/ ResumeRun(r) \/ FailRecovery(r)
      PROVE  UNCHANGED <<shown, reserved, rows>>
  BY <1>1 DEF StartRun, ResumeRun, FailRecovery, Invoke, history
<1>2. ASSUME NEW r \in Runs, CancelRun(r)
      PROVE  /\ UNCHANGED <<shown, reserved>> /\ status[r] \notin Terminal
             /\ \A e \in rows' \ rows : e.run = r
  <2>1. WriteBuffered(r, "cancelled") /\ UNCHANGED <<shown, reserved>> /\ status[r] \notin Terminal
    BY <1>2 DEF CancelRun, history, Active, Terminal
  <2> QED BY <2>1, BufferWritten
<1>3. ASSUME NEW m \in Ids, Generate(m) \/ Save(m) \/ Value(m)
      PROVE  UNCHANGED <<shown, reserved, rows>>
  BY <1>3 DEF Generate, Save, Value, db, history
<1>4. ASSUME NEW m \in Ids, Delta(m)
      PROVE  /\ UNCHANGED <<reserved, rows>> /\ status[exec] \notin Terminal
             /\ \A e \in shown' \ shown : e.run = exec
  <2>1. pc.at = "consume" /\ ~preview[exec].sealed /\ UNCHANGED <<reserved, rows>>
    BY <1>4 DEF Delta, At, Here, db
  <2>2. UNCHANGED shown \/ \E s \in Here.sequences : Show(m, s.seq)
    BY <1>4 DEF Delta, Conflict
  <2> QED BY <2>1, <2>2, AtWork DEF Show
<1>5. CASE Reserve
  <2>1. pc.at = "reserve" /\ UNCHANGED rows
    BY <1>5 DEF Reserve, At
  <2>2. status[exec] \notin Terminal
    BY <2>1 DEF IInv, TaskInv, At, Terminal
  <2>3. \A e \in (shown' \ shown) \cup (reserved' \ reserved) : e.run = exec
    BY <1>5 DEF Reserve, Show
  <2> QED BY <2>1, <2>2, <2>3
<1>6. CASE Append
  <2>1. pc.at = "append" /\ UNCHANGED <<shown, reserved>>
    BY <1>6 DEF Append, At
  <2>2. status[exec] \notin Terminal
    BY <2>1 DEF IInv, TaskInv, At, Terminal
  <2>3. \A e \in rows' \ rows : e.run = exec
    BY <1>6 DEF Append, WriteRow
  <2> QED BY <2>1, <2>2, <2>3
<1>7. CASE ConsumerFails \/ ConsumerAborts \/ StreamEnds \/ SettleFails \/ Finish \/ Stop \/ Restart
  BY <1>7 DEF ConsumerFails, ConsumerAborts, StreamEnds, SettleFails, Finish, Stop, Restart, db,
    history
<1>8. CASE Settle
  <2>1. UNCHANGED <<shown, reserved>> /\ pc.at = "settle"
    BY <1>8 DEF Settle, history, At
  <2>2. CASE status[exec] = "running" /\ outcome = "failed"
    <3>1. WriteBuffered(exec, "error") /\ exec \in Runs
      BY <1>8, <2>1, <2>2, AtWork DEF Settle
    <3>2. \A e \in rows' \ rows : e.run = exec
      BY <3>1, BufferWritten
    <3> QED BY <2>1, <2>2, <3>2 DEF Terminal
  <2>3. CASE ~(status[exec] = "running" /\ outcome = "failed")
    BY <1>8, <2>1, <2>3 DEF Settle
  <2> QED BY <2>2, <2>3
<1> QED BY <1>1, <1>2, <1>3, <1>4, <1>5, <1>6, <1>7, <1>8 DEF Next

\* Once a Run is final nothing is shown, reserved or written for it, whatever the task,
\* a late delta or a cancellation still does.
THEOREM Sealed == Spec => NothingAfterTerminal
<1> DEFINE Quiet == \A e \in (shown' \ shown) \cup (reserved' \ reserved) \cup (rows' \ rows) :
                      status[e.run] \notin Terminal
<1>1. IInv /\ [Next]_vars => [Quiet]_vars
  BY StepSeals
<1> QED BY Inductive, <1>1, PTL DEF Spec, NothingAfterTerminal
=============================================================================
