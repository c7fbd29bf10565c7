---------------------------- MODULE ExtensionPages ----------------------------
(***************************************************************************)
(* The pages that edit the library of tools: ToolsWorkspace with the panel *)
(* that imports OpenAPI documents, McpWorkspace, and ExtensionsWorkspace   *)
(* that shows one of the two editors beside a column they share            *)
(* (frontend/src/components/tools).                                        *)
(*                                                                         *)
(* A page has at most one request that still counts, "op": a newer request *)
(* takes a newer number of selection.current (sequence.current), and the   *)
(* answer of an older one changes nothing.  A write that nobody waits for  *)
(* any more looks like one of another client, Outside.  What the user      *)
(* wanted to do when a page asked him first is a record, an intent, that   *)
(* Do carries out later.                                                   *)
(*                                                                         *)
(* Drafts are not spelled out: a page knows whether its draft differs from *)
(* what was read, and which version of the library it was read at.  A      *)
(* form is taken as valid, and the extra schemas of Python and MCP tools   *)
(* as read.  A closed tools page keeps its first read in "op".  The three  *)
(* categories that filter the column are one, "all": a click that leaves   *)
(* nothing leads from one to the next.                                     *)
(***************************************************************************)
EXTENDS Integers, FiniteSets

CONSTANTS
  None, New,    \* no item; the item of a draft that was never saved
  Own,          \* tools that the tools page and the import panel create
  Imported,     \* tools of the connection
  Conn,         \* the one MCP connection
  MaxVersion    \* bound on the versions that others write; a page may write one more

ASSUME ExtensionConstants ==
  /\ Own \cap Imported = {} /\ None # New /\ MaxVersion \in Nat \ {0}
  /\ {None, New, Conn} \cap (Own \cup Imported) = {}

Ids == Own \cup Imported
Pages == {"tools", "panel", "mcp"}

VARIABLES
  lib,      \* the backend's library: v, and the version at which each item last changed
  leased,   \* the window has an address of the backend
  tools, panel, mcp, area,
  last,     \* history: what is known of the last write of each page's draft
  waived    \* history: the user agreed to lose the draft of a page

extVars == <<lib, leased, tools, panel, mcp, area, last, waived>>

-----------------------------------------------------------------------------
(* The pages. *)

NoOp == [kind |-> "none", id |-> None]
Op(kind, id) == [kind |-> kind, id |-> id]
Intents == [do : {"none", "close", "create", "open", "import", "toMcp", "toTool",
                  "connect", "view", "category", "page"},
            id : Ids \cup {None, Conn, "all", "tools", "mcp", "skill"},
            v : 0..MaxVersion + 1, via : BOOLEAN]
Intent(do, id) == [do |-> do, id |-> id, v |-> 0, via |-> FALSE]
NoIntent == Intent("none", None)

Editor(id, v) == [id |-> id, read |-> v, version |-> v]
NoEditor == Editor(None, 0)

FreshTools ==
  [list |-> {None}, schema |-> FALSE, verified |-> FALSE,
   ed |-> NoEditor, dirty |-> FALSE, op |-> NoOp, conflicted |-> FALSE,
   unknown |-> FALSE, await |-> None, importing |-> FALSE, leave |-> NoIntent,
   testLeave |-> NoIntent, afterSave |-> FALSE, confirm |-> FALSE, test |-> "none",
   flying |-> FALSE, cancelling |-> "no", opened |-> None]
FreshPanel ==
  [doc |-> FALSE, ops |-> "none", chosen |-> FALSE, pv |-> 0, saved |-> None,
   unknown |-> FALSE, conflicted |-> FALSE, op |-> NoOp, leave |-> NoIntent]
FreshMcp ==
  [conns |-> {None}, schema |-> FALSE, owned |-> {}, ed |-> NoEditor,
   changed |-> FALSE, op |-> NoOp, disc |-> 0, pending |-> None, unknownSave |-> FALSE,
   unknownDelete |-> FALSE, conflicted |-> FALSE, impact |-> [v |-> 0, tools |-> {}],
   leave |-> NoIntent, afterSave |-> FALSE, opened |-> None]
FreshArea == [page |-> "extensions", category |-> "all", active |-> "tools", toolId |-> None,
              connId |-> None]

\* A list that was never read is not an empty one.
Unread(list) == list = {None}
Dirty(m) == m.changed /\ m.ed # NoEditor /\ m.pending = None
Locked(m) == m.op # NoOp \/ m.pending # None \/ m.unknownSave \/ m.unknownDelete \/ m.conflicted
PanelDirty(p) == (p.doc \/ p.ops # "none") /\ p.saved = None
PanelLocked(p) == p.op # NoOp \/ p.unknown \/ p.saved # None
Busy(t) == t.op # NoOp \/ t.flying
Settled(t) == ~t.unknown /\ t.await = None

\* Mutant of CanSave: after a lost answer the form may be sent again.
CanSaveAgain(t) ==
  t.ed # NoEditor /\ t.schema /\ ~t.conflicted /\ ~Busy(t) /\ t.await = None

CanSave(t) == t.ed # NoEditor /\ t.schema /\ t.verified /\ ~t.conflicted /\ ~Busy(t) /\ Settled(t)
CanTest(t) == t.ed # NoEditor /\ t.schema /\ t.verified /\ ~Busy(t) /\ Settled(t)
CanCreate(t) == t.schema /\ t.verified /\ t.op = NoOp /\ Settled(t)
CanReload(t) == ~Busy(t) /\ Settled(t)
CanConnect(m) == m.schema /\ ~Locked(m)
CanReloadMcp(m) == m.op = NoOp /\ m.pending = None /\ ~m.unknownSave /\ ~m.unknownDelete
CanImport(p) == ~PanelLocked(p) /\ ~p.conflicted /\ p.ops = "current" /\ p.chosen

\* Overlays are modal dialogs: nothing else of the window can be reached.
Overlaid(s) ==
  \/ s.tools.leave # NoIntent \/ s.tools.testLeave # NoIntent \/ s.tools.confirm
  \/ s.panel.leave # NoIntent \/ s.mcp.leave # NoIntent \/ s.mcp.impact.v # 0

-----------------------------------------------------------------------------
(* Opening, closing and leaving: functions from one state of the pages to  *)
(* the next one.                                                           *)

\* Mutant of CloseEditor: the editor that is closed keeps the unknown outcome.
CloseWithDoubt(t) ==
  [t EXCEPT !.conflicted = FALSE, !.importing = FALSE, !.ed = NoEditor, !.test = "none",
            !.op = IF @.kind = "load" THEN @ ELSE NoOp, !.dirty = FALSE, !.await = None]

CloseEditor(t) ==
  [t EXCEPT !.conflicted = FALSE, !.importing = FALSE, !.ed = NoEditor, !.test = "none",
            !.op = IF @.kind = "load" THEN @ ELSE NoOp,
            !.dirty = FALSE, !.await = None, !.unknown = FALSE]
ResetTools(t) == [CloseEditor(t) EXCEPT !.opened = None]
ResetMcp(m) ==
  [FreshMcp EXCEPT !.conns = m.conns, !.schema = m.schema, !.owned = m.owned]

StartOpen(t, id) ==
  [t EXCEPT !.importing = FALSE, !.op = Op("open", id), !.verified = FALSE, !.test = "none"]
StartView(m, id) == [m EXCEPT !.op = Op("view", id), !.disc = 0]
StartReload(t, background) ==
  IF ~Settled(t) \/ t.flying \/ (background /\ Unread(t.list)) THEN t
  ELSE [t EXCEPT !.op = Op("list", None), !.verified = FALSE]
StartRelist(m, kind, background) ==
  IF background /\ Unread(m.conns) THEN m ELSE [m EXCEPT !.op = Op(kind, None)]

\* create(): the version is the one of the render in which the user clicked.
Create(t, v) ==
  [t EXCEPT !.importing = FALSE, !.op = NoOp, !.conflicted = FALSE, !.ed = Editor(New, v),
            !.ed.read = 0, !.dirty = FALSE, !.test = "none", !.await = None]
Connect(m, v) ==
  [m EXCEPT !.op = NoOp, !.conflicted = FALSE, !.changed = FALSE, !.disc = 0,
            !.ed = [Editor(New, v) EXCEPT !.read = 0]]

\* activateEditor(): without an action the editor that comes in is refreshed.
Activate(s, page, reload) ==
  IF page = s.area.active THEN s
  ELSE IF page = "mcp"
  THEN [s EXCEPT !.tools = ResetTools(@), !.area.toolId = None, !.area.active = page,
                 !.mcp = IF reload THEN StartRelist(@, "list", TRUE) ELSE @]
  ELSE [s EXCEPT !.mcp = ResetMcp(@), !.area.connId = None, !.area.active = page,
                 !.tools = IF reload THEN StartReload(@, TRUE) ELSE @]
Categorised(s) == [s EXCEPT !.area.category = "all"]

PageOf(a) == IF a.do \in {"connect", "view", "toTool"} THEN "mcp" ELSE "tools"

\* What the user wanted.  "via" says that the click was in the other editor's part.
Do(s, a) ==
  LET r == IF a.via THEN Activate(Categorised(s), PageOf(a), FALSE) ELSE s
  IN  CASE a.do = "close" -> [r EXCEPT !.tools = CloseEditor(@)]
        [] a.do = "create" -> [r EXCEPT !.tools = Create(@, a.v)]
        [] a.do = "open" -> [r EXCEPT !.tools = StartOpen(@, a.id)]
        [] a.do = "import" ->
             [r EXCEPT !.tools = [CloseEditor(@) EXCEPT !.importing = TRUE],
                       !.panel = FreshPanel]
        [] a.do = "connect" -> [r EXCEPT !.mcp = Connect(@, a.v)]
        [] a.do = "view" -> [r EXCEPT !.mcp = StartView(@, a.id)]
        [] a.do = "toMcp" ->
             Categorised([Activate(r, "mcp", TRUE) EXCEPT !.area.connId = a.id])
        [] a.do = "toTool" ->
             Categorised([Activate(r, "tools", TRUE) EXCEPT !.area.toolId = a.id])
        [] a.do = "category" /\ a.id = "skill" ->
             [r EXCEPT !.tools = ResetTools(@), !.mcp = ResetMcp(@), !.area.category = a.id,
                       !.area.toolId = None, !.area.connId = None]
        [] a.do = "category" ->
             Activate(Categorised(r), a.id, TRUE)
        [] a.do = "page" ->
             [tools |-> FreshTools, panel |-> FreshPanel, mcp |-> FreshMcp,
              area |-> [FreshArea EXCEPT !.page = "chat"]]
        [] OTHER -> r

LeavePanel(s, a) ==
  IF s.panel.op # NoOp THEN s
  ELSE IF PanelDirty(s.panel) \/ s.panel.unknown THEN [s EXCEPT !.panel.leave = a] ELSE Do(s, a)

AskDraft(s, a) ==
  IF s.tools.dirty THEN [s EXCEPT !.tools.leave = a, !.tools.afterSave = FALSE] ELSE Do(s, a)

LeaveTools(s, a) ==
  IF s.tools.importing THEN LeavePanel(s, a)
  ELSE IF s.tools.flying THEN [s EXCEPT !.tools.testLeave = a]
  ELSE IF s.tools.op # NoOp \/ s.tools.unknown THEN s
  ELSE AskDraft(s, a)

LeaveMcp(s, a) ==
  IF s.mcp.op # NoOp \/ s.mcp.unknownSave \/ s.mcp.unknownDelete THEN s
  ELSE IF Dirty(s.mcp) THEN [s EXCEPT !.mcp.leave = a] ELSE Do(s, a)

\* requestLeave() of the area, and of an editor by way of onActivate.
RequestLeave(s, a) ==
  IF s.area.category = "skill" THEN Do(s, a)
  ELSE IF s.area.active = "tools" THEN LeaveTools(s, a) ELSE LeaveMcp(s, a)
Requested(s, a) ==
  RequestLeave(s, [a EXCEPT !.via = s.area.category = "skill" \/ s.area.active # PageOf(a)])

FinishLeave(s) ==
  Do([s EXCEPT !.tools.leave = NoIntent, !.tools.op = NoOp, !.tools.afterSave = FALSE],
     s.tools.leave)
FinishPanel(s) == Do([s EXCEPT !.panel.leave = NoIntent], s.panel.leave)
FinishMcp(s) ==
  Do([s EXCEPT !.mcp.leave = NoIntent, !.mcp.afterSave = FALSE], s.mcp.leave)
\* Mutant of FinishTest: the draft that was tested is left without a question.
FinishTestUnasked(s) == Do([s EXCEPT !.tools.testLeave = NoIntent], s.tools.testLeave)

FinishTest(s) == AskDraft([s EXCEPT !.tools.testLeave = NoIntent], s.tools.testLeave)

\* Effects that run after every render.
TestEffect(s) ==
  IF s.tools.testLeave # NoIntent /\ s.tools.test = "none" /\ ~Busy(s.tools)
  THEN FinishTest(s) ELSE s
OpenEffect(s) ==
  IF s.area.toolId \in s.tools.list \ {None} /\ s.tools.opened # s.area.toolId
  THEN [s EXCEPT !.tools = [StartOpen(@, s.area.toolId) EXCEPT !.opened = s.area.toolId]] ELSE s
ViewEffect(s) ==
  IF s.area.connId # None /\ ~Unread(s.mcp.conns) /\ s.mcp.opened # s.area.connId
  THEN [s EXCEPT !.mcp = [StartView(@, s.area.connId) EXCEPT !.opened = s.area.connId]] ELSE s
\* A panel that is not shown is unmounted.
PanelEffect(s) == IF s.tools.importing THEN s ELSE [s EXCEPT !.panel = FreshPanel]

Now == [tools |-> tools, panel |-> panel, mcp |-> mcp, area |-> area]
Become(r) ==
  LET s == PanelEffect(ViewEffect(OpenEffect(TestEffect(r))))
  IN  tools' = s.tools /\ panel' = s.panel /\ mcp' = s.mcp /\ area' = s.area

\* The area is unmounted; versions are only compared, so its library may start anew.
Left == area'.page = "chat"
NoLibrary == [v |-> 0, item |-> [i \in Ids \cup {Conn} |-> 0]]
KeepLibrary == lib' = IF Left THEN NoLibrary ELSE lib

Marked(page) ==
  CASE page = "tools" -> tools.await # None
    [] page = "panel" -> panel.saved # None
    [] page = "mcp" -> mcp.pending # None
\* A saved draft whose page went on to something else needs no reading back; a panel that
\* went away has nothing to send.
Log(page, outcome) ==
  last' = [p \in Pages |-> IF Left THEN "none" ELSE IF p = page THEN outcome
                           ELSE IF last[p] = "taken" /\ ~Marked(p)' THEN "none"
                           ELSE IF p = "panel" /\ ~tools'.importing THEN "none" ELSE last[p]]
Submitted(page) ==
  CASE page = "tools" -> tools.dirty /\ tools.op # NoOp
    [] page = "panel" -> PanelDirty(panel) /\ panel.op # NoOp
    [] page = "mcp" -> Dirty(mcp) /\ mcp.op # NoOp
\* Agreement holds for the click, and for the request that the click began.
Waive(page, agreed) ==
  waived' = [p \in Pages |-> ~Left /\ IF p = page THEN agreed ELSE waived[p] /\ Submitted(p)']
NoWaiver == waived' = [p \in Pages |-> ~Left /\ waived[p] /\ Submitted(p)']

\* A click changes the pages only; an answer also says what became of the last write.
Click(s) == Become(s) /\ Log(None, "none") /\ KeepLibrary /\ UNCHANGED leased
Answer(s, page, outcome) ==
  Become(s) /\ Log(page, outcome) /\ KeepLibrary /\ NoWaiver /\ UNCHANGED leased

OnTools == leased /\ ~Overlaid(Now) /\ area.active = "tools" /\ area.category # "skill"
OnEditor == OnTools /\ ~tools.importing
OnPanel == OnTools /\ tools.importing
OnMcp == leased /\ ~Overlaid(Now) /\ area.active = "mcp" /\ area.category # "skill"

-----------------------------------------------------------------------------
(* The library, and the lease of its address. *)

Held(ids) == {i \in ids : lib.item[i] # 0}
Gone == {Conn} \cup Imported
Written(written, removed) ==
  [v |-> lib.v + 1, item |-> [i \in DOMAIN lib.item |->
     IF i \in written THEN lib.v + 1 ELSE IF i \in removed THEN 0 ELSE lib.item[i]]]
CanWrite == lib.v <= MaxVersion
\* A bound: tests and imports, which read nothing of a connection, are begun where none is.
Unconnected == lib.item[Conn] = 0

\* Another client, a hand in the configuration file, or a write nobody waits for.  A connection
\* goes with its tools, which are changed by nobody else.
Outside ==
  /\ lib.v < MaxVersion /\ area.page = "extensions"
  /\ \/ \E i \in Own \cup {Conn} : lib' = Written({i}, {})
     \/ \E gone \in {{i} : i \in Held(Own)} \cup {Gone} :
          Held(gone) # {} /\ lib' = Written({}, gone)
  /\ UNCHANGED <<leased, tools, panel, mcp, area, last, waived>>

\* The reset that both pages run when "session" changes; the area keeps its choice.
Lease(has) ==
  /\ tools' = [FreshTools EXCEPT !.op = IF has THEN Op("load", None) ELSE NoOp]
  /\ mcp' = [FreshMcp EXCEPT !.op = IF has THEN Op("load", None) ELSE NoOp]
  /\ panel' = FreshPanel
  /\ last' = [p \in Pages |-> "none"] /\ waived' = [p \in Pages |-> FALSE]

-----------------------------------------------------------------------------
(* The column that the editors share. *)

\* A new draft has the version of the list that the page had read when the user clicked.
\* It is taken as current then: an older one is like one that another client outdates at once.
CreateTool ==
  /\ CanCreate(tools)
  /\ Click(Requested(Now, [Intent("create", None) EXCEPT !.v = lib.v]))
ImportOpenApi ==
  Unconnected /\ CanCreate(tools) /\ Click(Requested(Now, Intent("import", None)))
OpenTool ==
  /\ area.category = "all" /\ tools.op = NoOp
  /\ \E id \in tools.list \ {None} : Click(Requested(Now, Intent("open", id)))
CreateConnection ==
  /\ CanConnect(mcp)
  /\ Click(Requested(Now, [Intent("connect", None) EXCEPT !.v = lib.v]))
OpenConnection ==
  /\ area.category = "all" /\ ~Locked(mcp)
  /\ \E id \in mcp.conns \ {None} : Click(Requested(Now, Intent("view", id)))
Reload ==
  /\ CanReload(tools) \/ CanReloadMcp(mcp)
  /\ Click([Now EXCEPT !.tools = IF CanReload(tools) THEN StartReload(@, FALSE) ELSE @,
                       !.mcp = IF CanReloadMcp(mcp) THEN StartRelist(@, "list", FALSE) ELSE @])
SwitchCategory ==
  \E next \in {"all", "tools", "mcp", "skill"} \ {area.category} :
    Click(IF next \in {"all", area.active} THEN Categorised(Now)
          ELSE RequestLeave(Now, Intent("category", next)))

Column ==
  /\ leased /\ ~Overlaid(Now) /\ area.page = "extensions"
  /\ \/ CreateTool \/ ImportOpenApi \/ OpenTool \/ CreateConnection \/ OpenConnection
     \/ Reload \/ SwitchCategory
  /\ NoWaiver

-----------------------------------------------------------------------------
(* The editor of a tool. *)

EditTool ==
  /\ OnEditor /\ tools.ed # NoEditor /\ tools.schema /\ ~Busy(tools) /\ Settled(tools)
  /\ Click([Now EXCEPT !.tools.dirty = TRUE]) /\ Waive("tools", FALSE)
Back ==
  /\ OnEditor /\ tools.op = NoOp /\ ~tools.unknown
  /\ Click(RequestLeave(Now, Intent("close", None))) /\ NoWaiver
OpenMcp ==
  /\ OnEditor /\ tools.ed.id \in Imported /\ tools.op = NoOp
  /\ Click(RequestLeave(Now, Intent("toMcp", Conn))) /\ NoWaiver

\* A page that sends while its write is under way is noted.
Send(s, page) ==
  /\ Become(s)
  /\ Log(page, IF last[page] \in {"sent", "twice"} THEN "twice" ELSE "sent")
  /\ UNCHANGED <<lib, leased>>

\* The form is submitted from the page, or from the question asked before leaving.
SaveTool ==
  /\ leased /\ CanSave(tools) /\ tools.testLeave = NoIntent /\ ~tools.confirm
  /\ tools.leave = NoIntent => OnEditor
  /\ Send([Now EXCEPT !.tools.op = Op("save", tools.ed.id),
                      !.tools.afterSave = tools.leave # NoIntent], "tools")
  /\ NoWaiver

DiscardTool ==
  /\ tools.leave # NoIntent /\ ~Busy(tools) /\ Settled(tools)
  /\ Click(FinishLeave([Now EXCEPT !.tools = CloseEditor(@)])) /\ Waive("tools", TRUE)
LeaveSaved ==
  /\ tools.leave # NoIntent /\ ~Busy(tools) /\ tools.await # None
  /\ Click(FinishLeave(Now)) /\ NoWaiver
StayOnTool ==
  /\ tools.leave # NoIntent /\ ~Busy(tools)
  /\ Click([Now EXCEPT !.tools.leave = NoIntent, !.tools.afterSave = FALSE])
  /\ NoWaiver
RetryRead ==
  /\ tools.await # None /\ ~Busy(tools) /\ (tools.leave = NoIntent => OnEditor)
  /\ Click([Now EXCEPT !.tools.op = Op("details", tools.await)]) /\ NoWaiver
DiscardUnknown ==
  /\ tools.unknown /\ ~Busy(tools) /\ (tools.leave = NoIntent => OnEditor)
  /\ Click([Now EXCEPT !.tools.op = Op("discard", None)]) /\ Waive("tools", TRUE)
DiscardConflicted ==
  /\ OnEditor /\ tools.conflicted /\ tools.ed # NoEditor /\ ~Busy(tools)
  /\ Click([Now EXCEPT !.tools.op = Op("drop", tools.ed.id)]) /\ Waive("tools", TRUE)
AskDelete ==
  /\ OnEditor /\ tools.ed.id \in Ids /\ ~Busy(tools) /\ Settled(tools)
  /\ Click([Now EXCEPT !.tools.confirm = TRUE]) /\ NoWaiver
KeepTool ==
  /\ tools.confirm /\ ~Busy(tools)
  /\ Click([Now EXCEPT !.tools.confirm = FALSE]) /\ NoWaiver
DeleteTool ==
  /\ tools.confirm /\ tools.ed.id \in Ids /\ ~Busy(tools) /\ Settled(tools)
  /\ Send([Now EXCEPT !.tools.op = Op("delete", tools.ed.id)], "tools") /\ Waive("tools", TRUE)

RunTest ==
  /\ OnEditor /\ CanTest(tools) /\ Unconnected
  /\ Click([Now EXCEPT !.tools.flying = TRUE, !.tools.test = "none"])
  /\ NoWaiver
StopWaiting ==
  /\ tools.flying /\ tools.test = "none" /\ (tools.testLeave = NoIntent => OnEditor)
  /\ LET s == [Now EXCEPT !.tools.flying = FALSE]
     IN  Click(IF tools.testLeave = NoIntent THEN s ELSE FinishTest(s))
  /\ NoWaiver
StayWithTest ==
  /\ tools.testLeave # NoIntent /\ tools.cancelling = "no"
  /\ Click([Now EXCEPT !.tools.testLeave = NoIntent,
                      !.tools.test = IF tools.flying THEN @ ELSE "none"])
  /\ NoWaiver
CancelTest ==
  /\ tools.test # "none" /\ tools.cancelling = "no"
  /\ tools.testLeave = NoIntent => OnEditor /\ tools.flying
  /\ Click([Now EXCEPT !.tools.cancelling =
                         IF tools.testLeave = NoIntent THEN "stay" ELSE "leave"])
  /\ NoWaiver

ToolClicks ==
  leased /\ (\/ EditTool \/ Back \/ OpenMcp \/ SaveTool \/ DiscardTool \/ LeaveSaved \/ StayOnTool
             \/ RetryRead \/ DiscardUnknown \/ DiscardConflicted \/ AskDelete \/ KeepTool
             \/ DeleteTool \/ RunTest \/ StopWaiting \/ StayWithTest \/ CancelTest)

Asked(kind) == leased /\ tools.op.kind = kind
Idle(t) == [t EXCEPT !.op = NoOp]
ListRead(t) == [t EXCEPT !.list = Held(Ids)]
ItemRead(t, id) ==
  [Idle(t) EXCEPT !.ed = Editor(id, lib.v), !.dirty = FALSE, !.verified = TRUE,
                  !.conflicted = FALSE, !.await = None]

\* Any request may fail; what it was to change stays as it was.
ToolsFail ==
  /\ tools.op.kind \in {"load", "list", "open", "details", "discard", "drop"} /\ leased
  /\ Answer([Now EXCEPT !.tools = [Idle(@) EXCEPT !.verified =
                          @ /\ tools.op.kind # "details"]], None, "none")

ToolsLoaded ==
  /\ Asked("load")
  /\ Answer([Now EXCEPT !.tools = [Idle(ListRead(@)) EXCEPT !.schema = TRUE, !.verified = TRUE]],
            None, "none")

\* reload(): a dirty draft of another version is a conflict, a clean one is read again.
Relisted(t) ==
  IF t.ed = NoEditor \/ t.ed.version = lib.v
  THEN [Idle(ListRead(t)) EXCEPT !.verified = TRUE]
  ELSE IF t.dirty THEN [Idle(ListRead(t)) EXCEPT !.conflicted = TRUE]
  ELSE IF t.ed.id = New THEN [Idle(ListRead(t)) EXCEPT !.verified = TRUE]
  ELSE IF t.ed.id \in Held(Ids) THEN StartOpen(ListRead(t), t.ed.id)
  ELSE [CloseEditor(ListRead(t)) EXCEPT !.verified = TRUE]
ToolsListed == Asked("list") /\ Answer([Now EXCEPT !.tools = Relisted(@)], None, "none")

ToolOpened ==
  /\ Asked("open") /\ tools.op.id \in Held(Ids)
  /\ Answer([Now EXCEPT !.tools = ItemRead(@, tools.op.id)], None, "none")

\* readSavedToolDetails(): only now may the user go where he wanted to go.
DetailsRead ==
  /\ Asked("details") /\ tools.op.id \in Held(Ids)
  /\ LET s == [Now EXCEPT !.tools = [ItemRead(@, tools.op.id) EXCEPT
                                       !.list = (@ \ {None}) \cup {tools.op.id}]]
     IN  Answer(IF tools.afterSave THEN FinishLeave(s) ELSE s, "tools", "none")

ToolDiscarded ==
  /\ Asked("discard")
  /\ LET s == [Now EXCEPT !.tools = [CloseEditor(ListRead(@)) EXCEPT !.verified = TRUE]]
     IN  Answer(IF tools.afterSave THEN FinishLeave(s) ELSE s, "tools", "none")

ToolDropped ==
  /\ Asked("drop")
  /\ Answer([Now EXCEPT !.tools = IF tools.op.id \in Held(Ids) THEN StartOpen(ListRead(@), tools.op.id)
                                  ELSE [CloseEditor(ListRead(@)) EXCEPT !.verified = TRUE]],
            "tools", "none")

\* What a write may do at the backend: the version has to be the current one.
Accepted(id, version) == CanWrite /\ lib.item[id] # 0 /\ version = lib.v
Creatable(ids) == IF CanWrite THEN {i \in ids : lib.item[i] = 0} ELSE {}
Targets(id, version, ids) ==
  IF id = New THEN Creatable(ids) ELSE IF Accepted(id, version) THEN {id} ELSE {}
Refusals(id, version) ==
  {"rejected"} \cup (IF id # New /\ version # lib.v THEN {"conflict"} ELSE {})
Failed(outcome) == IF outcome = "unknown" THEN "unknown" ELSE "none"

ToolSaved ==
  /\ Asked("save")
  /\ \E id \in Targets(tools.op.id, tools.ed.version, Own) :
       /\ lib' = Written({id}, {})
       /\ Become([Now EXCEPT !.tools.op = Op("details", id), !.tools.await = id,
                             !.tools.dirty = FALSE, !.tools.verified = FALSE])
  /\ Log("tools", "taken") /\ NoWaiver /\ UNCHANGED leased

\* A version conflict, another rejection, or no answer that says whether it was done.
ToolNotSaved ==
  /\ Asked("save") \/ Asked("delete")
  /\ \E why \in Refusals(tools.op.id, tools.ed.version) \cup {"unknown"} :
       /\ Become([Now EXCEPT !.tools = [Idle(@) EXCEPT
            !.conflicted = @ \/ why = "conflict", !.unknown = why = "unknown",
            !.verified = @ /\ why = "rejected", !.confirm = @ /\ why = "rejected"]])
       /\ Log("tools", Failed(why))
       /\ \/ UNCHANGED lib
          \/ /\ why = "unknown"
             /\ \E id \in Targets(tools.op.id, tools.ed.version, Own) :
                  lib' = IF tools.op.kind = "save" THEN Written({id}, {}) ELSE Written({}, {id})
  /\ NoWaiver /\ UNCHANGED leased

ToolDeleted ==
  /\ Asked("delete") /\ Accepted(tools.op.id, tools.ed.version)
  /\ lib' = Written({}, {tools.op.id})
  /\ Become([Now EXCEPT !.tools = [CloseEditor(@) EXCEPT !.confirm = FALSE,
                                     !.list = @ \ {tools.op.id}]])
  /\ Log("tools", "none") /\ NoWaiver /\ UNCHANGED leased

\* observeTest(): a test that ended frees the page, and is looked at only where the user is
\* asked about it.  A start whose answer is lost is one that is never answered: only
\* StopWaiting ends it.
Observed(t, status) ==
  [t EXCEPT !.test = IF status = "active" \/ t.testLeave # NoIntent THEN status ELSE "none",
            !.flying = @ /\ status = "active"]
TestStarted ==
  /\ leased /\ tools.flying /\ tools.test = "none"
  /\ \/ \E status \in {"active", "done"} :
          Answer([Now EXCEPT !.tools = Observed(@, status)], None, "none")
     \/ Answer([Now EXCEPT !.tools.flying = FALSE], None, "none")
TestRead ==
  /\ leased /\ tools.test = "active" /\ tools.cancelling = "no"
  /\ Answer([Now EXCEPT !.tools = Observed(@, "done")], None, "none")
TestCancelled ==
  /\ leased /\ tools.cancelling # "no"
  /\ \/ Answer([Now EXCEPT !.tools.cancelling = "no"], None, "none")
     \/ LET s == [Now EXCEPT !.tools = [Observed(@, "done") EXCEPT !.cancelling = "no"]]
        IN  Answer(IF tools.cancelling = "leave" THEN FinishTest(s) ELSE s, None, "none")

ToolAnswers ==
  \/ ToolsFail \/ ToolsLoaded \/ ToolsListed \/ ToolOpened \/ DetailsRead \/ ToolDiscarded
  \/ ToolDropped \/ ToolSaved \/ ToolNotSaved \/ ToolDeleted
  \/ TestStarted \/ TestRead \/ TestCancelled

-----------------------------------------------------------------------------
(* The panel that imports an OpenAPI document. *)

EditDocument ==
  /\ OnPanel /\ ~PanelLocked(panel)
  /\ \/ /\ ~panel.doc \/ panel.ops = "current"
        /\ Click([Now EXCEPT !.panel.doc = TRUE,
                             !.panel.ops = IF @ = "none" THEN @ ELSE "outdated"])
     \/ panel.ops # "none" /\ ~panel.chosen /\ Click([Now EXCEPT !.panel.chosen = TRUE])
  /\ Waive("panel", FALSE)
\* An upload reads a file; a parse asks the backend for a preview.
StartParse ==
  /\ OnPanel /\ ~PanelLocked(panel)
  /\ \/ Click([Now EXCEPT !.panel.op = Op("upload", None)])
     \/ panel.doc /\ Click([Now EXCEPT !.panel.op = Op("parse", None)])
  /\ NoWaiver
SaveImport ==
  /\ CanImport(panel) /\ leased /\ (panel.leave = NoIntent => OnPanel)
  /\ Send([Now EXCEPT !.panel.op = Op("save", New)], "panel") /\ NoWaiver
ReadSaved ==
  /\ panel.saved # None /\ panel.op = NoOp /\ (panel.leave = NoIntent => OnPanel)
  /\ Click([Now EXCEPT !.panel.op = Op("readSaved", panel.saved)]) /\ NoWaiver
OpenSaved ==
  /\ OnPanel /\ panel.saved \in tools.list
  /\ Click([Now EXCEPT !.tools = StartOpen(@, panel.saved)]) /\ NoWaiver
AbandonImport ==
  /\ panel.unknown /\ panel.op = NoOp /\ leased /\ (panel.leave = NoIntent => OnPanel)
  /\ Click([Now EXCEPT !.panel.op = Op("abandon", None)]) /\ Waive("panel", TRUE)
LeaveImport ==
  /\ OnPanel
  /\ Click(LeavePanel(Now, Intent("close", None))) /\ NoWaiver
DiscardImport ==
  /\ panel.leave # NoIntent /\ panel.op = NoOp /\ ~panel.unknown
  /\ Click(FinishPanel(Now)) /\ Waive("panel", TRUE)
StayOnImport ==
  /\ panel.leave # NoIntent /\ panel.op = NoOp
  /\ Click([Now EXCEPT !.panel.leave = NoIntent]) /\ NoWaiver

PanelAsked(kind) == leased /\ panel.op.kind = kind
PanelRead(s) ==
  [s EXCEPT !.tools = [ListRead(@) EXCEPT !.verified = TRUE], !.panel.op = NoOp]

PanelFail ==
  /\ leased /\ panel.op.kind \in {"upload", "parse", "readSaved", "abandon"}
  /\ Answer([Now EXCEPT !.panel.op = NoOp], None, "none")
Uploaded ==
  /\ PanelAsked("upload")
  /\ Answer([Now EXCEPT !.panel.op = NoOp, !.panel.doc = TRUE,
                        !.panel.ops = IF @ = "none" THEN @ ELSE "outdated"], None, "none")
Parsed ==
  /\ PanelAsked("parse")
  /\ Answer([Now EXCEPT !.panel = [@ EXCEPT !.op = NoOp, !.pv = lib.v, !.conflicted = FALSE,
                                            !.ops = "current", !.chosen = FALSE]], None, "none")
ImportSaved ==
  /\ PanelAsked("save") /\ panel.pv = lib.v
  /\ \E id \in Creatable(Own) :
       /\ lib' = Written({id}, {})
       /\ Become([Now EXCEPT !.panel.saved = id, !.panel.op = Op("readSaved", id)])
  /\ Log("panel", "taken") /\ NoWaiver /\ UNCHANGED leased
ImportNotSaved ==
  /\ PanelAsked("save")
  /\ \E why \in Refusals(None, panel.pv) \cup {"unknown"} :
       /\ Become([Now EXCEPT !.panel = [@ EXCEPT !.op = NoOp, !.unknown = why = "unknown",
                                                 !.conflicted = @ \/ why = "conflict"]])
       /\ Log("panel", Failed(why))
       /\ \/ UNCHANGED lib
          \/ /\ why = "unknown" /\ panel.pv = lib.v
             /\ \E id \in Creatable(Own) : lib' = Written({id}, {})
  /\ NoWaiver /\ UNCHANGED leased
SavedRead ==
  /\ PanelAsked("readSaved") /\ panel.op.id \in Held(Ids)
  /\ LET s == PanelRead(Now)
     IN  Answer(IF s.panel.leave # NoIntent THEN FinishPanel(s) ELSE s, "panel", "none")
\* abandonAndReload(): a conflict stays until the document is parsed again.
ImportAbandoned ==
  /\ PanelAsked("abandon")
  /\ LET s == [PanelRead(Now) EXCEPT !.panel.unknown = FALSE, !.panel.doc = FALSE,
                                     !.panel.ops = "none", !.panel.chosen = FALSE]
     IN  Answer(IF panel.leave # NoIntent THEN FinishPanel(s) ELSE s, "panel", "none")

PanelSteps ==
  \/ leased /\ (\/ EditDocument \/ StartParse \/ SaveImport \/ ReadSaved \/ OpenSaved
                \/ AbandonImport \/ LeaveImport \/ DiscardImport \/ StayOnImport)
  \/ PanelFail \/ Uploaded \/ Parsed \/ ImportSaved \/ ImportNotSaved \/ SavedRead \/ ImportAbandoned

-----------------------------------------------------------------------------
(* The page of MCP connections. *)

EditConnection ==
  /\ OnMcp /\ mcp.ed # NoEditor /\ mcp.schema /\ ~Locked(mcp)
  /\ Click([Now EXCEPT !.mcp.changed = TRUE, !.mcp.disc = 0]) /\ Waive("mcp", FALSE)
SaveConnection ==
  /\ leased /\ mcp.ed # NoEditor /\ mcp.schema /\ ~Locked(mcp) /\ mcp.impact.v = 0
  /\ mcp.leave = NoIntent => OnMcp
  /\ Send([Now EXCEPT !.mcp.op = Op("save", mcp.ed.id),
                      !.mcp.afterSave = mcp.leave # NoIntent], "mcp")
  /\ NoWaiver
RetryConnection ==
  /\ mcp.pending # None /\ mcp.op = NoOp /\ (mcp.leave = NoIntent => OnMcp)
  /\ Click([Now EXCEPT !.mcp.op = Op("details", mcp.pending)]) /\ NoWaiver
\* reload(true) after a conflict, reload() after a lost answer: both give the draft up.
DiscardConnection ==
  /\ mcp.op = NoOp /\ (mcp.leave = NoIntent => OnMcp)
  /\ \/ mcp.conflicted /\ mcp.leave = NoIntent /\ Click([Now EXCEPT !.mcp.op = Op("discard", None)])
     \/ mcp.unknownSave /\ Click([Now EXCEPT !.mcp.op = Op("list", None)])
     \/ mcp.unknownDelete /\ mcp.leave = NoIntent /\ Click([Now EXCEPT !.mcp.op = Op("list", None)])
  /\ Waive("mcp", TRUE)
LeaveConnection ==
  /\ mcp.leave # NoIntent /\ mcp.op = NoOp /\ ~mcp.unknownSave
  /\ Click(FinishMcp(Now)) /\ Waive("mcp", TRUE)
StayOnConnection ==
  /\ mcp.leave # NoIntent /\ mcp.op = NoOp
  /\ Click([Now EXCEPT !.mcp.leave = NoIntent, !.mcp.afterSave = FALSE]) /\ NoWaiver
CanInspect == mcp.ed.id = Conn /\ ~Dirty(mcp) /\ ~Locked(mcp)
Inspect ==
  /\ OnMcp /\ CanInspect
  /\ \/ Click([Now EXCEPT !.mcp.op = Op("test", Conn)])
     \/ Click([Now EXCEPT !.mcp.op = Op("discover", Conn), !.mcp.disc = 0])
  /\ NoWaiver
ImportTools ==
  /\ OnMcp /\ CanInspect /\ mcp.disc # 0
  /\ Send([Now EXCEPT !.mcp.op = Op("import", Conn)], "mcp") /\ NoWaiver
PrepareDelete ==
  /\ OnMcp /\ mcp.ed.id = Conn /\ ~Locked(mcp)
  /\ Click([Now EXCEPT !.mcp.op = Op("impact", Conn)]) /\ NoWaiver
KeepConnection ==
  /\ mcp.impact.v # 0 /\ mcp.op = NoOp
  /\ Click([Now EXCEPT !.mcp.impact = FreshMcp.impact]) /\ NoWaiver
RemoveConnection ==
  /\ mcp.impact.v # 0 /\ mcp.ed.id = Conn /\ ~Locked(mcp)
  /\ Send([Now EXCEPT !.mcp.op = Op("delete", Conn)], "mcp") /\ Waive("mcp", TRUE)
OpenOwned ==
  /\ OnMcp /\ mcp.ed.id = Conn /\ ~Locked(mcp)
  /\ \E id \in mcp.owned : Click(RequestLeave(Now, Intent("toTool", id)))
  /\ NoWaiver

McpClicks ==
  leased /\ (\/ EditConnection \/ SaveConnection \/ RetryConnection \/ DiscardConnection
             \/ LeaveConnection \/ StayOnConnection \/ Inspect \/ ImportTools
             \/ PrepareDelete \/ KeepConnection \/ RemoveConnection \/ OpenOwned)

McpAsked(kind) == leased /\ mcp.op.kind = kind
McpIdle(m) == [m EXCEPT !.op = NoOp]
\* One GET names the connections and their version, another one the tools.
McpRead(m) ==
  [m EXCEPT !.conns = Held({Conn}), !.owned = Held(Imported)]
Detailed(m) ==
  [McpIdle(m) EXCEPT !.ed = Editor(Conn, lib.v), !.changed = FALSE,
                     !.conns = {Conn}, !.owned = Held(Imported), !.pending = None,
                     !.conflicted = FALSE]
McpFail ==
  /\ leased
  /\ mcp.op.kind \in {"load", "list", "discard", "view", "details", "test", "discover", "impact", "relist"}
  /\ Answer([Now EXCEPT !.mcp = McpIdle(@)], None, "none")
McpLoaded ==
  /\ McpAsked("load")
  /\ Answer([Now EXCEPT !.mcp = [McpIdle(McpRead(@)) EXCEPT !.schema = TRUE]], None, "none")

\* reload(): a draft is kept beside the newer list; otherwise the page follows the list.
McpListed ==
  /\ McpAsked("list") \/ McpAsked("discard")
  /\ LET read == McpRead(mcp)
         unknown == mcp.unknownSave \/ mcp.unknownDelete
         kept == ~unknown /\ Dirty(mcp) /\ mcp.op.kind = "list"
         reread == ~unknown /\ ~kept /\ mcp.ed.id \in read.conns
         closed == [ResetMcp(read) EXCEPT !.impact = mcp.impact, !.leave = mcp.leave,
                                          !.opened = mcp.opened]
     IN  Answer(IF kept
                THEN [Now EXCEPT !.mcp = [McpIdle(read) EXCEPT !.conflicted =
                                            @ \/ lib.v # mcp.ed.version]]
                ELSE IF reread THEN [Now EXCEPT !.mcp = [read EXCEPT !.op = Op("view", Conn)]]
                ELSE FinishMcp([Now EXCEPT !.mcp = closed]),
                IF kept \/ reread THEN None ELSE "mcp", "none")
\* readDetails() of open() or reload(), and of a write that was accepted.
ConnectionRead ==
  /\ McpAsked("view") /\ lib.item[Conn] # 0
  /\ Answer([Now EXCEPT !.mcp = [Detailed(@) EXCEPT !.disc = 0]], "mcp", "none")
SavedConnectionRead ==
  /\ McpAsked("details") /\ lib.item[Conn] # 0
  /\ LET s == [Now EXCEPT !.mcp = Detailed(@)]
     IN  Answer(IF mcp.afterSave THEN FinishMcp(s) ELSE s, "mcp", "none")
Inspected ==
  /\ McpAsked("test") \/ McpAsked("discover")
  /\ Answer([Now EXCEPT !.mcp = [McpIdle(@) EXCEPT !.disc =
                          IF mcp.op.kind = "discover" /\ lib.item[Conn] # 0 THEN lib.v ELSE @]],
            None, "none")
ImpactRead ==
  /\ McpAsked("impact")
  /\ Answer([Now EXCEPT !.mcp = [McpIdle(@) EXCEPT !.owned = Held(Imported),
                          !.impact = [v |-> lib.v, tools |-> Held(Imported)]]], None, "none")
ConnectionsRelisted ==
  McpAsked("relist") /\ Answer([Now EXCEPT !.mcp = McpIdle(McpRead(@))], None, "none")

\* An import is checked against the version that its discovery was made at.
Importable == Accepted(Conn, mcp.disc)

ConnectionSaved ==
  /\ McpAsked("save") /\ Targets(mcp.op.id, mcp.ed.version, {Conn}) # {}
  /\ lib' = Written({Conn}, {})
  /\ Become([Now EXCEPT !.mcp = [@ EXCEPT !.op = Op("details", Conn), !.pending = Conn, !.disc = 0]])
  /\ Log("mcp", "taken") /\ NoWaiver /\ UNCHANGED leased
ToolsImported ==
  /\ McpAsked("import") /\ Importable
  /\ lib' = Written(Imported, {})
  /\ Become([Now EXCEPT !.mcp = [@ EXCEPT !.op = Op("details", Conn), !.pending = Conn, !.disc = 0]])
  /\ Log("mcp", "taken") /\ NoWaiver /\ UNCHANGED leased
ConnectionRemoved ==
  /\ McpAsked("delete") /\ Accepted(Conn, mcp.impact.v)
  /\ lib' = Written({}, Gone)
  /\ Become([Now EXCEPT !.mcp = [@ EXCEPT !.op = Op("relist", None), !.impact = FreshMcp.impact,
                     !.ed = NoEditor, !.changed = FALSE, !.disc = 0, !.conns = {}, !.owned = {}]])
  /\ Log("mcp", "none") /\ NoWaiver /\ UNCHANGED leased
McpNotWritten ==
  /\ leased /\ mcp.op.kind \in {"save", "import", "delete"}
  /\ LET kind == mcp.op.kind
         version == CASE kind = "save" -> mcp.ed.version [] kind = "import" -> mcp.disc
                      [] kind = "delete" -> mcp.impact.v
     IN  \E why \in Refusals(mcp.op.id, version) \cup {"unknown"} :
           /\ Become([Now EXCEPT !.mcp = [McpIdle(@) EXCEPT
                !.conflicted = @ \/ why = "conflict",
                !.unknownSave = why = "unknown" /\ kind # "delete",
                !.unknownDelete = why = "unknown" /\ kind = "delete",
                !.impact = IF why = "rejected" THEN @ ELSE FreshMcp.impact,
                !.afterSave = @ /\ kind # "save"]])
           /\ Log("mcp", Failed(why))
           /\ \/ UNCHANGED lib
              \/ /\ why = "unknown" /\ Targets(mcp.op.id, version, {Conn}) # {}
                 /\ lib' = CASE kind = "save" -> Written({Conn}, {})
                             [] kind = "import" -> Written(Imported, {})
                             [] kind = "delete" -> Written({}, Gone)
  /\ NoWaiver /\ UNCHANGED leased

McpAnswers ==
  \/ McpFail \/ McpLoaded \/ McpListed \/ ConnectionRead \/ SavedConnectionRead \/ Inspected
  \/ ImpactRead \/ ConnectionsRelisted \/ ConnectionSaved \/ ToolsImported \/ ConnectionRemoved
  \/ McpNotWritten

-----------------------------------------------------------------------------
(* The whole area. *)

\* The library that the area finds: its tools and a connection whose tools
\* were not imported, or nothing.
Libraries ==
  {[v |-> 1, item |-> [i \in Ids \cup {Conn} |-> IF i \in held THEN 1 ELSE 0]] :
     held \in {Own \cup {Conn}, {}}}

\* Navigation to another page of the window asks the editor that is shown.
Navigate ==
  /\ area.page = "extensions" /\ ~Overlaid(Now)
  /\ Click(RequestLeave(Now, Intent("page", None))) /\ NoWaiver
\* The workspace is mounted: both editors start their first read.
Enter ==
  /\ area.page = "chat" /\ area' = FreshArea
  /\ lib' \in Libraries /\ Lease(leased) /\ UNCHANGED leased
\* The address comes or goes while the area is open; in front of a conversation it is Window's.
Relet ==
  /\ area.page = "extensions" /\ leased' = ~leased /\ Lease(leased')
  /\ UNCHANGED <<lib, area>>

ExtInit ==
  /\ lib = NoLibrary /\ leased \in BOOLEAN
  /\ tools = FreshTools /\ panel = FreshPanel /\ mcp = FreshMcp
  /\ area = [FreshArea EXCEPT !.page = "chat"]
  /\ last = [p \in Pages |-> "none"] /\ waived = [p \in Pages |-> FALSE]

PageSteps ==
  \/ Outside \/ Column \/ ToolClicks \/ ToolAnswers \/ PanelSteps \/ McpClicks \/ McpAnswers
  \/ Navigate

-----------------------------------------------------------------------------
(* Correctness. *)

PagesTypeOK ==
  /\ lib.v \in 0..MaxVersion + 1 /\ \A i \in DOMAIN lib.item : lib.item[i] <= lib.v
  /\ tools.leave \in Intents /\ tools.testLeave \in Intents /\ panel.leave \in Intents
  /\ mcp.leave \in Intents /\ tools.list \subseteq Ids \cup {None}
  \* A test that is flying keeps its editor; what is read back belongs to a saved draft.
  /\ tools.flying => tools.ed # NoEditor /\ tools.op = NoOp
  /\ tools.await # None => tools.ed # NoEditor /\ ~tools.dirty
  /\ tools.conflicted \/ tools.unknown => tools.ed # NoEditor
  /\ panel # FreshPanel => tools.importing /\ tools.ed = NoEditor
  /\ area.active = "mcp" => tools.ed = NoEditor
  /\ area.active = "tools" => mcp.ed = NoEditor

\* No change of the user is lost that he was not asked about: a draft goes away when he
\* gives it up, when it was saved, or with the lease; and the editor of a running test
\* stays.  (The one exception is the tool that an MCP page asked for while the list of
\* tools could not be read: it is opened when the list arrives.)
PendingOpen ==
  area.toolId # None /\ tools.op = Op("open", area.toolId) /\ tools.opened = area.toolId
AskedFor(page) ==
  \/ waived[page] \/ waived'[page] \/ last'[page] = "taken" \/ leased' # leased
  \/ Left /\ \/ page = "tools" /\ tools.leave.do = "page"
             \/ page = "panel" /\ panel.leave.do = "page"
             \/ page = "mcp" /\ mcp.leave.do = "page"
DraftsAreKept ==
  [][/\ tools.dirty /\ (~tools'.dirty \/ tools'.ed # tools.ed) =>
          AskedFor("tools") \/ PendingOpen \/ PendingOpen'
     /\ PanelDirty(panel) /\ ~PanelDirty(panel)' => AskedFor("panel") \/ PendingOpen'
     /\ Dirty(mcp) /\ (~Dirty(mcp)' \/ mcp'.ed # mcp.ed) => AskedFor("mcp")
     /\ tools.flying /\ tools.test = "active" /\ tools'.ed # tools.ed =>
          tools.cancelling = "leave" \/ leased' # leased]_extVars

\* A write is not sent a second time while it is under way.  One of which no answer said
\* what it did is not sent again, and its draft is not left, before the library has been
\* read again; nor is a write that was accepted.
RereadBy(page) ==
  CASE page = "tools" -> tools.op.kind \in {"discard", "drop", "details", "delete"}
    [] page = "panel" -> panel.op.kind = "abandon"
    [] page = "mcp" -> mcp.op.kind \in {"list", "view", "details"}
NoBlindRepeat ==
  [][\A p \in Pages :
        /\ last'[p] # "twice"
        /\ last[p] \in {"unknown", "taken"} => last'[p] # "sent"
        /\ last[p] = "unknown" /\ leased' = leased =>
             \/ RereadBy(p) \/ (~Left /\ last'[p] = "unknown")
             \/ p = "panel" /\ PendingOpen']_extVars

\* What a page replaces or deletes is what it had read: of a connection, with its tools.
NothingUnseenIsOverwritten ==
  [][/\ lib'.v > lib.v /\ tools.op.kind \in {"save", "delete"} /\ tools'.op # tools.op =>
          tools.op.id = New \/ lib.item[tools.op.id] <= tools.ed.read
     /\ lib'.v > lib.v /\ mcp.op.kind = "save" /\ mcp'.op # mcp.op =>
          mcp.op.id = New \/ lib.item[Conn] <= mcp.ed.read
     /\ lib'.v > lib.v /\ mcp.op.kind = "delete" /\ mcp'.op # mcp.op =>
          Held(Imported) = mcp.impact.tools]_extVars

=============================================================================
