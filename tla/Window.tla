-------------------------------- MODULE Window --------------------------------
(***************************************************************************)
(* The window (App.tsx): in front is either the conversation, with the     *)
(* overlays, images and files of Workspace, or the area of the extensions. *)
(* Both work under the address that the desktop shell leases to the window *)
(* and lose what they hold with it; the way from one to the other leads    *)
(* through the question that an editor with a draft asks.                  *)
(*                                                                         *)
(* The address is all that the two share.  So the hidden conversation is   *)
(* followed no further: the area is entered when it is at rest, and then   *)
(* a snapshot of the backend's state arrives at once.                      *)
(***************************************************************************)
EXTENDS ExtensionPages, Workspace

vars == <<extVars, chatVars>>

Init == ChatInit /\ ExtInit /\ leased = (session # 0)

\* The conversation is in front.
ChatInFront ==
  /\ area.page = "chat" /\ ChatSteps /\ leased' = (session' # 0)
  /\ UNCHANGED <<lib, tools, panel, mcp, area, last, waived>>

\* No snapshot is on its way, and the messages hold no references.
AtRest ==
  /\ host = <<session>> /\ seen = 1 /\ ~asking /\ visible
  /\ focus = "images" /\ file = 1 /\ shown = {} /\ query = "none"

\* navigate('extensions'): the timeline is hidden and its overlay is closed.
EnterArea ==
  /\ Reachable /\ AtRest /\ Enter /\ ui' = NoOverlay
  /\ UNCHANGED <<host, seen, asking, session, visible, file, focus, shown, query, readers,
                 urls, opening, ledger, calls, events, void>>

\* The area of the extensions is in front; its editor leaves it through Navigate.
AreaInFront == area.page = "extensions" /\ PageSteps /\ UNCHANGED chatVars

\* BackendClient.update(): another address, or none, while the area is in front.
ReletArea ==
  /\ Relet
  /\ session' = (IF leased' THEN 1 ELSE 0) /\ host' = <<session'>>
  /\ UNCHANGED <<seen, asking, visible, file, focus, shown, query, readers, urls, opening,
                 ledger, calls, events, ui, void>>

Next == ChatInFront \/ EnterArea \/ AreaInFront \/ ReletArea

Spec == Init /\ [][Next]_vars

-----------------------------------------------------------------------------

\* The parts have their types, and they agree on the address that they use.
TypeOK == PagesTypeOK /\ WorkspaceTypeOK /\ leased = (session # 0)

\* A write of which no answer said what it did is not sent again before the library was read
\* again, and no write replaces or deletes what its page had not read.
WritesAreSettled == NoBlindRepeat /\ NothingUnseenIsOverwritten

=============================================================================
