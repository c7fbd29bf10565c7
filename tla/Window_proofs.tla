---------------------------- MODULE Window_proofs ----------------------------
(***************************************************************************)
(* That what the window holds of the backend is what it shows: image URLs  *)
(* are live, files that are opened are the confirmed ones, Run details     *)
(* that call themselves complete are, and overlays belong to the address   *)
(* in use, for any number of references, snapshots, versions, commands and *)
(* boundaries.                                                             *)
(***************************************************************************)
EXTENDS Window, FiniteSetTheorems, TLAPS

-----------------------------------------------------------------------------
(* The invariant. *)

Phases == {"none", "loading", "ready", "error"}
Stages == {"none", "workspace", "resolve", "image"}
Reader == [phase : Phases, stage : Stages, res : 0..MaxFile]
Call0 == [kind : {"prepare", "open", "discard"}, n : OpenIds, ver : 0..MaxFile, held : 0..MaxFile,
          lease : Nat, at : {"sent", "busy", "done"}, stale : BOOLEAN]
View0 == [phase : {"idle", "preparing", "prepared", "opening", "accepted", "error"},
          ref : Refs \cup {"none"}, n : 0..MaxOpen, ver : 0..MaxFile]
Ledger0 == [n : 0..MaxOpen, ver : 0..MaxFile, lease : Nat, used : BOOLEAN]
Ui0 == [overlay : {"none", "commands", "details", "image"}, image : 0..MaxFile, cancel : BOOLEAN]
Events0 ==
  [target : BOOLEAN, paused : BOOLEAN, keys : SUBSET Nat,
   phase : {"none", "wait", "sent", "answer"}, read : Nat, second : BOOLEAN, ans : Nat,
   shown : {"idle", "reading", "ready", "error"}, got : Nat, stored : Nat, heard : Nat,
   missed : BOOLEAN]

\* The snapshots on their way: the oldest is there, one of them names the newest startup.
HostOK ==
  /\ host \in Seq(Nat) /\ Len(host) \in 1..MaxRev /\ seen \in 0..Len(host) /\ session \in Nat
  /\ \E j \in 1..Len(host) : \A i \in 1..Len(host) : host[i] <= host[j]
  /\ asking \in BOOLEAN /\ visible \in BOOLEAN /\ file \in Versions
  /\ focus \in {"images", "files", "details"} /\ shown \subseteq Refs

\* A reader that waits has asked for something; it has a resource while the image is read or
\* shown.
Waits(R) ==
  /\ R.phase = "none" => R.stage = "none" /\ R.res = 0
  /\ R.phase = "error" => R.stage = "none" /\ R.res = 0
  /\ R.phase = "ready" => R.stage = "none" /\ R.res # 0
  /\ R.phase = "loading" => R.stage # "none" /\ (R.res # 0 <=> R.stage = "image")
\* "s" is the address, "on" says that images are looked at; query, readers and urls are "q",
\* "rs" and "us".
ImagesOK(s, on, refs, q, rs, us) ==
  /\ q \in {"none", "reading", "read"} /\ rs \in [Refs -> Reader] /\ us \subseteq Versions
  /\ \A r \in Refs :
       /\ Waits(rs[r])
       /\ rs[r].phase = "ready" => rs[r].res \in us
       /\ rs[r].stage = "workspace" => q = "reading"
       /\ rs[r].phase # "none" <=> on /\ r \in refs
       /\ s = 0 => rs[r].phase \in {"none", "error"}
  /\ \A v \in us : \E r \in Refs : rs[r].res = v

\* "o" stands for the view, "l" for the ledger, "v" for the intents that are void.
ViewOK(o, l, v) ==
  /\ o.phase = "idle" <=> o.n = 0
  /\ o.phase \in {"idle", "preparing"} => o.ver = 0
  /\ o.phase \in {"prepared", "opening", "accepted"} => o.ver # 0
  /\ l.n = 0 => ~l.used
  /\ o.ver # 0 /\ l.n = o.n => l.ver = o.ver
  /\ l.n # 0 /\ ~l.used => l.n \notin v
Active(c) == c.at = "busy" /\ ~c.stale
\* An intent that is being prepared is nobody else's; the ledger learns of it when it ends.
PrepareOK(c, o, l, v) ==
  c.kind = "prepare" =>
    /\ o.n = c.n => o.phase = "preparing"
    /\ l.n = c.n => c.at = "done" /\ l.ver = c.ver
    /\ c.at = "done" => c.ver # 0
    /\ Active(c) => c.n \notin v /\ l.n = 0
\* A command to open carries the version that was prepared, and works on the ledger's intent.
OpenOK(c, o, l, v) ==
  c.kind = "open" =>
    /\ c.ver # 0
    /\ l.n = c.n => l.ver = c.ver
    /\ o.n = c.n => o.ver # 0 /\ o.phase # "prepared"
    /\ c.at = "busy" => c.held = c.ver
    /\ Active(c) => c.n \notin v /\ l.n = c.n /\ l.used
DiscardOK(c, o) == c.kind = "discard" => c.at = "sent" /\ o.n # c.n
CallOK(c, o, l, v) == PrepareOK(c, o, l, v) /\ OpenOK(c, o, l, v) /\ DiscardOK(c, o)
\* Commands of one intent: nothing beside its preparation, and one to open it.
Apart(c, d) ==
  /\ c.kind = "prepare" /\ d.n = c.n => d = c
  /\ c.kind = "open" /\ d.kind = "open" /\ d.n = c.n => d = c
  /\ c.kind = "prepare" /\ d.kind = "prepare" /\ Active(c) /\ Active(d) => d = c
\* "C" stands for the commands under way.
FilesOK(o, C, l, v) ==
  /\ o \in View0 /\ C \subseteq Call0 /\ l \in Ledger0 /\ v \subseteq OpenIds
  /\ ViewOK(o, l, v)
  /\ \A c \in C : CallOK(c, o, l, v)
  /\ \A c, d \in C : Apart(c, d)

\* What the window was told of is known to the backend, and what is being read holds it or
\* will be read again.
EventsOK(e) ==
  /\ e \in Events0 /\ IsFiniteSet(e.keys) /\ e.keys \subseteq 1..e.heard
  /\ e.heard <= e.stored /\ e.got <= e.stored /\ e.stored <= MaxEnds
  /\ e.phase # "none" => e.target
  /\ ~e.target => e.keys = {}
  /\ e.target <=> e.shown # "idle"
  /\ e.shown = "reading" <=> e.phase # "none"
  /\ e.phase \in {"sent", "answer"} => e.read <= Revision(e)
  /\ e.phase = "answer" =>
       /\ e.ans <= e.stored
       /\ e.ans >= e.heard \/ (e.second /\ e.missed) \/ (~e.second /\ e.read < Revision(e))
  /\ e.shown = "ready" => e.got >= e.heard \/ e.missed
Pictures == visible /\ focus = "images"
ImagesNow == ImagesOK(session, Pictures, shown, query, readers, urls)
FilesNow == FilesOK(opening, calls, ledger, void)
EventsNow == EventsOK(events)
\* What is in front is about the address in use.
Front ==
  /\ ui \in Ui0
  /\ opening.phase # "idle" => ui = NoOverlay /\ session # 0 /\ visible /\ opening.ref \in shown
                               /\ focus = "files"
  /\ ui.cancel => ui.overlay = "none" /\ session # 0 /\ visible
  /\ ui.overlay = "image" => session # 0 /\ visible
  /\ events.target => focus = "details" /\ ui.overlay = "details" /\ session # 0 /\ visible
     /\ ~events.paused
\* The area of the extensions is entered when the conversation is at rest.
Hidden ==
  area.page # "chat" =>
    host = <<session>> /\ seen = 1 /\ ui = NoOverlay /\ opening.phase = "idle" /\ shown = {}
    /\ urls = {} /\ ~events.target

ChatInv == HostOK /\ ImagesNow /\ FilesNow /\ EventsNow /\ Front
WindowInv == ChatInv /\ Hidden

-----------------------------------------------------------------------------
(* Images. *)

LEMMA RescopeKeeps ==
  ASSUME NEW s \in Nat, NEW vis \in BOOLEAN, NEW refs \in SUBSET Refs, WorkspaceConstants,
         Rescope(s, vis, refs)
  PROVE  ImagesOK(s, vis /\ focus = "images", refs, query', readers', urls')
<1> DEFINE on == vis /\ focus = "images"
           R(r) == IF ~on \/ r \notin refs THEN NoReader
                   ELSE IF s = 0 THEN Unreadable ELSE Loading("workspace")
<1>1. /\ readers' = [r \in Refs |-> R(r)] /\ urls' = {}
      /\ query' = IF on /\ s # 0 /\ refs # {} THEN "reading" ELSE "none"
  BY DEF Rescope
<1>2. 0 \in 0..MaxFile
  BY DEF WorkspaceConstants
<1>3. NoReader \in Reader /\ Unreadable \in Reader /\ Loading("workspace") \in Reader
  BY <1>2 DEF NoReader, Unreadable, Loading, Reader, Phases, Stages
<1>4. Waits(NoReader) /\ Waits(Unreadable) /\ Waits(Loading("workspace"))
  BY DEF Waits, NoReader, Unreadable, Loading
<1>5. /\ NoReader.phase = "none" /\ NoReader.stage = "none"
      /\ Unreadable.phase = "error" /\ Unreadable.stage = "none"
      /\ Loading("workspace").phase = "loading" /\ Loading("workspace").stage = "workspace"
  BY DEF NoReader, Unreadable, Loading
<1>6. \A r \in Refs : R(r) \in {NoReader, Unreadable, Loading("workspace")}
  OBVIOUS
<1>7. readers' \in [Refs -> Reader] /\ \A r \in Refs : readers'[r] = R(r)
  BY <1>1, <1>3, <1>6
<1>8. ASSUME NEW r \in Refs
      PROVE  /\ Waits(R(r)) /\ R(r).phase # "ready"
             /\ R(r).stage = "workspace" => query' = "reading"
             /\ R(r).phase # "none" <=> on /\ r \in refs
             /\ s = 0 => R(r).phase \in {"none", "error"}
  <2>1. CASE ~on \/ r \notin refs
    BY <2>1, <1>4, <1>5
  <2>2. CASE on /\ r \in refs /\ s = 0
    BY <2>2, <1>4, <1>5
  <2>3. CASE on /\ r \in refs /\ s # 0
    BY <2>3, <1>1, <1>4, <1>5
  <2> QED BY <2>1, <2>2, <2>3
<1> HIDE DEF R, on
<1>9. ImagesOK(s, on, refs, query', readers', urls')
  BY <1>1, <1>7, <1>8 DEF ImagesOK
<1> QED BY <1>9 DEF on

\* The readers are set: a URL stays with its readers.
LEMMA SetReadersKeeps ==
  ASSUME NEW s, NEW on \in BOOLEAN, NEW refs, NEW old, NEW rs \in [Refs -> Reader],
         ImagesOK(s, on, old, query, readers, urls), SetReaders(rs),
         \A r \in Refs :
           /\ Waits(rs[r])
           /\ rs[r].phase = "ready" => rs[r].res \in urls
           /\ rs[r].stage = "workspace" => query # "read"
           /\ rs[r].phase # "none" <=> on /\ r \in refs
           /\ s = 0 => rs[r].phase \in {"none", "error"}
  PROVE  ImagesOK(s, on, refs, query', readers', urls')
<1>1. readers' = rs /\ urls' = {v \in urls : {r \in Refs : rs[r].res = v} # {}}
  BY DEF SetReaders, Revoked, Holders
<1>2. query' = IF query = "none" /\ \E r \in Refs : rs[r].stage = "workspace"
               THEN "reading" ELSE query
  BY DEF SetReaders, QueryFor
<1>3. query \in {"none", "reading", "read"} /\ urls \subseteq Versions
  BY DEF ImagesOK
<1>4. query' \in {"none", "reading", "read"} /\ urls' \subseteq Versions
  BY <1>1, <1>2, <1>3
<1>5. \A r \in Refs : rs[r].stage = "workspace" => query' = "reading"
  BY <1>2, <1>3
<1>6. \A r \in Refs : rs[r].phase = "ready" => rs[r].res \in urls'
  BY <1>1
<1>7. \A v \in urls' : \E r \in Refs : rs[r].res = v
  BY <1>1
<1>8. readers' \in [Refs -> Reader]
  BY <1>1
<1> QED BY <1>1, <1>4, <1>5, <1>6, <1>7, <1>8 DEF ImagesOK

LEMMA LoadIs ==
  ASSUME ChatInv, WorkspaceConstants
  PROVE  /\ Load \in Reader /\ Waits(Load) /\ Load.phase \notin {"none", "ready"}
         /\ Load.stage = "workspace" => query # "read"
         /\ session = 0 => Load.phase = "error"
<1>1. 0 \in 0..MaxFile
  BY DEF WorkspaceConstants
<1> QED BY <1>1 DEF Load, Reader, Phases, Stages, Waits, Unreadable, Loading

LEMMA TimelineKeeps ==
  ASSUME ChatInv, WorkspaceConstants, NEW refs \in SUBSET Refs, Timeline(refs)
  PROVE  ImagesOK(session, Pictures, refs, query', readers', urls')
<1> DEFINE R(r) == IF r \notin refs \/ ~Pictures THEN NoReader
                   ELSE IF r \in shown THEN readers[r] ELSE Load
           rs == [r \in Refs |-> R(r)]
<1>1. SetReaders(rs)
  BY DEF Timeline, Pictures
<1>2. 0 \in 0..MaxFile
  BY DEF WorkspaceConstants
<1>3. NoReader \in Reader /\ Waits(NoReader) /\ NoReader.phase = "none" /\ NoReader.stage = "none"
  BY <1>2 DEF NoReader, Reader, Phases, Stages, Waits
<1>4. ImagesOK(session, Pictures, shown, query, readers, urls) /\ Pictures \in BOOLEAN
  BY DEF ChatInv, ImagesNow, Pictures, HostOK
<1>5. /\ readers \in [Refs -> Reader]
      /\ \A r \in Refs :
           /\ Waits(readers[r])
           /\ readers[r].phase = "ready" => readers[r].res \in urls
           /\ readers[r].stage = "workspace" => query # "read"
           /\ readers[r].phase # "none" <=> Pictures /\ r \in shown
           /\ session = 0 => readers[r].phase \in {"none", "error"}
  BY <1>4 DEF ImagesOK
<1>6. ASSUME NEW r \in Refs
      PROVE  /\ R(r) \in Reader /\ Waits(R(r))
             /\ R(r).phase = "ready" => R(r).res \in urls
             /\ R(r).stage = "workspace" => query # "read"
             /\ R(r).phase # "none" <=> Pictures /\ r \in refs
             /\ session = 0 => R(r).phase \in {"none", "error"}
  <2>1. CASE r \notin refs \/ ~Pictures
    BY <2>1, <1>3
  <2>2. CASE r \in refs /\ Pictures /\ r \in shown
    BY <2>2, <1>5
  <2>3. CASE r \in refs /\ Pictures /\ r \notin shown
    BY <2>3, LoadIs
  <2> QED BY <2>1, <2>2, <2>3
<1> HIDE DEF R
<1>7. rs \in [Refs -> Reader] /\ \A r \in Refs : rs[r] = R(r)
  BY <1>6
<1> HIDE DEF rs
<1> QED BY <1>1, <1>4, <1>6, <1>7, SetReadersKeeps

\* The answers to the requests of images.
LEMMA ImageStepsKeep ==
  ASSUME ChatInv, WorkspaceConstants,
         WorkspaceAnswers \/ (\E r \in Refs : Resolved(r) \/ RetryImage(r))
         \/ (\E v \in Versions : ImageRead(v))
  PROVE  ImagesOK(session, Pictures, shown, query', readers', urls')
<1>1. ImagesOK(session, Pictures, shown, query, readers, urls) /\ Pictures \in BOOLEAN
      /\ file \in Versions
  BY DEF ChatInv, ImagesNow, Pictures, HostOK
<1>2. /\ readers \in [Refs -> Reader] /\ urls \subseteq Versions
      /\ \A r \in Refs :
           /\ Waits(readers[r]) /\ readers[r] \in Reader
           /\ readers[r].phase = "ready" => readers[r].res \in urls
           /\ readers[r].stage = "workspace" => query = "reading"
           /\ readers[r].phase # "none" <=> Pictures /\ r \in shown
           /\ session = 0 => readers[r].phase \in {"none", "error"}
      /\ \A v \in urls : \E r \in Refs : readers[r].res = v
  BY <1>1 DEF ImagesOK
<1>3. 0 \in 0..MaxFile /\ Versions = 1..MaxFile /\ MaxFile \in Nat
  BY DEF WorkspaceConstants, Versions
<1>4. /\ Unreadable \in Reader /\ Waits(Unreadable) /\ Unreadable.phase = "error"
      /\ Unreadable.stage = "none" /\ Unreadable.res = 0
  BY <1>3 DEF Unreadable, Reader, Phases, Stages, Waits
<1>5. /\ Loading("resolve") \in Reader /\ Waits(Loading("resolve"))
      /\ Loading("resolve").phase = "loading" /\ Loading("resolve").stage = "resolve"
      /\ Loading("resolve").res = 0
  BY <1>3 DEF Loading, Reader, Phases, Stages, Waits
<1> DEFINE Fits(R, r) ==
             /\ R \in Reader /\ Waits(R)
             /\ R.phase = "ready" => R.res \in urls
             /\ R.stage = "workspace" => query # "read"
             /\ R.phase # "none" <=> Pictures /\ r \in shown
             /\ session = 0 => R.phase \in {"none", "error"}
<1>6. \A r \in Refs : Fits(readers[r], r)
  BY <1>2
<1>7. ASSUME NEW rs \in [Refs -> Reader], SetReaders(rs), \A r \in Refs : Fits(rs[r], r)
      PROVE  ImagesOK(session, Pictures, shown, query', readers', urls')
  BY <1>1, <1>7, SetReadersKeeps
<1>8. ASSUME NEW r \in Refs, NEW R, Fits(R, r), SetReaders([readers EXCEPT ![r] = R])
      PROVE  ImagesOK(session, Pictures, shown, query', readers', urls')
  <2> DEFINE rs == [readers EXCEPT ![r] = R]
  <2>1. rs \in [Refs -> Reader] /\ \A q \in Refs : rs[q] = IF q = r THEN R ELSE readers[q]
    BY <1>2, <1>8
  <2> HIDE DEF rs
  <2>2. \A q \in Refs : Fits(rs[q], q)
    <3> HIDE DEF Fits
    <3> QED BY <2>1, <1>6, <1>8
  <2> HIDE DEF Fits
  <2> QED BY <2>1, <2>2, <1>7, <1>8 DEF rs
<1>9. CASE WorkspaceAnswers
  <2> DEFINE R(ok, r) == IF readers[r].stage # "workspace" THEN readers[r]
                         ELSE IF ok THEN Loading("resolve") ELSE Unreadable
  <2>1. PICK ok \in BOOLEAN : /\ query' = IF ok THEN "read" ELSE "none"
                              /\ readers' = [r \in Refs |-> R(ok, r)]
    BY <1>9 DEF WorkspaceAnswers
  <2>2. urls' = urls /\ query' \in {"none", "reading", "read"}
    BY <1>9, <2>1 DEF WorkspaceAnswers
  <2>3. ASSUME NEW r \in Refs
        PROVE  /\ R(ok, r) \in Reader /\ Waits(R(ok, r))
               /\ R(ok, r).phase = "ready" => R(ok, r).res \in urls
               /\ R(ok, r).stage # "workspace"
               /\ R(ok, r).phase # "none" <=> Pictures /\ r \in shown
               /\ session = 0 => R(ok, r).phase \in {"none", "error"}
               /\ R(ok, r).res = readers[r].res
    <3>1. CASE readers[r].stage # "workspace"
      BY <3>1, <1>2
    <3>2. CASE readers[r].stage = "workspace"
      <4>1. readers[r].phase = "loading" /\ readers[r].res = 0
        BY <3>2, <1>2 DEF Waits, Reader, Phases
      <4>2. session # 0 /\ Pictures /\ r \in shown
        BY <4>1, <1>2
      <4> QED BY <3>2, <4>1, <4>2, <1>4, <1>5
    <3> QED BY <3>1, <3>2
  <2> HIDE DEF R
  <2>4. readers' \in [Refs -> Reader] /\ \A r \in Refs : readers'[r] = R(ok, r)
    BY <2>1, <2>3
  <2>5. \A v \in urls : \E r \in Refs : readers'[r].res = v
    BY <2>3, <2>4, <1>2
  <2> QED BY <2>2, <2>3, <2>4, <2>5, <1>2 DEF ImagesOK
<1>10. CASE \E r \in Refs : Resolved(r)
  <2>1. PICK r \in Refs : Resolved(r)
    BY <1>10
  <2>2. readers[r].stage = "resolve" /\ readers[r].phase = "loading"
    BY <2>1, <1>2 DEF Resolved, Waits, Reader, Phases
  <2>3. session # 0 /\ Pictures /\ r \in shown
    BY <2>2, <1>2
  <2> DEFINE A == [phase |-> "ready", stage |-> "none", res |-> file]
             B == [phase |-> "loading", stage |-> "image", res |-> file]
  <2>4. Fits(Unreadable, r)
    BY <2>3, <1>4
  <2>5. file \in 0..MaxFile /\ file # 0
    BY <1>1, <1>3
  <2>6. A \in Reader /\ Waits(A) /\ B \in Reader /\ Waits(B)
    BY <2>5 DEF Reader, Phases, Stages, Waits
  <2>7. file \in urls => Fits(A, r)
    BY <2>3, <2>6
  <2>8. Fits(B, r)
    BY <2>3, <2>6
  <2>9. \/ SetReaders([readers EXCEPT ![r] = Unreadable])
        \/ SetReaders([readers EXCEPT ![r] = IF file \in urls THEN A ELSE B])
    BY <2>1 DEF Resolved
  <2> HIDE DEF A, B, Fits
  <2> QED BY <2>4, <2>7, <2>8, <2>9, <1>8
<1>11. CASE \E r \in Refs : RetryImage(r)
  <2>1. PICK r \in Refs : readers[r].phase \in {"ready", "error"}
                          /\ SetReaders([readers EXCEPT ![r] = Load])
    BY <1>11 DEF RetryImage
  <2>2. Pictures /\ r \in shown
    BY <2>1, <1>2
  <2>3. Fits(Load, r)
    BY <2>2, LoadIs
  <2> HIDE DEF Fits
  <2> QED BY <2>1, <2>3, <1>8
<1>12. CASE \E v \in Versions : ImageRead(v)
  <2>1. PICK v \in Versions : ImageRead(v)
    BY <1>12
  <2> DEFINE W == {r \in Refs : readers[r].stage = "image" /\ readers[r].res = v}
             A == [phase |-> "ready", stage |-> "none", res |-> v]
  <2>2. W # {}
    BY <2>1 DEF ImageRead
  <2>3. \A r \in W : readers[r].phase = "loading" /\ session # 0 /\ Pictures /\ r \in shown
    BY <1>2 DEF Waits, Reader, Phases
  <2>4. A \in Reader /\ Waits(A)
    BY <1>3 DEF Reader, Phases, Stages, Waits
  <2>5. CASE /\ v = file /\ urls' = urls \cup {v} /\ query' = query
             /\ readers' = [r \in Refs |-> IF r \in W THEN A ELSE readers[r]]
    <3>1. readers' \in [Refs -> Reader]
          /\ \A r \in Refs : readers'[r] = IF r \in W THEN A ELSE readers[r]
      BY <2>4, <2>5, <1>2
    <3>2. ASSUME NEW r \in Refs
          PROVE  /\ Waits(readers'[r])
                 /\ readers'[r].phase = "ready" => readers'[r].res \in urls'
                 /\ readers'[r].stage = "workspace" => query' = "reading"
                 /\ readers'[r].phase # "none" <=> Pictures /\ r \in shown
                 /\ session = 0 => readers'[r].phase \in {"none", "error"}
                 /\ readers'[r].res = readers[r].res
      <4>1. CASE r \in W
        BY <4>1, <3>1, <2>3, <2>4, <2>5
      <4>2. CASE r \notin W
        BY <4>2, <3>1, <2>5, <1>2
      <4> QED BY <4>1, <4>2
    <3>3. \A u \in urls' : \E r \in Refs : readers'[r].res = u
      BY <3>2, <2>2, <2>5, <1>2
    <3>4. urls' \subseteq Versions
      BY <2>5, <1>2
    <3>5. query' \in {"none", "reading", "read"}
      BY <2>5, <1>1 DEF ImagesOK
    <3> QED BY <3>1, <3>2, <3>3, <3>4, <3>5 DEF ImagesOK
  <2>6. CASE SetReaders([r \in Refs |-> IF r \in W THEN Unreadable ELSE readers[r]])
    <3> DEFINE rs == [r \in Refs |-> IF r \in W THEN Unreadable ELSE readers[r]]
    <3>1. /\ rs \in [Refs -> Reader]
          /\ \A r \in Refs : rs[r] = IF r \in W THEN Unreadable ELSE readers[r]
      BY <1>2, <1>4
    <3> HIDE DEF rs
    <3>2. \A r \in W : Fits(Unreadable, r)
      BY <2>3, <1>4
    <3>3. \A r \in Refs : Fits(rs[r], r)
      <4> HIDE DEF Fits, W
      <4> QED BY <3>1, <3>2, <1>6
    <3> HIDE DEF Fits, W
    <3> QED BY <3>1, <3>3, <2>6, <1>7 DEF rs
  <2> QED BY <2>1, <2>5, <2>6 DEF ImageRead
<1> QED BY <1>9, <1>10, <1>11, <1>12

-----------------------------------------------------------------------------
(* Files: the ways in which a set of commands changes. *)

Drop(o) == IF o.ver = 0 THEN {} ELSE {Call("discard", o.n, 0, 0)}

LEMMA DroppedIs == Dropped = Drop(opening)
BY DEF Dropped, Drop

LEMMA Numbers ==
  ASSUME WorkspaceConstants
  PROVE  /\ OpenIds = 1..MaxOpen /\ 0 \in 0..MaxOpen /\ 0 \notin OpenIds
         /\ Versions = 1..MaxFile /\ 0 \in 0..MaxFile /\ 0 \notin Versions
         /\ OpenIds \subseteq 0..MaxOpen /\ Versions \subseteq 0..MaxFile
BY DEF WorkspaceConstants, OpenIds, Versions

LEMMA IdleIs ==
  ASSUME WorkspaceConstants
  PROVE  /\ IdleView \in View0 /\ IdleView.phase = "idle" /\ IdleView.n = 0
         /\ IdleView.ver = 0 /\ IdleView.ref = "none"
         /\ NoFile \in Ledger0 /\ NoFile.n = 0 /\ NoFile.used = FALSE
BY Numbers DEF IdleView, View0, NoFile, Ledger0

LEMMA CallIs ==
  ASSUME WorkspaceConstants, NEW kind \in {"prepare", "open", "discard"}, NEW n \in OpenIds,
         NEW ver \in 0..MaxFile, NEW lease \in Nat
  PROVE  LET c == Call(kind, n, ver, lease)
         IN  /\ c \in Call0 /\ c.kind = kind /\ c.n = n /\ c.ver = ver /\ c.at = "sent"
             /\ c.lease = lease /\ c.held = 0 /\ ~Active(c)
BY Numbers DEF Call, Call0, Active

\* The view is closed: an intent that the shell may hold is discarded.
LEMMA DropKeeps ==
  ASSUME WorkspaceConstants, NEW o, NEW C, NEW l, NEW v, FilesOK(o, C, l, v)
  PROVE  FilesOK(IdleView, C \cup Drop(o), l, v)
<1> DEFINE x == Call("discard", o.n, 0, 0)
<1>1. /\ o \in View0 /\ C \subseteq Call0 /\ l \in Ledger0 /\ v \subseteq OpenIds
      /\ ViewOK(o, l, v) /\ \A c \in C : CallOK(c, o, l, v)
      /\ \A c, d \in C : Apart(c, d)
  BY DEF FilesOK
<1>2. o.ver # 0 => o.n \in OpenIds /\ o.phase \notin {"idle", "preparing"}
  BY <1>1, Numbers DEF ViewOK, View0
<1>3. o.ver # 0 => /\ x \in Call0 /\ x.kind = "discard" /\ x.n = o.n /\ x.at = "sent" /\ ~Active(x)
  BY <1>2, Numbers, CallIs
<1> HIDE DEF x
<1>4. ViewOK(IdleView, l, v)
  BY <1>1, IdleIs DEF ViewOK
<1>5. ASSUME NEW c \in C PROVE CallOK(c, IdleView, l, v)
  <2>1. CallOK(c, o, l, v) /\ c.n # 0
    BY <1>1, Numbers DEF Call0
  <2> QED BY <2>1, IdleIs DEF CallOK, PrepareOK, OpenOK, DiscardOK
<1>6. o.ver # 0 => CallOK(x, IdleView, l, v)
  BY <1>2, <1>3, IdleIs, Numbers DEF CallOK, PrepareOK, OpenOK, DiscardOK
<1>7. ASSUME NEW c \in C, o.ver # 0 PROVE Apart(c, x) /\ Apart(x, c) /\ Apart(x, x)
  <2>1. c.kind = "prepare" => c.n # o.n
    BY <1>1, <1>2, <1>7 DEF CallOK, PrepareOK
  <2> QED BY <2>1, <1>3, <1>7 DEF Apart
<1>8. o.ver # 0 => Apart(x, x)
  BY <1>3 DEF Apart
<1>9. Drop(o) = IF o.ver = 0 THEN {} ELSE {x}
  BY DEF Drop, x
<1>10. \A c \in C \cup Drop(o) : c \in Call0 /\ CallOK(c, IdleView, l, v)
  BY <1>1, <1>3, <1>5, <1>6, <1>9
<1>11. \A c, d \in C \cup Drop(o) : Apart(c, d)
  BY <1>1, <1>7, <1>8, <1>9
<1> QED BY <1>1, <1>4, <1>10, <1>11, IdleIs DEF FilesOK

\* What a command is about; only its lease and whether it is outdated may change.
Same(c, d) ==
  /\ c \in Call0 /\ c.kind = d.kind /\ c.n = d.n /\ c.ver = d.ver /\ c.held = d.held
  /\ c.at = d.at /\ (d.stale => c.stale)

LEMMA RelabelKeeps ==
  ASSUME NEW o, NEW C, NEW l, NEW v, FilesOK(o, C, l, v), NEW g, \A c \in C : Same(g[c], c)
  PROVE  FilesOK(o, {g[c] : c \in C}, l, v)
<1>1. ASSUME NEW c \in C PROVE g[c] \in Call0 /\ CallOK(g[c], o, l, v)
  <2>1. CallOK(c, o, l, v) /\ c \in Call0
    BY DEF FilesOK
  <2> QED BY <2>1 DEF Same, CallOK, PrepareOK, OpenOK, DiscardOK, Active
<1>2. ASSUME NEW c \in C, NEW d \in C PROVE Apart(g[c], g[d])
  <2>1. Apart(c, d)
    BY DEF FilesOK
  <2> QED BY <2>1 DEF Same, Apart, Active
<1> QED BY <1>1, <1>2 DEF FilesOK

\* All intents are void: what is under way is outdated, and the ledger has none.
LEMMA VoidKeeps ==
  ASSUME WorkspaceConstants, NEW o, NEW C, NEW l, NEW v, FilesOK(o, C, l, v),
         \A c \in C : ~Active(c)
  PROVE  FilesOK(o, C, NoFile, OpenIds)
<1>1. ViewOK(o, NoFile, OpenIds)
  BY IdleIs DEF FilesOK, ViewOK
<1>2. ASSUME NEW c \in C PROVE CallOK(c, o, NoFile, OpenIds)
  <2>1. CallOK(c, o, l, v) /\ c.n # 0
    BY Numbers DEF FilesOK, Call0
  <2> QED BY <2>1, IdleIs DEF CallOK, PrepareOK, OpenOK, DiscardOK
<1> QED BY <1>1, <1>2, IdleIs DEF FilesOK

LEMMA OutdatedIs ==
  ASSUME NEW c \in Call0
  PROVE  Same(Outdated(c), c) /\ Outdated(c).stale /\ ~Active(Outdated(c))
BY DEF Outdated, Same, Call0, Active

LEMMA OutdateKeeps ==
  ASSUME NEW o, NEW C, NEW l, NEW v, FilesOK(o, C, l, v)
  PROVE  /\ FilesOK(o, {Outdated(c) : c \in C}, l, v)
         /\ \A c \in {Outdated(b) : b \in C} : ~Active(c)
<1> DEFINE g == [c \in C |-> Outdated(c)]
<1>1. C \subseteq Call0
  BY DEF FilesOK
<1>2. \A c \in C : g[c] = Outdated(c)
  OBVIOUS
<1>3. \A c \in C : Same(g[c], c)
  BY <1>1, <1>2, OutdatedIs
<1>4. {g[c] : c \in C} = {Outdated(c) : c \in C}
  BY <1>2
<1> HIDE DEF g
<1>5. FilesOK(o, {Outdated(c) : c \in C}, l, v)
  BY <1>3, <1>4, RelabelKeeps
<1> QED BY <1>1, <1>5, OutdatedIs

LEMMA RenumberKeeps ==
  ASSUME NEW o, NEW C, NEW l, NEW v, FilesOK(o, C, l, v)
  PROVE  FilesOK(o, Renumbered(C), [l EXCEPT !.lease = Renewed(@)], v)
<1> DEFINE f(c) == [c EXCEPT !.lease = Renewed(@)]
           g == [c \in C |-> f(c)]
           m == [l EXCEPT !.lease = Renewed(@)]
<1>1. C \subseteq Call0 /\ l \in Ledger0
  BY DEF FilesOK
<1>2. \A c \in C : g[c] = f(c)
  OBVIOUS
<1>3. \A x : Renewed(x) \in Nat
  BY DEF Renewed
<1>4. \A c \in C : Same(g[c], c)
  BY <1>1, <1>2, <1>3 DEF Same, Call0
<1>5. {g[c] : c \in C} = Renumbered(C)
  BY <1>2 DEF Renumbered
<1>6. m \in Ledger0 /\ m.n = l.n /\ m.ver = l.ver /\ m.used = l.used
  BY <1>1, <1>3 DEF Ledger0
<1> HIDE DEF g, m
<1>7. FilesOK(o, Renumbered(C), l, v)
  BY <1>4, <1>5, RelabelKeeps
<1>8. ViewOK(o, m, v)
  BY <1>6, <1>7 DEF FilesOK, ViewOK
<1>9. \A c \in Renumbered(C) : CallOK(c, o, m, v)
  BY <1>6, <1>7 DEF FilesOK, CallOK, PrepareOK, OpenOK
<1>10. FilesOK(o, Renumbered(C), m, v)
  BY <1>6, <1>7, <1>8, <1>9 DEF FilesOK
<1> QED BY <1>10 DEF m

LEMMA RemoveKeeps ==
  ASSUME NEW o, NEW C, NEW l, NEW v, FilesOK(o, C, l, v), NEW B \in SUBSET C
  PROVE  FilesOK(o, B, l, v)
BY DEF FilesOK

LEMMA FilesParts ==
  ASSUME FilesNow
  PROVE  /\ opening \in View0 /\ calls \subseteq Call0 /\ ledger \in Ledger0
         /\ void \subseteq OpenIds /\ ViewOK(opening, ledger, void)
         /\ \A c \in calls : CallOK(c, opening, ledger, void)
         /\ \A c, d \in calls : Apart(c, d)
BY DEF FilesNow, FilesOK

\* One command is replaced by what becomes of it.
LEMMA ReplaceKeeps ==
  ASSUME NEW C, C \subseteq Call0, \A b, d \in C : Apart(b, d),
         NEW c \in C, NEW d \in Call0, d.n = c.n, d.kind = c.kind \/ c.kind = "prepare",
         d.kind = "prepare" /\ Active(d) =>
           Active(c) \/ \A b \in C \ {c} : ~(b.kind = "prepare" /\ Active(b)),
         NEW o \in View0, NEW l \in Ledger0, NEW v \in SUBSET OpenIds, ViewOK(o, l, v),
         \A b \in (C \ {c}) \cup {d} : CallOK(b, o, l, v)
  PROVE  FilesOK(o, (C \ {c}) \cup {d}, l, v)
<1>1. ASSUME NEW b \in C \ {c} PROVE Apart(b, d) /\ Apart(d, b)
  <2>1. Apart(b, c) /\ Apart(c, b) /\ b # c
    OBVIOUS
  <2> QED BY <2>1 DEF Apart
<1>2. Apart(d, d)
  BY DEF Apart
<1>3. \A a, b \in (C \ {c}) \cup {d} : Apart(a, b)
  BY <1>1, <1>2
<1> QED BY <1>3 DEF FilesOK

LEMMA CloseKeeps ==
  ASSUME WorkspaceConstants, FilesNow, Close
  PROVE  FilesOK(opening', calls', ledger, void) /\ opening'.phase = "idle"
<1>1. FilesOK(IdleView, calls \cup Drop(opening), ledger, void)
  BY DropKeeps DEF FilesNow
<1> QED BY <1>1, DroppedIs, IdleIs DEF Close

LEMMA PrepareKeeps ==
  ASSUME WorkspaceConstants, FilesNow, HostOK, NEW ref \in Refs \cup {"none"}, Prepare(ref)
  PROVE  /\ FilesOK(opening', calls', ledger, void')
         /\ opening'.ref = ref
<1> DEFINE C == calls \cup Dropped
<1>1. FilesOK(IdleView, C, ledger, void)
  BY DropKeeps, DroppedIs DEF FilesNow
<1>2. PICK n \in FreeIds :
        /\ opening' = [IdleView EXCEPT !.phase = "preparing", !.ref = ref, !.n = n]
        /\ calls' = C \cup {Call("prepare", n, 0, session)}
        /\ void' = void \ {n}
  BY DEF Prepare
<1> DEFINE x == Call("prepare", n, 0, session)
<1> HIDE DEF C
<1>3. n \in OpenIds /\ n # ledger.n /\ n # opening.n /\ \A c \in calls : c.n # n
  BY DEF FreeIds
<1>4. \A c \in Dropped : c.n = opening.n
  BY DEF Dropped, Call
<1>5. \A c \in C : c.n # n
  BY <1>3, <1>4 DEF C
<1>6. /\ x \in Call0 /\ x.kind = "prepare" /\ x.n = n /\ x.at = "sent" /\ ~Active(x)
  BY <1>3, Numbers, CallIs DEF HostOK
<1>7. /\ opening' \in View0 /\ opening'.phase = "preparing" /\ opening'.n = n
      /\ opening'.ver = 0 /\ opening'.ref = ref
  BY <1>2, <1>3, Numbers DEF IdleView, View0
<1> HIDE DEF x
<1>8. /\ C \subseteq Call0 /\ ledger \in Ledger0 /\ void \subseteq OpenIds
      /\ ViewOK(IdleView, ledger, void)
      /\ \A c \in C : CallOK(c, IdleView, ledger, void)
      /\ \A c, d \in C : Apart(c, d)
  BY <1>1 DEF FilesOK
<1>9. ViewOK(opening', ledger, void')
  BY <1>2, <1>3, <1>7, <1>8, Numbers DEF ViewOK
<1>10. ASSUME NEW c \in C PROVE CallOK(c, opening', ledger, void') /\ Apart(c, x) /\ Apart(x, c)
  <2>1. CallOK(c, IdleView, ledger, void) /\ c.n # n
    BY <1>5, <1>8
  <2>2. CallOK(c, opening', ledger, void')
    BY <2>1, <1>2, <1>7 DEF CallOK, PrepareOK, OpenOK, DiscardOK
  <2> QED BY <2>1, <2>2, <1>6 DEF Apart
<1>11. CallOK(x, opening', ledger, void')
  BY <1>3, <1>6, <1>7 DEF CallOK, PrepareOK, OpenOK, DiscardOK
<1>12. Apart(x, x)
  BY <1>6 DEF Apart
<1>13. calls' = C \cup {x} /\ void' \subseteq OpenIds
  BY <1>2, <1>8 DEF x
<1> QED BY <1>6, <1>7, <1>8, <1>9, <1>10, <1>11, <1>12, <1>13 DEF FilesOK

LEMMA RefusedKeeps ==
  ASSUME WorkspaceConstants, FilesNow, NEW c \in calls, Refused(c)
  PROVE  /\ FilesOK(opening', calls', ledger, void)
         /\ opening'.ref = opening.ref
         /\ opening'.phase # "idle" => opening.phase # "idle"
<1>1. calls' = calls \ {c}
  BY DEF Refused
<1>2. CASE ~Awaited(c)
  BY <1>1, <1>2, RemoveKeeps DEF Refused, FilesNow
<1>3. CASE Awaited(c)
  <2>1. opening' = [opening EXCEPT !.phase = "error"] /\ opening.phase \in {"preparing", "opening"}
        /\ opening.n = c.n
    BY <1>3 DEF Refused, Awaited
  <2>2. /\ opening' \in View0 /\ opening'.phase = "error" /\ opening'.n = opening.n
        /\ opening'.ver = opening.ver /\ opening'.ref = opening.ref
    BY <2>1, FilesParts DEF View0
  <2>3. ViewOK(opening', ledger, void)
    BY <2>1, <2>2, FilesParts DEF ViewOK
  <2>4. ASSUME NEW b \in calls \ {c} PROVE CallOK(b, opening', ledger, void)
    <3>1. CallOK(b, opening, ledger, void) /\ CallOK(c, opening, ledger, void)
          /\ Apart(b, c) /\ c.kind \in {"prepare", "open", "discard"}
      BY FilesParts DEF Call0
    <3>2. ~(b.kind = "prepare" /\ b.n = c.n)
      BY <3>1 DEF Apart
    <3> QED BY <3>1, <3>2, <2>1, <2>2 DEF CallOK, PrepareOK, OpenOK, DiscardOK
  <2> QED BY <1>1, <2>1, <2>2, <2>3, <2>4, FilesParts DEF FilesOK
<1> QED BY <1>2, <1>3

LEMMA PrepareReplyKeeps ==
  ASSUME WorkspaceConstants, FilesNow, NEW c \in calls, PrepareReply(c)
  PROVE  /\ FilesOK(opening', calls', ledger, void)
         /\ opening'.ref = opening.ref
         /\ opening'.phase # "idle" => opening.phase # "idle"
<1>1. c.kind = "prepare" /\ c.at = "done" /\ c \in Call0
  BY FilesParts DEF PrepareReply
<1>2. CallOK(c, opening, ledger, void) /\ c.ver # 0
  BY <1>1, FilesParts DEF CallOK, PrepareOK
<1>3. \A b \in calls \ {c} : b.n # c.n
  BY <1>1, FilesParts DEF Apart
<1>4. CASE Awaited(c)
  <2>1. opening' = [opening EXCEPT !.phase = "prepared", !.ver = c.ver] /\ calls' = calls \ {c}
    BY <1>4 DEF PrepareReply
  <2>2. opening.n = c.n /\ opening.phase = "preparing"
    BY <1>1, <1>4 DEF Awaited
  <2>3. /\ opening' \in View0 /\ opening'.phase = "prepared" /\ opening'.n = c.n
        /\ opening'.ver = c.ver /\ opening'.ref = opening.ref
    BY <1>1, <2>1, <2>2, FilesParts DEF View0, Call0
  <2>4. ViewOK(opening', ledger, void)
    BY <1>1, <1>2, <2>2, <2>3, FilesParts DEF ViewOK, CallOK, PrepareOK
  <2>5. ASSUME NEW b \in calls \ {c} PROVE CallOK(b, opening', ledger, void)
    <3>1. CallOK(b, opening, ledger, void) /\ b.n # c.n
      BY <1>3, FilesParts
    <3> QED BY <3>1, <2>2, <2>3 DEF CallOK, PrepareOK, OpenOK, DiscardOK
  <2> QED BY <2>1, <2>2, <2>3, <2>4, <2>5, FilesParts DEF FilesOK
<1>5. CASE ~Awaited(c)
  <2> DEFINE x == Call("discard", c.n, 0, 0)
  <2>1. opening' = opening /\ calls' = (calls \ {c}) \cup {x}
    BY <1>5 DEF PrepareReply
  <2>2. c.n \in OpenIds
    BY <1>1 DEF Call0
  <2>3. x \in Call0 /\ x.kind = "discard" /\ x.n = c.n /\ x.at = "sent" /\ ~Active(x)
    BY <2>2, Numbers, CallIs
  <2> HIDE DEF x
  <2>4. opening.n # c.n
    BY <1>1, <1>2, <1>5 DEF Awaited, CallOK, PrepareOK
  <2>5. CallOK(x, opening, ledger, void)
    BY <2>3, <2>4 DEF CallOK, PrepareOK, OpenOK, DiscardOK
  <2>6. \A b \in (calls \ {c}) \cup {x} : CallOK(b, opening, ledger, void)
    BY <2>5, FilesParts
  <2>7. FilesOK(opening, (calls \ {c}) \cup {x}, ledger, void)
    BY <1>1, <2>3, <2>6, FilesParts, ReplaceKeeps
  <2> QED BY <2>1, <2>7
<1> QED BY <1>4, <1>5

LEMMA ConfirmKeeps ==
  ASSUME WorkspaceConstants, FilesNow, ConfirmFile
  PROVE  FilesOK(opening', calls', ledger, void) /\ opening'.ref = opening.ref
<1> DEFINE x == Call("open", opening.n, opening.ver, 0)
<1>1. /\ opening.phase = "prepared" /\ opening' = [opening EXCEPT !.phase = "opening"]
      /\ calls' = calls \cup {x}
  BY DEF ConfirmFile
<1>2. opening.n \in OpenIds /\ opening.ver \in 0..MaxFile /\ opening.ver # 0
  BY <1>1, FilesParts, Numbers DEF ViewOK, View0
<1>3. /\ opening' \in View0 /\ opening'.phase = "opening" /\ opening'.n = opening.n
      /\ opening'.ver = opening.ver /\ opening'.ref = opening.ref
  BY <1>1, FilesParts DEF View0
<1>4. /\ x \in Call0 /\ x.kind = "open" /\ x.n = opening.n /\ x.ver = opening.ver
      /\ x.at = "sent" /\ ~Active(x)
  BY <1>2, CallIs
<1> HIDE DEF x
<1>5. ASSUME NEW c \in calls PROVE c.n # opening.n
  <2>1. CallOK(c, opening, ledger, void) /\ c.kind \in {"prepare", "open", "discard"}
    BY FilesParts DEF Call0
  <2> QED BY <1>1, <2>1 DEF CallOK, PrepareOK, OpenOK, DiscardOK
<1>6. ViewOK(opening', ledger, void)
  BY <1>1, <1>2, <1>3, FilesParts DEF ViewOK
<1>7. ASSUME NEW c \in calls
      PROVE  CallOK(c, opening', ledger, void) /\ Apart(c, x) /\ Apart(x, c)
  <2>1. CallOK(c, opening, ledger, void) /\ c.n # opening.n
    BY <1>5, FilesParts
  <2> QED BY <2>1, <1>3, <1>4 DEF CallOK, PrepareOK, OpenOK, DiscardOK, Apart
<1>8. CallOK(x, opening', ledger, void)
  BY <1>2, <1>3, <1>4, FilesParts DEF CallOK, PrepareOK, OpenOK, DiscardOK, ViewOK
<1>9. Apart(x, x)
  BY <1>4 DEF Apart
<1> QED BY <1>1, <1>3, <1>4, <1>6, <1>7, <1>8, <1>9, FilesParts DEF FilesOK

LEMMA OpenReplyKeeps ==
  ASSUME WorkspaceConstants, FilesNow, NEW c \in calls, OpenReply(c)
  PROVE  /\ FilesOK(opening', calls', ledger, void)
         /\ opening'.ref = opening.ref
         /\ opening'.phase # "idle" => opening.phase # "idle"
<1>1. calls' = calls \ {c} /\ c.kind = "open"
  BY DEF OpenReply
<1>2. CASE ~Awaited(c)
  BY <1>1, <1>2, RemoveKeeps DEF OpenReply, FilesNow
<1>3. CASE Awaited(c)
  <2>1. opening' = [opening EXCEPT !.phase = "accepted"] /\ opening.phase = "opening"
    BY <1>1, <1>3 DEF OpenReply, Awaited
  <2>2. /\ opening' \in View0 /\ opening'.phase = "accepted" /\ opening'.n = opening.n
        /\ opening'.ver = opening.ver /\ opening'.ref = opening.ref
    BY <2>1, FilesParts DEF View0
  <2>3. ViewOK(opening', ledger, void)
    BY <2>1, <2>2, FilesParts DEF ViewOK
  <2>4. ASSUME NEW b \in calls PROVE CallOK(b, opening', ledger, void)
    <3>1. CallOK(b, opening, ledger, void)
      BY FilesParts
    <3> QED BY <3>1, <2>1, <2>2 DEF CallOK, PrepareOK, OpenOK, DiscardOK
  <2> QED BY <1>1, <2>1, <2>2, <2>3, <2>4, FilesParts DEF FilesOK
<1> QED BY <1>2, <1>3

LEMMA PrepareBeginsKeeps ==
  ASSUME WorkspaceConstants, FilesNow, NEW c \in calls, PrepareBegins(c)
  PROVE  /\ FilesOK(opening', calls', ledger', void')
         /\ opening'.ref = opening.ref
         /\ opening'.phase # "idle" => opening.phase # "idle"
<1>1. CASE Refused(c) /\ ledger' = ledger /\ void' = void
  BY <1>1, RefusedKeeps
<1>2. CASE /\ ledger' = NoFile /\ void' = OpenIds \ {c.n}
           /\ Overtake(c, {[c EXCEPT !.at = "busy", !.stale = FALSE]})
  <2> DEFINE x == [c EXCEPT !.at = "busy", !.stale = FALSE]
             B == calls \ {c}
             O == {Outdated(b) : b \in B}
  <2>1. calls' = O \cup {x} /\ opening' = opening /\ c.kind = "prepare" /\ c.at = "sent"
    BY <1>2 DEF Overtake, PrepareBegins
  <2>2. c \in Call0 /\ CallOK(c, opening, ledger, void)
    BY FilesParts
  <2>3. /\ x \in Call0 /\ x.kind = "prepare" /\ x.n = c.n /\ x.at = "busy"
    BY <2>1, <2>2 DEF Call0
  <2>4. FilesOK(opening, B, ledger, void)
    BY RemoveKeeps DEF FilesNow
  <2>5. FilesOK(opening, O, ledger, void) /\ \A b \in O : ~Active(b)
    <3> HIDE DEF B
    <3> QED BY <2>4, OutdateKeeps
  <2>6. ASSUME NEW b \in O PROVE b.n # c.n
    <3>1. PICK a \in B : b = Outdated(a)
      OBVIOUS
    <3>2. a \in Call0 /\ Apart(c, a) /\ a # c
      BY FilesParts
    <3>3. a.n # c.n
      BY <2>1, <3>2 DEF Apart
    <3>4. Same(Outdated(a), a)
      BY <3>2, OutdatedIs
    <3> QED BY <3>1, <3>3, <3>4 DEF Same
  <2> HIDE DEF O, x, B
  <2>7. FilesOK(opening, O, NoFile, OpenIds)
    BY <2>5, VoidKeeps
  <2>8. /\ ViewOK(opening, NoFile, OpenIds) /\ O \subseteq Call0
        /\ \A b \in O : CallOK(b, opening, NoFile, OpenIds)
        /\ \A a, b \in O : Apart(a, b)
    BY <2>7 DEF FilesOK
  <2>9. ViewOK(opening, NoFile, void')
    BY <1>2, <2>8 DEF ViewOK
  <2>10. ASSUME NEW b \in O
         PROVE  CallOK(b, opening, NoFile, void') /\ Apart(b, x) /\ Apart(x, b)
    <3>1. CallOK(b, opening, NoFile, OpenIds) /\ b.n # c.n /\ ~Active(b)
      BY <2>5, <2>6, <2>8
    <3> QED BY <3>1, <2>3 DEF CallOK, PrepareOK, OpenOK, DiscardOK, Apart
  <2>11. CallOK(x, opening, NoFile, void')
    <3>1. c.n # NoFile.n
      BY <2>2, IdleIs, Numbers DEF Call0
    <3> QED BY <3>1, <1>2, <2>1, <2>2, <2>3, IdleIs DEF CallOK, PrepareOK, OpenOK, DiscardOK
  <2>12. Apart(x, x) /\ void' \subseteq OpenIds
    BY <1>2 DEF Apart
  <2> QED BY <1>2, <2>1, <2>3, <2>8, <2>9, <2>10, <2>11, <2>12, FilesParts, IdleIs DEF FilesOK
<1> QED BY <1>1, <1>2 DEF PrepareBegins

LEMMA PrepareEndsKeeps ==
  ASSUME WorkspaceConstants, FilesNow, HostOK, NEW c \in calls, PrepareEnds(c)
  PROVE  /\ FilesOK(opening', calls', ledger', void)
         /\ opening'.ref = opening.ref
         /\ opening'.phase # "idle" => opening.phase # "idle"
<1>1. CASE Refused(c) /\ ledger' = ledger
  BY <1>1, RefusedKeeps
<1>2. CASE /\ ~c.stale
           /\ ledger' = [n |-> c.n, ver |-> file, lease |-> c.lease, used |-> FALSE]
           /\ With(c, [c EXCEPT !.at = "done", !.ver = file])
  <2> DEFINE x == [c EXCEPT !.at = "done", !.ver = file]
  <2>1. calls' = (calls \ {c}) \cup {x} /\ opening' = opening /\ c.kind = "prepare" /\ c.at = "busy"
    BY <1>2 DEF With, PrepareEnds
  <2>2. c \in Call0 /\ CallOK(c, opening, ledger, void) /\ Active(c)
    BY <1>2, <2>1, FilesParts DEF Active
  <2>3. file \in 0..MaxFile /\ file # 0
    BY Numbers DEF HostOK
  <2>4. /\ x \in Call0 /\ x.kind = "prepare" /\ x.n = c.n /\ x.at = "done" /\ x.ver = file
        /\ ~Active(x)
    BY <2>1, <2>2, <2>3 DEF Call0, Active
  <2>5. /\ ledger' \in Ledger0 /\ ledger'.n = c.n /\ ledger'.ver = file /\ ledger'.used = FALSE
    BY <1>2, <2>2, <2>3, Numbers DEF Ledger0, Call0
  <2>6. ledger.n = 0 /\ c.n \notin void /\ (opening.n = c.n => opening.ver = 0)
    BY <2>1, <2>2, FilesParts DEF CallOK, PrepareOK, ViewOK
  <2> HIDE DEF x
  <2>7. ViewOK(opening, ledger', void)
    BY <2>5, <2>6, FilesParts DEF ViewOK
  <2>8. ASSUME NEW b \in calls \ {c} PROVE CallOK(b, opening, ledger', void)
    <3>1. CallOK(b, opening, ledger, void) /\ Apart(c, b) /\ b \in Call0 /\ Apart(b, c)
      BY FilesParts
    <3>2. b.n # c.n /\ ~(b.kind = "prepare" /\ Active(b))
      BY <2>1, <2>2, <3>1 DEF Apart
    <3>3. ~(b.kind = "open" /\ Active(b))
      <4>1. b.n # 0
        BY <3>1, Numbers DEF Call0
      <4> QED BY <2>6, <3>1, <4>1 DEF CallOK, OpenOK
    <3> QED BY <2>5, <3>1, <3>2, <3>3 DEF CallOK, PrepareOK, OpenOK, DiscardOK
  <2>9. CallOK(x, opening, ledger', void)
    BY <2>1, <2>2, <2>3, <2>4, <2>5 DEF CallOK, PrepareOK, OpenOK, DiscardOK
  <2>10. \A b \in (calls \ {c}) \cup {x} : CallOK(b, opening, ledger', void)
    BY <2>8, <2>9
  <2>11. FilesOK(opening, (calls \ {c}) \cup {x}, ledger', void)
    BY <2>1, <2>4, <2>5, <2>7, <2>10, FilesParts, ReplaceKeeps
  <2> QED BY <2>1, <2>11
<1> QED BY <1>1, <1>2 DEF PrepareEnds

\* The shell marks its intent as used.
LEMMA UseKeeps ==
  ASSUME NEW o, NEW C, NEW l, NEW v, FilesOK(o, C, l, v), l.n # 0
  PROVE  FilesOK(o, C, [l EXCEPT !.used = TRUE], v)
<1> DEFINE m == [l EXCEPT !.used = TRUE]
<1>1. m \in Ledger0 /\ m.n = l.n /\ m.ver = l.ver /\ m.used = TRUE
  BY DEF FilesOK, Ledger0
<1> HIDE DEF m
<1>2. ViewOK(o, m, v)
  BY <1>1 DEF FilesOK, ViewOK
<1>3. \A c \in C : CallOK(c, o, m, v)
  BY <1>1 DEF FilesOK, CallOK, PrepareOK, OpenOK
<1>4. FilesOK(o, C, m, v)
  BY <1>1, <1>2, <1>3 DEF FilesOK
<1> QED BY <1>4 DEF m

LEMMA OpenBeginsKeeps ==
  ASSUME WorkspaceConstants, FilesNow, NEW c \in calls, OpenBegins(c)
  PROVE  /\ FilesOK(opening', calls', ledger', void)
         /\ opening'.ref = opening.ref
         /\ opening'.phase # "idle" => opening.phase # "idle"
<1> DEFINE m == [ledger EXCEPT !.used = TRUE]
<1>1. /\ c.kind = "open" /\ c.at = "sent" /\ c \in Call0 /\ CallOK(c, opening, ledger, void)
      /\ c.n # 0
  BY FilesParts, Numbers DEF OpenBegins, Call0
<1>2. ledger' = IF ledger.n = c.n THEN m ELSE ledger
  BY DEF OpenBegins
<1>3. ASSUME NEW o, NEW C, FilesOK(o, C, ledger, void)
      PROVE  FilesOK(o, C, ledger', void)
  <2>1. CASE ledger.n = c.n
    BY <1>1, <1>2, <1>3, <2>1, UseKeeps
  <2>2. CASE ledger.n # c.n
    BY <1>2, <1>3, <2>2
  <2> QED BY <2>1, <2>2
<1>4. CASE Refused(c)
  BY <1>3, <1>4, RefusedKeeps
<1>5. CASE /\ ledger.n = c.n /\ ~ledger.used
           /\ With(c, [c EXCEPT !.at = "busy", !.stale = FALSE, !.lease = ledger.lease,
                                !.held = ledger.ver])
  <2> DEFINE x == [c EXCEPT !.at = "busy", !.stale = FALSE, !.lease = ledger.lease,
                            !.held = ledger.ver]
  <2>1. calls' = (calls \ {c}) \cup {x} /\ opening' = opening
    BY <1>5 DEF With
  <2>2. ledger.lease \in Nat /\ ledger.ver \in 0..MaxFile /\ ledger.ver = c.ver
        /\ ledger.n \notin void
    BY <1>1, <1>5, FilesParts DEF Ledger0, CallOK, OpenOK, ViewOK
  <2>3. /\ x \in Call0 /\ x.kind = "open" /\ x.n = c.n /\ x.at = "busy" /\ x.ver = c.ver
        /\ x.held = ledger.ver
    BY <1>1, <2>2 DEF Call0
  <2>4. FilesOK(opening, calls, ledger', void)
    BY <1>3 DEF FilesNow
  <2>5. ledger'.n = ledger.n /\ ledger'.ver = ledger.ver /\ ledger'.used = TRUE
    BY <1>2, <1>5, FilesParts DEF Ledger0
  <2> HIDE DEF x, m
  <2>6. /\ ledger' \in Ledger0 /\ ViewOK(opening, ledger', void)
        /\ \A b \in calls : CallOK(b, opening, ledger', void)
    BY <2>4 DEF FilesOK
  <2>7. CallOK(x, opening, ledger', void)
    BY <1>1, <1>5, <2>2, <2>3, <2>5 DEF CallOK, PrepareOK, OpenOK, DiscardOK
  <2>8. \A b \in (calls \ {c}) \cup {x} : CallOK(b, opening, ledger', void)
    BY <2>6, <2>7
  <2>9. FilesOK(opening, (calls \ {c}) \cup {x}, ledger', void)
    BY <1>1, <2>3, <2>6, <2>8, FilesParts, ReplaceKeeps
  <2> QED BY <2>1, <2>9
<1> QED BY <1>4, <1>5 DEF OpenBegins

LEMMA OpenEndsKeeps ==
  ASSUME WorkspaceConstants, FilesNow, NEW c \in calls, OpenEnds(c)
  PROVE  /\ FilesOK(opening', calls', ledger, void')
         /\ opening'.ref = opening.ref
         /\ opening'.phase # "idle" => opening.phase # "idle"
<1>1. CASE Refused(c) /\ void' = void
  BY <1>1, RefusedKeeps
<1>2. CASE MayDispatch(c) /\ With(c, [c EXCEPT !.at = "done"]) /\ void' = void \cup {c.n}
  <2> DEFINE x == [c EXCEPT !.at = "done"]
  <2>1. calls' = (calls \ {c}) \cup {x} /\ opening' = opening /\ c.kind = "open" /\ c.at = "busy"
    BY <1>2 DEF With, OpenEnds
  <2>2. c \in Call0 /\ CallOK(c, opening, ledger, void) /\ Active(c)
    BY <1>2, <2>1, FilesParts DEF Active, MayDispatch
  <2>3. /\ x \in Call0 /\ x.kind = "open" /\ x.n = c.n /\ x.at = "done" /\ x.ver = c.ver
        /\ ~Active(x)
    BY <2>1, <2>2 DEF Call0, Active
  <2>4. ledger.n = c.n /\ ledger.used
    BY <2>1, <2>2 DEF CallOK, OpenOK
  <2>5. void' \subseteq OpenIds
    BY <1>2, <2>2, FilesParts DEF Call0
  <2> HIDE DEF x
  <2>6. ViewOK(opening, ledger, void')
    BY <2>4, FilesParts DEF ViewOK
  <2>7. ASSUME NEW b \in calls \ {c} PROVE CallOK(b, opening, ledger, void')
    <3>1. CallOK(b, opening, ledger, void) /\ Apart(c, b) /\ Apart(b, c)
      BY FilesParts
    <3>2. b.kind \in {"prepare", "open"} => b.n # c.n
      BY <2>1, <3>1 DEF Apart
    <3> QED BY <1>2, <3>1, <3>2 DEF CallOK, PrepareOK, OpenOK, DiscardOK
  <2>8. CallOK(x, opening, ledger, void')
    BY <2>1, <2>2, <2>3 DEF CallOK, PrepareOK, OpenOK, DiscardOK
  <2>9. \A b \in (calls \ {c}) \cup {x} : CallOK(b, opening, ledger, void')
    BY <2>7, <2>8
  <2>10. FilesOK(opening, (calls \ {c}) \cup {x}, ledger, void')
    BY <2>1, <2>3, <2>5, <2>6, <2>9, FilesParts, ReplaceKeeps
  <2> QED BY <2>1, <2>10
<1> QED BY <1>1, <1>2 DEF OpenEnds

LEMMA DiscardKeeps ==
  ASSUME WorkspaceConstants, FilesNow, NEW c \in calls, DiscardArrives(c)
  PROVE  FilesOK(opening', calls', ledger', void') /\ opening' = opening
<1>1. c.kind = "discard" /\ c \in Call0 /\ void' = void \cup {c.n}
  BY FilesParts DEF DiscardArrives
<1> DEFINE B == calls \ {c}
<1>2. FilesOK(opening, B, ledger, void)
  BY RemoveKeeps DEF FilesNow
<1>3. \A b \in B : b.kind = "prepare" => b.n # c.n
  BY <1>1, FilesParts DEF Apart
<1>4. void' \subseteq OpenIds
  BY <1>1, FilesParts DEF Call0
<1> HIDE DEF B
<1>5. CASE ledger.n # c.n
  <2>1. calls' = B /\ opening' = opening /\ ledger' = ledger
    BY <1>5 DEF DiscardArrives, B
  <2>2. ViewOK(opening, ledger, void')
    BY <1>1, <1>2, <1>5 DEF FilesOK, ViewOK
  <2>3. ASSUME NEW b \in B PROVE CallOK(b, opening, ledger, void')
    <3>1. CallOK(b, opening, ledger, void) /\ (b.kind = "prepare" => b.n # c.n)
      BY <1>2, <1>3 DEF FilesOK
    <3> QED BY <1>1, <1>5, <3>1 DEF CallOK, PrepareOK, OpenOK, DiscardOK
  <2> QED BY <1>2, <1>4, <2>1, <2>2, <2>3 DEF FilesOK
<1>6. CASE ledger.n = c.n
  <2> DEFINE O == {Outdated(b) : b \in B}
  <2>1. calls' = O \cup {} /\ opening' = opening /\ ledger' = NoFile
    BY <1>6 DEF DiscardArrives, Overtake, B
  <2>2. FilesOK(opening, O, ledger, void) /\ \A b \in O : ~Active(b)
    BY <1>2, OutdateKeeps
  <2> HIDE DEF O
  <2>3. FilesOK(opening, O, NoFile, OpenIds)
    BY <2>2, VoidKeeps
  <2>4. ViewOK(opening, NoFile, void')
    BY <2>3, IdleIs DEF FilesOK, ViewOK
  <2>5. ASSUME NEW b \in O PROVE CallOK(b, opening, NoFile, void')
    <3>1. CallOK(b, opening, NoFile, OpenIds)
      BY <2>3 DEF FilesOK
    <3> QED BY <1>4, <3>1 DEF CallOK, PrepareOK, OpenOK, DiscardOK
  <2>6. calls' = O
    BY <2>1
  <2> QED BY <1>4, <2>1, <2>3, <2>4, <2>5, <2>6 DEF FilesOK
<1> QED BY <1>5, <1>6

-----------------------------------------------------------------------------
(* Events. *)

\* The part of EventsOK that a reader keeps while it follows a Run.
LEMMA NoEventsOK ==
  ASSUME WorkspaceConstants
  PROVE  EventsOK(NoEvents) /\ ~NoEvents.target
<1>1. IsFiniteSet({}) /\ Cardinality({}) = 0
  BY FS_EmptySet
<1> QED BY <1>1 DEF NoEvents, EventsOK, Events0, Revision, WorkspaceConstants

LEMMA RefreshKeeps ==
  ASSUME NEW e, EventsOK(e)
  PROVE  /\ EventsOK(Refresh(e)) /\ Refresh(e).target = e.target /\ Refresh(e).paused = e.paused
<1> DEFINE f == [e EXCEPT !.phase = "wait", !.second = FALSE, !.shown = "reading", !.missed = FALSE]
<1>1. e \in Events0
  BY DEF EventsOK
<1>2. /\ f \in Events0 /\ f.target = e.target /\ f.paused = e.paused /\ f.keys = e.keys
      /\ f.phase = "wait" /\ f.shown = "reading" /\ f.got = e.got /\ f.stored = e.stored
      /\ f.heard = e.heard
  BY <1>1 DEF Events0
<1>3. Refresh(e) = IF ~e.target \/ e.phase # "none" THEN e ELSE f
  BY DEF Refresh
<1> HIDE DEF f
<1>4. e.target => EventsOK(f)
  BY <1>2 DEF EventsOK
<1> QED BY <1>2, <1>3, <1>4

LEMMA SetTargetKeeps ==
  ASSUME NEW e, EventsOK(e), NEW on \in BOOLEAN
  PROVE  /\ EventsOK(SetTarget(e, on)) /\ SetTarget(e, on).target = on
         /\ SetTarget(e, on).paused = e.paused
<1> DEFINE f == [e EXCEPT !.target = on, !.keys = {}, !.phase = "none", !.shown = "idle"]
           g == [f EXCEPT !.phase = "wait", !.second = FALSE, !.shown = "reading", !.missed = FALSE]
<1>1. e \in Events0 /\ IsFiniteSet({}) /\ Cardinality({}) = 0
  BY FS_EmptySet DEF EventsOK
<1>2. /\ f \in Events0 /\ f.target = on /\ f.paused = e.paused /\ f.keys = {}
      /\ f.phase = "none" /\ f.shown = "idle" /\ f.got = e.got /\ f.stored = e.stored
      /\ f.heard = e.heard
  BY <1>1 DEF Events0
<1> HIDE DEF f
<1>3. /\ g \in Events0 /\ g.target = on /\ g.paused = e.paused /\ g.keys = {}
      /\ g.phase = "wait" /\ g.shown = "reading" /\ g.got = e.got /\ g.stored = e.stored
      /\ g.heard = e.heard
  BY <1>2 DEF Events0
<1>4. Refresh(f) = IF ~on THEN f ELSE g
  BY <1>2 DEF Refresh
<1>5. SetTarget(e, on) = IF e.target = on THEN e ELSE Refresh(f)
  BY DEF SetTarget, f
<1> HIDE DEF g
<1>6. ~on => EventsOK(f)
  BY <1>1, <1>2 DEF EventsOK
<1>7. on => EventsOK(g)
  BY <1>1, <1>3 DEF EventsOK
<1> QED BY <1>2, <1>3, <1>4, <1>5, <1>6, <1>7

LEMMA PausedKeeps ==
  ASSUME NEW e, EventsOK(e), NEW p \in BOOLEAN
  PROVE  /\ EventsOK([e EXCEPT !.paused = p])
         /\ [e EXCEPT !.paused = p].target = e.target /\ [e EXCEPT !.paused = p].paused = p
<1> DEFINE f == [e EXCEPT !.paused = p]
<1>1. e \in Events0
  BY DEF EventsOK
<1>2. /\ f \in Events0 /\ f.target = e.target /\ f.paused = p /\ f.keys = e.keys
      /\ f.phase = e.phase /\ f.read = e.read /\ f.second = e.second /\ f.ans = e.ans
      /\ f.shown = e.shown /\ f.got = e.got /\ f.stored = e.stored /\ f.heard = e.heard
      /\ f.missed = e.missed
  BY <1>1 DEF Events0
<1> HIDE DEF f
<1>3. EventsOK(f)
  BY <1>2 DEF EventsOK, Revision
<1> QED BY <1>2, <1>3 DEF f

LEMMA StoppedKeeps ==
  ASSUME NEW e, EventsOK(e)
  PROVE  EventsOK(Stopped(e)) /\ ~Stopped(e).target /\ Stopped(e).paused
BY SetTargetKeeps, PausedKeeps DEF Stopped

LEMMA OtherRunKeeps ==
  ASSUME WorkspaceConstants, NEW e, EventsOK(e)
  PROVE  /\ EventsOK(OtherRun(e)) /\ ~OtherRun(e).target /\ OtherRun(e).paused = e.paused
<1> DEFINE f == SetTarget(e, FALSE)
           g == [f EXCEPT !.got = 0, !.stored = 0, !.heard = 0]
<1>1. EventsOK(f) /\ ~f.target /\ f.paused = e.paused
  BY SetTargetKeeps
<1> HIDE DEF f
<1>2. f \in Events0 /\ f.keys = {} /\ f.phase = "none" /\ f.shown = "idle" /\ f.target = FALSE
  BY <1>1 DEF EventsOK, Events0
<1>3. /\ g \in Events0 /\ g.target = FALSE /\ g.paused = f.paused /\ g.keys = {}
      /\ g.phase = "none" /\ g.shown = "idle" /\ g.got = 0 /\ g.stored = 0 /\ g.heard = 0
  BY <1>2 DEF Events0
<1> HIDE DEF g
<1>4. IsFiniteSet({}) /\ 0 <= MaxEnds
  BY FS_EmptySet DEF WorkspaceConstants
<1>5. EventsOK(g)
  BY <1>3, <1>4 DEF EventsOK
<1> QED BY <1>1, <1>3, <1>5 DEF OtherRun, f, g

\* The details follow what is in front.
LEMMA FollowKeeps ==
  ASSUME NEW e, EventsOK(e), Follow(e), EventsOK(events)
  PROVE  /\ EventsOK(events')
         /\ focus = "details" /\ events'.target =>
              ui'.overlay = "details" /\ session' # 0 /\ visible' /\ ~events'.paused
         /\ focus # "details" => events' = events
<1> DEFINE on == ui'.overlay = "details" /\ ~e.paused /\ session' # 0 /\ visible'
<1>1. CASE focus # "details"
  BY <1>1 DEF Follow
<1>2. CASE focus = "details"
  <2>1. events' = SetTarget(e, on)
    BY <1>2 DEF Follow
  <2>2. on \in BOOLEAN
    OBVIOUS
  <2> HIDE DEF on
  <2>3. EventsOK(events') /\ events'.target = on /\ events'.paused = e.paused
    BY <2>1, <2>2, SetTargetKeeps
  <2> QED BY <1>2, <2>3 DEF on
<1> QED BY <1>1, <1>2

LEMMA TopOfTwo ==
  ASSUME NEW a \in Nat, NEW b \in Nat
  PROVE  Top({a, b}) = IF a >= b THEN a ELSE b
<1> DEFINE S == {a, b}
           t == IF a >= b THEN a ELSE b
<1>1. t \in S /\ \A y \in S : y <= t
  OBVIOUS
<1>2. Top(S) \in S /\ \A y \in S : y <= Top(S)
  BY <1>1 DEF Top
<1>3. Top(S) \in Nat /\ t \in Nat
  BY <1>2
<1>4. Top(S) <= t /\ t <= Top(S)
  BY <1>1, <1>2
<1> QED BY <1>3, <1>4

LEMMA EventsFields ==
  ASSUME EventsOK(events)
  PROVE  /\ events \in Events0 /\ IsFiniteSet(events.keys) /\ events.keys \subseteq 1..events.heard
         /\ events.heard <= events.stored /\ events.got <= events.stored
         /\ events.stored <= MaxEnds /\ Revision(events) \in Nat
         /\ events.heard \in Nat /\ events.got \in Nat /\ events.stored \in Nat
         /\ events.read \in Nat /\ events.ans \in Nat
BY FS_CardinalityType DEF EventsOK, Events0, Revision

LEMMA HearKeeps ==
  ASSUME WorkspaceConstants, EventsOK(events), HearBoundary
  PROVE  EventsOK(events') /\ events'.target = events.target /\ events'.paused = events.paused
<1> DEFINE told(k) == [events EXCEPT !.heard = Top({k, @})]
           more(k) == [told(k) EXCEPT !.keys = @ \cup {k},
                                      !.missed = @ \/ (events.phase # "none" /\ events.second)]
<1>1. PICK k \in 1..events.stored :
        /\ k >= events.heard
        /\ events' = IF ~events.target \/ k \in events.keys THEN told(k) ELSE Refresh(more(k))
  BY DEF HearBoundary
<1>2. k \in Nat /\ k # 0 /\ k <= events.stored
  BY <1>1, EventsFields
<1>3. Top({k, events.heard}) = k
  BY <1>1, <1>2, EventsFields, TopOfTwo
<1> DEFINE t == told(k)
           m == more(k)
<1>4. /\ t \in Events0 /\ t.target = events.target /\ t.paused = events.paused
      /\ t.keys = events.keys /\ t.phase = events.phase /\ t.read = events.read
      /\ t.second = events.second /\ t.ans = events.ans /\ t.shown = events.shown
      /\ t.got = events.got /\ t.stored = events.stored /\ t.heard = k
      /\ t.missed = events.missed
  BY <1>2, <1>3, EventsFields DEF Events0
<1>5. m = [t EXCEPT !.keys = @ \cup {k}, !.missed = @ \/ (events.phase # "none" /\ events.second)]
  OBVIOUS
<1> HIDE DEF t, m, told, more
<1>6. /\ m \in Events0 /\ m.target = events.target /\ m.paused = events.paused
      /\ m.keys = events.keys \cup {k} /\ m.phase = events.phase /\ m.read = events.read
      /\ m.second = events.second /\ m.ans = events.ans /\ m.shown = events.shown
      /\ m.got = events.got /\ m.stored = events.stored /\ m.heard = k
      /\ m.missed = (events.missed \/ (events.phase # "none" /\ events.second))
  BY <1>2, <1>4, <1>5 DEF Events0
<1>7. events.keys \subseteq 1..k
  BY <1>1, <1>2, EventsFields
<1>8. CASE ~events.target \/ k \in events.keys
  <2>1. events.target => k = events.heard
    BY <1>1, <1>2, <1>8, EventsFields
  <2>2. EventsOK(t)
    <3>1. CASE events.target
      <4>1. t = events
        BY <2>1, <3>1, <1>3, EventsFields DEF t, told, Events0
      <4> QED BY <4>1
    <3>2. CASE ~events.target
      <4>1. events.shown = "idle" /\ events.phase = "none" /\ events.keys = {}
        BY <3>2 DEF EventsOK
      <4> QED BY <1>2, <1>4, <3>2, <4>1, EventsFields DEF EventsOK, Revision
    <3> QED BY <3>1, <3>2
  <2> QED BY <1>1, <1>4, <1>8, <2>2 DEF t
<1>9. CASE events.target /\ k \notin events.keys
  <2>1. IsFiniteSet(m.keys) /\ Revision(m) = Revision(events) + 1
    <3>1. IsFiniteSet(events.keys)
      BY EventsFields
    <3>2. /\ IsFiniteSet(events.keys \cup {k})
          /\ Cardinality(events.keys \cup {k}) = Cardinality(events.keys) + 1
      BY <1>9, <3>1, FS_AddElement
    <3>3. m.keys = events.keys \cup {k}
      BY <1>6
    <3> QED BY <3>2, <3>3 DEF Revision
  <2>2. m.keys \subseteq 1..m.heard
    BY <1>2, <1>6, <1>7
  <2>3. events.phase = "none" \/ EventsOK(m)
    <3> SUFFICES ASSUME events.phase # "none" PROVE EventsOK(m)
      OBVIOUS
    <3>1. /\ events.shown = "reading"
          /\ events.phase \in {"sent", "answer"} => events.read <= Revision(events)
          /\ events.phase = "answer" => events.ans <= events.stored
      BY DEF EventsOK
    <3>2. m.phase \in {"sent", "answer"} => m.read <= Revision(m)
      BY <1>6, <2>1, <3>1, EventsFields
    <3>3. m.phase = "answer" => (m.second /\ m.missed) \/ (~m.second /\ m.read < Revision(m))
      <4>1. m.second = events.second /\ m.second \in BOOLEAN /\ m.phase = events.phase
            /\ m.read = events.read
        BY <1>6 DEF Events0
      <4>2. m.missed = (events.missed \/ (events.phase # "none" /\ events.second))
        BY <1>6
      <4>3. m.second => m.missed
        BY <4>1, <4>2
      <4>4. m.phase = "answer" => m.read < Revision(m)
        BY <4>1, <2>1, <3>1, EventsFields
      <4> QED BY <4>1, <4>3, <4>4
    <3> QED BY <1>2, <1>6, <1>9, <2>1, <2>2, <3>1, <3>2, <3>3, EventsFields DEF EventsOK
  <2>4. CASE events.phase # "none"
    <3>1. events' = m
      BY <1>1, <1>6, <1>9, <2>4 DEF Refresh, m
    <3> QED BY <1>6, <2>3, <2>4, <3>1
  <2>5. CASE events.phase = "none"
    <3> DEFINE f == [m EXCEPT !.phase = "wait", !.second = FALSE, !.shown = "reading",
                              !.missed = FALSE]
    <3>1. events' = f
      BY <1>1, <1>6, <1>9, <2>5 DEF Refresh, m
    <3>2. /\ f \in Events0 /\ f.target = m.target /\ f.paused = m.paused /\ f.keys = m.keys
          /\ f.phase = "wait" /\ f.shown = "reading" /\ f.got = m.got /\ f.stored = m.stored
          /\ f.heard = m.heard
      BY <1>6 DEF Events0
    <3> HIDE DEF f
    <3>3. EventsOK(f)
      BY <1>2, <1>6, <1>9, <2>1, <2>2, <3>2, EventsFields DEF EventsOK
    <3> QED BY <1>6, <3>1, <3>2, <3>3
  <2> QED BY <2>4, <2>5
<1> QED BY <1>8, <1>9

\* What the reader's own steps keep: only Resume may give it a target.
LEMMA EventStepsKeep ==
  ASSUME WorkspaceConstants, EventsOK(events), EventSteps
  PROVE  /\ EventsOK(events')
         /\ \/ events'.target = events.target /\ events'.paused = events.paused
            \/ events'.target =>
                 ui'.overlay = "details" /\ session' # 0 /\ visible' /\ ~events'.paused
<1>1. focus = "details"
  BY DEF EventSteps
<1>2. CASE Resume
  <2>1. Follow([events EXCEPT !.paused = FALSE])
    BY <1>2 DEF Resume
  <2>2. EventsOK([events EXCEPT !.paused = FALSE])
    BY PausedKeeps
  <2> QED BY <1>1, <2>1, <2>2, FollowKeeps
<1>3. CASE HearBoundary
  BY <1>3, HearKeeps
<1>4. CASE StoreBoundary
  <2>1. events' = [events EXCEPT !.stored = @ + 1] /\ events.stored < MaxEnds
    BY <1>4 DEF StoreBoundary
  <2>2. /\ events' \in Events0 /\ events'.target = events.target /\ events'.paused = events.paused
        /\ events'.keys = events.keys /\ events'.phase = events.phase
        /\ events'.read = events.read /\ events'.second = events.second
        /\ events'.ans = events.ans /\ events'.shown = events.shown /\ events'.got = events.got
        /\ events'.stored = events.stored + 1 /\ events'.heard = events.heard
        /\ events'.missed = events.missed
    BY <2>1, EventsFields DEF Events0
  <2>3. events'.stored <= MaxEnds
    BY <2>1, <2>2, EventsFields DEF WorkspaceConstants
  <2>4. Revision(events') = Revision(events)
    BY <2>2 DEF Revision
  <2>5. /\ events'.heard <= events'.stored /\ events'.got <= events'.stored
        /\ events.ans <= events.stored => events'.ans <= events'.stored
    BY <2>2, EventsFields
  <2>6. EventsOK(events')
    BY <2>2, <2>3, <2>4, <2>5 DEF EventsOK
  <2> QED BY <2>2, <2>6
<1>5. CASE AskEvents
  BY <1>5, RefreshKeeps DEF AskEvents
<1>6. CASE SendEvents
  <2>1. events' = [events EXCEPT !.phase = "sent", !.read = Revision(events)]
        /\ events.phase = "wait"
    BY <1>6 DEF SendEvents
  <2>2. /\ events' \in Events0 /\ events'.target = events.target /\ events'.paused = events.paused
        /\ events'.keys = events.keys /\ events'.phase = "sent"
        /\ events'.read = Revision(events) /\ events'.shown = events.shown
        /\ events'.got = events.got /\ events'.stored = events.stored
        /\ events'.heard = events.heard /\ events'.missed = events.missed
    BY <2>1, EventsFields DEF Events0
  <2>3. Revision(events') = Revision(events)
    BY <2>2 DEF Revision
  <2>4. EventsOK(events')
    BY <2>1, <2>2, <2>3, EventsFields DEF EventsOK
  <2> QED BY <2>2, <2>4
<1>7. CASE AnswerEvents
  <2>1. events' = [events EXCEPT !.phase = "answer", !.ans = events.stored]
        /\ events.phase = "sent"
    BY <1>7 DEF AnswerEvents
  <2>2. /\ events' \in Events0 /\ events'.target = events.target /\ events'.paused = events.paused
        /\ events'.keys = events.keys /\ events'.phase = "answer"
        /\ events'.read = events.read /\ events'.shown = events.shown
        /\ events'.ans = events.stored
        /\ events'.got = events.got /\ events'.stored = events.stored
        /\ events'.heard = events.heard /\ events'.missed = events.missed
    BY <2>1, EventsFields DEF Events0
  <2>3. Revision(events') = Revision(events)
    BY <2>2 DEF Revision
  <2>4. EventsOK(events')
    BY <2>1, <2>2, <2>3, EventsFields DEF EventsOK
  <2> QED BY <2>2, <2>4
<1>8. CASE ReceiveEvents
  <2> DEFINE t == Top({events.ans, events.got})
             m == [events EXCEPT !.got = Top({events.ans, @}), !.ans = 0]
  <2>1. /\ events.phase = "answer"
        /\ events' = IF Outrun(events) THEN [m EXCEPT !.phase = "wait", !.second = TRUE]
                     ELSE [m EXCEPT !.phase = "none", !.shown = "ready"]
    BY <1>8 DEF ReceiveEvents
  <2>2. t = IF events.ans >= events.got THEN events.ans ELSE events.got
    BY EventsFields, TopOfTwo
  <2>3. /\ events.ans <= events.stored /\ events.target /\ events.shown = "reading"
        /\ \/ events.ans >= events.heard
           \/ events.second /\ events.missed
           \/ ~events.second /\ events.read < Revision(events)
    BY <2>1 DEF EventsOK
  <2>4. m = [events EXCEPT !.got = t, !.ans = 0]
    OBVIOUS
  <2>5. t \in Nat /\ t <= events.stored /\ t >= events.ans
    BY <2>2, <2>3, EventsFields
  <2> HIDE DEF t, m
  <2>6. /\ m \in Events0 /\ m.target = events.target /\ m.paused = events.paused
        /\ m.keys = events.keys /\ m.got = t /\ m.stored = events.stored
        /\ m.heard = events.heard /\ m.missed = events.missed /\ m.second = events.second
        /\ m.shown = events.shown
    BY <2>4, <2>5, EventsFields DEF Events0
  <2>7. CASE Outrun(events)
    <3>1. events' = [m EXCEPT !.phase = "wait", !.second = TRUE]
      BY <2>1, <2>7
    <3>2. /\ events' \in Events0 /\ events'.target = m.target /\ events'.paused = m.paused
          /\ events'.keys = m.keys /\ events'.phase = "wait" /\ events'.shown = m.shown
          /\ events'.got = m.got /\ events'.stored = m.stored /\ events'.heard = m.heard
      BY <2>6, <3>1 DEF Events0
    <3>3. EventsOK(events')
      BY <2>3, <2>5, <2>6, <3>2, EventsFields DEF EventsOK
    <3> QED BY <2>6, <3>2, <3>3
  <2>8. CASE ~Outrun(events)
    <3>1. events' = [m EXCEPT !.phase = "none", !.shown = "ready"]
      BY <2>1, <2>8
    <3>2. /\ events' \in Events0 /\ events'.target = m.target /\ events'.paused = m.paused
          /\ events'.keys = m.keys /\ events'.phase = "none" /\ events'.shown = "ready"
          /\ events'.got = m.got /\ events'.stored = m.stored /\ events'.heard = m.heard
          /\ events'.missed = m.missed
      BY <2>6, <3>1 DEF Events0
    <3>3. events.ans >= events.heard \/ events.missed
      BY <2>3, <2>8 DEF Outrun
    <3>4. events'.got >= events'.heard \/ events'.missed
      BY <2>5, <2>6, <3>2, <3>3, EventsFields
    <3>5. EventsOK(events')
      BY <2>3, <2>5, <2>6, <3>2, <3>4, EventsFields DEF EventsOK
    <3> QED BY <2>6, <3>2, <3>5
  <2> QED BY <2>7, <2>8
<1>9. CASE FailEvents
  <2>1. events.phase = "sent" /\ events.target /\ events.shown = "reading"
    BY <1>9 DEF FailEvents, EventsOK
  <2>2. CASE events' = [events EXCEPT !.phase = "wait"]
    <3>1. /\ events' \in Events0 /\ events'.target = events.target
          /\ events'.paused = events.paused /\ events'.keys = events.keys
          /\ events'.phase = "wait" /\ events'.shown = events.shown /\ events'.got = events.got
          /\ events'.stored = events.stored /\ events'.heard = events.heard
      BY <2>2, EventsFields DEF Events0
    <3>2. EventsOK(events')
      BY <2>1, <3>1 DEF EventsOK
    <3> QED BY <3>1, <3>2
  <2>3. CASE events' = [events EXCEPT !.phase = "none", !.shown = "error"]
    <3>1. /\ events' \in Events0 /\ events'.target = events.target
          /\ events'.paused = events.paused /\ events'.keys = events.keys
          /\ events'.phase = "none" /\ events'.shown = "error" /\ events'.got = events.got
          /\ events'.stored = events.stored /\ events'.heard = events.heard
      BY <2>3, EventsFields DEF Events0
    <3>2. EventsOK(events')
      BY <2>1, <3>1 DEF EventsOK
    <3> QED BY <3>1, <3>2
  <2> QED BY <1>9, <2>2, <2>3 DEF FailEvents
<1> QED BY <1>2, <1>3, <1>4, <1>5, <1>6, <1>7, <1>8, <1>9 DEF EventSteps

-----------------------------------------------------------------------------
(* Steps in front of the conversation. *)

LEMMA Parts ==
  ASSUME ChatInv
  PROVE  HostOK /\ ImagesNow /\ FilesNow /\ EventsNow /\ EventsOK(events) /\ Front
BY DEF ChatInv, EventsNow

HostSame == UNCHANGED <<host, seen, asking, session, visible, file, focus>>

LEMMA HostStays == ASSUME HostOK, HostSame, shown' \subseteq Refs PROVE HostOK'
BY DEF HostOK, HostSame

LEMMA ImagesStay ==
  ASSUME ImagesNow, SameImages, UNCHANGED <<session, visible, focus, shown>>
  PROVE  ImagesNow'
BY DEF ImagesNow, SameImages, Pictures

LEMMA ImageParts ==
  ASSUME ImagesNow, NEW r \in Refs, readers[r].phase = "ready"
  PROVE  readers[r].res \in urls /\ readers[r].res \in 0..MaxFile /\ session # 0 /\ Pictures
BY DEF ImagesNow, ImagesOK, Reader

LEMMA ImageStepsAll ==
  ASSUME WorkspaceConstants, ChatInv, ImageSteps, HostSame
  PROVE  ChatInv'
<1>1. UNCHANGED <<shown, ledger, events, ui, void, opening, calls>>
  BY DEF ImageSteps, SameFiles
<1>2. ImagesOK(session, Pictures, shown, query', readers', urls')
  BY ImageStepsKeep DEF ImageSteps
<1>3. ImagesNow'
  BY <1>1, <1>2 DEF ImagesNow, HostSame, Pictures
<1>4. HostOK'
  BY <1>1, Parts, HostStays DEF HostOK
<1>5. FilesNow' /\ EventsNow'
  BY <1>1, Parts DEF FilesNow, EventsNow
<1>6. Front'
  BY <1>1, Parts DEF Front, HostSame
<1> QED BY <1>3, <1>4, <1>5, <1>6 DEF ChatInv

LEMMA FileAnswersAll ==
  ASSUME WorkspaceConstants, ChatInv, FileAnswers, HostSame
  PROVE  ChatInv'
<1>1. UNCHANGED <<shown, ledger, events, ui, void>> /\ SameImages
  BY DEF FileAnswers
<1>2. /\ FilesOK(opening', calls', ledger, void) /\ opening'.ref = opening.ref
      /\ opening'.phase # "idle" => opening.phase # "idle"
  BY Parts, PrepareReplyKeeps, OpenReplyKeeps DEF FileAnswers
<1>3. HostOK' /\ ImagesNow'
  BY <1>1, Parts, HostStays, ImagesStay DEF HostOK, HostSame
<1>4. FilesNow' /\ EventsNow'
  BY <1>1, <1>2, Parts DEF FilesNow, EventsNow
<1>5. Front'
  BY <1>1, <1>2, Parts DEF Front, HostSame
<1> QED BY <1>3, <1>4, <1>5 DEF ChatInv

LEMMA FileCommandsAll ==
  ASSUME WorkspaceConstants, ChatInv, FileCommands, HostSame
  PROVE  ChatInv'
<1>1. UNCHANGED <<shown, events, ui>> /\ SameImages
  BY DEF FileCommands
<1>2. /\ FilesOK(opening', calls', ledger', void') /\ opening'.ref = opening.ref
      /\ opening'.phase # "idle" => opening.phase # "idle"
  <2>1. PICK c \in calls : \/ PrepareBegins(c)
                           \/ PrepareEnds(c) /\ UNCHANGED void
                           \/ OpenBegins(c) /\ UNCHANGED void
                           \/ OpenEnds(c) /\ UNCHANGED ledger
                           \/ DiscardArrives(c)
    BY DEF FileCommands
  <2>2. CASE PrepareBegins(c)
    BY <2>2, Parts, PrepareBeginsKeeps
  <2>3. CASE PrepareEnds(c) /\ UNCHANGED void
    BY <2>3, Parts, PrepareEndsKeeps
  <2>4. CASE OpenBegins(c) /\ UNCHANGED void
    BY <2>4, Parts, OpenBeginsKeeps
  <2>5. CASE OpenEnds(c) /\ UNCHANGED ledger
    BY <2>5, Parts, OpenEndsKeeps
  <2>6. CASE DiscardArrives(c)
    BY <2>6, Parts, DiscardKeeps
  <2> QED BY <2>1, <2>2, <2>3, <2>4, <2>5, <2>6
<1>3. HostOK' /\ ImagesNow'
  BY <1>1, Parts, HostStays, ImagesStay DEF HostOK, HostSame
<1>4. FilesNow' /\ EventsNow'
  BY <1>1, <1>2, Parts DEF FilesNow, EventsNow
<1>5. Front'
  BY <1>1, <1>2, Parts DEF Front, HostSame
<1> QED BY <1>3, <1>4, <1>5 DEF ChatInv

LEMMA EventStepsAll ==
  ASSUME WorkspaceConstants, ChatInv, EventSteps, HostSame
  PROVE  ChatInv'
<1>1. UNCHANGED <<shown, ledger, ui, void, opening, calls>> /\ SameImages /\ focus = "details"
  BY DEF EventSteps, SameFiles
<1>2. /\ EventsOK(events')
      /\ \/ events'.target = events.target /\ events'.paused = events.paused
         \/ events'.target =>
              ui'.overlay = "details" /\ session' # 0 /\ visible' /\ ~events'.paused
  BY Parts, EventStepsKeep
<1>3. HostOK' /\ ImagesNow'
  BY <1>1, Parts, HostStays, ImagesStay DEF HostOK, HostSame
<1>4. FilesNow' /\ EventsNow'
  BY <1>1, <1>2, Parts DEF FilesNow, EventsNow
<1>5. Front'
  BY <1>1, <1>2, Parts DEF Front, HostSame
<1> QED BY <1>3, <1>4, <1>5 DEF ChatInv

\* What follows a view that changed.
LEMMA FollowFront ==
  ASSUME ChatInv, NEW e, EventsOK(e), Follow(e), UNCHANGED focus
  PROVE  /\ EventsNow'
         /\ events'.target => focus' = "details" /\ ui'.overlay = "details" /\ session' # 0
                              /\ visible' /\ ~events'.paused
<1>1. /\ EventsOK(events')
      /\ focus = "details" /\ events'.target =>
           ui'.overlay = "details" /\ session' # 0 /\ visible' /\ ~events'.paused
      /\ focus # "details" => events' = events
  BY Parts, FollowKeeps
<1>2. events.target => focus = "details"
  BY Parts DEF Front
<1> QED BY <1>1, <1>2 DEF EventsNow

LEMMA UiIs ==
  ASSUME WorkspaceConstants
  PROVE  /\ NoOverlay \in Ui0 /\ NoOverlay.overlay = "none" /\ NoOverlay.cancel = FALSE
         /\ \A kind \in {"commands", "details", "image"}, v \in 0..MaxFile :
              LET u == [Viewed(kind) EXCEPT !.image = v]
              IN  u \in Ui0 /\ u.overlay = kind /\ u.cancel = FALSE
         /\ \A kind \in {"commands", "details"} :
              Viewed(kind) \in Ui0 /\ Viewed(kind).overlay = kind /\ Viewed(kind).cancel = FALSE
BY Numbers DEF NoOverlay, Ui0, Viewed

LEMMA UiSteps ==
  ASSUME WorkspaceConstants, NEW u \in Ui0
  PROVE  /\ Uncancelled(u) \in Ui0 /\ Uncancelled(u).overlay = u.overlay
         /\ Uncancelled(u).cancel = FALSE
         /\ AfterRun(u) \in Ui0 /\ AfterRun(u).cancel = u.cancel
         /\ AfterRun(u).overlay \in {"none", "details"}
         /\ AfterRun(u).overlay = "details" => u.overlay = "details"
         /\ WithoutImage(u) \in Ui0 /\ WithoutImage(u).overlay # "image"
         /\ WithoutImage(u).overlay \in {u.overlay, "none"}
         /\ Uncancelled(NoOverlay) = NoOverlay /\ AfterRun(NoOverlay) = NoOverlay
         /\ WithoutImage(NoOverlay) = NoOverlay
<1>1. 0 \in 0..MaxFile
  BY Numbers
<1>2. /\ Uncancelled(u) \in Ui0 /\ Uncancelled(u).overlay = u.overlay
      /\ Uncancelled(u).cancel = FALSE
  BY DEF Ui0, Uncancelled
<1>3. /\ AfterRun(u) \in Ui0 /\ AfterRun(u).cancel = u.cancel
      /\ AfterRun(u).overlay \in {"none", "details"}
      /\ AfterRun(u).overlay = "details" => u.overlay = "details"
  <2>1. CASE u.overlay = "details"
    BY <2>1 DEF AfterRun
  <2>2. CASE u.overlay # "details"
    BY <1>1, <2>2 DEF AfterRun, Ui0
  <2> QED BY <2>1, <2>2
<1>4. /\ WithoutImage(u) \in Ui0 /\ WithoutImage(u).overlay # "image"
      /\ WithoutImage(u).overlay \in {u.overlay, "none"}
  BY UiIs DEF WithoutImage
<1>5. /\ Uncancelled(NoOverlay) = NoOverlay /\ AfterRun(NoOverlay) = NoOverlay
      /\ WithoutImage(NoOverlay) = NoOverlay
  <2>1. Uncancelled(NoOverlay) = NoOverlay
    <3>1. NoOverlay \in Ui0 /\ NoOverlay.cancel = FALSE
      BY UiIs
    <3> QED BY <3>1 DEF Ui0, Uncancelled
  <2>2. AfterRun(NoOverlay) = NoOverlay
    BY DEF NoOverlay, AfterRun
  <2>3. WithoutImage(NoOverlay) = NoOverlay
    BY DEF NoOverlay, WithoutImage
  <2> QED BY <2>1, <2>2, <2>3
<1> QED BY <1>2, <1>3, <1>4, <1>5

\* Overlays, and the question before a cancellation.
LEMMA OverlaysAll ==
  ASSUME WorkspaceConstants, ChatInv, HostSame, UNCHANGED ledger,
         OpenOverlay \/ CloseOverlay \/ RequestCancel \/ RunMoves
  PROVE  ChatInv'
<1>1. UNCHANGED <<opening, calls, shown, void>> /\ SameImages
  BY DEF OpenOverlay, CloseOverlay, RequestCancel, RunMoves, SameFiles
<1>2. HostOK' /\ ImagesNow' /\ FilesNow' /\ UNCHANGED focus
  BY <1>1, Parts, HostStays, ImagesStay DEF HostOK, HostSame, FilesNow
<1>3. ASSUME NEW e, EventsOK(e), Follow(e),
             ui' \in Ui0, ui'.overlay = "image" => ui.overlay = "image",
             ui'.cancel => ui'.overlay = "none" /\ session # 0 /\ visible,
             opening.phase # "idle" => ui' = NoOverlay
      PROVE  ChatInv'
  <2>1. /\ EventsNow'
        /\ events'.target => focus' = "details" /\ ui'.overlay = "details" /\ session' # 0
                             /\ visible' /\ ~events'.paused
    BY <1>2, <1>3, FollowFront
  <2>2. Front'
    BY <1>1, <1>3, <2>1, Parts DEF Front, HostSame
  <2> QED BY <1>2, <2>1, <2>2 DEF ChatInv
<1>4. ui \in Ui0 /\ EventsOK(events)
  BY Parts DEF Front
<1>5. CASE OpenOverlay
  <2>1. PICK kind \in Overlays : ui' = Viewed(kind)
    BY <1>5 DEF OpenOverlay
  <2>2. PICK paused \in {events.paused, FALSE} : Follow([events EXCEPT !.paused = paused])
    BY <1>5 DEF OpenOverlay
  <2>3. paused \in BOOLEAN /\ opening.phase = "idle" /\ kind \in {"commands", "details"}
    BY <1>4, <1>5, <2>1, EventsFields DEF OpenOverlay, Bare, Overlays, Events0
  <2>4. EventsOK([events EXCEPT !.paused = paused])
    BY <1>4, <2>3, PausedKeeps
  <2> QED BY <1>3, <2>1, <2>2, <2>3, <2>4, UiIs
<1>6. CASE CloseOverlay
  BY <1>3, <1>4, <1>6, UiIs DEF CloseOverlay
<1>7. CASE RequestCancel
  <2>1. /\ ui' = [NoOverlay EXCEPT !.cancel = TRUE] /\ Follow(events) /\ opening.phase = "idle"
        /\ session # 0 /\ visible
    BY <1>7 DEF RequestCancel, Bare
  <2>2. ui' \in Ui0 /\ ui'.overlay = "none"
    BY <2>1, UiIs DEF Ui0
  <2> QED BY <1>3, <1>4, <2>1, <2>2
<1>8. CASE RunMoves
  <2>1. opening.phase # "idle" => ui = NoOverlay
    BY Parts DEF Front
  <2>2. CASE ui' = AfterRun(Uncancelled(ui)) /\ Follow(OtherRun(events))
    <3>1. EventsOK(OtherRun(events))
      BY <1>4, OtherRunKeeps
    <3>2. Uncancelled(ui) \in Ui0 /\ ~Uncancelled(ui).cancel
      BY <1>4, UiSteps
    <3>3. ui' \in Ui0 /\ ui'.overlay # "image" /\ ~ui'.cancel
      BY <2>2, <3>2, UiSteps
    <3>4. opening.phase # "idle" => ui' = NoOverlay
      BY <1>4, <2>1, <2>2, UiSteps
    <3> QED BY <1>3, <2>2, <3>1, <3>3, <3>4
  <2>3. CASE ui' = Uncancelled(ui) /\ Follow(events)
    <3>1. ui' \in Ui0 /\ ui'.overlay = ui.overlay /\ ~ui'.cancel
          /\ (opening.phase # "idle" => ui' = NoOverlay)
      BY <1>4, <2>1, <2>3, UiSteps
    <3> QED BY <1>3, <1>4, <2>3, <3>1
  <2> QED BY <1>8, <2>2, <2>3 DEF RunMoves
<1> QED BY <1>5, <1>6, <1>7, <1>8

\* Another conversation.
LEMMA ConversationAll ==
  ASSUME WorkspaceConstants, ChatInv, HostSame, UNCHANGED ledger, ChangeConversation
  PROVE  ChatInv'
<1>1. PICK refs \in Timelines : shown' = refs /\ Rescope(session, visible, refs)
  BY DEF ChangeConversation
<1>2. refs \in SUBSET Refs
  BY DEF Timelines
<1>3. Close /\ ui' = NoOverlay /\ Follow(OtherRun(Stopped(events))) /\ void' = void
  BY DEF ChangeConversation
<1>4. session \in Nat /\ visible \in BOOLEAN
  BY Parts DEF HostOK
<1>5. ImagesOK(session, Pictures, refs, query', readers', urls')
  BY <1>1, <1>2, <1>4, RescopeKeeps DEF Pictures
<1>6. ImagesNow'
  BY <1>1, <1>5 DEF ImagesNow, HostSame, Pictures
<1>7. FilesOK(opening', calls', ledger, void) /\ opening'.phase = "idle"
  BY <1>3, Parts, CloseKeeps
<1>8. FilesNow' /\ HostOK'
  BY <1>1, <1>2, <1>3, <1>7, Parts, HostStays DEF FilesNow
<1>9. EventsOK(OtherRun(Stopped(events)))
  BY Parts, StoppedKeeps, OtherRunKeeps
<1>10. /\ EventsNow'
       /\ events'.target => focus' = "details" /\ ui'.overlay = "details" /\ session' # 0
                            /\ visible' /\ ~events'.paused
  BY <1>3, <1>9, FollowFront DEF HostSame
<1>11. Front'
  BY <1>3, <1>7, <1>10, UiIs DEF Front
<1> QED BY <1>6, <1>8, <1>10, <1>11 DEF ChatInv

\* Images and files of the conversation.
LEMMA MessagesAll ==
  ASSUME WorkspaceConstants, ChatInv, HostSame, UNCHANGED <<ledger, events>>, MessagesChange
  PROVE  ChatInv'
<1>1. PICK refs \in Timelines \ {shown} :
        /\ Timeline(refs) /\ UNCHANGED <<ui, void>>
        /\ IF opening.phase # "idle" /\ opening.ref \notin refs THEN Close ELSE SameFiles
  BY DEF MessagesChange
<1>2. refs \in SUBSET Refs /\ shown' = refs
  BY <1>1 DEF Timelines, Timeline
<1>3. ImagesNow'
  <2>1. ImagesOK(session, Pictures, refs, query', readers', urls')
    BY <1>1, <1>2, TimelineKeeps
  <2> QED BY <1>2, <2>1 DEF ImagesNow, HostSame, Pictures
<1>4. HostOK' /\ EventsNow'
  BY <1>2, Parts, HostStays DEF EventsNow
<1>5. /\ FilesOK(opening', calls', ledger, void)
      /\ opening'.phase # "idle" => opening' = opening /\ opening.ref \in refs
  BY <1>1, Parts, CloseKeeps DEF SameFiles, FilesNow
<1>6. FilesNow'
  BY <1>1, <1>5 DEF FilesNow
<1>7. Front'
  BY <1>1, <1>2, <1>5, Parts DEF Front, HostSame
<1> QED BY <1>3, <1>4, <1>6, <1>7 DEF ChatInv

LEMMA FilesAll ==
  ASSUME WorkspaceConstants, ChatInv, HostSame, UNCHANGED <<ledger, events>>,
         \/ PrepareAgain \/ CloseFile \/ Confirm
         \/ \E r \in Refs : OpenImage(r) \/ RequestFile(r)
  PROVE  ChatInv'
<1>1. UNCHANGED shown /\ SameImages
  BY DEF PrepareAgain, CloseFile, Confirm, OpenImage, RequestFile
<1>2. HostOK' /\ ImagesNow' /\ EventsNow'
  BY <1>1, Parts, HostStays, ImagesStay DEF HostOK, HostSame, EventsNow
<1>3. CASE PrepareAgain
  <2>1. opening.phase = "error" /\ Prepare(opening.ref) /\ ui' = ui
    BY <1>3 DEF PrepareAgain
  <2>2. opening.ref \in Refs \cup {"none"}
    BY Parts, FilesParts DEF View0
  <2>3. FilesOK(opening', calls', ledger, void') /\ opening'.ref = opening.ref
    BY <2>1, <2>2, Parts, PrepareKeeps
  <2>4. FilesNow' /\ Front'
    BY <1>1, <2>1, <2>3, Parts DEF FilesNow, Front, HostSame
  <2> QED BY <1>2, <2>4 DEF ChatInv
<1>4. CASE CloseFile
  <2>1. Close /\ UNCHANGED <<ui, void>>
    BY <1>4 DEF CloseFile
  <2>2. FilesOK(opening', calls', ledger, void) /\ opening'.phase = "idle"
    BY <2>1, Parts, CloseKeeps
  <2>3. FilesNow' /\ Front'
    BY <1>1, <2>1, <2>2, Parts DEF FilesNow, Front, HostSame
  <2> QED BY <1>2, <2>3 DEF ChatInv
<1>5. CASE Confirm
  <2>1. ConfirmFile /\ UNCHANGED <<ui, void>>
    BY <1>5 DEF Confirm
  <2>2. FilesOK(opening', calls', ledger, void) /\ opening'.ref = opening.ref
        /\ opening.phase # "idle"
    BY <2>1, Parts, ConfirmKeeps DEF ConfirmFile
  <2>3. FilesNow' /\ Front'
    BY <1>1, <2>1, <2>2, Parts DEF FilesNow, Front, HostSame
  <2> QED BY <1>2, <2>3 DEF ChatInv
<1>6. CASE \E r \in Refs : OpenImage(r)
  <2>1. PICK r \in Refs : OpenImage(r)
    BY <1>6
  <2>2. /\ Bare /\ readers[r].phase = "ready" /\ UNCHANGED <<opening, calls, void>>
        /\ ui' = [Viewed("image") EXCEPT !.image = readers[r].res]
    BY <2>1 DEF OpenImage, SameFiles
  <2>3. readers[r].res \in 0..MaxFile /\ session # 0 /\ visible
    BY <2>2, Parts, ImageParts DEF Pictures
  <2>4. ui' \in Ui0 /\ ui'.overlay = "image" /\ ui'.cancel = FALSE
    BY <2>2, <2>3, UiIs
  <2>5. opening.phase = "idle" /\ ~events.target
    BY <2>2, Parts, UiIs DEF Bare, Front
  <2>6. FilesNow' /\ Front'
    BY <1>1, <2>2, <2>3, <2>4, <2>5, Parts DEF FilesNow, Front, HostSame
  <2> QED BY <1>2, <2>6 DEF ChatInv
<1>7. CASE \E r \in Refs : RequestFile(r)
  <2>1. PICK r \in Refs : RequestFile(r)
    BY <1>7
  <2>2. /\ Bare \/ ui.overlay = "image"
        /\ session # 0 /\ visible /\ r \in shown /\ focus = "files"
        /\ Prepare(r) /\ ui' = NoOverlay
    BY <2>1 DEF RequestFile
  <2>3. FilesOK(opening', calls', ledger, void') /\ opening'.ref = r
    BY <2>2, Parts, PrepareKeeps
  <2>4. ~events.target
    BY <2>2, Parts, UiIs DEF Bare, Front
  <2>5. FilesNow' /\ Front'
    BY <1>1, <2>2, <2>3, <2>4, Parts, UiIs DEF FilesNow, Front, HostSame
  <2> QED BY <1>2, <2>5 DEF ChatInv
<1> QED BY <1>3, <1>4, <1>5, <1>6, <1>7

-----------------------------------------------------------------------------
(* Steps of the shell. *)

LEMMA SessionOnly ==
  ASSUME NEW s, NEW t, NEW on, NEW refs, NEW q, NEW rs, NEW us, s = 0 <=> t = 0,
         ImagesOK(s, on, refs, q, rs, us)
  PROVE  ImagesOK(t, on, refs, q, rs, us)
BY DEF ImagesOK

LEMMA PublishAll ==
  ASSUME WorkspaceConstants, ChatInv, Publish, UNCHANGED focus
  PROVE  ChatInv'
<1>1. /\ UNCHANGED <<seen, asking, session, visible, file, shown, opening, events, ui>>
      /\ SameImages /\ Len(host) < MaxRev
      /\ ledger' = NoFile /\ calls' = {Outdated(c) : c \in calls} /\ void' = OpenIds
  BY DEF Publish, InvalidateIntents
<1> DEFINE S == {session} \cup {host[i] : i \in 1..Len(host)}
<1>2. PICK next \in {0, HostNow, 1 + Top(S)} : host' = Append(host, next)
  BY DEF Publish
<1>3. /\ host \in Seq(Nat) /\ Len(host) \in Nat /\ Len(host) >= 1 /\ session \in Nat
      /\ \A i \in 1..Len(host) : host[i] \in Nat
  BY Parts DEF HostOK
<1>4. PICK j \in 1..Len(host) : \A i \in 1..Len(host) : host[i] <= host[j]
  BY Parts DEF HostOK
<1>5. Top(S) \in Nat
  <2> DEFINE t == IF session >= host[j] THEN session ELSE host[j]
  <2>1. t \in S /\ t \in Nat /\ \A y \in S : y <= t
    BY <1>3, <1>4
  <2>2. Top(S) \in S
    <3> HIDE DEF t, S
    <3> QED BY <2>1 DEF Top
  <2> QED BY <1>3, <2>2
<1>6. next \in Nat
  BY <1>2, <1>3, <1>5 DEF HostNow
<1>7. /\ host' \in Seq(Nat) /\ Len(host') = Len(host) + 1
      /\ \A i \in 1..Len(host) : host'[i] = host[i]
      /\ host'[Len(host) + 1] = next
  BY <1>2, <1>3, <1>6
<1>8. \E k \in 1..Len(host') : \A i \in 1..Len(host') : host'[i] <= host'[k]
  <2>1. CASE next >= host[j]
    <3>1. ASSUME NEW i \in 1..Len(host') PROVE host'[i] <= host'[Len(host) + 1]
      <4>1. i \in 1..Len(host) \/ i = Len(host) + 1
        BY <1>3, <1>7
      <4> QED BY <1>3, <1>4, <1>6, <1>7, <2>1, <4>1
    <3>2. Len(host) + 1 \in 1..Len(host')
      BY <1>3, <1>7
    <3> QED BY <3>1, <3>2
  <2>2. CASE next < host[j]
    <3>1. ASSUME NEW i \in 1..Len(host') PROVE host'[i] <= host'[j]
      <4>1. i \in 1..Len(host) \/ i = Len(host) + 1
        BY <1>3, <1>7
      <4> QED BY <1>3, <1>4, <1>6, <1>7, <2>2, <4>1
    <3>2. j \in 1..Len(host')
      BY <1>3, <1>7
    <3> QED BY <3>1, <3>2
  <2>3. next \in Nat /\ host[j] \in Nat
    BY <1>3, <1>4, <1>6
  <2>4. next >= host[j] \/ next < host[j]
    BY <2>3
  <2> QED BY <2>1, <2>2, <2>4
<1>9. Len(host') \in 1..MaxRev /\ seen' \in 0..Len(host')
  BY <1>1, <1>3, <1>7, Parts DEF HostOK, WorkspaceConstants
<1>10. HostOK'
  BY <1>1, <1>7, <1>8, <1>9, Parts DEF HostOK
<1>11. ImagesNow' /\ EventsNow'
  BY <1>1, Parts, ImagesStay DEF EventsNow
<1>12. FilesNow'
  <2> DEFINE O == {Outdated(c) : c \in calls}
  <2>1. FilesOK(opening, O, ledger, void) /\ \A c \in O : ~Active(c)
    BY Parts, OutdateKeeps DEF FilesNow
  <2> HIDE DEF O
  <2>2. FilesOK(opening, O, NoFile, OpenIds)
    BY <2>1, VoidKeeps
  <2> QED BY <1>1, <2>2 DEF FilesNow, O
<1>13. Front'
  BY <1>1, Parts DEF Front
<1> QED BY <1>10, <1>11, <1>12, <1>13 DEF ChatInv

\* Another address, or another visibility.
LEMMA ScopeKeeps ==
  ASSUME WorkspaceConstants, ChatInv, NEW s \in Nat, NEW seenBy \in BOOLEAN,
         NewScope(s, seenBy), UNCHANGED <<shown, focus>>, visible' = seenBy,
         session' \in Nat, session' = 0 <=> s = 0
  PROVE  /\ ImagesNow' /\ opening' = IdleView /\ ui' \in Ui0 /\ ui'.overlay # "image"
         /\ ~ui'.cancel
<1>1. Rescope(s, seenBy, shown) /\ opening' = IdleView /\ ui' = Uncancelled(WithoutImage(ui))
  BY DEF NewScope
<1>2. shown \in SUBSET Refs /\ ui \in Ui0
  BY Parts DEF HostOK, Front
<1>3. ImagesOK(s, seenBy /\ focus = "images", shown, query', readers', urls')
  BY <1>1, <1>2, RescopeKeeps
<1>4. ImagesOK(session', seenBy /\ focus = "images", shown, query', readers', urls')
  BY <1>3, SessionOnly
<1>5. ImagesNow'
  BY <1>4 DEF ImagesNow, Pictures
<1>6. WithoutImage(ui) \in Ui0 /\ WithoutImage(ui).overlay # "image"
  BY <1>2, UiSteps
<1> QED BY <1>1, <1>5, <1>6, UiSteps

LEMMA ReceiveAll ==
  ASSUME WorkspaceConstants, ChatInv, NEW r \in 1..Len(host), Receive(r), UNCHANGED focus
  PROVE  ChatInv'
<1> DEFINE changed == Newer(r) /\ host[r] # session
           left == calls \cup (IF changed THEN Dropped ELSE {})
<1>1. /\ IF changed THEN NewScope(host[r], visible) ELSE SameImages /\ UNCHANGED <<opening, ui>>
      /\ asking' \in {asking, FALSE} /\ UNCHANGED <<visible, file, shown, void>>
      /\ Follow(IF changed THEN Stopped(events) ELSE events)
  BY DEF Receive
<1>2. \/ /\ Newest(r) /\ host' = <<Renewed(HostNow)>> /\ seen' = 1 /\ session' = Renewed(HostNow)
         /\ calls' = Renumbered(left) /\ ledger' = [ledger EXCEPT !.lease = Renewed(@)]
      \/ /\ ~Newest(r) /\ seen' = (IF Newer(r) THEN r ELSE seen) /\ calls' = left
         /\ session' = (IF Newer(r) THEN host[r] ELSE session) /\ UNCHANGED <<host, ledger>>
  BY DEF Receive
<1>3. /\ host \in Seq(Nat) /\ Len(host) \in Nat /\ host[r] \in Nat /\ session \in Nat
      /\ asking \in BOOLEAN /\ visible \in BOOLEAN /\ seen \in 0..Len(host)
  BY Parts DEF HostOK
<1>4. Newest(r) => Newer(r) /\ host[r] = HostNow
  BY DEF Newest, HostNow
<1>5. Renewed(HostNow) \in {0, 1} /\ (Renewed(HostNow) = 0 <=> HostNow = 0)
  BY DEF Renewed
<1>6. /\ session' \in Nat
      /\ session' = 0 <=> (IF changed THEN host[r] ELSE session) = 0
  BY <1>2, <1>3, <1>4, <1>5
<1> HIDE DEF changed, left
<1>7. HostOK'
  <2>1. CASE Newest(r)
    <3> DEFINE x == Renewed(HostNow)
    <3>1. host' = <<x>> /\ x \in Nat /\ seen' = 1
      BY <1>2, <1>5, <2>1
    <3> HIDE DEF x
    <3>2. host' \in Seq(Nat) /\ Len(host') = 1 /\ host'[1] = x
      BY <3>1
    <3>3. \E j \in 1..Len(host') : \A i \in 1..Len(host') : host'[i] <= host'[j]
      BY <3>1, <3>2
    <3>4. Len(host') \in 1..MaxRev /\ seen' \in 0..Len(host')
      BY <3>1, <3>2 DEF WorkspaceConstants
    <3> QED BY <1>1, <1>6, <3>2, <3>3, <3>4, Parts DEF HostOK
  <2>2. CASE ~Newest(r)
    <3>1. host' = host /\ seen' \in 0..Len(host)
      BY <1>2, <1>3, <2>2
    <3> QED BY <1>1, <1>6, <3>1, Parts DEF HostOK
  <2> QED BY <2>1, <2>2
<1>8. ASSUME FilesOK(opening', left, ledger, void) PROVE FilesNow'
  <2>1. CASE Newest(r)
    BY <1>1, <1>2, <1>8, <2>1, RenumberKeeps DEF FilesNow
  <2>2. CASE ~Newest(r)
    BY <1>1, <1>2, <1>8, <2>2 DEF FilesNow
  <2> QED BY <2>1, <2>2
<1>9. EventsOK(IF changed THEN Stopped(events) ELSE events)
  BY Parts, StoppedKeeps
<1>10. /\ EventsNow'
       /\ events'.target => focus' = "details" /\ ui'.overlay = "details" /\ session' # 0
                            /\ visible' /\ ~events'.paused
  BY <1>1, <1>9, FollowFront
<1>11. CASE changed
  <2>1. NewScope(host[r], visible) /\ (session' = 0 <=> host[r] = 0)
    BY <1>1, <1>6, <1>11
  <2>2. /\ ImagesNow' /\ opening' = IdleView /\ ui' \in Ui0 /\ ui'.overlay # "image"
        /\ ~ui'.cancel
    BY <1>1, <1>3, <1>6, <2>1, ScopeKeeps
  <2>3. left = calls \cup Drop(opening)
    BY <1>11, DroppedIs DEF left
  <2>4. FilesNow'
    BY <1>8, <2>2, <2>3, Parts, DropKeeps DEF FilesNow
  <2>5. Front'
    BY <1>10, <2>2, IdleIs DEF Front
  <2> QED BY <1>7, <1>10, <2>2, <2>4, <2>5 DEF ChatInv
<1>12. CASE ~changed
  <2>1. SameImages /\ UNCHANGED <<opening, ui>> /\ left = calls /\ (session' = 0 <=> session = 0)
    BY <1>1, <1>6, <1>12 DEF left
  <2>2. ImagesNow'
    <3>1. ImagesOK(session', Pictures, shown, query, readers, urls)
      BY <2>1, Parts, SessionOnly DEF ImagesNow
    <3> QED BY <1>1, <2>1, <3>1 DEF ImagesNow, SameImages, Pictures
  <2>3. FilesNow'
    BY <1>8, <2>1, Parts DEF FilesNow
  <2>4. Front'
    BY <1>1, <1>10, <2>1, Parts DEF Front
  <2> QED BY <1>7, <1>10, <2>2, <2>3, <2>4 DEF ChatInv
<1> QED BY <1>11, <1>12

LEMMA AskFailsAll ==
  ASSUME WorkspaceConstants, ChatInv, AskFails, UNCHANGED focus
  PROVE  ChatInv'
<1>1. /\ asking' = FALSE /\ session' = 0 /\ Follow(Stopped(events))
      /\ UNCHANGED <<host, seen, visible, file, shown, ledger, void>>
      /\ IF session # 0 THEN NewScope(0, visible) /\ calls' = calls \cup Dropped
         ELSE SameImages /\ UNCHANGED <<opening, calls, ui>>
  BY DEF AskFails
<1>2. HostOK'
  BY <1>1, Parts DEF HostOK
<1>3. EventsOK(Stopped(events))
  BY Parts, StoppedKeeps
<1>4. /\ EventsNow'
      /\ events'.target => focus' = "details" /\ ui'.overlay = "details" /\ session' # 0
                           /\ visible' /\ ~events'.paused
  BY <1>1, <1>3, FollowFront
<1>5. CASE session # 0
  <2>1. visible \in BOOLEAN
    BY Parts DEF HostOK
  <2>2. /\ ImagesNow' /\ opening' = IdleView /\ ui' \in Ui0 /\ ui'.overlay # "image"
        /\ ~ui'.cancel
    BY <1>1, <1>5, <2>1, ScopeKeeps
  <2>3. FilesNow'
    BY <1>1, <1>5, <2>2, Parts, DropKeeps, DroppedIs DEF FilesNow
  <2>4. Front'
    BY <1>4, <2>2, IdleIs DEF Front
  <2> QED BY <1>2, <1>4, <2>2, <2>3, <2>4 DEF ChatInv
<1>6. CASE session = 0
  <2>1. ImagesNow' /\ FilesNow'
    BY <1>1, <1>6, Parts DEF ImagesNow, FilesNow, SameImages, Pictures
  <2>2. Front'
    BY <1>1, <1>4, <1>6, Parts DEF Front
  <2> QED BY <1>2, <1>4, <2>1, <2>2 DEF ChatInv
<1> QED BY <1>5, <1>6

LEMMA HideOrShowAll ==
  ASSUME WorkspaceConstants, ChatInv, HideOrShow, UNCHANGED focus
  PROVE  ChatInv'
<1> DEFINE O == {Outdated(c) : c \in calls}
<1>1. /\ visible' = ~visible /\ NewScope(session, visible') /\ ledger' = NoFile
      /\ void' = OpenIds /\ calls' = O \cup Dropped
      /\ UNCHANGED <<host, seen, asking, session, file, shown>> /\ Follow(Stopped(events))
  BY DEF HideOrShow
<1>2. visible \in BOOLEAN /\ visible' \in BOOLEAN /\ session \in Nat
  BY <1>1, Parts DEF HostOK
<1>3. HostOK'
  BY <1>1, Parts DEF HostOK
<1>4. /\ ImagesNow' /\ opening' = IdleView /\ ui' \in Ui0 /\ ui'.overlay # "image"
      /\ ~ui'.cancel
  BY <1>1, <1>2, ScopeKeeps
<1>5. FilesOK(opening, O, ledger, void) /\ \A c \in O : ~Active(c)
  BY Parts, OutdateKeeps DEF FilesNow
<1> HIDE DEF O
<1>6. FilesOK(opening, O, NoFile, OpenIds)
  BY <1>5, VoidKeeps
<1>7. FilesOK(IdleView, O \cup Drop(opening), NoFile, OpenIds)
  BY <1>6, DropKeeps
<1>8. FilesNow'
  BY <1>1, <1>4, <1>7, DroppedIs DEF FilesNow
<1>9. EventsOK(Stopped(events))
  BY Parts, StoppedKeeps
<1>10. /\ EventsNow'
       /\ events'.target => focus' = "details" /\ ui'.overlay = "details" /\ session' # 0
                            /\ visible' /\ ~events'.paused
  BY <1>1, <1>9, FollowFront
<1>11. Front'
  BY <1>4, <1>10, IdleIs DEF Front
<1> QED BY <1>3, <1>4, <1>8, <1>10, <1>11 DEF ChatInv

LEMMA FileChangesAll ==
  ASSUME WorkspaceConstants, ChatInv, FileChanges, UNCHANGED focus
  PROVE  ChatInv'
<1>1. /\ file < MaxFile /\ file' = file + 1 /\ SameImages
      /\ UNCHANGED <<host, seen, asking, session, visible, shown, ledger, events, ui, void,
                     opening, calls>>
  BY DEF FileChanges, SameFiles
<1>2. file' \in Versions
  BY <1>1, Parts DEF HostOK, WorkspaceConstants, Versions
<1>3. HostOK'
  BY <1>1, <1>2, Parts DEF HostOK
<1>4. ImagesNow' /\ FilesNow' /\ EventsNow'
  BY <1>1, Parts, ImagesStay DEF FilesNow, EventsNow
<1>5. Front'
  BY <1>1, Parts DEF Front
<1> QED BY <1>3, <1>4, <1>5 DEF ChatInv

LEMMA ChatStepsKeep ==
  ASSUME WorkspaceConstants, ChatInv, ChatSteps
  PROVE  ChatInv'
<1>1. UNCHANGED focus
  BY DEF ChatSteps
<1>2. CASE UNCHANGED <<host, seen, asking, session, visible, file>>
           /\ (ImageSteps \/ FileAnswers \/ WindowSteps \/ FileCommands \/ EventSteps)
  <2>1. HostSame
    BY <1>1, <1>2 DEF HostSame
  <2>2. CASE WindowSteps
    BY <2>1, <2>2, OverlaysAll, ConversationAll, MessagesAll, FilesAll DEF WindowSteps
  <2> QED BY <1>2, <2>1, <2>2, ImageStepsAll, FileAnswersAll, FileCommandsAll, EventStepsAll
<1>3. CASE ShellSteps
  BY <1>1, <1>3, PublishAll, ReceiveAll, AskFailsAll, HideOrShowAll, FileChangesAll
     DEF ShellSteps
<1> QED BY <1>2, <1>3 DEF ChatSteps

-----------------------------------------------------------------------------
(* The window. *)

LEMMA Initially ==
  ASSUME WorkspaceConstants, Init
  PROVE  WindowInv
<1>1. ChatInit /\ area.page = "chat"
  BY DEF Init, ExtInit, FreshArea
<1>2. HostOK
  <2>1. PICK x \in {0, 1} : host = <<x>>
    BY <1>1 DEF ChatInit
  <2>2. x \in Nat /\ host \in Seq(Nat) /\ Len(host) = 1 /\ host[1] = x
    BY <2>1
  <2>3. \E j \in 1..Len(host) : \A i \in 1..Len(host) : host[i] <= host[j]
    BY <2>2
  <2>4. Len(host) \in 1..MaxRev /\ seen \in 0..Len(host) /\ 1 \in Versions
    BY <1>1, <2>2 DEF ChatInit, WorkspaceConstants, Versions
  <2>5. /\ session \in Nat /\ asking \in BOOLEAN /\ visible \in BOOLEAN /\ file \in Versions
        /\ focus \in {"images", "files", "details"} /\ shown \subseteq Refs
    BY <1>1, <2>4 DEF ChatInit
  <2> QED BY <2>2, <2>3, <2>4, <2>5 DEF HostOK
<1>3. ImagesNow
  <2>1. 0 \in 0..MaxFile
    BY Numbers
  <2>2. NoReader \in Reader /\ Waits(NoReader) /\ NoReader.phase = "none" /\ NoReader.stage = "none"
    BY <2>1 DEF NoReader, Reader, Phases, Stages, Waits
  <2>3. /\ readers = [r \in Refs |-> NoReader] /\ urls = {} /\ query = "none" /\ shown = {}
    BY <1>1 DEF ChatInit
  <2> QED BY <2>2, <2>3 DEF ImagesNow, ImagesOK
<1>4. FilesNow
  <2>1. opening = IdleView /\ ledger = NoFile /\ calls = {} /\ void = OpenIds
    BY <1>1 DEF ChatInit
  <2>2. ViewOK(IdleView, NoFile, OpenIds)
    BY IdleIs DEF ViewOK
  <2> QED BY <2>1, <2>2, IdleIs DEF FilesNow, FilesOK
<1>5. EventsNow /\ ~events.target
  BY <1>1, NoEventsOK DEF ChatInit, EventsNow
<1>6. Front
  BY <1>1, <1>5, UiIs, IdleIs DEF ChatInit, Front
<1> QED BY <1>1, <1>2, <1>3, <1>4, <1>5, <1>6 DEF WindowInv, ChatInv, Hidden

LEMMA ReletKeeps ==
  ASSUME WorkspaceConstants, WindowInv, ReletArea
  PROVE  WindowInv'
<1>1. /\ area.page = "extensions" /\ area' = area
      /\ session' = (IF leased' THEN 1 ELSE 0) /\ host' = <<session'>>
      /\ UNCHANGED <<seen, asking, visible, file, focus, shown, query, readers, urls, opening,
                     ledger, calls, events, ui, void>>
  BY DEF ReletArea, Relet
<1>2. /\ seen = 1 /\ ui = NoOverlay /\ opening.phase = "idle" /\ shown = {}
      /\ urls = {} /\ ~events.target
  BY <1>1 DEF WindowInv, Hidden
<1>3. ChatInv
  BY DEF WindowInv
<1>4. HostOK'
  <2> DEFINE x == session'
  <2>1. x \in Nat /\ host' = <<x>>
    BY <1>1
  <2> HIDE DEF x
  <2>2. host' \in Seq(Nat) /\ Len(host') = 1 /\ host'[1] = x
    BY <2>1
  <2>3. \E j \in 1..Len(host') : \A i \in 1..Len(host') : host'[i] <= host'[j]
    BY <2>1, <2>2
  <2>4. Len(host') \in 1..MaxRev /\ seen' \in 0..Len(host')
    BY <1>1, <1>2, <2>2 DEF WorkspaceConstants
  <2> QED BY <1>1, <1>3, <2>1, <2>2, <2>3, <2>4, Parts DEF HostOK, x
<1>5. ImagesNow'
  <2>1. ImagesOK(session, Pictures, {}, query, readers, urls)
    BY <1>2, <1>3, Parts DEF ImagesNow
  <2>2. \A r \in Refs : readers[r].phase = "none"
    BY <2>1 DEF ImagesOK
  <2>3. ImagesOK(session', Pictures, {}, query, readers, urls)
    BY <2>1, <2>2 DEF ImagesOK
  <2> QED BY <1>1, <1>2, <2>3 DEF ImagesNow, Pictures
<1>6. FilesNow' /\ EventsNow'
  BY <1>1, <1>3, Parts DEF FilesNow, EventsNow
<1>7. Front'
  BY <1>1, <1>2, UiIs DEF Front
<1>8. Hidden'
  BY <1>1, <1>2 DEF Hidden
<1> QED BY <1>4, <1>5, <1>6, <1>7, <1>8 DEF WindowInv, ChatInv

LEMMA EnterKeeps ==
  ASSUME WorkspaceConstants, WindowInv, EnterArea
  PROVE  WindowInv'
<1>1. /\ Reachable /\ AtRest /\ ui' = NoOverlay
      /\ UNCHANGED <<host, seen, asking, session, visible, file, focus, shown, query, readers,
                     urls, opening, ledger, calls, events, void>>
  BY DEF EnterArea
<1>2. ChatInv
  BY DEF WindowInv
<1>3. opening.phase = "idle"
  BY <1>1, <1>2, Parts, UiIs DEF Reachable, Bare, Front
<1>4. host = <<session>> /\ seen = 1 /\ shown = {} /\ focus = "images"
  BY <1>1 DEF AtRest
<1>5. ~events.target
  BY <1>2, <1>4, Parts DEF Front
<1>6. urls = {}
  <2>1. ImagesOK(session, Pictures, {}, query, readers, urls)
    BY <1>2, <1>4, Parts DEF ImagesNow
  <2>2. \A r \in Refs : readers[r].phase = "none" /\ Waits(readers[r])
    BY <2>1 DEF ImagesOK
  <2>3. \A v \in urls : v \in Versions /\ v = 0
    BY <2>1, <2>2 DEF ImagesOK, Waits
  <2> QED BY <2>3, Numbers
<1>7. HostOK' /\ ImagesNow' /\ FilesNow' /\ EventsNow'
  BY <1>1, <1>2, Parts DEF HostOK, ImagesNow, FilesNow, EventsNow, Pictures
<1>8. Front'
  BY <1>1, <1>3, <1>5, UiIs DEF Front
<1>9. Hidden'
  BY <1>1, <1>3, <1>4, <1>5, <1>6 DEF Hidden
<1> QED BY <1>7, <1>8, <1>9 DEF WindowInv, ChatInv

LEMMA StepKeeps ==
  ASSUME WorkspaceConstants, WindowInv, [Next]_vars
  PROVE  WindowInv'
<1>1. CASE ChatInFront
  <2>1. ChatSteps /\ area.page = "chat" /\ area' = area
    BY <1>1 DEF ChatInFront
  <2>2. ChatInv'
    BY <2>1, ChatStepsKeep DEF WindowInv
  <2> QED BY <2>1, <2>2 DEF WindowInv, Hidden
<1>2. CASE EnterArea
  BY <1>2, EnterKeeps
<1>3. CASE AreaInFront \/ UNCHANGED vars
  <2>1. UNCHANGED chatVars /\ (area'.page # "chat" => area.page # "chat")
    BY <1>3 DEF AreaInFront, vars, extVars
  <2>2. UNCHANGED <<host, seen, asking, session, visible, file, focus, shown, query, readers,
                    urls, opening, ledger, calls, events, ui, void>>
    BY <2>1 DEF chatVars
  <2>3. HostOK' /\ ImagesNow' /\ FilesNow' /\ EventsNow'
    BY <2>2, Parts DEF WindowInv, HostOK, ImagesNow, FilesNow, EventsNow, Pictures
  <2>4. Front' /\ Hidden'
    BY <2>1, <2>2, Parts DEF WindowInv, Front, Hidden
  <2> QED BY <2>3, <2>4 DEF WindowInv, ChatInv
<1>4. CASE ReletArea
  BY <1>4, ReletKeeps
<1> QED BY <1>1, <1>2, <1>3, <1>4 DEF Next

\* The invariant of the conversation holds whichever page is in front.
THEOREM WindowInvariant == Spec => []WindowInv
<1>1. Init => WindowInv
  BY Initially, WorkspaceConstants
<1>2. WindowInv /\ [Next]_vars => WindowInv'
  BY StepKeeps, WorkspaceConstants
<1> QED BY <1>1, <1>2, PTL DEF Spec

\* WorkspaceTypeOK: what is in front is about the address in use, and the reader of events says
\* what it is doing (App.tsx, run-event-history.ts).
THEOREM ViewsAgree == Spec => []WorkspaceTypeOK
<1>1. WindowInv => WorkspaceTypeOK
  <2> SUFFICES ASSUME WindowInv PROVE WorkspaceTypeOK
    OBVIOUS
  <2>1. HostOK /\ ImagesNow /\ FilesNow /\ EventsOK(events) /\ Front
    BY Parts DEF WindowInv
  <2>2. seen \in 0..Len(host) /\ Len(host) \in 1..MaxRev /\ void \subseteq OpenIds
    BY <2>1, FilesParts DEF HostOK
  <2>3. query \in {"none", "reading", "read"} /\ urls \subseteq Versions
    BY <2>1 DEF ImagesNow, ImagesOK
  <2>4. /\ opening.phase # "idle" =>
              ui = NoOverlay /\ session # 0 /\ visible /\ opening.ref \in shown
        /\ ui.cancel => ui.overlay = "none" /\ session # 0 /\ visible
        /\ ui.overlay = "image" => session # 0 /\ visible
        /\ events.target =>
              ui.overlay = "details" /\ session # 0 /\ visible /\ ~events.paused
    BY <2>1 DEF Front
  <2>5. /\ events.phase # "none" => events.target
        /\ events.target <=> events.shown # "idle"
        /\ events.shown = "reading" <=> events.phase # "none"
    BY <2>1 DEF EventsOK
  <2> QED BY <2>2, <2>3, <2>4, <2>5 DEF WorkspaceTypeOK
<1> QED BY <1>1, WindowInvariant, PTL

\* HandlesAreLive: an image on show has a live Blob URL, and no other URL is live
\* (workspace-images.ts).
THEOREM ImagesAreLive == Spec => []HandlesAreLive
<1>1. WindowInv => HandlesAreLive
  <2> SUFFICES ASSUME WindowInv PROVE HandlesAreLive
    OBVIOUS
  <2>1. ImagesOK(session, Pictures, shown, query, readers, urls)
    BY Parts DEF WindowInv, ImagesNow
  <2>2. \A r \in Refs :
          /\ Waits(readers[r]) /\ readers[r] \in Reader
          /\ readers[r].phase = "ready" => readers[r].res \in urls
          /\ readers[r].stage = "workspace" => query = "reading"
          /\ readers[r].phase # "none" <=> Pictures /\ r \in shown
          /\ session = 0 => readers[r].phase \in {"none", "error"}
    BY <2>1 DEF ImagesOK
  <2>3. ASSUME NEW v \in urls PROVE session # 0 /\ visible /\ Holders(readers, v) # {}
    <3>1. PICK r \in Refs : readers[r].res = v
      BY <2>1 DEF ImagesOK
    <3>2. v # 0
      BY <2>1, Numbers, WorkspaceConstants DEF ImagesOK
    <3>3. readers[r].phase \in {"loading", "ready"}
      BY <2>2, <3>1, <3>2 DEF Waits, Reader, Phases
    <3> QED BY <2>2, <3>1, <3>3 DEF Holders, Pictures
  <2> QED BY <2>2, <2>3 DEF HandlesAreLive, Pictures
<1> QED BY <1>1, WindowInvariant, PTL

\* EventsAreComplete: Run details that call themselves complete hold every boundary that the
\* window was told of (run-event-history.ts).
THEOREM DetailsAreComplete == Spec => []EventsAreComplete
<1>1. WindowInv => EventsAreComplete
  BY Parts DEF WindowInv, EventsOK, EventsAreComplete
<1> QED BY <1>1, WindowInvariant, PTL

-----------------------------------------------------------------------------
(* What the system is told to open. *)

Opened(d) == d.kind = "open" /\ d.at = "done"
\* Files that are opened in the second set of commands were so in the first.
NoneOpened(C, D) == \A d \in D : Opened(d) => \E b \in C : Opened(b) /\ b.n = d.n

LEMMA OutdatedOpened ==
  ASSUME NEW C \in SUBSET Call0
  PROVE  NoneOpened(C, {Outdated(c) : c \in C})
BY OutdatedIs DEF NoneOpened, Opened, Same

LEMMA NewCalls ==
  ASSUME NEW kind, NEW n, NEW ver, NEW lease
  PROVE  ~Opened(Call(kind, n, ver, lease))
BY DEF Opened, Call

LEMMA DroppedOpened == \A d \in Dropped : ~Opened(d)
BY NewCalls DEF Dropped

LEMMA WindowOpensNone ==
  ASSUME FilesNow,
         \/ ImageSteps \/ FileAnswers \/ WindowSteps \/ EventSteps \/ ShellSteps
  PROVE  NoneOpened(calls, calls')
<1>1. calls \subseteq Call0 /\ NoneOpened(calls, calls)
  BY FilesParts DEF NoneOpened
<1>2. ASSUME NEW C, NoneOpened(calls, C) PROVE NoneOpened(calls, C \cup Dropped)
  BY <1>2, DroppedOpened DEF NoneOpened
<1>3. Close => NoneOpened(calls, calls')
  BY <1>1, <1>2 DEF Close
<1>4. ASSUME NEW ref, Prepare(ref) PROVE NoneOpened(calls, calls')
  <2>1. PICK n \in FreeIds : calls' = calls \cup Dropped \cup {Call("prepare", n, 0, session)}
    BY <1>4 DEF Prepare
  <2> QED BY <1>1, <1>2, <2>1, NewCalls DEF NoneOpened
<1>5. ASSUME NEW c \in calls, PrepareReply(c) \/ OpenReply(c) PROVE NoneOpened(calls, calls')
  <2>1. \A d \in calls' : d \in calls \/ d = Call("discard", c.n, 0, 0)
    BY <1>5 DEF PrepareReply, OpenReply
  <2> QED BY <2>1, NewCalls DEF NoneOpened
<1>6. CASE FileAnswers
  BY <1>5, <1>6 DEF FileAnswers
<1>7. CASE ImageSteps \/ EventSteps
  BY <1>1, <1>7 DEF ImageSteps, EventSteps, SameFiles
<1>8. CASE WindowSteps
  <2>1. CASE OpenOverlay \/ CloseOverlay \/ RequestCancel \/ RunMoves
    BY <1>1, <2>1 DEF OpenOverlay, CloseOverlay, RequestCancel, RunMoves, SameFiles
  <2>2. CASE ChangeConversation \/ CloseFile
    BY <1>3, <2>2 DEF ChangeConversation, CloseFile
  <2>3. CASE PrepareAgain \/ \E r \in Refs : RequestFile(r)
    BY <1>4, <2>3 DEF PrepareAgain, RequestFile
  <2>4. CASE Confirm
    BY <1>1, <2>4, NewCalls DEF Confirm, ConfirmFile, NoneOpened
  <2>5. CASE MessagesChange
    BY <1>1, <1>3, <2>5 DEF MessagesChange, SameFiles
  <2>6. CASE \E r \in Refs : OpenImage(r)
    BY <1>1, <2>6 DEF OpenImage, SameFiles
  <2> QED BY <1>8, <2>1, <2>2, <2>3, <2>4, <2>5, <2>6 DEF WindowSteps
<1>9. CASE ShellSteps
  <2> DEFINE O == {Outdated(c) : c \in calls}
  <2>1. NoneOpened(calls, O)
    BY <1>1, OutdatedOpened
  <2> HIDE DEF O
  <2>2. CASE Publish
    BY <2>1, <2>2 DEF Publish, InvalidateIntents, O
  <2>3. CASE \E r \in 1..Len(host) : Receive(r)
    <3>1. PICK r \in 1..Len(host) : Receive(r)
      BY <2>3
    <3> DEFINE left == calls \cup (IF Newer(r) /\ host[r] # session THEN Dropped ELSE {})
    <3>2. calls' = Renumbered(left) \/ calls' = left
      BY <3>1 DEF Receive
    <3>3. NoneOpened(calls, left)
      BY <1>1, <1>2
    <3> HIDE DEF left
    <3>4. ASSUME NEW d \in Renumbered(left)
          PROVE  \E b \in left : d = [b EXCEPT !.lease = Renewed(@)]
      BY DEF Renumbered
    <3>5. ASSUME NEW b \in left
          PROVE  LET d == [b EXCEPT !.lease = Renewed(@)] IN d.kind = b.kind /\ d.at = b.at
                 /\ d.n = b.n
      OBVIOUS
    <3>6. ASSUME NEW d \in Renumbered(left), Opened(d)
          PROVE  \E b \in calls : Opened(b) /\ b.n = d.n
      <4>1. PICK b \in left : d = [b EXCEPT !.lease = Renewed(@)]
        BY <3>4
      <4>2. d.kind = b.kind /\ d.at = b.at /\ d.n = b.n
        BY <3>5, <4>1
      <4>3. Opened(b)
        BY <3>6, <4>2 DEF Opened
      <4>4. PICK a \in calls : Opened(a) /\ a.n = b.n
        BY <3>3, <4>3 DEF NoneOpened
      <4> QED BY <4>2, <4>4
    <3>7. NoneOpened(calls, Renumbered(left))
      BY <3>6 DEF NoneOpened
    <3> QED BY <3>2, <3>3, <3>7
  <2>4. CASE AskFails
    BY <1>1, <1>2, <2>4 DEF AskFails
  <2>5. CASE HideOrShow
    BY <1>2, <2>1, <2>5 DEF HideOrShow, O
  <2>6. CASE FileChanges
    BY <1>1, <2>6 DEF FileChanges, SameFiles
  <2> QED BY <1>9, <2>2, <2>3, <2>4, <2>5, <2>6 DEF ShellSteps
<1> QED BY <1>6, <1>7, <1>8, <1>9

Dispatched(b) == b.kind = "open" /\ b.at = "busy" /\ MayDispatch(b)

LEMMA CommandsOpen ==
  ASSUME FilesNow, FileCommands, NEW d \in calls', Opened(d)
  PROVE  \E b \in calls : b.n = d.n /\ (Opened(b) \/ Dispatched(b))
<1>1. calls \subseteq Call0
  BY FilesParts
<1>2. PICK c \in calls : \/ PrepareBegins(c)
                         \/ PrepareEnds(c)
                         \/ OpenBegins(c)
                         \/ OpenEnds(c)
                         \/ DiscardArrives(c)
  BY DEF FileCommands
<1>3. c \in Call0
  BY <1>1
<1>4. CASE d \in calls
  BY <1>4
<1>5. CASE \E a \in calls : d = Outdated(a)
  BY <1>1, <1>5, OutdatedIs DEF Same, Opened
<1>6. CASE d \notin calls /\ ~\E a \in calls : d = Outdated(a)
  <2>1. ~Refused(c)
    BY <1>6 DEF Refused
  <2>2. ASSUME NEW D, Overtake(c, D) PROVE d \in D
    BY <1>6, <2>2 DEF Overtake
  <2>3. ASSUME NEW x, With(c, x) PROVE d = x
    BY <1>6, <2>3 DEF With
  <2>4. CASE PrepareBegins(c)
    <3>1. d = [c EXCEPT !.at = "busy", !.stale = FALSE] /\ c.kind = "prepare"
      BY <2>1, <2>2, <2>4 DEF PrepareBegins
    <3> QED BY <1>3, <3>1 DEF Opened, Call0
  <2>5. CASE PrepareEnds(c)
    <3>1. d = [c EXCEPT !.at = "done", !.ver = file] /\ c.kind = "prepare"
      BY <2>1, <2>3, <2>5 DEF PrepareEnds
    <3> QED BY <1>3, <3>1 DEF Opened, Call0
  <2>6. CASE OpenBegins(c)
    <3>1. d = [c EXCEPT !.at = "busy", !.stale = FALSE, !.lease = ledger.lease,
                        !.held = ledger.ver]
      BY <2>1, <2>3, <2>6 DEF OpenBegins
    <3> QED BY <1>3, <3>1 DEF Opened, Call0
  <2>7. CASE OpenEnds(c)
    <3>1. d = [c EXCEPT !.at = "done"] /\ MayDispatch(c) /\ c.kind = "open" /\ c.at = "busy"
      BY <2>1, <2>3, <2>7 DEF OpenEnds
    <3> QED BY <1>3, <3>1 DEF Call0, Dispatched
  <2>8. CASE DiscardArrives(c)
    <3>1. d \in calls \ {c} \/ Overtake(c, {})
      BY <2>8 DEF DiscardArrives
    <3> QED BY <1>6, <2>2, <3>1
  <2> QED BY <1>2, <2>4, <2>5, <2>6, <2>7, <2>8
<1> QED BY <1>4, <1>5, <1>6

\* OpensWhatWasConfirmed: the shell opens the version that the user confirmed, and no intent
\* that was used, closed or overtaken (workspace_file_open.rs).
THEOREM FilesAreConfirmed == Spec => OpensWhatWasConfirmed
<1> DEFINE A == \A c \in calls :
                  c.kind = "open" /\ c.at = "busy" /\ [c EXCEPT !.at = "done"] \in calls' =>
                    c.n \notin void /\ c.ver = file /\ visible
<1>1. WindowInv /\ [Next]_vars => [A]_chatVars
  <2> SUFFICES ASSUME WindowInv, [Next]_vars, NEW c \in calls, c.kind = "open", c.at = "busy",
                      [c EXCEPT !.at = "done"] \in calls'
               PROVE  c.n \notin void /\ c.ver = file /\ visible
    OBVIOUS
  <2> DEFINE d == [c EXCEPT !.at = "done"]
  <2>1. FilesNow
    BY Parts DEF WindowInv
  <2>2. c \in Call0 /\ CallOK(c, opening, ledger, void)
    BY <2>1, FilesParts
  <2>3. d.kind = "open" /\ d.at = "done" /\ d.n = c.n
    BY <2>2 DEF Call0
  <2> HIDE DEF d
  <2>4. ASSUME NEW b \in calls, b.kind = "open", b.n = c.n PROVE b = c
    BY <2>1, <2>4, FilesParts DEF Apart
  <2>5. \E b \in calls : b.n = d.n /\ (Opened(b) \/ Dispatched(b))
    <3>1. CASE NoneOpened(calls, calls')
      BY <2>3, <3>1 DEF NoneOpened, Opened, d
    <3>2. CASE FileCommands
      BY <2>1, <2>3, <3>2, CommandsOpen DEF Opened, d
    <3>3. calls' = calls => NoneOpened(calls, calls')
      BY DEF NoneOpened
    <3>4. CASE ChatInFront
      BY <2>1, <3>1, <3>2, <3>4, WindowOpensNone DEF ChatInFront, ChatSteps
    <3>5. CASE EnterArea \/ AreaInFront \/ ReletArea \/ UNCHANGED vars
      BY <3>1, <3>3, <3>5 DEF EnterArea, AreaInFront, ReletArea, vars, chatVars
    <3> QED BY <3>4, <3>5 DEF Next
  <2>6. PICK b \in calls : b.n = d.n /\ (Opened(b) \/ Dispatched(b))
    BY <2>5
  <2>7. b = c /\ MayDispatch(c)
    BY <2>3, <2>4, <2>6 DEF Opened, Dispatched
  <2> QED BY <2>2, <2>7 DEF MayDispatch, CallOK, OpenOK, Active
<1> QED BY <1>1, WindowInvariant, PTL DEF Spec, OpensWhatWasConfirmed

=============================================================================
