------------------------------ MODULE ToolLibrary ------------------------------
(***************************************************************************)
(* The tool library: one configuration file and the managed Python files   *)
(* it refers to, changed by pages through one lock, by the backend's own   *)
(* cleanup, and by editors outside that take no lock.  Every operation     *)
(* reads the file under the lock, prepares the new configuration, writes   *)
(* new code to a new file, checks that the version it read is still on     *)
(* disk, replaces the file, and then removes code nobody refers to.  The   *)
(* process may end between any two of these steps.                         *)
(*                                                                         *)
(* Numbers come from one clock: identities, updated_at, names of managed   *)
(* files and their contents.  A read of the configuration with its code is *)
(* one step; an outside change falls before or after it.                   *)
(***************************************************************************)
EXTENDS Naturals, FiniteSets

CONSTANTS
  Pages,      \* open pages of the tool library, in any window
  Names,      \* names a tool may be called by
  Reserved,   \* those of the built-in tools
  Remotes,    \* tools an MCP server offers
  Offers,     \* descriptions a server may give of them
  FirstName,  \* name of the tool the library starts with
  MaxDiscoveries, \* how many discoveries a process keeps
  MaxClock,   \* bound on saves and outside edits of code
  MaxOutside, \* bound on outside edits
  MaxCrashes  \* bound on ends of the process

ASSUME LibraryAssumption ==
  /\ MaxClock \in Nat /\ MaxClock >= 2
  /\ MaxOutside \in Nat /\ MaxCrashes \in Nat
  /\ Reserved \subseteq Names /\ FirstName \in Names \ Reserved
  /\ MaxDiscoveries \in Nat \ {0}
  /\ IsFiniteSet(Names) /\ IsFiniteSet(Remotes) /\ 0 \notin Remotes \cup Offers

VARIABLES
  config,      \* the configuration file
  files,       \* contents of the code files
  op,          \* the operation that holds the lock
  pages,       \* what each page read last
  probing,     \* the MCP session each page waits for
  discoveries, \* results of sessions, kept by the process
  clock,
  buffer,      \* what an outside editor has loaded
  dangling,    \* code an outside save refers to although it is gone or going
  outside, crashes

disk == <<config, files>>
process == <<op, probing, discoveries>>
editor == <<buffer, dangling, outside>>
vars == <<config, files, op, pages, probing, discoveries, clock, buffer, dangling, outside, crashes>>

-----------------------------------------------------------------------------
(* Files and versions. *)

NoFile == 0
Partial == 1    \* what a write that did not end leaves
UserFile == 2   \* a file of the user's, without a generated name
Numbers == 0..MaxClock

Broken == [ok |-> FALSE, tools |-> {}, conns |-> {}]

Tool(id, kind, name, rev, path) ==
  [id |-> id, kind |-> kind, name |-> name, rev |-> rev, path |-> path,
   conn |-> 0, remote |-> 0, source |-> 0]

Tools == [id : Numbers, kind : {"python", "http", "mcp"}, name : Names, rev : Numbers,
          path : Numbers, conn : Numbers, remote : Remotes \cup {0}, source : Offers \cup {0}]
Conns == [id : Numbers, rev : Numbers]
Configs == [ok : BOOLEAN, tools : SUBSET Tools, conns : SUBSET Conns]
Versions == [config : Configs, code : [Numbers -> Numbers]]

CodePaths(cfg) == {t.path : t \in {u \in cfg.tools : u.kind = "python"}}

\* the digest of the configuration and of every file it refers to
Version(cfg, fs) ==
  [config |-> cfg, code |-> [p \in Numbers |-> IF p \in CodePaths(cfg) THEN fs[p] ELSE NoFile]]
NoVersion == Version(Broken, [p \in Numbers |-> NoFile])

NoConn == [id |-> 0, rev |-> 0]

Idle == [kind |-> "none", stage |-> "idle", seen |-> NoVersion, base |-> NoVersion,
         next |-> Broken, path |-> 0, probed |-> NoConn, victims |-> {}, raced |-> FALSE]

OpKinds == {"none", "create", "update", "delete", "openapi", "import",
            "connect", "reconnect", "disconnect", "cleanup"}
Stages == {"idle", "open", "write", "check", "replace", "collect", "unlink"}
Operations == [kind : OpKinds, stage : Stages, seen : Versions, base : Versions, next : Configs,
               path : Numbers, probed : Conns, victims : SUBSET Numbers, raced : BOOLEAN]

TypeOK ==
  /\ config \in Configs /\ buffer \in Configs
  /\ files \in [Numbers -> Numbers]
  /\ op \in Operations /\ (op.stage = "idle" => op = Idle)
  /\ pages \in [Pages -> Versions]
  /\ probing \in [Pages -> [conn : Conns, version : Versions]]
  /\ discoveries \subseteq [conn : Conns, version : Versions, offer : Offers]
  /\ clock \in 2..MaxClock
  /\ dangling \subseteq Numbers
  /\ outside \in 0..MaxOutside /\ crashes \in 0..MaxCrashes

Init ==
  /\ config = [ok |-> TRUE, tools |-> {Tool(2, "python", FirstName, 2, UserFile)},
               conns |-> {[id |-> 2, rev |-> 2]}]
  /\ files = [p \in Numbers |-> IF p = UserFile THEN UserFile ELSE NoFile]
  /\ op = Idle
  /\ pages = [p \in Pages |-> NoVersion]
  /\ probing = [p \in Pages |-> [conn |-> NoConn, version |-> NoVersion]]
  /\ discoveries = {}
  /\ clock = 2
  /\ buffer = Broken /\ dangling = {}
  /\ outside = 0 /\ crashes = 0

-----------------------------------------------------------------------------
(* Preparing an operation: everything between taking the lock and the      *)
(* first write.  A request that fails here changes nothing.                *)

Readable == op.stage = "idle" /\ config.ok

Fresh == clock + 1

CheckVersion(seen) == seen = Version(config, files)

\* mutant: an update checks its name against the built-in tools only
NameFreeOnCreate(name, tools, previous) ==
  /\ name \notin Reserved
  /\ previous = Broken => \A t \in tools : t.name # name

\* a name is checked against every other tool and the built-in ones
NameFree(name, tools, previous) ==
  /\ name \notin Reserved
  /\ \A t \in tools : t.name = name => t = previous

Begin(kind, seen, next, path, probed) ==
  op' = [Idle EXCEPT !.kind = kind, !.seen = seen, !.base = Version(config, files),
                     !.next = next, !.path = path, !.probed = probed,
                     !.stage = IF path = 0 THEN "check" ELSE "open"]

WithTools(tools) == [config EXCEPT !.tools = tools]

CreateTool(kind, name) ==
  /\ Readable /\ clock < MaxClock
  /\ NameFree(name, config.tools, Broken)
  /\ LET path == IF kind = "python" THEN Fresh ELSE 0 IN
       Begin("create", NoVersion,
             WithTools(config.tools \cup {Tool(Fresh, kind, name, Fresh, path)}), path, NoConn)
  /\ clock' = Fresh
  /\ UNCHANGED <<disk, pages, probing, discoveries, editor, crashes>>

\* mutant: new code is written over the old file
UpdateToolInPlace(page, id, name) ==
  /\ Readable /\ clock < MaxClock
  /\ CheckVersion(pages[page])
  /\ \E previous \in config.tools :
       /\ previous.id = id
       /\ NameFree(name, config.tools, previous)
       /\ Begin("update", pages[page],
                WithTools((config.tools \ {previous})
                            \cup {[previous EXCEPT !.name = name, !.rev = Fresh]}),
                previous.path, NoConn)
  /\ clock' = Fresh
  /\ UNCHANGED <<disk, pages, probing, discoveries, editor, crashes>>

UpdateTool(page, id, name) ==
  /\ Readable /\ clock < MaxClock
  /\ CheckVersion(pages[page])
  /\ \E previous \in config.tools :
       /\ previous.id = id
       /\ NameFree(name, config.tools, previous)
       /\ LET path == IF previous.kind = "python" THEN Fresh ELSE 0
              tool == [previous EXCEPT !.name = name, !.rev = Fresh, !.path = path]
          IN Begin("update", pages[page],
                   WithTools((config.tools \ {previous}) \cup {tool}), path, NoConn)
  /\ clock' = Fresh
  /\ UNCHANGED <<disk, pages, probing, discoveries, editor, crashes>>

DeleteTool(page, id) ==
  /\ Readable
  /\ \E t \in config.tools : t.id = id
  /\ CheckVersion(pages[page])
  /\ Begin("delete", pages[page], WithTools({t \in config.tools : t.id # id}), 0, NoConn)
  /\ UNCHANGED <<disk, pages, probing, discoveries, clock, editor, crashes>>

\* the selected operations of an OpenAPI document, all or none
ImportOpenapi(page, names) ==
  LET last == clock + Cardinality(names) IN
  /\ Readable /\ last <= MaxClock
  /\ CheckVersion(pages[page])
  /\ \A n \in names : NameFree(n, config.tools, Broken)
  /\ \E id \in [names -> Fresh..last] :
       /\ \A m, n \in names : id[m] = id[n] => m = n
       /\ Begin("openapi", pages[page],
                WithTools(config.tools \cup {Tool(id[n], "http", n, last, 0) : n \in names}),
                0, NoConn)
  /\ clock' = last
  /\ UNCHANGED <<disk, pages, probing, discoveries, editor, crashes>>

CreateConnection ==
  /\ Readable /\ clock < MaxClock
  /\ Begin("connect", NoVersion,
           [config EXCEPT !.conns = @ \cup {[id |-> Fresh, rev |-> Fresh]}], 0, NoConn)
  /\ clock' = Fresh
  /\ UNCHANGED <<disk, pages, probing, discoveries, editor, crashes>>

UpdateConnection(page, id) ==
  /\ Readable /\ clock < MaxClock
  /\ \E c \in config.conns : c.id = id
  /\ CheckVersion(pages[page])
  /\ Begin("reconnect", pages[page],
           [config EXCEPT !.conns = {c \in @ : c.id # id} \cup {[id |-> id, rev |-> Fresh]}],
           0, NoConn)
  /\ clock' = Fresh
  /\ UNCHANGED <<disk, pages, probing, discoveries, editor, crashes>>

\* a connection is deleted with the tools that were imported through it
DeleteConnection(page, id) ==
  /\ Readable
  /\ \E c \in config.conns : c.id = id
  /\ CheckVersion(pages[page])
  /\ Begin("disconnect", pages[page],
           [config EXCEPT !.conns = {c \in @ : c.id # id},
                          !.tools = {t \in @ : t.kind # "mcp" \/ t.conn # id}], 0, NoConn)
  /\ UNCHANGED <<disk, pages, probing, discoveries, clock, editor, crashes>>

-----------------------------------------------------------------------------
(* Discovery and import of MCP tools. *)

\* the version is read under the lock, the session is opened without it
Discover(page, c) ==
  /\ Readable
  /\ c \in config.conns
  /\ probing[page].conn = NoConn
  /\ probing' = [probing EXCEPT ![page] = [conn |-> c, version |-> Version(config, files)]]
  /\ UNCHANGED <<disk, op, pages, discoveries, clock, editor, crashes>>

SessionEnds(page) ==
  /\ probing[page].conn # NoConn
  /\ probing' = [probing EXCEPT ![page] = [conn |-> NoConn, version |-> NoVersion]]
  /\ UNCHANGED <<disk, op, pages, clock, editor, crashes>>

\* mutant: a discovery is bound to the version found when its session ends
SessionListsLate(page, offer) ==
  /\ \E kept \in SUBSET discoveries :
       /\ IF Cardinality(discoveries) < MaxDiscoveries THEN kept = discoveries
          ELSE Cardinality(kept) = Cardinality(discoveries) - 1
       /\ discoveries' = kept \cup
            {[conn |-> probing[page].conn, version |-> Version(config, files), offer |-> offer]}
  /\ SessionEnds(page)

\* a new result drops an old one when the process holds as many as it may
SessionLists(page, offer) ==
  /\ \E kept \in SUBSET discoveries :
       /\ IF Cardinality(discoveries) < MaxDiscoveries THEN kept = discoveries
          ELSE Cardinality(kept) = Cardinality(discoveries) - 1
       /\ discoveries' = kept \cup
            {[conn |-> probing[page].conn, version |-> probing[page].version, offer |-> offer]}
  /\ SessionEnds(page)

\* timeouts and errors of the session leave nothing
SessionFails(page) ==
  /\ SessionEnds(page)
  /\ UNCHANGED discoveries

\* after ten minutes
Expire(d) ==
  /\ d \in discoveries
  /\ discoveries' = discoveries \ {d}
  /\ UNCHANGED <<disk, op, pages, probing, clock, editor, crashes>>

Imported(tools, d, r) == {t \in tools : t.kind = "mcp" /\ t.conn = d.conn.id /\ t.remote = r}

\* what the selection of one remote tool makes of the library
Select(tools, d, r, name, id) ==
  LET previous == Imported(tools, d, r)
      new == [Tool(id, "mcp", name, Fresh, 0) EXCEPT !.conn = d.conn.id, !.remote = r,
                                                     !.source = d.offer]
  IN IF previous = {} THEN tools \cup {new}
     ELSE (tools \ previous) \cup
          {IF t.source = d.offer THEN t ELSE [t EXCEPT !.source = d.offer, !.rev = Fresh]
            : t \in previous}

CanSelect(tools, d, r, name) ==
  Imported(tools, d, r) # {} \/ NameFree(name, tools, Broken)

\* mutant: the credential of a discovery is checked, not its version
ImportMcpStale(d, r, name) ==
  /\ Readable /\ clock < MaxClock
  /\ d \in discoveries
  /\ CanSelect(config.tools, d, r, name)
  /\ LET tools == Select(config.tools, d, r, name, Fresh) IN
       /\ tools # config.tools
       /\ Begin("import", d.version, WithTools(tools), 0, d.conn)
  /\ clock' = Fresh
  /\ UNCHANGED <<disk, pages, probing, discoveries, editor, crashes>>

ImportMcp(d, r, name) ==
  /\ Readable /\ clock < MaxClock
  /\ d \in discoveries
  /\ CheckVersion(d.version)
  /\ CanSelect(config.tools, d, r, name)
  /\ LET tools == Select(config.tools, d, r, name, Fresh) IN
       /\ tools # config.tools
       /\ Begin("import", d.version, WithTools(tools), 0, d.conn)
  /\ clock' = Fresh
  /\ UNCHANGED <<disk, pages, probing, discoveries, editor, crashes>>

\* list, detail, preview: the page shows this version from now on
ReadPage(page) ==
  /\ Readable
  /\ pages' = [pages EXCEPT ![page] = Version(config, files)]
  /\ UNCHANGED <<disk, process, clock, editor, crashes>>

-----------------------------------------------------------------------------
(* Writing. *)

\* mutant: what an operation left is still there for the next one
ReleaseUncleared == op' = [op EXCEPT !.stage = "idle"]

Release == op' = Idle

At(stage) == op.stage = stage /\ UNCHANGED <<pages, probing, discoveries, clock, editor, crashes>>

\* new code always goes to a file of its own
OpenCode ==
  /\ At("open")
  /\ files' = [files EXCEPT ![op.path] = Partial]
  /\ op' = [op EXCEPT !.stage = "write"]
  /\ UNCHANGED config

CloseCode ==
  /\ At("write")
  /\ files' = [files EXCEPT ![op.path] = op.path]
  /\ op' = [op EXCEPT !.stage = "check"]
  /\ UNCHANGED config

\* a failing write leaves what it wrote
CodeFails ==
  /\ At("open") \/ At("write")
  /\ Release
  /\ UNCHANGED disk

\* mutant: the file must be readable, not the one that was read
StillReadable == config.ok

Unchanged == config.ok /\ op.base = Version(config, files)

Check ==
  /\ At("check")
  /\ IF Unchanged THEN op' = [op EXCEPT !.stage = "replace"] ELSE Release
  /\ UNCHANGED disk

CommitFails ==
  /\ At("check") \/ At("replace")
  /\ Release
  /\ UNCHANGED disk

Cleaning == [Idle EXCEPT !.kind = "cleanup", !.stage = "collect"]

Replace ==
  /\ At("replace")
  /\ config' = op.next
  /\ op' = Cleaning
  /\ UNCHANGED files

\* what is kept is decided by the file that is on disk now; a file that
\* cannot be read keeps everything
Unused == {p \in Numbers : files[p] # NoFile /\ p # UserFile} \ CodePaths(config)

Collect ==
  /\ At("collect")
  /\ IF config.ok /\ Unused # {} THEN op' = [op EXCEPT !.stage = "unlink", !.victims = Unused]
                                 ELSE Release
  /\ UNCHANGED disk

NextVictim(p) ==
  IF op.victims = {p} THEN Release ELSE op' = [op EXCEPT !.victims = @ \ {p}]

Unlink(p) ==
  /\ At("unlink") /\ p \in op.victims
  /\ files' = [files EXCEPT ![p] = NoFile]
  /\ NextVictim(p)
  /\ UNCHANGED config

UnlinkFails(p) ==
  /\ At("unlink") /\ p \in op.victims
  /\ NextVictim(p)
  /\ UNCHANGED disk

\* the process ends anywhere; the next one cleans up before it serves
Restart ==
  /\ crashes < MaxCrashes
  /\ crashes' = crashes + 1
  /\ op' = Cleaning
  /\ discoveries' = {}
  /\ probing' = [p \in Pages |-> [conn |-> NoConn, version |-> NoVersion]]
  /\ UNCHANGED <<disk, pages, clock, editor>>

-----------------------------------------------------------------------------
(* Outside editors take part in no lock. *)

Race == op' = IF op.stage = "replace" THEN [op EXCEPT !.raced = TRUE] ELSE op

\* MaxOutside bounds them; a file that cannot be read is always repaired
Outside ==
  /\ outside < MaxOutside \/ ~config.ok
  /\ outside' = IF config.ok THEN outside + 1 ELSE outside
  /\ UNCHANGED <<pages, probing, discoveries, crashes>>

EditorLoads ==
  /\ outside < MaxOutside
  /\ config.ok /\ buffer' = config
  /\ UNCHANGED <<disk, process, pages, clock, dangling, outside, crashes>>

Edited(cfg) ==
  {cfg} \cup {[cfg EXCEPT !.tools = @ \ {t}] : t \in cfg.tools}
        \cup {[cfg EXCEPT !.tools = (@ \ {t}) \cup {[t EXCEPT !.name = n]}] :
                t \in cfg.tools, n \in {m \in Names : NameFree(m, cfg.tools, Broken)}}

Going(p) == files[p] = NoFile \/ (op.stage = "unlink" /\ p \in op.victims)

EditorSaves ==
  /\ Outside
  /\ buffer.ok
  /\ \E cfg \in Edited(buffer) :
       /\ config' = cfg
       /\ dangling' = dangling \cup {p \in CodePaths(cfg) : Going(p)}
  /\ Race
  /\ UNCHANGED <<files, clock, buffer>>

\* the file cannot be parsed for a while; its text is still there
EditorBreaks ==
  /\ Outside /\ config.ok
  /\ config' = [config EXCEPT !.ok = FALSE]
  /\ Race
  /\ UNCHANGED <<files, clock, buffer, dangling>>

EditorRepairs ==
  /\ Outside /\ ~config.ok
  /\ config' = [config EXCEPT !.ok = TRUE]
  /\ Race
  /\ UNCHANGED <<files, clock, buffer, dangling>>

EditorWritesCode(p) ==
  /\ Outside /\ clock < MaxClock
  /\ p \in CodePaths(config) /\ files[p] # NoFile
  /\ files' = [files EXCEPT ![p] = Fresh]
  /\ clock' = Fresh
  /\ Race
  /\ UNCHANGED <<config, buffer, dangling>>

-----------------------------------------------------------------------------
Requests ==
  \/ \E k \in {"python", "http"}, n \in Names : CreateTool(k, n)
  \/ \E ns \in SUBSET Names \ {{}}, p \in Pages : ImportOpenapi(p, ns)
  \/ CreateConnection
  \/ \E d \in discoveries, r \in Remotes, n \in Names : ImportMcp(d, r, n)
  \/ \E p \in Pages :
       \/ ReadPage(p)
       \/ \E t \in config.tools : DeleteTool(p, t.id) \/ \E n \in Names : UpdateTool(p, t.id, n)
       \/ \E c \in config.conns :
            UpdateConnection(p, c.id) \/ DeleteConnection(p, c.id) \/ Discover(p, c)

Sessions ==
  \/ \E p \in Pages : SessionFails(p) \/ \E o \in Offers : SessionLists(p, o)
  \/ \E d \in discoveries : Expire(d)

Writing ==
  \/ OpenCode \/ CloseCode \/ CodeFails \/ Check \/ CommitFails \/ Replace \/ Collect
  \/ \E p \in Numbers : Unlink(p) \/ UnlinkFails(p)

Surroundings ==
  \/ Restart \/ EditorLoads \/ EditorSaves \/ EditorBreaks \/ EditorRepairs
  \/ \E p \in Numbers : EditorWritesCode(p)

Next == Requests \/ Sessions \/ Writing \/ Surroundings

Spec == Init /\ [][Next]_vars
-----------------------------------------------------------------------------
(* What users rely on. *)

\* No two tools answer to one name and none hides a built-in tool, whatever
\* pages, imports and editors save between a check of a name and its use
\* (_prepare_tool checks the names it read, _commit that they are current).
NamesUnique ==
  \A t \in config.tools :
    t.name \notin Reserved /\ \A u \in config.tools : u.name = t.name => u = t

\* A tool of an MCP server always finds the connection it was imported
\* through: deleting a connection takes its tools along, and a discovery made
\* before the deletion brings none of them back.
McpToolsAreConnected ==
  \A t \in config.tools : t.kind = "mcp" => \E c \in config.conns : c.id = t.conn

\* Every Python tool that can be read has complete code, through failing
\* writes, conflicts, ends of the process and cleanups; only an outside save
\* that refers to code already removed, or being removed, can dangle.
CodeIsThere ==
  \A p \in CodePaths(config) \ dangling : files[p] \notin {NoFile, Partial}

Replacing == op.stage = "replace" /\ crashes' = crashes /\ op'.stage = "collect"

\* A page replaces or deletes nothing its user has not seen: whatever a
\* commit takes out of the file, tool, code or connection, was in the version
\* the page (or the discovery) had read.  An outside edit made after the last
\* check is not covered: editors outside take no part in the lock.
NothingUnseenIsLost ==
  [][ Replacing /\ ~op.raced =>
        /\ config.conns \ config'.conns \subseteq op.seen.config.conns
        /\ \A t \in config.tools \ config'.tools :
             /\ t \in op.seen.config.tools
             /\ t.kind = "python" => op.seen.code[t.path] = files[t.path] ]_vars

\* What an import adds was listed by the connection as it is saved now, not by
\* the server it pointed to before an edit.
ImportsFromCurrentConnection ==
  [][ Replacing /\ op.kind = "import" => op.probed \in config'.conns ]_vars
=============================================================================
