--------------------------- MODULE ToolLibrary_proofs ---------------------------
(***************************************************************************)
(* Machine-checked facts about ToolLibrary for every number of pages,      *)
(* names, remote tools and saves, every bound on outside edits and ends of *)
(* the process.                                                            *)
(***************************************************************************)
EXTENDS ToolLibrary, FiniteSetTheorems, TLAPS

-----------------------------------------------------------------------------
(* Types.                                                                   *)

LEMMA Digits == {0, 1, 2} \subseteq Numbers
BY LibraryAssumption DEF Numbers

LEMMA NoConnType == NoConn \in Conns
BY Digits DEF NoConn, Conns

LEMMA VersionType ==
  ASSUME NEW cfg \in Configs, NEW fs \in [Numbers -> Numbers]
  PROVE  Version(cfg, fs) \in Versions
BY Digits DEF Version, Versions, NoFile

LEMMA NoVersionType == Broken \in Configs /\ NoVersion \in Versions
<1>1. Broken \in Configs
  BY DEF Broken, Configs
<1>2. [p \in Numbers |-> NoFile] \in [Numbers -> Numbers]
  BY Digits DEF NoFile
<1> QED BY <1>1, <1>2, VersionType DEF NoVersion

LEMMA IdleType == Idle \in Operations /\ Cleaning \in Operations
<1>1. Idle \in Operations
  BY Digits, NoConnType, NoVersionType DEF Idle, Operations, OpKinds, Stages
<1>2. Cleaning \in Operations
  BY <1>1 DEF Cleaning, Operations, OpKinds, Stages
<1> QED BY <1>1, <1>2

LEMMA ToolType ==
  ASSUME NEW id \in Numbers, NEW kind \in {"python", "http", "mcp"}, NEW name \in Names,
         NEW rev \in Numbers, NEW path \in Numbers
  PROVE  Tool(id, kind, name, rev, path) \in Tools
BY Digits DEF Tool, Tools

\* An operation that takes the lock starts from an empty record.
LEMMA BeginType ==
  ASSUME NEW kind \in OpKinds, NEW seen \in Versions, NEW next \in Configs,
         NEW path \in Numbers, NEW probed \in Conns,
         config \in Configs, files \in [Numbers -> Numbers],
         Begin(kind, seen, next, path, probed)
  PROVE  /\ op' \in Operations
         /\ op'.stage = (IF path = 0 THEN "check" ELSE "open")
         /\ op'.kind = kind /\ op'.seen = seen /\ op'.base = Version(config, files)
         /\ op'.next = next /\ op'.path = path /\ op'.probed = probed
         /\ op'.victims = {} /\ op'.raced = FALSE
<1>1. Version(config, files) \in Versions
  BY VersionType
<1>2. Idle \in Operations /\ Idle.victims = {} /\ Idle.raced = FALSE
  BY IdleType DEF Idle
<1>3. (IF path = 0 THEN "check" ELSE "open") \in Stages
  BY DEF Stages
<1> QED BY <1>1, <1>2, <1>3 DEF Begin, Operations

\* NamesUnique and McpToolsAreConnected of any configuration.
Unique(cfg) ==
  \A t \in cfg.tools :
    t.name \notin Reserved /\ \A u \in cfg.tools : u.name = t.name => u = t

Connected(cfg) ==
  \A t \in cfg.tools : t.kind = "mcp" => \E c \in cfg.conns : c.id = t.conn

\* A discovery, and a session that may become one, is of a connection of the
\* version it is bound to.
Found ==
  /\ \A d \in discoveries : d.conn \in d.version.config.conns
  /\ \A p \in Pages : probing[p].conn # NoConn =>
       probing[p].conn \in probing[p].version.config.conns

\* A request prepares a configuration from the one it read: what it may lose
\* of it, the requester has seen.
Plan(kind, seen, next, path, probed) ==
  /\ kind \in OpKinds \ {"none", "cleanup"}
  /\ seen \in Versions /\ next \in Configs /\ path \in Numbers /\ probed \in Conns
  /\ config.conns \ next.conns # {} \/ config.tools \ next.tools # {}
       => seen = Version(config, files)
  /\ path # 0 => path > clock /\ path <= clock'
  /\ CodePaths(next) \subseteq CodePaths(config) \cup ({path} \ {0})
  /\ kind = "import" => probed \in next.conns
  /\ Unique(config) => Unique(next)
  /\ Connected(config) => Connected(next)

Takes == \E kind, seen, next, path, probed :
           Begin(kind, seen, next, path, probed) /\ Plan(kind, seen, next, path, probed)

LEMMA FreshType ==
  ASSUME clock \in 2..MaxClock, clock < MaxClock
  PROVE  Fresh \in Numbers /\ Fresh \in 2..MaxClock /\ Fresh > clock
BY LibraryAssumption DEF Fresh, Numbers

LEMMA CreateToolTakes ==
  ASSUME TypeOK, NEW kind \in {"python", "http"}, NEW name \in Names, CreateTool(kind, name)
  PROVE  Takes /\ clock' \in 2..MaxClock
<1> DEFINE path == IF kind = "python" THEN Fresh ELSE 0
           tool == Tool(Fresh, kind, name, Fresh, path)
           next == WithTools(config.tools \cup {tool})
<1>1. Begin("create", NoVersion, next, path, NoConn)
  BY DEF CreateTool
<1>2. Fresh \in Numbers /\ Fresh \in 2..MaxClock /\ Fresh > clock /\ clock' = Fresh
  BY FreshType DEF CreateTool, TypeOK
<1>3. tool \in Tools /\ path \in Numbers
  BY <1>2, ToolType, Digits
<1>4. next \in Configs /\ next.tools = config.tools \cup {tool} /\ next.conns = config.conns
  BY <1>3 DEF TypeOK, Configs, WithTools
<1>5. CodePaths(next) \subseteq CodePaths(config) \cup ({path} \ {0})
  <2>1. tool.kind = kind /\ tool.path = path /\ (kind = "python" => path > clock)
    BY <1>2 DEF Tool
  <2>2. clock \in Nat
    BY LibraryAssumption DEF TypeOK
  <2> HIDE DEF path, next, tool
  <2> QED BY <1>4, <2>1, <2>2 DEF CodePaths
<1>6. path # 0 => path = Fresh
  OBVIOUS
<1>7. "create" \in OpKinds \ {"none", "cleanup"}
  BY DEF OpKinds
<1>8. config.conns \ next.conns = {} /\ config.tools \ next.tools = {}
  BY <1>4
<1>9. NameFree(name, config.tools, Broken) /\ tool.name = name /\ tool.kind # "mcp"
  BY DEF CreateTool, Tool
<1>10. Broken \notin Tools /\ config.tools \subseteq Tools
  BY DEF Broken, Tools, TypeOK, Configs
<1>11. Unique(config) => Unique(next)
  <2> HIDE DEF path, next, tool
  <2> QED BY <1>4, <1>9, <1>10 DEF Unique, NameFree
<1>12. Connected(config) => Connected(next)
  <2> HIDE DEF path, next, tool
  <2> QED BY <1>4, <1>9 DEF Connected
<1>13. Plan("create", NoVersion, next, path, NoConn)
  <2> HIDE DEF path, next, tool
  <2> QED BY <1>2, <1>3, <1>4, <1>5, <1>6, <1>7, <1>8, <1>11, <1>12, NoVersionType, NoConnType
          DEF Plan
<1> QED BY <1>1, <1>2, <1>13 DEF Takes

LEMMA UpdateToolTakes ==
  ASSUME TypeOK, NEW page \in Pages, NEW id, NEW name \in Names, UpdateTool(page, id, name)
  PROVE  Takes /\ clock' \in 2..MaxClock
<1>1. PICK previous \in config.tools :
        LET path == IF previous.kind = "python" THEN Fresh ELSE 0
            tool == [previous EXCEPT !.name = name, !.rev = Fresh, !.path = path]
        IN /\ NameFree(name, config.tools, previous)
           /\ Begin("update", pages[page], WithTools((config.tools \ {previous}) \cup {tool}),
                    path, NoConn)
  BY DEF UpdateTool
<1> DEFINE path == IF previous.kind = "python" THEN Fresh ELSE 0
           tool == [previous EXCEPT !.name = name, !.rev = Fresh, !.path = path]
           next == WithTools((config.tools \ {previous}) \cup {tool})
<1>2. Fresh \in Numbers /\ Fresh \in 2..MaxClock /\ Fresh > clock /\ clock' = Fresh
  BY FreshType DEF UpdateTool, TypeOK
<1>3. previous \in Tools
  BY DEF TypeOK, Configs
<1>4. /\ tool \in Tools /\ path \in Numbers /\ tool.path = path /\ tool.name = name
      /\ tool.kind = previous.kind /\ tool.conn = previous.conn
  BY <1>2, <1>3, Digits DEF Tools
<1>5. /\ next \in Configs /\ next.tools = (config.tools \ {previous}) \cup {tool}
      /\ next.conns = config.conns
  BY <1>4 DEF TypeOK, Configs, WithTools
<1>6. (path # 0 => path = Fresh) /\ "update" \in OpKinds \ {"none", "cleanup"}
  BY DEF OpKinds
<1>7. pages[page] \in Versions /\ pages[page] = Version(config, files)
  BY DEF UpdateTool, CheckVersion, TypeOK
<1>8. NameFree(name, config.tools, previous)
  BY <1>1
<1>9. Begin("update", pages[page], next, path, NoConn)
  BY <1>1
<1> HIDE DEF path, next, tool
<1>10. CodePaths(next) \subseteq CodePaths(config) \cup ({path} \ {0})
  <2>1. previous.kind = "python" => path = Fresh
    BY DEF path
  <2>2. clock \in Nat
    BY LibraryAssumption DEF TypeOK
  <2> QED BY <1>2, <1>4, <1>5, <2>1, <2>2 DEF CodePaths
<1>11. Unique(config) => Unique(next)
  BY <1>4, <1>5, <1>8 DEF Unique, NameFree
<1>12. Connected(config) => Connected(next)
  BY <1>4, <1>5 DEF Connected
<1>13. Plan("update", pages[page], next, path, NoConn)
  BY <1>2, <1>4, <1>5, <1>6, <1>7, <1>10, <1>11, <1>12, NoConnType DEF Plan
<1> QED BY <1>2, <1>9, <1>13 DEF Takes

LEMMA DeleteToolTakes ==
  ASSUME TypeOK, NEW page \in Pages, NEW id, DeleteTool(page, id)
  PROVE  Takes /\ clock' = clock
<1> DEFINE next == WithTools({t \in config.tools : t.id # id})
<1>1. Begin("delete", pages[page], next, 0, NoConn) /\ clock' = clock
  BY DEF DeleteTool
<1>2. /\ next \in Configs /\ next.tools = {t \in config.tools : t.id # id}
      /\ next.conns = config.conns
  BY DEF TypeOK, Configs, WithTools
<1>3. pages[page] \in Versions /\ pages[page] = Version(config, files)
  BY DEF DeleteTool, CheckVersion, TypeOK
<1> HIDE DEF next
<1>4. CodePaths(next) \subseteq CodePaths(config)
  BY <1>2 DEF CodePaths
<1>5. (Unique(config) => Unique(next)) /\ (Connected(config) => Connected(next))
  BY <1>2 DEF Unique, Connected
<1>6. Plan("delete", pages[page], next, 0, NoConn)
  BY <1>2, <1>3, <1>4, <1>5, NoConnType, Digits DEF Plan, OpKinds
<1> QED BY <1>1, <1>6 DEF Takes

LEMMA ImportOpenapiTakes ==
  ASSUME TypeOK, NEW page \in Pages, NEW names \in SUBSET Names \ {{}}, ImportOpenapi(page, names)
  PROVE  Takes /\ clock' \in 2..MaxClock /\ clock' >= clock
<1> DEFINE last == clock + Cardinality(names)
           added(id) == {Tool(id[n], "http", n, last, 0) : n \in names}
           next(id) == WithTools(config.tools \cup added(id))
<1>1. PICK id \in [names -> Fresh..last] : Begin("openapi", pages[page], next(id), 0, NoConn)
  BY DEF ImportOpenapi
<1>2. IsFiniteSet(names) /\ Cardinality(names) \in Nat
  BY LibraryAssumption, FS_Subset, FS_CardinalityType
<1>3. last \in 2..MaxClock /\ last \in Numbers /\ last >= clock /\ clock' = last
  BY <1>2 DEF ImportOpenapi, TypeOK, Numbers
<1>4. ASSUME NEW t \in added(id) PROVE t \in Tools /\ t.kind = "http" /\ t.name \in names
  <2>1. PICK n \in names : t = Tool(id[n], "http", n, last, 0)
    OBVIOUS
  <2>2. n \in Names /\ id[n] \in Fresh..last
    OBVIOUS
  <2>3. id[n] \in Numbers
    <3>1. clock \in 2..MaxClock
      BY DEF TypeOK
    <3> HIDE DEF last
    <3> QED BY <3>1, <2>2, <1>3, LibraryAssumption DEF Fresh, Numbers
  <2>4. t \in Tools
    BY <2>1, <2>2, <2>3, <1>3, ToolType, Digits
  <2> QED BY <2>1, <2>4 DEF Tool
<1>5. ASSUME NEW t \in added(id), NEW u \in added(id), t.name = u.name PROVE t = u
  BY <1>5 DEF Tool
<1>6. /\ next(id) \in Configs /\ next(id).tools = config.tools \cup added(id)
      /\ next(id).conns = config.conns
  BY <1>4 DEF TypeOK, Configs, WithTools
<1>7. \A n \in names : NameFree(n, config.tools, Broken)
  BY DEF ImportOpenapi
<1>8. Broken \notin Tools /\ config.tools \subseteq Tools
  BY DEF Broken, Tools, TypeOK, Configs
<1>9. pages[page] \in Versions /\ pages[page] = Version(config, files)
  BY DEF ImportOpenapi, CheckVersion, TypeOK
<1> HIDE DEF last, added, next
<1>10. CodePaths(next(id)) \subseteq CodePaths(config)
  BY <1>4, <1>6 DEF CodePaths
<1>11. Unique(config) => Unique(next(id))
  BY <1>4, <1>5, <1>6, <1>7, <1>8 DEF Unique, NameFree
<1>12. Connected(config) => Connected(next(id))
  BY <1>4, <1>6 DEF Connected
<1>13. Plan("openapi", pages[page], next(id), 0, NoConn)
  BY <1>6, <1>9, <1>10, <1>11, <1>12, NoConnType, Digits DEF Plan, OpKinds
<1> QED BY <1>1, <1>3, <1>13 DEF Takes

LEMMA ConnectionTakes ==
  ASSUME TypeOK,
         \/ CreateConnection
         \/ \E page \in Pages, c \in config.conns :
              UpdateConnection(page, c.id) \/ DeleteConnection(page, c.id)
  PROVE  Takes /\ clock' \in 2..MaxClock /\ clock' >= clock
<1>0. clock \in 2..MaxClock /\ clock >= clock
  BY DEF TypeOK
<1>1. CASE CreateConnection
  <2> DEFINE next == [config EXCEPT !.conns = @ \cup {[id |-> Fresh, rev |-> Fresh]}]
  <2>1. Begin("connect", NoVersion, next, 0, NoConn)
    BY <1>1 DEF CreateConnection
  <2>2. Fresh \in Numbers /\ Fresh \in 2..MaxClock /\ Fresh >= clock /\ clock' = Fresh
    BY <1>1, FreshType DEF CreateConnection, TypeOK
  <2>3. /\ next \in Configs /\ next.tools = config.tools
        /\ next.conns = config.conns \cup {[id |-> Fresh, rev |-> Fresh]}
    <3>1. [id |-> Fresh, rev |-> Fresh] \in Conns
      BY <2>2 DEF Conns
    <3> QED BY <3>1 DEF TypeOK, Configs
  <2> HIDE DEF next
  <2>4. CodePaths(next) \subseteq CodePaths(config)
    BY <2>3 DEF CodePaths
  <2>5. (Unique(config) => Unique(next)) /\ (Connected(config) => Connected(next))
    BY <2>3 DEF Unique, Connected
  <2>6. Plan("connect", NoVersion, next, 0, NoConn)
    BY <2>3, <2>4, <2>5, NoVersionType, NoConnType, Digits DEF Plan, OpKinds
  <2> QED BY <2>1, <2>2, <2>6 DEF Takes
<1>2. ASSUME NEW page \in Pages, NEW c \in config.conns, UpdateConnection(page, c.id)
      PROVE  Takes /\ clock' \in 2..MaxClock /\ clock' >= clock
  <2> DEFINE next == [config EXCEPT !.conns = {d \in @ : d.id # c.id}
                                                \cup {[id |-> c.id, rev |-> Fresh]}]
  <2>1. Begin("reconnect", pages[page], next, 0, NoConn)
    BY <1>2 DEF UpdateConnection
  <2>2. Fresh \in Numbers /\ Fresh \in 2..MaxClock /\ Fresh >= clock /\ clock' = Fresh
    BY <1>2, FreshType DEF UpdateConnection, TypeOK
  <2>3. /\ next \in Configs /\ next.tools = config.tools
        /\ next.conns = {d \in config.conns : d.id # c.id} \cup {[id |-> c.id, rev |-> Fresh]}
    BY <2>2 DEF TypeOK, Configs, Conns
  <2>4. pages[page] \in Versions /\ pages[page] = Version(config, files)
    BY <1>2 DEF UpdateConnection, CheckVersion, TypeOK
  <2> HIDE DEF next
  <2>5. CodePaths(next) \subseteq CodePaths(config)
    BY <2>3 DEF CodePaths
  <2>6. (Unique(config) => Unique(next)) /\ (Connected(config) => Connected(next))
    BY <2>3 DEF Unique, Connected
  <2>7. Plan("reconnect", pages[page], next, 0, NoConn)
    BY <2>3, <2>4, <2>5, <2>6, NoConnType, Digits DEF Plan, OpKinds
  <2> QED BY <2>1, <2>2, <2>7 DEF Takes
<1>3. ASSUME NEW page \in Pages, NEW c \in config.conns, DeleteConnection(page, c.id)
      PROVE  Takes /\ clock' \in 2..MaxClock /\ clock' >= clock
  <2> DEFINE next == [config EXCEPT !.conns = {d \in @ : d.id # c.id},
                                    !.tools = {t \in @ : t.kind # "mcp" \/ t.conn # c.id}]
  <2>1. Begin("disconnect", pages[page], next, 0, NoConn) /\ clock' = clock
    BY <1>3 DEF DeleteConnection
  <2>2. /\ next \in Configs
        /\ next.tools = {t \in config.tools : t.kind # "mcp" \/ t.conn # c.id}
        /\ next.conns = {d \in config.conns : d.id # c.id}
    BY DEF TypeOK, Configs
  <2>3. pages[page] \in Versions /\ pages[page] = Version(config, files)
    BY <1>3 DEF DeleteConnection, CheckVersion, TypeOK
  <2> HIDE DEF next
  <2>4. CodePaths(next) \subseteq CodePaths(config)
    BY <2>2 DEF CodePaths
  <2>5. (Unique(config) => Unique(next)) /\ (Connected(config) => Connected(next))
    BY <2>2 DEF Unique, Connected
  <2>6. Plan("disconnect", pages[page], next, 0, NoConn)
    BY <2>2, <2>3, <2>4, <2>5, NoConnType, Digits DEF Plan, OpKinds
  <2> QED BY <1>0, <2>1, <2>6 DEF Takes
<1> QED BY <1>1, <1>2, <1>3

LEMMA ImportMcpTakes ==
  ASSUME TypeOK, Found, NEW d \in discoveries, NEW r \in Remotes, NEW name \in Names,
         ImportMcp(d, r, name)
  PROVE  Takes /\ clock' \in 2..MaxClock
<1> DEFINE previous == Imported(config.tools, d, r)
           new == [Tool(Fresh, "mcp", name, Fresh, 0) EXCEPT !.conn = d.conn.id, !.remote = r,
                                                             !.source = d.offer]
           changed(t) == IF t.source = d.offer THEN t
                         ELSE [t EXCEPT !.source = d.offer, !.rev = Fresh]
           tools == IF previous = {} THEN config.tools \cup {new}
                    ELSE (config.tools \ previous) \cup {changed(t) : t \in previous}
           next == WithTools(tools)
<1>1. /\ Begin("import", d.version, next, 0, d.conn)
      /\ Readable /\ CheckVersion(d.version) /\ CanSelect(config.tools, d, r, name)
  BY DEF ImportMcp, Select
<1>2. Fresh \in Numbers /\ Fresh \in 2..MaxClock /\ clock' = Fresh
  BY FreshType DEF ImportMcp, TypeOK
<1>3. d.conn \in Conns /\ d.version \in Versions /\ d.offer \in Offers
  BY DEF TypeOK
<1>4. d.version = Version(config, files) /\ d.conn \in config.conns
  <2>1. d.version = Version(config, files) /\ d.conn \in d.version.config.conns
    BY <1>1 DEF CheckVersion, Found
  <2>2. Version(config, files).config = config
    BY DEF Version
  <2> QED BY <2>1, <2>2
<1>5. config.tools \subseteq Tools /\ previous \subseteq config.tools
  BY DEF TypeOK, Configs, Imported
<1>6. Tool(Fresh, "mcp", name, Fresh, 0) \in Tools
  BY <1>2, Digits, ToolType
<1>7. /\ new \in Tools /\ new.name = name /\ new.kind = "mcp" /\ new.conn = d.conn.id
  BY <1>3, <1>6 DEF Tools, Tool, Conns
<1>8. ASSUME NEW t \in previous
      PROVE  /\ changed(t) \in Tools /\ changed(t).name = t.name
             /\ changed(t).kind = "mcp" /\ changed(t).conn = t.conn /\ t.kind = "mcp"
  BY <1>2, <1>3, <1>5 DEF Tools, Imported
<1>9. tools \subseteq Tools
  BY <1>5, <1>7, <1>8
<1>10. next \in Configs /\ next.tools = tools /\ next.conns = config.conns
  BY <1>9 DEF TypeOK, Configs, WithTools
<1>11. previous = {} => NameFree(name, config.tools, Broken)
  BY <1>1 DEF CanSelect
<1>12. Broken \notin Tools
  BY DEF Broken, Tools
<1>13. previous = {} => next.tools = config.tools \cup {new}
  BY <1>10
<1>14. previous # {} =>
         next.tools = (config.tools \ previous) \cup {changed(t) : t \in previous}
  BY <1>10
<1> HIDE DEF new, changed, previous, tools, next
<1>15. CASE previous = {}
  <2>1. CodePaths(next) \subseteq CodePaths(config)
    BY <1>7, <1>13, <1>15 DEF CodePaths
  <2>2. Unique(config) => Unique(next)
    BY <1>5, <1>7, <1>11, <1>12, <1>13, <1>15 DEF Unique, NameFree
  <2>3. Connected(config) => Connected(next)
    BY <1>4, <1>7, <1>10, <1>13, <1>15 DEF Connected
  <2>4. Plan("import", d.version, next, 0, d.conn)
    BY <2>1, <2>2, <2>3, <1>3, <1>4, <1>10, Digits DEF Plan, OpKinds
  <2> QED BY <2>4, <1>1, <1>2 DEF Takes
<1>16. CASE previous # {}
  <2>1. CodePaths(next) \subseteq CodePaths(config)
    BY <1>8, <1>14, <1>16 DEF CodePaths
  <2>2. Unique(config) => Unique(next)
    <3> SUFFICES ASSUME Unique(config), NEW t \in next.tools
                 PROVE  /\ t.name \notin Reserved
                        /\ \A u \in next.tools : u.name = t.name => u = t
      BY DEF Unique
    <3>1. \A u \in next.tools : \/ u \in config.tools \ previous
                               \/ \E v \in previous : u = changed(v)
      BY <1>14, <1>16
    <3>2. \A u \in next.tools : \E v \in config.tools :
            /\ v.name = u.name
            /\ u = IF v \in previous THEN changed(v) ELSE v
      BY <3>1, <1>5, <1>8
    <3>3. PICK v \in config.tools : v.name = t.name /\ t = IF v \in previous THEN changed(v) ELSE v
      BY <3>2
    <3>4. t.name \notin Reserved
      BY <3>3 DEF Unique
    <3>5. ASSUME NEW u \in next.tools, u.name = t.name PROVE u = t
      <4>1. PICK w \in config.tools : w.name = u.name /\ u = IF w \in previous THEN changed(w) ELSE w
        BY <3>2
      <4>2. w = v
        BY <3>3, <3>5, <4>1 DEF Unique
      <4> QED BY <3>3, <4>1, <4>2
    <3> QED BY <3>4, <3>5
  <2>3. Connected(config) => Connected(next)
    BY <1>5, <1>8, <1>10, <1>14, <1>16 DEF Connected
  <2>4. Plan("import", d.version, next, 0, d.conn)
    BY <2>1, <2>2, <2>3, <1>3, <1>4, <1>10, <1>16, Digits DEF Plan, OpKinds
  <2> QED BY <2>4, <1>1, <1>2 DEF Takes
<1> QED BY <1>15, <1>16

\* What every request that writes does: it takes the lock with a plan.
Request ==
  /\ Readable /\ Takes
  /\ clock' \in 2..MaxClock /\ clock' >= clock
  /\ UNCHANGED <<config, files, pages, probing, discoveries, buffer, dangling, outside, crashes>>

LEMMA RequestsTake ==
  ASSUME TypeOK, Found, Requests
  PROVE  \/ Request
         \/ \E p \in Pages : ReadPage(p)
         \/ \E p \in Pages, c \in config.conns : Discover(p, c)
<1> USE DEF disk, editor
<1>0. clock \in 2..MaxClock /\ clock >= clock /\ Fresh >= clock
  BY DEF TypeOK, Fresh
<1>1. ASSUME NEW k \in {"python", "http"}, NEW n \in Names, CreateTool(k, n) PROVE Request
  BY <1>0, <1>1, CreateToolTakes DEF Request, CreateTool
<1>2. ASSUME NEW ns \in SUBSET Names \ {{}}, NEW p \in Pages, ImportOpenapi(p, ns) PROVE Request
  BY <1>2, ImportOpenapiTakes DEF Request, ImportOpenapi
<1>3. CASE CreateConnection
  BY <1>3, ConnectionTakes DEF Request, CreateConnection
<1>4. ASSUME NEW d \in discoveries, NEW r \in Remotes, NEW n \in Names, ImportMcp(d, r, n)
      PROVE Request
  BY <1>0, <1>4, ImportMcpTakes DEF Request, ImportMcp
<1>5. ASSUME NEW p \in Pages, NEW t \in config.tools, DeleteTool(p, t.id) PROVE Request
  BY <1>0, <1>5, DeleteToolTakes DEF Request, DeleteTool
<1>6. ASSUME NEW p \in Pages, NEW t \in config.tools, NEW n \in Names, UpdateTool(p, t.id, n)
      PROVE Request
  BY <1>0, <1>6, UpdateToolTakes DEF Request, UpdateTool
<1>7. ASSUME NEW p \in Pages, NEW c \in config.conns, UpdateConnection(p, c.id) PROVE Request
  BY <1>7, ConnectionTakes DEF Request, UpdateConnection
<1>8. ASSUME NEW p \in Pages, NEW c \in config.conns, DeleteConnection(p, c.id) PROVE Request
  BY <1>8, ConnectionTakes DEF Request, DeleteConnection
<1> QED BY <1>1, <1>2, <1>3, <1>4, <1>5, <1>6, <1>7, <1>8 DEF Requests

\* The lock is taken with a typed record of the plan.
LEMMA RequestOp ==
  ASSUME TypeOK, Request
  PROVE  \E kind, seen, next, path, probed :
           /\ Plan(kind, seen, next, path, probed)
           /\ op' \in Operations
           /\ op'.stage = (IF path = 0 THEN "check" ELSE "open")
           /\ op'.kind = kind /\ op'.seen = seen /\ op'.base = Version(config, files)
           /\ op'.next = next /\ op'.path = path /\ op'.probed = probed
           /\ op'.victims = {} /\ op'.raced = FALSE
<1>1. PICK kind, seen, next, path, probed :
        Begin(kind, seen, next, path, probed) /\ Plan(kind, seen, next, path, probed)
  BY DEF Request, Takes
<1>2. /\ kind \in OpKinds /\ seen \in Versions /\ next \in Configs
      /\ path \in Numbers /\ probed \in Conns
  BY <1>1 DEF Plan
<1>3. config \in Configs /\ files \in [Numbers -> Numbers]
  BY DEF TypeOK
<1> QED BY <1>1, <1>2, <1>3, BeginType

\* A discovery stays one of a connection of its version.
LEMMA FoundStep == ASSUME TypeOK, Found, [Next]_vars PROVE Found'
<1> USE DEF disk, process, editor
<1>1. CASE Requests
  <2>1. CASE Request
    BY <2>1 DEF Request, Found
  <2>2. ASSUME NEW p \in Pages, ReadPage(p) PROVE Found'
    BY <2>2 DEF ReadPage, Found
  <2>3. ASSUME NEW p \in Pages, NEW c \in config.conns, Discover(p, c) PROVE Found'
    <3>1. probing \in [Pages -> [conn : Conns, version : Versions]]
      BY DEF TypeOK
    <3>2. Version(config, files).config = config
      BY DEF Version
    <3> QED BY <2>3, <3>1, <3>2 DEF Discover, Found
  <2> QED BY <1>1, <2>1, <2>2, <2>3, RequestsTake
<1>2. CASE Sessions
  <2>1. probing \in [Pages -> [conn : Conns, version : Versions]]
    BY DEF TypeOK
  <2>2. ASSUME NEW p \in Pages, SessionEnds(p)
        PROVE  \A q \in Pages : probing'[q].conn # NoConn => probing'[q] = probing[q]
    BY <2>1, <2>2 DEF SessionEnds
  <2>3. ASSUME NEW p \in Pages, SessionFails(p) PROVE Found'
    BY <2>2, <2>3 DEF SessionFails, Found
  <2>4. ASSUME NEW p \in Pages, NEW o \in Offers, SessionLists(p, o) PROVE Found'
    <3>1. SessionEnds(p) /\ probing[p].conn # NoConn
      BY <2>4 DEF SessionLists, SessionEnds
    <3>2. \A d \in discoveries' : \/ d \in discoveries
                                  \/ d.conn = probing[p].conn /\ d.version = probing[p].version
      BY <2>4 DEF SessionLists
    <3> QED BY <2>2, <3>1, <3>2 DEF Found
  <2>5. ASSUME NEW d \in discoveries, Expire(d) PROVE Found'
    BY <2>5 DEF Expire, Found
  <2> QED BY <1>2, <2>3, <2>4, <2>5 DEF Sessions
<1>3. CASE Writing
  BY <1>3 DEF Writing, OpenCode, CloseCode, CodeFails, Check, CommitFails, Replace, Collect,
              Unlink, UnlinkFails, At, Found
<1>4. CASE Surroundings
  <2>1. CASE Restart
    BY <2>1 DEF Restart, Found
  <2>2. CASE Surroundings /\ ~Restart
    BY <2>2 DEF Surroundings, EditorLoads, EditorSaves, EditorBreaks, EditorRepairs,
                EditorWritesCode, Outside, Found
  <2> QED BY <1>4, <2>1, <2>2
<1>5. CASE UNCHANGED vars
  BY <1>5 DEF vars, Found
<1> QED BY <1>1, <1>2, <1>3, <1>4, <1>5 DEF Next

LEMMA EditedType ==
  ASSUME NEW cfg \in Configs, NEW e \in Edited(cfg)
  PROVE  e \in Configs
BY DEF Edited, Configs, Tools

\* Releasing the lock, or moving on to another stage, keeps the record typed.
LEMMA StageType ==
  ASSUME TypeOK, NEW stage \in Stages \ {"idle"}, NEW victims \in SUBSET Numbers,
         \/ op' = [op EXCEPT !.stage = stage]
         \/ op' = [op EXCEPT !.stage = stage, !.victims = victims]
         \/ stage = op.stage /\ op' = [op EXCEPT !.victims = victims]
         \/ stage = op.stage /\ op' = [op EXCEPT !.raced = TRUE]
         \/ op' = Idle \/ op' = Cleaning
  PROVE  op' \in Operations /\ (op'.stage = "idle" => op' = Idle)
<1>1. op \in Operations
  BY DEF TypeOK
<1>2. CASE op' = Idle \/ op' = Cleaning
  BY <1>2, IdleType DEF Cleaning, Idle
<1>3. CASE op' = [op EXCEPT !.stage = stage]
  BY <1>1, <1>3 DEF Operations
<1>4. CASE op' = [op EXCEPT !.stage = stage, !.victims = victims]
  BY <1>1, <1>4 DEF Operations
<1>5. CASE stage = op.stage /\ op' = [op EXCEPT !.victims = victims]
  BY <1>1, <1>5 DEF Operations
<1>6. CASE stage = op.stage /\ op' = [op EXCEPT !.raced = TRUE]
  BY <1>1, <1>6 DEF Operations
<1> QED BY <1>2, <1>3, <1>4, <1>5, <1>6

LEMMA RaceType == ASSUME TypeOK, Race PROVE op' \in Operations /\ (op'.stage = "idle" => op' = Idle)
<1>1. CASE op.stage = "replace"
  BY <1>1, StageType DEF Race, Stages
<1>2. CASE op.stage # "replace"
  BY <1>2 DEF Race, TypeOK
<1> QED BY <1>1, <1>2

LEMMA WritingType == ASSUME TypeOK, Writing PROVE TypeOK'
<1>1. CASE OpenCode
  <2>1. op' \in Operations /\ (op'.stage = "idle" => op' = Idle)
    BY <1>1, StageType DEF OpenCode, Stages
  <2>2. files' \in [Numbers -> Numbers]
    BY <1>1, Digits DEF OpenCode, TypeOK, Partial
  <2> QED BY <1>1, <2>1, <2>2 DEF OpenCode, At, editor, TypeOK
<1>2. CASE CloseCode
  <2>1. op' \in Operations /\ (op'.stage = "idle" => op' = Idle)
    BY <1>2, StageType DEF CloseCode, Stages
  <2>2. op.path \in Numbers
    BY DEF TypeOK, Operations
  <2>3. files' \in [Numbers -> Numbers]
    BY <1>2, <2>2 DEF CloseCode, TypeOK
  <2> QED BY <1>2, <2>1, <2>3 DEF CloseCode, At, editor, TypeOK
<1>3. CASE CodeFails \/ CommitFails
  <2>1. op' \in Operations /\ (op'.stage = "idle" => op' = Idle)
    BY <1>3, IdleType DEF CodeFails, CommitFails, Release
  <2> QED BY <1>3, <2>1 DEF CodeFails, CommitFails, At, disk, editor, TypeOK
<1>4. CASE Check
  <2>1. op' \in Operations /\ (op'.stage = "idle" => op' = Idle)
    <3>1. op' = Idle \/ op' = [op EXCEPT !.stage = "replace"]
      BY <1>4 DEF Check, Release
    <3>2. "replace" \in Stages \ {"idle"} /\ {} \in SUBSET Numbers
      BY DEF Stages
    <3> QED BY <3>1, <3>2, StageType
  <2> QED BY <1>4, <2>1 DEF Check, At, disk, editor, TypeOK
<1>5. CASE Replace
  <2>1. op' \in Operations /\ (op'.stage = "idle" => op' = Idle)
    BY <1>5, IdleType DEF Replace, Cleaning, Idle
  <2>2. op.next \in Configs
    BY DEF TypeOK, Operations
  <2> QED BY <1>5, <2>1, <2>2 DEF Replace, At, editor, TypeOK
<1>6. CASE Collect
  <2>1. Unused \in SUBSET Numbers
    BY DEF Unused
  <2>2. op' \in Operations /\ (op'.stage = "idle" => op' = Idle)
    <3>1. op' = Idle \/ op' = [op EXCEPT !.stage = "unlink", !.victims = Unused]
      BY <1>6 DEF Collect, Release
    <3>2. "unlink" \in Stages \ {"idle"}
      BY DEF Stages
    <3> QED BY <2>1, <3>1, <3>2, StageType
  <2> QED BY <1>6, <2>2 DEF Collect, At, disk, editor, TypeOK
<1>7. ASSUME NEW p \in Numbers, Unlink(p) \/ UnlinkFails(p) PROVE TypeOK'
  <2>1. op.victims \ {p} \in SUBSET Numbers /\ op.stage = "unlink"
    BY <1>7 DEF TypeOK, Operations, Unlink, UnlinkFails, At
  <2>2. op' = Idle \/ op' = [op EXCEPT !.victims = op.victims \ {p}]
    BY <1>7 DEF Unlink, UnlinkFails, NextVictim, Release
  <2>3. op' \in Operations /\ (op'.stage = "idle" => op' = Idle)
    BY <2>1, <2>2, StageType DEF Stages
  <2>4. files' \in [Numbers -> Numbers]
    BY <1>7, Digits DEF Unlink, UnlinkFails, disk, TypeOK, NoFile
  <2> QED BY <1>7, <2>3, <2>4 DEF Unlink, UnlinkFails, At, disk, editor, TypeOK
<1> QED BY <1>1, <1>2, <1>3, <1>4, <1>5, <1>6, <1>7 DEF Writing

LEMMA OutsideType == ASSUME TypeOK, Outside PROVE outside' \in 0..MaxOutside
BY LibraryAssumption DEF TypeOK, Outside

LEMMA SurroundingsType == ASSUME TypeOK, Surroundings PROVE TypeOK'
<1>1. CASE Restart
  <2>1. op' \in Operations /\ (op'.stage = "idle" => op' = Idle)
    BY <1>1, IdleType DEF Restart, Cleaning, Idle
  <2>2. probing' \in [Pages -> [conn : Conns, version : Versions]]
    BY <1>1, NoConnType, NoVersionType DEF Restart
  <2>3. crashes' \in 0..MaxCrashes
    BY <1>1, LibraryAssumption DEF Restart, TypeOK
  <2>4. discoveries' = {}
    BY <1>1 DEF Restart
  <2> QED BY <1>1, <2>1, <2>2, <2>3, <2>4 DEF Restart, disk, editor, TypeOK
<1>2. CASE EditorLoads
  BY <1>2 DEF EditorLoads, disk, process, TypeOK
<1>3. CASE EditorSaves
  <2>1. config' \in Configs
    BY <1>3, EditedType DEF EditorSaves, TypeOK
  <2>2. dangling' \subseteq Numbers
    BY <1>3, EditedType DEF EditorSaves, TypeOK, CodePaths, Configs, Tools
  <2> QED BY <1>3, <2>1, <2>2, RaceType, OutsideType DEF EditorSaves, Outside, TypeOK
<1>4. CASE EditorBreaks \/ EditorRepairs
  <2>1. config' \in Configs
    BY <1>4 DEF EditorBreaks, EditorRepairs, TypeOK, Configs
  <2> QED BY <1>4, <2>1, RaceType, OutsideType DEF EditorBreaks, EditorRepairs, Outside, TypeOK
<1>5. ASSUME NEW p \in Numbers, EditorWritesCode(p) PROVE TypeOK'
  <2>1. Fresh \in Numbers /\ Fresh \in 2..MaxClock
    BY <1>5, FreshType DEF EditorWritesCode, TypeOK
  <2>2. files' \in [Numbers -> Numbers]
    BY <1>5, <2>1 DEF EditorWritesCode, TypeOK
  <2> QED BY <1>5, <2>1, <2>2, RaceType, OutsideType DEF EditorWritesCode, Outside, TypeOK
<1> QED BY <1>1, <1>2, <1>3, <1>4, <1>5 DEF Surroundings

LEMMA SessionsType == ASSUME TypeOK, Sessions PROVE TypeOK'
<1>1. [conn |-> NoConn, version |-> NoVersion] \in [conn : Conns, version : Versions]
  BY NoConnType, NoVersionType
<1>2. ASSUME NEW p \in Pages, SessionEnds(p)
      PROVE  probing' \in [Pages -> [conn : Conns, version : Versions]]
  BY <1>1, <1>2 DEF SessionEnds, TypeOK
<1>3. ASSUME NEW p \in Pages, SessionFails(p) PROVE TypeOK'
  BY <1>2, <1>3 DEF SessionFails, SessionEnds, disk, editor, TypeOK
<1>4. ASSUME NEW p \in Pages, NEW o \in Offers, SessionLists(p, o) PROVE TypeOK'
  <2>1. probing[p].conn \in Conns /\ probing[p].version \in Versions
    BY DEF TypeOK
  <2>2. discoveries' \subseteq [conn : Conns, version : Versions, offer : Offers]
    BY <1>4, <2>1 DEF SessionLists, TypeOK
  <2> QED BY <1>2, <1>4, <2>2 DEF SessionLists, SessionEnds, disk, editor, TypeOK
<1>5. ASSUME NEW d \in discoveries, Expire(d) PROVE TypeOK'
  BY <1>5 DEF Expire, disk, editor, TypeOK
<1> QED BY <1>3, <1>4, <1>5 DEF Sessions

LEMMA RequestsType == ASSUME TypeOK, Found, Requests PROVE TypeOK'
<1>1. CASE Request
  <2>1. op' \in Operations /\ (op'.stage = "idle" => op' = Idle)
    BY <1>1, RequestOp
  <2> QED BY <1>1, <2>1 DEF Request, TypeOK
<1>2. Version(config, files) \in Versions
  BY VersionType DEF TypeOK
<1>3. ASSUME NEW p \in Pages, ReadPage(p) PROVE TypeOK'
  BY <1>2, <1>3 DEF ReadPage, disk, process, editor, TypeOK
<1>4. ASSUME NEW p \in Pages, NEW c \in config.conns, Discover(p, c) PROVE TypeOK'
  <2>1. [conn |-> c, version |-> Version(config, files)] \in [conn : Conns, version : Versions]
    BY <1>2 DEF TypeOK, Configs
  <2> QED BY <1>4, <2>1 DEF Discover, disk, editor, TypeOK
<1> QED BY <1>1, <1>3, <1>4, RequestsTake

LEMMA InitType == ASSUME Init PROVE TypeOK /\ Found
<1>1. Tool(2, "python", FirstName, 2, UserFile) \in Tools
  BY ToolType, Digits, LibraryAssumption DEF UserFile
<1>2. config \in Configs
  BY <1>1, Digits DEF Init, Configs, Conns
<1>3. files \in [Numbers -> Numbers]
  BY Digits DEF Init, NoFile, UserFile
<1>4. probing \in [Pages -> [conn : Conns, version : Versions]]
  BY NoConnType, NoVersionType DEF Init
<1>5. clock \in 2..MaxClock /\ outside \in 0..MaxOutside /\ crashes \in 0..MaxCrashes
  BY LibraryAssumption DEF Init
<1>6. TypeOK
  BY <1>2, <1>3, <1>4, <1>5, IdleType, NoVersionType DEF Init, TypeOK
<1> QED BY <1>6 DEF Init, Found

LEMMA TypeStep == ASSUME TypeOK, Found, [Next]_vars PROVE TypeOK' /\ Found'
<1>1. UNCHANGED vars => TypeOK'
  BY DEF vars, TypeOK
<1> QED BY <1>1, FoundStep, RequestsType, SessionsType, WritingType, SurroundingsType DEF Next

\* The library's files, its lock, its pages and its discoveries always have
\* the shape the operations rely on.
THEOREM TypeCorrect == Spec => []TypeOK
<1>1. Init => TypeOK /\ Found
  BY InitType
<1>2. (TypeOK /\ Found) /\ [Next]_vars => (TypeOK /\ Found)'
  BY TypeStep
<1> QED BY <1>1, <1>2, PTL DEF Spec

-----------------------------------------------------------------------------
(* Names and connections.  Whatever may become the configuration, the file *)
(* an editor has loaded and the one an operation has prepared, has to be   *)
(* as good as the one on disk.                                             *)

Named ==
  /\ Unique(config) /\ Unique(buffer) /\ Unique(op.next)
  /\ Connected(config) /\ Connected(buffer) /\ Connected(op.next)
  /\ op.kind = "import" => op.probed \in op.next.conns

LEMMA BrokenNamed == /\ Unique(Broken) /\ Connected(Broken)
                     /\ Idle.next = Broken /\ Cleaning.next = Broken
                     /\ Idle.kind = "none" /\ Cleaning.kind = "cleanup"
BY DEF Unique, Connected, Broken, Idle, Cleaning

\* An outside edit of a good file is good.
LEMMA EditedNamed ==
  ASSUME NEW cfg \in Configs, Unique(cfg), Connected(cfg), NEW e \in Edited(cfg)
  PROVE  Unique(e) /\ Connected(e)
<1>1. CASE e = cfg
  BY <1>1
<1>2. ASSUME NEW t \in cfg.tools, e = [cfg EXCEPT !.tools = @ \ {t}]
      PROVE  Unique(e) /\ Connected(e)
  BY <1>2 DEF Configs, Unique, Connected
<1>3. ASSUME NEW t \in cfg.tools, NEW n \in Names, NameFree(n, cfg.tools, Broken),
             e = [cfg EXCEPT !.tools = (@ \ {t}) \cup {[t EXCEPT !.name = n]}]
      PROVE  Unique(e) /\ Connected(e)
  <2> DEFINE u == [t EXCEPT !.name = n]
  <2>1. t \in Tools /\ cfg.tools \subseteq Tools /\ Broken \notin Tools
    BY DEF Configs, Tools, Broken
  <2>2. u.name = n /\ u.kind = t.kind /\ u.conn = t.conn
    BY <2>1 DEF Tools
  <2>3. e.tools = (cfg.tools \ {t}) \cup {u} /\ e.conns = cfg.conns
    BY <1>3 DEF Configs
  <2> HIDE DEF u
  <2>4. n \notin Reserved /\ \A v \in cfg.tools : v.name # n
    BY <1>3, <2>1 DEF NameFree
  <2> QED BY <2>2, <2>3, <2>4 DEF Unique, Connected
<1> QED BY <1>1, <1>2, <1>3 DEF Edited

\* Moving the operation to another stage keeps what it has prepared.
LEMMA StageKeeps ==
  ASSUME TypeOK, NEW stage, NEW victims,
         \/ op' = [op EXCEPT !.stage = stage]
         \/ op' = [op EXCEPT !.stage = stage, !.victims = victims]
         \/ op' = [op EXCEPT !.victims = victims]
         \/ op' = [op EXCEPT !.raced = TRUE]
  PROVE  /\ op'.kind = op.kind /\ op'.next = op.next /\ op'.probed = op.probed
         /\ op'.base = op.base /\ op'.seen = op.seen /\ op'.path = op.path
<1>1. op \in Operations
  BY DEF TypeOK
<1> QED BY <1>1 DEF Operations

LEMMA WritingOp ==
  ASSUME TypeOK, Writing
  PROVE  \/ op' \in {Idle, Cleaning}
         \/ /\ op'.kind = op.kind /\ op'.next = op.next /\ op'.probed = op.probed
            /\ op'.base = op.base /\ op'.seen = op.seen /\ op'.path = op.path
<1>1. CASE OpenCode \/ CloseCode
  BY <1>1, StageKeeps DEF OpenCode, CloseCode
<1>2. CASE CodeFails \/ CommitFails \/ Replace
  BY <1>2 DEF CodeFails, CommitFails, Replace, Release
<1>3. CASE Check \/ Collect
  BY <1>3, StageKeeps DEF Check, Collect, Release
<1>4. ASSUME NEW p \in Numbers, Unlink(p) \/ UnlinkFails(p)
      PROVE  \/ op' = Idle
             \/ op' = [op EXCEPT !.victims = op.victims \ {p}]
  BY <1>4 DEF Unlink, UnlinkFails, NextVictim, Release
<1> QED BY <1>1, <1>2, <1>3, <1>4, StageKeeps DEF Writing

LEMMA RaceKeeps ==
  ASSUME TypeOK, Race
  PROVE  /\ op'.kind = op.kind /\ op'.next = op.next /\ op'.probed = op.probed
         /\ op'.base = op.base /\ op'.seen = op.seen /\ op'.path = op.path
BY StageKeeps DEF Race

LEMMA NamedStep == ASSUME TypeOK, Found, Named, [Next]_vars PROVE Named'
<1>1. CASE Requests
  <2>1. CASE Request
    <3>1. PICK kind, seen, next, path, probed :
            /\ Plan(kind, seen, next, path, probed)
            /\ op' \in Operations
            /\ op'.stage = (IF path = 0 THEN "check" ELSE "open")
            /\ op'.kind = kind /\ op'.seen = seen /\ op'.base = Version(config, files)
            /\ op'.next = next /\ op'.path = path /\ op'.probed = probed
            /\ op'.victims = {} /\ op'.raced = FALSE
      BY <2>1, RequestOp
    <3>2. Unique(next) /\ Connected(next) /\ (kind = "import" => probed \in next.conns)
      <4>1. /\ Unique(config) => Unique(next)
            /\ Connected(config) => Connected(next)
            /\ kind = "import" => probed \in next.conns
        BY <3>1 DEF Plan
      <4> QED BY <4>1 DEF Named
    <3>3. config' = config /\ buffer' = buffer
      BY <2>1 DEF Request
    <3>4. Unique(op'.next) /\ Connected(op'.next)
      BY <3>1, <3>2
    <3>5. op'.kind = "import" => op'.probed \in op'.next.conns
      BY <3>1, <3>2
    <3> QED BY <3>3, <3>4, <3>5 DEF Named, Unique, Connected
  <2>2. ASSUME NEW p \in Pages, ReadPage(p) PROVE Named'
    BY <2>2 DEF ReadPage, disk, process, editor, Named, Unique, Connected
  <2>3. ASSUME NEW p \in Pages, NEW c \in config.conns, Discover(p, c) PROVE Named'
    BY <2>3 DEF Discover, disk, editor, Named, Unique, Connected
  <2> QED BY <1>1, <2>1, <2>2, <2>3, RequestsTake
<1>2. CASE Sessions
  BY <1>2 DEF Sessions, SessionFails, SessionLists, SessionEnds, Expire, disk, editor,
              Named, Unique, Connected
<1>3. CASE Writing
  <2>1. config' = config \/ config' = op.next
    BY <1>3 DEF Writing, OpenCode, CloseCode, CodeFails, Check, CommitFails, Replace, Collect,
                Unlink, UnlinkFails, disk
  <2>2. buffer' = buffer
    BY <1>3 DEF Writing, OpenCode, CloseCode, CodeFails, Check, CommitFails, Replace, Collect,
                Unlink, UnlinkFails, At, editor
  <2>3. op'.next \in {op.next, Broken} /\ (op'.kind = "import" =>
          op'.next = op.next /\ op'.probed = op.probed /\ op.kind = "import")
    BY <1>3, WritingOp, BrokenNamed
  <2> QED BY <2>1, <2>2, <2>3, BrokenNamed DEF Named, Unique, Connected
<1>4. CASE Surroundings
  <2>1. CASE Restart
    BY <2>1, BrokenNamed DEF Restart, disk, editor, Named, Unique, Connected
  <2>2. CASE EditorLoads
    BY <2>2 DEF EditorLoads, disk, process, Named, Unique, Connected
  <2>3. CASE EditorSaves
    <3>1. Unique(config') /\ Connected(config') /\ buffer' = buffer
      BY <2>3, EditedNamed DEF EditorSaves, Named, TypeOK
    <3> QED BY <2>3, <3>1, RaceKeeps DEF EditorSaves, Named, Unique, Connected
  <2>4. CASE EditorBreaks \/ EditorRepairs
    <3>1. config'.tools = config.tools /\ config'.conns = config.conns /\ buffer' = buffer
      BY <2>4 DEF EditorBreaks, EditorRepairs, TypeOK, Configs
    <3> QED BY <2>4, <3>1, RaceKeeps DEF EditorBreaks, EditorRepairs, Named, Unique, Connected
  <2>5. ASSUME NEW p \in Numbers, EditorWritesCode(p) PROVE Named'
    BY <2>5, RaceKeeps DEF EditorWritesCode, Named, Unique, Connected
  <2> QED BY <1>4, <2>1, <2>2, <2>3, <2>4, <2>5 DEF Surroundings
<1>5. CASE UNCHANGED vars
  BY <1>5 DEF vars, Named, Unique, Connected
<1> QED BY <1>1, <1>2, <1>3, <1>4, <1>5 DEF Next

LEMMA InitNamed == ASSUME Init PROVE Named
<1>1. config.tools = {Tool(2, "python", FirstName, 2, UserFile)} /\ FirstName \notin Reserved
  BY LibraryAssumption DEF Init
<1>2. Unique(config) /\ Connected(config)
  BY <1>1 DEF Unique, Connected, Tool
<1> QED BY <1>2, BrokenNamed DEF Init, Named

LEMMA NamedAlways == Spec => [](TypeOK /\ Found /\ Named)
<1>1. Init => TypeOK /\ Found /\ Named
  BY InitType, InitNamed
<1>2. (TypeOK /\ Found /\ Named) /\ [Next]_vars => (TypeOK /\ Found /\ Named)'
  BY TypeStep, NamedStep
<1> QED BY <1>1, <1>2, PTL DEF Spec

\* No two tools answer to one name and none hides a built-in tool.
THEOREM NamesStayUnique == Spec => []NamesUnique
<1>1. Named => NamesUnique
  BY DEF Named, Unique, NamesUnique
<1> QED BY <1>1, NamedAlways, PTL

\* No discovery, deletion or outside edit leaves a tool without its connection.
THEOREM McpToolsStayConnected == Spec => []McpToolsAreConnected
<1>1. Named => McpToolsAreConnected
  BY DEF Named, Connected, McpToolsAreConnected
<1> QED BY <1>1, NamedAlways, PTL

-----------------------------------------------------------------------------
(* Nothing unseen is lost.                                                  *)

\* What an operation takes out of the configuration it read was in the version
\* its requester had; and while nobody outside interferes, that configuration
\* is on disk when it is replaced.
Guarded ==
  /\ op.base.config.conns \ op.next.conns \subseteq op.seen.config.conns
  /\ \A t \in op.base.config.tools \ op.next.tools :
       /\ t \in op.seen.config.tools
       /\ op.seen.code[t.path] = op.base.code[t.path]
  /\ op.stage = "replace" /\ ~op.raced => op.base = Version(config, files)

LEMMA IdleGuarded ==
  ASSUME op' \in {Idle, Cleaning} PROVE Guarded'
<1>1. op'.base = NoVersion /\ op'.next = Broken /\ op'.stage \in {"idle", "collect"}
  <2>1. Idle.base = NoVersion /\ Idle.next = Broken /\ Idle.stage = "idle"
    BY DEF Idle
  <2>2. Cleaning.base = Idle.base /\ Cleaning.next = Idle.next /\ Cleaning.stage = "collect"
    BY DEF Idle, Cleaning
  <2> QED BY <2>1, <2>2
<1>2. NoVersion.config = Broken
  BY DEF NoVersion, Version
<1> QED BY <1>1, <1>2 DEF Guarded, Broken

\* A step that keeps the plan and does not enter the last stage.
LEMMA PlanGuarded ==
  ASSUME Guarded, op'.base = op.base, op'.next = op.next, op'.seen = op.seen,
         op'.stage = "replace" /\ ~op'.raced => op.base = Version(config', files')
  PROVE  Guarded'
BY DEF Guarded

LEMMA GuardedStep == ASSUME TypeOK, Found, Guarded, [Next]_vars PROVE Guarded'
<1>1. CASE Request
  <2>1. PICK kind, seen, next, path, probed :
          /\ Plan(kind, seen, next, path, probed)
          /\ op'.stage = (IF path = 0 THEN "check" ELSE "open")
          /\ op'.seen = seen /\ op'.base = Version(config, files) /\ op'.next = next
    BY <1>1, RequestOp
  <2>2. Version(config, files).config = config
    BY DEF Version
  <2>3. op'.stage # "replace"
    BY <2>1
  <2>4. config.conns \ next.conns # {} \/ config.tools \ next.tools # {}
          => seen = Version(config, files)
    BY <2>1 DEF Plan
  <2>5. CASE seen = Version(config, files)
    BY <2>1, <2>2, <2>3, <2>5 DEF Guarded
  <2>6. CASE config.conns \ next.conns = {} /\ config.tools \ next.tools = {}
    BY <2>1, <2>2, <2>3, <2>6 DEF Guarded
  <2> QED BY <2>4, <2>5, <2>6
<1>2. CASE UNCHANGED <<config, files, op>>
  BY <1>2 DEF Guarded
<1>3. CASE Writing
  <2>1. CASE op' \in {Idle, Cleaning}
    BY <2>1, IdleGuarded
  <2>2. CASE op' \notin {Idle, Cleaning}
    <3>1. op'.base = op.base /\ op'.next = op.next /\ op'.seen = op.seen
      BY <1>3, <2>2, WritingOp
    <3>2. CASE Check
      <4>1. Unchanged /\ UNCHANGED <<config, files>>
        BY <2>2, <3>2 DEF Check, Release, disk
      <4> QED BY <3>1, <4>1, PlanGuarded DEF Unchanged
    <3>3. CASE OpenCode \/ CloseCode \/ Collect
      <4>1. op'.stage # "replace"
        BY <2>2, <3>3 DEF OpenCode, CloseCode, Collect, Release, TypeOK, Operations
      <4> QED BY <3>1, <4>1, PlanGuarded
    <3>4. ASSUME NEW p \in Numbers, Unlink(p) \/ UnlinkFails(p) PROVE Guarded'
      <4>1. op'.stage # "replace"
        BY <2>2, <3>4 DEF Unlink, UnlinkFails, NextVictim, Release, At, TypeOK, Operations
      <4> QED BY <3>1, <4>1, PlanGuarded
    <3>5. CASE CodeFails \/ CommitFails \/ Replace
      BY <2>2, <3>5 DEF CodeFails, CommitFails, Replace, Release
    <3> QED BY <1>3, <3>2, <3>3, <3>4, <3>5 DEF Writing
  <2> QED BY <2>1, <2>2
<1>4. CASE Restart
  BY <1>4, IdleGuarded DEF Restart
<1>5. CASE Race
  <2>1. op'.base = op.base /\ op'.next = op.next /\ op'.seen = op.seen
    BY <1>5, RaceKeeps
  <2>2. op'.stage = "replace" => op'.raced
    BY <1>5 DEF Race, TypeOK, Operations
  <2> QED BY <2>1, <2>2, PlanGuarded
<1>6. CASE Requests
  <2>1. ASSUME \/ \E p \in Pages : ReadPage(p)
               \/ \E p \in Pages, c \in config.conns : Discover(p, c)
        PROVE UNCHANGED <<config, files, op>>
    BY <2>1 DEF ReadPage, Discover, disk, process
  <2> QED BY <1>1, <1>2, <1>6, <2>1, RequestsTake
<1>7. CASE Sessions
  <2>1. UNCHANGED <<config, files, op>>
    BY <1>7 DEF Sessions, SessionFails, SessionLists, SessionEnds, Expire, disk
  <2> QED BY <1>2, <2>1
<1>8. CASE Surroundings
  <2>1. EditorLoads => UNCHANGED <<config, files, op>>
    BY DEF EditorLoads, disk, process
  <2>2. EditorSaves \/ EditorBreaks \/ EditorRepairs \/ (\E p \in Numbers : EditorWritesCode(p))
          => Race
    BY DEF EditorSaves, EditorBreaks, EditorRepairs, EditorWritesCode
  <2> QED BY <1>2, <1>4, <1>5, <1>8, <2>1, <2>2 DEF Surroundings
<1>9. CASE UNCHANGED vars
  BY <1>2, <1>9 DEF vars
<1> QED BY <1>3, <1>6, <1>7, <1>8, <1>9 DEF Next

\* Of the steps of the backend, only a commit goes from the last stage to the
\* cleanup.
LEMMA ReplacingReplaces ==
  ASSUME TypeOK, Found, [Next]_vars, Replacing PROVE config' = op.next
<1>1. op.stage = "replace" /\ op'.stage = "collect" /\ crashes' = crashes
  BY DEF Replacing
<1>2. ~Requests
  <2>1. ~Readable
    BY <1>1 DEF Readable
  <2> QED BY <2>1 DEF Requests, CreateTool, ImportOpenapi, CreateConnection, ImportMcp, ReadPage,
             DeleteTool, UpdateTool, UpdateConnection, DeleteConnection, Discover
<1>3. ~Sessions /\ ~UNCHANGED vars
  BY <1>1 DEF Sessions, SessionFails, SessionLists, SessionEnds, Expire, vars
<1>4. ~Surroundings
  <2>1. ~Restart
    <3>1. crashes \in Nat
      BY LibraryAssumption DEF TypeOK
    <3> QED BY <1>1, <3>1 DEF Restart
  <2>2. ~EditorLoads
    BY <1>1 DEF EditorLoads, process
  <2>3. ~Race
    BY <1>1 DEF Race, TypeOK, Operations
  <2> QED BY <2>1, <2>2, <2>3
          DEF Surroundings, EditorSaves, EditorBreaks, EditorRepairs, EditorWritesCode
<1>5. ~OpenCode /\ ~CloseCode /\ ~Check /\ ~Collect
  BY <1>1 DEF OpenCode, CloseCode, Check, Collect, At
<1>6. ~CodeFails /\ ~CommitFails
  BY <1>1 DEF CodeFails, CommitFails, Release, Idle
<1>7. ~\E p \in Numbers : Unlink(p) \/ UnlinkFails(p)
  BY <1>1 DEF Unlink, UnlinkFails, At
<1> QED BY <1>2, <1>3, <1>4, <1>5, <1>6, <1>7 DEF Next, Writing, Replace

\* No save, deletion or import takes away a tool, a connection or code that
\* its requester had not seen.
THEOREM NothingUnseenLost == Spec => NothingUnseenIsLost
<1>1. Init => TypeOK /\ Found /\ Guarded
  <2>1. ASSUME Init PROVE Guarded
    <3>1. op.base = NoVersion /\ op.next = Broken /\ op.stage = "idle"
      BY <2>1 DEF Init, Idle
    <3>2. NoVersion.config = Broken
      BY DEF NoVersion, Version
    <3> QED BY <3>1, <3>2 DEF Guarded, Broken
  <2> QED BY <2>1, InitType
<1>2. (TypeOK /\ Found /\ Guarded) /\ [Next]_vars => (TypeOK /\ Found /\ Guarded)'
  BY TypeStep, GuardedStep
<1>3. TypeOK /\ Found /\ Guarded /\ [Next]_vars
        => [ Replacing /\ ~op.raced =>
               /\ config.conns \ config'.conns \subseteq op.seen.config.conns
               /\ \A t \in config.tools \ config'.tools :
                    /\ t \in op.seen.config.tools
                    /\ t.kind = "python" => op.seen.code[t.path] = files[t.path] ]_vars
  <2> SUFFICES ASSUME TypeOK, Found, Guarded, [Next]_vars, Replacing, ~op.raced
               PROVE  /\ config.conns \ config'.conns \subseteq op.seen.config.conns
                      /\ \A t \in config.tools \ config'.tools :
                           /\ t \in op.seen.config.tools
                           /\ t.kind = "python" => op.seen.code[t.path] = files[t.path]
    OBVIOUS
  <2>1. config' = op.next
    BY ReplacingReplaces
  <2>2. op.base = Version(config, files)
    BY DEF Guarded, Replacing
  <2>3. op.base.config = config
    BY <2>2 DEF Version
  <2>4. ASSUME NEW t \in config.tools, t.kind = "python"
        PROVE  op.base.code[t.path] = files[t.path]
    <3>1. t.path \in CodePaths(config) /\ t.path \in Numbers
      BY <2>4 DEF CodePaths, TypeOK, Configs, Tools
    <3> QED BY <2>2, <3>1 DEF Version
  <2> QED BY <2>1, <2>3, <2>4 DEF Guarded
<1> QED BY <1>1, <1>2, <1>3, PTL DEF Spec, NothingUnseenIsLost

\* What an import adds was listed by the connection as it is saved.
THEOREM ImportsAreCurrent == Spec => ImportsFromCurrentConnection
<1>1. TypeOK /\ Found /\ Named /\ [Next]_vars
        => [ Replacing /\ op.kind = "import" => op.probed \in config'.conns ]_vars
  BY ReplacingReplaces DEF Named
<1> QED BY <1>1, NamedAlways, PTL DEF Spec, ImportsFromCurrentConnection

-----------------------------------------------------------------------------
(* The code of Python tools.                                                *)

\* Whatever is referred to, by the file or by what an editor has loaded, is an
\* older file than the next one, and was written to its end.
Held == CodePaths(config) \cup CodePaths(buffer)

HeldIsWhole == \A p \in Held : p \in 2..clock /\ files[p] # Partial

\* The file an operation writes is its own: nothing refers to it before the
\* replace, and the replace finds all that it refers to complete.
WritesItsOwn ==
  /\ op.path <= clock /\ (op.path = 0 \/ op.path > UserFile) /\ op.path \notin Held
  /\ op.stage \in {"open", "write"} => op.path # 0
  /\ op.stage \in {"idle", "collect", "unlink"} => op.next = Broken /\ op.path = 0
  /\ \A p \in CodePaths(op.next) :
       /\ p \in 2..clock
       /\ \/ p = op.path /\ op.stage \in {"open", "write"}
          \/ files[p] # Partial /\ (p \in dangling \/ files[p] # NoFile)

\* A cleanup goes after nothing in use.
SparesHeld ==
  /\ op.stage # "unlink" => op.victims = {}
  /\ UserFile \notin op.victims
  /\ op.victims \cap CodePaths(config) \subseteq dangling

Coded == HeldIsWhole /\ CodeIsThere /\ WritesItsOwn /\ SparesHeld

LEMMA CodePathsType == ASSUME NEW cfg \in Configs PROVE CodePaths(cfg) \subseteq Numbers
BY DEF CodePaths, Configs, Tools

LEMMA NumbersFacts ==
  ASSUME TypeOK
  PROVE  /\ clock \in Nat /\ clock >= 2 /\ (clock' \in 2..MaxClock => clock' \in Nat)
         /\ NoFile = 0 /\ Partial = 1 /\ UserFile = 2
         /\ CodePaths(Broken) = {} /\ Numbers \subseteq Nat
         /\ files \in [Numbers -> Numbers]
         /\ config \in Configs /\ buffer \in Configs /\ op.next \in Configs
         /\ op \in Operations /\ op.path \in Numbers
BY LibraryAssumption DEF TypeOK, NoFile, Partial, UserFile, CodePaths, Broken, Numbers, Operations

\* Nothing is prepared, written or removed.
AtRest == op'.next = Broken /\ op'.path = 0 /\ op'.victims = {} /\ op'.stage \in {"idle", "collect"}

LEMMA RestType == ASSUME op' \in {Idle, Cleaning} PROVE AtRest
<1>1. Idle.next = Broken /\ Idle.path = 0 /\ Idle.victims = {} /\ Idle.stage = "idle"
  BY DEF Idle
<1>2. /\ Cleaning.next = Idle.next /\ Cleaning.path = Idle.path /\ Cleaning.victims = Idle.victims
      /\ Cleaning.stage = "collect"
  BY DEF Idle, Cleaning
<1> QED BY <1>1, <1>2 DEF AtRest

\* Giving the lock back, or going to clean, changes nothing for the files.
LEMMA RestCoded ==
  ASSUME TypeOK, Coded, AtRest, UNCHANGED <<config, files, buffer, dangling, clock>>
  PROVE  Coded'
<1> USE NumbersFacts
<1>1. HeldIsWhole' /\ CodeIsThere'
  BY DEF Coded, HeldIsWhole, CodeIsThere, Held, CodePaths
<1>2. 0 \notin Held'
  BY <1>1 DEF HeldIsWhole
<1>3. WritesItsOwn'
  BY <1>2 DEF AtRest, WritesItsOwn, CodePaths, Broken
<1>4. SparesHeld'
  BY DEF AtRest, SparesHeld
<1> QED BY <1>1, <1>3, <1>4 DEF Coded

\* A request refers to what the file referred to and to one new file.
LEMMA RequestCoded == ASSUME TypeOK, Coded, Request PROVE Coded'
<1> USE NumbersFacts
<1>1. PICK kind, seen, next, path, probed :
        /\ Plan(kind, seen, next, path, probed)
        /\ op' \in Operations
        /\ op'.stage = (IF path = 0 THEN "check" ELSE "open")
        /\ op'.kind = kind /\ op'.seen = seen /\ op'.base = Version(config, files)
        /\ op'.next = next /\ op'.path = path /\ op'.probed = probed
        /\ op'.victims = {} /\ op'.raced = FALSE
  BY RequestOp
<1>2. /\ UNCHANGED <<config, files, buffer, dangling>>
      /\ clock' \in 2..MaxClock /\ clock' >= clock /\ clock' \in Nat
  BY DEF Request
<1>3. /\ path \in Numbers /\ (path # 0 => path > clock /\ path <= clock')
      /\ CodePaths(next) \subseteq CodePaths(config) \cup ({path} \ {0})
  BY <1>1 DEF Plan
<1>4. Held' = Held /\ CodePaths(config)' = CodePaths(config)
  BY <1>2 DEF Held, CodePaths
<1>5. \A p \in Held : p \in 2..clock /\ files[p] # Partial
  BY DEF Coded, HeldIsWhole
<1>6. HeldIsWhole' /\ CodeIsThere'
  BY <1>2, <1>4, <1>5 DEF Coded, HeldIsWhole, CodeIsThere
<1>7. path \notin Held /\ path <= clock' /\ (path = 0 \/ path > UserFile)
  BY <1>2, <1>3, <1>5
<1>8. ASSUME NEW p \in CodePaths(next)
      PROVE  /\ p \in 2..clock'
             /\ \/ p = path /\ path # 0
                \/ files[p] # Partial /\ (p \in dangling \/ files[p] # NoFile)
  <2>1. CASE p \in CodePaths(config)
    <3>1. p \in Held
      BY <2>1 DEF Held
    <3>2. p \in dangling \/ files[p] # NoFile
      BY <2>1 DEF Coded, CodeIsThere
    <3> QED BY <3>1, <3>2, <1>2, <1>5
  <2>2. CASE p = path /\ path # 0
    BY <2>2, <1>2, <1>3
  <2> QED BY <2>1, <2>2, <1>3
<1>9. CodePaths(op.next)' = CodePaths(next)
  BY <1>1 DEF CodePaths
<1>10. WritesItsOwn'
  BY <1>1, <1>2, <1>4, <1>7, <1>8, <1>9 DEF WritesItsOwn
<1>11. SparesHeld'
  BY <1>1 DEF SparesHeld
<1> QED BY <1>6, <1>10, <1>11 DEF Coded

\* The file an operation writes is complete when it is closed.
LEMMA WriteCoded == ASSUME TypeOK, Coded, OpenCode \/ CloseCode PROVE Coded'
<1> USE NumbersFacts
<1>1. /\ UNCHANGED <<config, buffer, dangling, clock>>
      /\ op'.next = op.next /\ op'.path = op.path /\ op'.victims = op.victims
      /\ files' \in [Numbers -> Nat] /\ (\A p \in Numbers \ {op.path} : files'[p] = files[p])
      /\ op.stage \in {"open", "write"} /\ op'.stage \in {"write", "check"}
      /\ op'.stage = "check" => files'[op.path] = op.path
  BY DEF OpenCode, CloseCode, At, editor, Operations
<1>2. Held' = Held /\ CodePaths(config)' = CodePaths(config) /\ CodePaths(op.next)' = CodePaths(op.next)
  BY <1>1 DEF Held, CodePaths
<1>3. Held \subseteq Numbers /\ op.path \notin Held /\ op.path > UserFile
  BY <1>1, CodePathsType DEF Held, Coded, WritesItsOwn
<1>4. HeldIsWhole'
  BY <1>1, <1>2, <1>3 DEF Coded, HeldIsWhole
<1>5. CodeIsThere'
  BY <1>1, <1>2, <1>3 DEF Coded, CodeIsThere, Held
<1>6. WritesItsOwn'
  <2>1. CodePaths(op.next) \subseteq Numbers
    BY CodePathsType
  <2> QED BY <1>1, <1>2, <1>3, <2>1 DEF Coded, WritesItsOwn
<1>7. SparesHeld'
  BY <1>1, <1>2 DEF Coded, SparesHeld
<1> QED BY <1>4, <1>5, <1>6, <1>7 DEF Coded

\* What is prepared may become the configuration.
LEMMA CommitCoded == ASSUME TypeOK, Coded, Check \/ Replace \/ Collect PROVE Coded'
<1> USE NumbersFacts
<1>1. UNCHANGED <<files, buffer, dangling, clock>>
  BY DEF Check, Replace, Collect, At, editor, disk
<1>2. CASE Replace
  <2>1. config' = op.next /\ AtRest /\ op.stage = "replace"
    BY <1>2, RestType DEF Replace, At
  <2>2. /\ CodePaths(config)' = CodePaths(op.next) /\ Held' = CodePaths(op.next) \cup CodePaths(buffer)
        /\ CodePaths(op.next)' = {}
    BY <1>1, <2>1 DEF Held, CodePaths, AtRest, Broken
  <2>3. \A p \in CodePaths(op.next) :
          p \in 2..clock /\ files[p] # Partial /\ (p \in dangling \/ files[p] # NoFile)
    BY <2>1 DEF Coded, WritesItsOwn
  <2>4. HeldIsWhole' /\ CodeIsThere'
    BY <1>1, <2>2, <2>3 DEF Coded, HeldIsWhole, CodeIsThere, Held
  <2>5. 0 \notin Held'
    BY <2>4 DEF HeldIsWhole
  <2>6. WritesItsOwn' /\ SparesHeld'
    BY <1>1, <2>1, <2>2, <2>5 DEF AtRest, WritesItsOwn, SparesHeld
  <2> QED BY <2>4, <2>6 DEF Coded
<1>3. CASE (Check \/ Collect) /\ op' = Idle
  BY <1>1, <1>3, RestType, RestCoded DEF Check, Collect, disk
<1>4. CASE Check /\ op' = [op EXCEPT !.stage = "replace"]
  <2>1. /\ config' = config /\ op.stage = "check" /\ op'.stage = "replace"
        /\ op'.next = op.next /\ op'.path = op.path /\ op'.victims = op.victims
    BY <1>4 DEF Check, At, disk, Operations
  <2>2. Held' = Held /\ CodePaths(config)' = CodePaths(config)
        /\ CodePaths(op.next)' = CodePaths(op.next)
    BY <1>1, <2>1 DEF Held, CodePaths
  <2> QED BY <1>1, <2>1, <2>2 DEF Coded, HeldIsWhole, CodeIsThere, WritesItsOwn, SparesHeld
<1>5. CASE Collect /\ op' = [op EXCEPT !.stage = "unlink", !.victims = Unused]
  <2>1. /\ config' = config /\ op.stage = "collect" /\ op'.stage = "unlink"
        /\ op'.next = op.next /\ op'.path = op.path /\ op'.victims = Unused
    BY <1>5 DEF Collect, At, disk, Operations
  <2>2. Held' = Held /\ CodePaths(config)' = CodePaths(config)
        /\ CodePaths(op.next)' = CodePaths(op.next)
    BY <1>1, <2>1 DEF Held, CodePaths
  <2>3. UserFile \notin Unused /\ Unused \cap CodePaths(config) = {}
    BY DEF Unused
  <2> QED BY <1>1, <2>1, <2>2, <2>3
          DEF Coded, HeldIsWhole, CodeIsThere, WritesItsOwn, SparesHeld
<1> QED BY <1>2, <1>3, <1>4, <1>5 DEF Check, Collect, Release

\* A cleanup takes away what it went after, or leaves it.
LEMMA UnlinkCoded ==
  ASSUME TypeOK, Coded, NEW p \in Numbers, Unlink(p) \/ UnlinkFails(p) PROVE Coded'
<1> USE NumbersFacts
<1>1. /\ UNCHANGED <<config, buffer, dangling, clock>>
      /\ op.stage = "unlink" /\ p \in op.victims
      /\ files' = files \/ files' = [files EXCEPT ![p] = NoFile]
      /\ op' = Idle \/ op' = [op EXCEPT !.victims = @ \ {p}]
  BY DEF Unlink, UnlinkFails, NextVictim, Release, At, editor, disk
<1>2. Held' = Held /\ CodePaths(config)' = CodePaths(config)
  BY <1>1 DEF Held, CodePaths
<1>3. Held \subseteq Numbers
  BY CodePathsType DEF Held
<1>4. HeldIsWhole'
  BY <1>1, <1>2, <1>3 DEF Coded, HeldIsWhole
<1>5. CodeIsThere'
  BY <1>1, <1>2, <1>3 DEF Coded, CodeIsThere, SparesHeld, Held
<1>6. CASE op' = Idle
  <2>1. AtRest /\ 0 \notin Held'
    BY <1>4, <1>6, RestType DEF HeldIsWhole
  <2>2. CodePaths(op.next)' = {}
    BY <2>1 DEF AtRest, CodePaths, Broken
  <2> QED BY <1>1, <1>4, <1>5, <2>1, <2>2 DEF AtRest, Coded, WritesItsOwn, SparesHeld
<1>7. CASE op' = [op EXCEPT !.victims = @ \ {p}]
  <2>1. /\ op'.stage = "unlink" /\ op'.next = op.next /\ op'.path = op.path
        /\ op'.victims = op.victims \ {p}
    BY <1>1, <1>7 DEF Operations
  <2>2. op.next = Broken /\ op.path = 0 /\ CodePaths(op.next)' = {}
    BY <1>1, <2>1 DEF Coded, WritesItsOwn, CodePaths, Broken
  <2> QED BY <1>1, <1>2, <1>4, <1>5, <2>1, <2>2 DEF Coded, WritesItsOwn, SparesHeld
<1> QED BY <1>1, <1>6, <1>7

\* A step that touches no file and no prepared configuration.
LEMMA KeepsCoded ==
  ASSUME TypeOK, Coded, clock' = clock, files' = files, dangling' = dangling,
         CodePaths(config') = CodePaths(config),
         CodePaths(buffer') \subseteq CodePaths(config) \cup CodePaths(buffer),
         op' = op \/ op' = [op EXCEPT !.raced = TRUE]
  PROVE  Coded'
<1> USE NumbersFacts
<1>1. /\ op'.stage = op.stage /\ op'.next = op.next /\ op'.path = op.path
      /\ op'.victims = op.victims
  BY DEF Operations
<1>2. /\ Held' \subseteq Held /\ CodePaths(config)' = CodePaths(config)
      /\ CodePaths(op.next)' = CodePaths(op.next)
  BY <1>1 DEF Held, CodePaths
<1> QED BY <1>1, <1>2 DEF Coded, HeldIsWhole, CodeIsThere, WritesItsOwn, SparesHeld

LEMMA EditedPaths ==
  ASSUME NEW cfg \in Configs, NEW e \in Edited(cfg) PROVE CodePaths(e) \subseteq CodePaths(cfg)
<1>1. CASE e = cfg
  BY <1>1
<1>2. ASSUME NEW t \in cfg.tools, e = [cfg EXCEPT !.tools = @ \ {t}]
      PROVE  CodePaths(e) \subseteq CodePaths(cfg)
  BY <1>2 DEF Configs, CodePaths
<1>3. ASSUME NEW t \in cfg.tools, NEW n \in Names,
             e = [cfg EXCEPT !.tools = (@ \ {t}) \cup {[t EXCEPT !.name = n]}]
      PROVE  CodePaths(e) \subseteq CodePaths(cfg)
  <2> DEFINE u == [t EXCEPT !.name = n]
  <2>1. t \in Tools
    BY DEF Configs
  <2>2. u.kind = t.kind /\ u.path = t.path
    BY <2>1 DEF Tools
  <2>3. e.tools = (cfg.tools \ {t}) \cup {u}
    BY <1>3 DEF Configs
  <2> HIDE DEF u
  <2> QED BY <2>2, <2>3 DEF CodePaths
<1> QED BY <1>1, <1>2, <1>3 DEF Edited

\* An editor may bring back references to code that is gone, and only those dangle.
LEMMA EditorCoded ==
  ASSUME TypeOK, Coded,
         EditorSaves \/ EditorBreaks \/ EditorRepairs \/ \E p \in Numbers : EditorWritesCode(p)
  PROVE  Coded'
<1> USE NumbersFacts
<1>0. op' = op \/ op' = [op EXCEPT !.raced = TRUE]
  BY DEF EditorSaves, EditorBreaks, EditorRepairs, EditorWritesCode, Race
<1>1. /\ op'.stage = op.stage /\ op'.next = op.next /\ op'.path = op.path
      /\ op'.victims = op.victims
  BY <1>0 DEF Operations
<1>2. CASE EditorSaves
  <2>1. PICK cfg \in Edited(buffer) :
          config' = cfg /\ dangling' = dangling \cup {p \in CodePaths(cfg) : Going(p)}
    BY <1>2 DEF EditorSaves
  <2>2. UNCHANGED <<files, clock, buffer>>
    BY <1>2 DEF EditorSaves
  <2>3. CodePaths(cfg) \subseteq CodePaths(buffer)
    BY EditedPaths
  <2>4. /\ CodePaths(config)' = CodePaths(cfg) /\ Held' \subseteq Held
        /\ CodePaths(op.next)' = CodePaths(op.next)
    BY <1>1, <2>1, <2>2, <2>3 DEF Held, CodePaths
  <2>5. \A p \in CodePaths(cfg) \ dangling' :
          files[p] # NoFile /\ ~(op.stage = "unlink" /\ p \in op.victims)
    BY <2>1 DEF Going
  <2>6. HeldIsWhole'
    BY <2>2, <2>4 DEF Coded, HeldIsWhole
  <2>7. CodeIsThere'
    BY <2>2, <2>3, <2>4, <2>5 DEF Coded, HeldIsWhole, CodeIsThere, Held
  <2>8. WritesItsOwn'
    BY <1>1, <2>1, <2>2, <2>4 DEF Coded, WritesItsOwn
  <2>9. SparesHeld'
    BY <1>1, <2>4, <2>5 DEF Coded, SparesHeld
  <2> QED BY <2>6, <2>7, <2>8, <2>9 DEF Coded
<1>3. CASE EditorBreaks \/ EditorRepairs
  <2>1. config'.tools = config.tools /\ UNCHANGED <<files, clock, buffer, dangling>>
    BY <1>3 DEF EditorBreaks, EditorRepairs, Configs
  <2>2. CodePaths(config') = CodePaths(config) /\ CodePaths(buffer') = CodePaths(buffer)
    BY <2>1 DEF CodePaths
  <2> QED BY <1>0, <2>1, <2>2, KeepsCoded
<1>4. ASSUME NEW p \in Numbers, EditorWritesCode(p) PROVE Coded'
  <2>1. /\ UNCHANGED <<config, buffer, dangling>> /\ clock' = clock + 1
        /\ p \in CodePaths(config) /\ files' = [files EXCEPT ![p] = clock + 1]
    BY <1>4 DEF EditorWritesCode, Fresh
  <2>2. /\ Held' = Held /\ CodePaths(config)' = CodePaths(config)
        /\ CodePaths(op.next)' = CodePaths(op.next)
    BY <1>1, <2>1 DEF Held, CodePaths
  <2>3. Held \subseteq Numbers /\ CodePaths(op.next) \subseteq Numbers
    BY CodePathsType DEF Held
  <2>4. \A q \in Numbers : files'[q] = files[q] \/ files'[q] \notin {NoFile, Partial}
    BY <2>1
  <2>5. HeldIsWhole'
    BY <2>1, <2>2, <2>3, <2>4 DEF Coded, HeldIsWhole
  <2>6. CodeIsThere'
    BY <2>1, <2>2, <2>3, <2>4 DEF Coded, CodeIsThere, Held
  <2>7. WritesItsOwn'
    <3>1. op'.path <= clock' /\ (op'.path = 0 \/ op'.path > UserFile) /\ op'.path \notin Held'
      BY <1>1, <2>1, <2>2 DEF Coded, WritesItsOwn
    <3>2. ASSUME NEW q \in CodePaths(op.next)
          PROVE  /\ q \in 2..clock'
                 /\ \/ q = op.path /\ op.stage \in {"open", "write"}
                    \/ files'[q] # Partial /\ (q \in dangling \/ files'[q] # NoFile)
      BY <2>1, <2>3, <2>4 DEF Coded, WritesItsOwn
    <3> QED BY <1>1, <2>1, <2>2, <3>1, <3>2 DEF Coded, WritesItsOwn
  <2>8. SparesHeld'
    BY <1>1, <2>1, <2>2 DEF Coded, SparesHeld
  <2> QED BY <2>5, <2>6, <2>7, <2>8 DEF Coded
<1> QED BY <1>2, <1>3, <1>4

LEMMA CodedStep == ASSUME TypeOK, Found, Coded, [Next]_vars PROVE Coded'
<1>1. CASE Requests
  <2>1. ASSUME \/ \E p \in Pages : ReadPage(p)
               \/ \E p \in Pages, c \in config.conns : Discover(p, c)
        PROVE  Coded'
    BY <2>1, KeepsCoded DEF ReadPage, Discover, disk, process, editor
  <2> QED BY <1>1, <2>1, RequestsTake, RequestCoded
<1>2. CASE Sessions
  BY <1>2, KeepsCoded DEF Sessions, SessionFails, SessionLists, SessionEnds, Expire, disk, editor
<1>3. CASE Writing
  <2>1. CASE CodeFails \/ CommitFails
    BY <2>1, RestType, RestCoded DEF CodeFails, CommitFails, Release, At, disk, editor
  <2> QED BY <1>3, <2>1, WriteCoded, CommitCoded, UnlinkCoded DEF Writing
<1>4. CASE Surroundings
  <2>1. CASE Restart
    BY <2>1, RestType, RestCoded DEF Restart, disk, editor
  <2>2. CASE EditorLoads
    BY <2>2, KeepsCoded DEF EditorLoads, disk, process
  <2> QED BY <1>4, <2>1, <2>2, EditorCoded DEF Surroundings
<1>5. CASE UNCHANGED vars
  BY <1>5, KeepsCoded DEF vars
<1> QED BY <1>1, <1>2, <1>3, <1>4, <1>5 DEF Next

LEMMA InitCoded == ASSUME Init PROVE Coded
<1>1. TypeOK
  BY InitType
<1> USE NumbersFacts, <1>1
<1>2. Idle.next = Broken /\ Idle.path = 0 /\ Idle.victims = {} /\ Idle.stage = "idle"
  BY DEF Idle
<1>3. CodePaths(config) = {UserFile} /\ CodePaths(buffer) = {}
  <2>1. config.tools = {Tool(2, "python", FirstName, 2, UserFile)} /\ buffer = Broken
    BY DEF Init
  <2>2. LET t == Tool(2, "python", FirstName, 2, UserFile) IN t.kind = "python" /\ t.path = UserFile
    BY DEF Tool
  <2> QED BY <2>1, <2>2 DEF CodePaths
<1>4. files[UserFile] = UserFile /\ clock = 2 /\ UserFile \in Numbers /\ op = Idle
  BY Digits DEF Init
<1> QED BY <1>2, <1>3, <1>4 DEF Coded, HeldIsWhole, Held, CodeIsThere, WritesItsOwn, SparesHeld

LEMMA CodedAlways == Spec => [](TypeOK /\ Found /\ Coded)
<1>1. Init => TypeOK /\ Found /\ Coded
  BY InitType, InitCoded
<1>2. (TypeOK /\ Found /\ Coded) /\ [Next]_vars => (TypeOK /\ Found /\ Coded)'
  BY TypeStep, CodedStep
<1> QED BY <1>1, <1>2, PTL DEF Spec

\* Through failing writes, conflicts, ends of the process and cleanups, the
\* code of every tool is there and complete.
THEOREM CodeStaysThere == Spec => []CodeIsThere
<1>1. Coded => CodeIsThere
  BY DEF Coded
<1> QED BY <1>1, CodedAlways, PTL

=============================================================================
