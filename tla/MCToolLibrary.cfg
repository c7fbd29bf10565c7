SPECIFICATION Spec
CONSTANTS
  Pages = {p1}
  Names = {n1, n2, b1}
  Reserved = {b1}
  Remotes = {r1}
  Offers = {o1, o2}
  FirstName = n1
  MaxDiscoveries = 1
  MaxClock = 4
  MaxOutside = 1
  MaxCrashes = 1
CONSTRAINT Apart
SYMMETRY Symmetries
INVARIANT TypeOK
INVARIANT NamesUnique
INVARIANT McpToolsAreConnected
INVARIANT CodeIsThere
PROPERTY NothingUnseenIsLost
PROPERTY ImportsFromCurrentConnection
