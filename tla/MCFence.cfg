SPECIFICATION Spec
CONSTANTS
  s1 = s1
  s2 = s2
  u = u
  d = d
  Ops = {s1, s2, u, d}
  Kind <- MCKind
  Together <- MCPairs
  Jobs = {j1}
  MaxContacts = 1
  MaxEpoch = 2
  MaxTimeouts = 1
  NoOp = NoOp
  Lost = Lost
  NoFence = NoFence
  NoFallback = NoFallback
INVARIANTS TypeOK NoDispatchWhileBarred BarredIsFenced PersistentIsCommitted
PROPERTY SkipSparesMarked
