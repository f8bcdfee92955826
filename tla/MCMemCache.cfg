\* Two namespaces, two addresses (one to allocate or move to while the other
\* is held), two caller variables (one may be stale while the other has its
\* address), two allocations.
CONSTANTS
  Namespace = {nsAst, nsSet}
  Addr = {a1, a2}
  Ref = {p, q}
  NoAddr = NoAddr
  MaxAllocs = 2
  MaxCount = 1
SPECIFICATION Spec
INVARIANT TypeOK
INVARIANT EveryBlockTrackedOnce
INVARIANT NoHeapMisuse
INVARIANT StatisticsBalance
PROPERTY ImplementsArena
PROPERTY CleanupReleasesEverything
CHECK_DEADLOCK FALSE
