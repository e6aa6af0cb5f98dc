SPECIFICATION Spec
CONSTANTS
  t1 = t1
  t2 = t2
  t3 = t3
  ra = ra
  rb = rb
  l1 = l1
  l2 = l2
  l3 = l3
  l4 = l4
  None = None
  Threads <- ThreeThreads
  Repos <- TwoRepos
  Locks <- FourLocks
  StartFails = TRUE
INVARIANTS
  NoLeakedEntry
  RefusedByOwnRepo
