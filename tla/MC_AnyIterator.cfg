CONSTANTS
  t1 = t1
  t2 = t2
  c1 = c1
  c2 = c2
  c3 = c3
  n1 = n1
  n2 = n2
  Threads <- MC_Threads
  Cursors <- MC_Cursors
  Nodes <- MC_Nodes
  Shared = Shared
  null = null
SPECIFICATION Spec
INVARIANTS TypeOK CountExact NoUseAfterFree TinyAgrees
PROPERTY NoLeak
