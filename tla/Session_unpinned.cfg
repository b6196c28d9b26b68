CONSTANTS
  t1 = t1
  t2 = t2
  core0 = core0
  core1 = core1
  NoTask = NoTask
  NoAffinity = NoAffinity
  Cores = {core0, core1}
  Tasks = {t1, t2}
  Backends = {"dedicated"}
  Affinity <- OneUnpinned
  LinkErrors = {"FAIL"}
  PortErrors = {"NO_MEM"}
  DmaPairs = 2
  MaxAttempts = 2
  PollLimit = 1
SPECIFICATION Spec
INVARIANTS UnpinnedRejected
