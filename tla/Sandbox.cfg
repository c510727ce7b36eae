CONSTANTS
  t1 = t1
  t2 = t2
  Threads = {t1, t2}
  Worker = worker
  Programs <- MCPrograms
  Compilers <- MCCompilers
  Capacity = 1
SPECIFICATION FairSpec
INVARIANTS TypeOK NoChildLeft KillsOwnChild JudgedByOutput CompilerIsBelieved
PROPERTIES EveryRunReturns
CHECK_DEADLOCK FALSE
