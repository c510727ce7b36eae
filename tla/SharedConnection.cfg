CONSTANTS
  Threads = {t1, t2}
SPECIFICATION Spec
INVARIANT IdentityKept
CHECK_DEADLOCK FALSE
