CONSTANTS
  s1 = s1
  s2 = s2
  w1 = w1
  w2 = w2
  u1 = u1
  Subs = {s1}
  Workers = {w1, w2}
  Api = api
  Users = {u1}
  Owner <- MCOwner
  Outcomes = {"ACCEPTED"}
  Unprintable = {}
  HistoryCap = 1
  Events = {"io", "cut", "crash", "restart", "stop", "throw"}
SPECIFICATION Spec
INVARIANTS TypeOK JobsConserved JobInHand AnswersMatchQueue QueuedAtMostTwice
PROPERTIES ImplementsQueue
SYMMETRY WorkerSymmetry
CHECK_DEADLOCK FALSE
