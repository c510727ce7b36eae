CONSTANTS
  s1 = s1
  s2 = s2
  w1 = w1
  w2 = w2
  u1 = u1
  Subs = {s1, s2}
  Workers = {w1, w2}
  Api = api
  Users = {u1}
  Owner <- MCOwner
  Outcomes = {"ACCEPTED"}
  Unprintable = {}
  HistoryCap = 1
  Events = {"stop"}
SPECIFICATION FairSpec
INVARIANTS RoutedInOrder ExclusiveWorkDir AcceptedIsFound StopLosesNothing HistoryBounded
PROPERTIES FinalIsFinal ImplementsJudge EventuallyJudged StopTerminates
CHECK_DEADLOCK FALSE
