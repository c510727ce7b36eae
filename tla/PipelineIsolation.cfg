CONSTANTS
  s1 = s1
  s2 = s2
  w1 = w1
  w2 = w2
  u1 = u1
  Subs = {s1, s2}
  Workers = {w1, w2}
  Api = api
  Users = {u1}
  Owner <- MCOwner
  Outcomes = {"ACCEPTED"}
  Unprintable = {s1}
  HistoryCap = 1
  Events = {}
SPECIFICATION Spec
INVARIANTS FailureIsContained
CHECK_DEADLOCK FALSE
