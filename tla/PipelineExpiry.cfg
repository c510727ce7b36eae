CONSTANTS
  s1 = s1
  s2 = s2
  w1 = w1
  w2 = w2
  u1 = u1
  Subs = {s1, s2}
  Workers = {w1, w2}
  Api = api
  Users = {u1}
  Owner <- MCOwner
  Outcomes = {"ACCEPTED", "WRONG_ANSWER"}
  Unprintable = {s2}
  HistoryCap = 1
  Events = {"crash", "expire", "restart"}
SPECIFICATION Spec
PROPERTIES OneVerdict
CHECK_DEADLOCK FALSE
