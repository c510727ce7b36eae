CONSTANTS
  r1 = r1
  r2 = r2
  r3 = r3
  n1 = n1
  p1 = p1
  p2 = p2
  Requests = {r1, r2, r3}
  Api = api
  Names = {n1}
  Passwords = {p1, p2}
  Name <- MCName
  Password <- MCPassword
  Events = {"io", "cut"}
SPECIFICATION Spec
INVARIANTS TypeOK SessionsAreEarned LockedOutOnlyByRace AnswersMatchAccounts
CHECK_DEADLOCK FALSE
