CONSTANTS
  Subs = {s1, s2}
  Outcomes = {"ACCEPTED"}
  Timers = {t1, t2}
  Fetches = {f1, f2}
SPECIFICATION FairSpec
INVARIANTS TypeOK OneTimer QuietElsewhere RightUnlessStraggled
PROPERTIES PollingEnds
