SPECIFICATION Spec
CONSTANTS
  Runs = {c1, c2}
  NoRun = none
  MaxDeploys = 1
  MaxOthers = 1
PROPERTIES WritesAreSafe EndIsTrue RunsEnd
CHECK_DEADLOCK FALSE
