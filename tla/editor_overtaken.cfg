SPECIFICATION Spec
CONSTANTS
  Tabs = {t1}
  Calls = {c1, c2}
  Edits = {e1, e2}
  None = None
  MaxClock = 2
  Failures = FALSE
PROPERTIES DebounceLandsFirst
CHECK_DEADLOCK FALSE
