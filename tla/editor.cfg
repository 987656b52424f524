SPECIFICATION Spec
CONSTANTS
  Tabs = {t1, t2}
  Calls = {c1, c2}
  Edits = {e1, e2}
  None = None
  MaxClock = 2
  Failures = TRUE
SYMMETRY Alike
ACTION_CONSTRAINT OneOrTwoTabs
INVARIANTS TypeOK DraftBuildsOnPublished NothingTypedIsLost
PROPERTIES PublishCarriesNewest
CHECK_DEADLOCK FALSE
