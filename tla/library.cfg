SPECIFICATION Spec
CONSTANTS
  Subjects = {laptop, dock}
  Slugs = {x, y}
  Categories = {kl, kd}
  Articles = {a1}
  Calls = {c1, c2}
  None = None
  laptop = laptop
  dock = dock
  x = x
  y = y
  kl = kl
  kd = kd
  a1 = a1
  Places <- MCPlaces
  SubjectOf <- MCSubjectOf
  Docs <- NearDocs
  Seeds <- MCSeeds
  Beside <- MCBeside
  MaxDeletes = 1
SYMMETRY RequestsAlike
INVARIANTS
  TypeOK
  LiveBranchesResolve
  EveryArticleIsListed
  ServedIsLibrary
CHECK_DEADLOCK FALSE
