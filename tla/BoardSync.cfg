\* Two tabs, one with an arrangement to migrate; a rename; one failure.
CONSTANTS
  p = p
  q = q
  s1 = s1
  s2 = s2
  Null = null
  Paths = {p, q}
  ListCap = 1
  Modes = {"scheme"}
  Stores = {s1, s2}
  Menu <- menu
  Conversation <- conversation
  Legacy = {s2}
  LegacyPrefs <- legacyPrefs
  Primed = {}
  PatchCap = 2
  ConflictCap = 1
  MaxIntents <- intents
  LatePolls = {s2}
  MaxFaults = 1
SPECIFICATION FairSpec
INVARIANT TypeOK
INVARIANT IntentsLandInOrder
PROPERTY CloseSurvives
PROPERTY EventuallyConverges
CHECK_DEADLOCK FALSE
