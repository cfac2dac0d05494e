\* Two sessions at a time, two threads, three starts.
SPECIFICATION Spec
CONSTANTS
  s1 = s1
  s2 = s2
  Sessions = {s1, s2}
  Threads = {"t", "u"}
  Sizes = {0, 4}
  Efforts = {"low", "medium", "high"}
  BuiltIn = {"low", "medium", "high"}
  DefaultEffort = "medium"
  Tiers = {"null", "fast"}
  ModelNames = {"a", "b", "x"}
  Counts <- MCCounts
  Catalogue <- MCCatalogue
  Lower <- MCLower
  Snapshots <- MCSnapshots
  Scenes <- MCScenes
  Edits <- MCEdits
  MapEdits <- MCMapEdits
SYMMETRY SessionsAreAlike
INVARIANTS WarningsAreNews OffersAreAccepted
PROPERTIES UsageNeverStale ChoicesSurviveRestart
CHECK_DEADLOCK FALSE
