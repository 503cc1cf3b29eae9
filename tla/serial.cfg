SPECIFICATION Spec
CONSTANTS
  Threads = {t1}
  Requests = {"preview", "confirm", "reconfirm", "prepare", "chat", "generate", "rank", "profile", "majors",
              "preferences", "confirm_conditions", "agent_generate", "select", "clear_selection"}
  MaxRequests = 7
  Courses = {c1, c2}
  Departments = {d1, d2}
  MajorCatalogs = {m1}
  ElectiveCatalogs = {general}
  GeneralCatalog = general
  HardConstraints = {noHard, h1}
  SoftPreferences = {noSoft}
  NoHard = noHard
  NoSoft = noSoft
  Areas = {}
  Electives = {e1}
  PreviewIds = {p1, p2}
  None = None
SYMMETRY Symmetry
CHECK_DEADLOCK FALSE
INVARIANTS
  TypeOK
  SelectableBatchIsCurrent
  ResultsFollowSession
  CurrentSelectionMatchesConditions
PROPERTIES
  ConfirmationFallsWithInputs
