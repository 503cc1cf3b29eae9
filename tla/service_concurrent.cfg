SPECIFICATION Spec
CONSTANTS
  Threads = {t1, t2}
  Requests = {"chat", "profile", "majors", "preferences", "confirm_conditions", "agent_generate", "select", "clear_selection"}
  MaxRequests = 5
  Courses = {c1}
  Departments = {d1, d2}
  MajorCatalogs = {m1}
  ElectiveCatalogs = {general}
  GeneralCatalog = general
  HardConstraints = {noHard, h1}
  SoftPreferences = {noSoft}
  NoHard = noHard
  NoSoft = noSoft
  Areas = {}
  Electives = {e1}
  PreviewIds = {}
  None = None
SYMMETRY Symmetry
CHECK_DEADLOCK FALSE
INVARIANTS
  RevisionIdentifiesInputs
PROPERTIES
  VersionCountsWrites
  RevisionSpec
