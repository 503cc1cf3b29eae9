SPECIFICATION Spec
CONSTANTS
  Threads = {t1, t2}
  Requests = {"preview", "confirm", "reconfirm", "prepare", "generate"}
  MaxRequests = 6
  Courses = {c1, c2}
  Departments = {d1}
  MajorCatalogs = {m1}
  ElectiveCatalogs = {general}
  GeneralCatalog = general
  HardConstraints = {noHard}
  SoftPreferences = {noSoft}
  NoHard = noHard
  NoSoft = noSoft
  Areas = {}
  Electives = {e1}
  PreviewIds = {p1, p2}
  None = None
SYMMETRY Symmetry
CHECK_DEADLOCK FALSE
INVARIANTS
  StoredCandidatesKeepMajors
