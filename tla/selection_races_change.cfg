SPECIFICATION Spec
CONSTANTS
  Threads = {t1, t2}
  Requests = {"preview", "confirm", "chat", "generate", "preferences", "select"}
  MaxRequests = 6
  Courses = {c1}
  Departments = {d1}
  MajorCatalogs = {m1}
  ElectiveCatalogs = {general}
  GeneralCatalog = general
  HardConstraints = {noHard, h1}
  SoftPreferences = {noSoft}
  NoHard = noHard
  NoSoft = noSoft
  Areas = {}
  Electives = {e1}
  PreviewIds = {p1}
  None = None
SYMMETRY Symmetry
CHECK_DEADLOCK FALSE
PROPERTIES
  SelectionIsOfCurrentConditions
