SPECIFICATION RankSpec
CONSTANTS
  Sections <- MCSections
  Courses <- MCCourses
  Catalog <- MCCatalog
  Departments = {"d1", "d2"}
  Barred <- MCBarred
  NoRoom = NoRoom
  None = None
  Asks <- MCAsks
  MaxGap = 30
  SoftPreferences <- MCSoftPreferences
  MaxRanked = 3
CHECK_DEADLOCK FALSE
INVARIANTS
  SearchTypeOK
  CandidatesAreAdmissible
  ExhaustedSearchIsComplete
  LimitsAreKept
  EmptyAnswerIsExplained
  SatisfiedPreferenceDoesNotCost
PROPERTIES
  SearchKeepsPromise
