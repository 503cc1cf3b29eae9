SPECIFICATION LegacyRankSpec
CONSTANTS
  Sections <- MCSections
  Catalog <- MCCatalog
  Departments = {"d1"}
  Barred = Barred
  NoRoom = NoRoom
  None = None
  Orders <- MCOrders
  Wishes <- MCWishes
  Templates = {"BALANCED", "FREE_DAY_PRIORITY", "NO_MORNING_PRIORITY", "COMPACT_SCHEDULE"}
CHECK_DEADLOCK FALSE
INVARIANTS
  LegacyTypeOK
  BestIsFound
  EmptyRecommendationIsExplained
  MetWishScoresNoLess
  TargetsComeFirst
PROPERTIES
  LegacyKeepsPromise
