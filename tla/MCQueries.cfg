CONSTANTS
  Types <- TreeOrder
  Sorted <- SortedOrder
  Usersets <- UsersetFields
  TypeOf <- SubjectType
  Relation <- Viewers
  IDs = {"1", "2", "*"}
  Star = "*"
  Resources = {"d1", "d2"}
  Stores <- SmallStores
  Calls <- SmallCalls
  MaxRev = 1
SPECIFICATION Spec
INVARIANTS
  TypeOK
  GrantedIsTrue
  DeniedIsTrue
  LookupIsExact
  OPAAgrees
  SubjectsAreCovered
  ReadsAreWhole
