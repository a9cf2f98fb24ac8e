SPECIFICATION Spec
CONSTANTS
  Order <- Alphabetical
  Schema <- SmallSchema
  Ids <- SmallIds
  Objects <- UserAndTeam
  MaxLost = 1
INVARIANTS
  TypeOK
  PurgedIsGone
PROPERTIES
  PurgeStaysOnObject
  RetriesSucceed
