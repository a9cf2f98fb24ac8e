SPECIFICATION Spec
CONSTANTS
  Order <- Alphabetical
  Schema <- SmallSchema
  Ids <- SmallIds
  Objects <- Unset
  MaxLost = 2
PROPERTY PurgeStaysOnObject
