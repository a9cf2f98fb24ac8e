SPECIFICATION Spec
CONSTANT Schemas <- ManySchemas
CHECK_DEADLOCK FALSE
INVARIANTS
  TypeOK
  EachOnce
  TameIsExact
  OutermostIsExact
PROPERTIES
  Terminates
  ImplementsInputTree
