SPECIFICATION Spec
CONSTANTS
  Words <- MCWords
  Alphabet <- MCAlphabet
  Catalog <- MCCatalog
  Schemas <- MCSchemas
  Rendering <- MCRendering
  Formatted <- MCFormatted
  Edits <- MCEdits
  Origins <- MCOrigins
  MaxStops = 1
INVARIANTS
  TypeOK
  FinishedIsCurrent
  RoundTrip
  FinishedCompiles
  BuiltinsMatchChecks
  WritesAccepted
  CleanPurges
  KeysArePrivate
