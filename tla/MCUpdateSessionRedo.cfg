\* After a cut download the file cannot be created again.
SPECIFICATION Spec
CONSTANTS
  a = a
  b = b
  m = m
  x = x
  Names <- MCNames
  Payload <- MCPayload
  Items <- MCItems
  Kind <- MCKind
  MaxRelease = 2
  Manifest <- MCManifest
  Size <- MCSize
  MaxLength = 3
  Faults <- AllFaults
INVARIANTS RedownloadPossible
