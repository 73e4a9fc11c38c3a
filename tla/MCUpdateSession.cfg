\* Safety of the update session under every fault of its environment.
SPECIFICATION Spec
CONSTANTS
  a = a
  b = b
  m = m
  x = x
  Names <- MCNames
  Payload <- MCPayload
  Items <- MCItems
  Kind <- MCKind
  MaxRelease = 2
  Manifest <- MCManifest
  Size <- MCSize
  MaxLength = 3
  Faults <- AllFaults
INVARIANTS TypeOK OneThread
PROPERTIES HandedOverWhole FlaggedBeforeFinished
