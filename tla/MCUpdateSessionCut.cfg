\* A long list is cut: the server is told of the end of a shorter one.
SPECIFICATION Spec
CONSTANTS
  a = a
  b = b
  m = m
  x = x
  Names <- MCNames
  Payload <- MCPayload
  Items <- MCItems
  Kind <- MCKind
  MaxRelease = 2
  Manifest <- MCManifest
  Size <- MCSize
  MaxLength = 3
  Faults <- AllFaults
PROPERTIES FinishedIsWhatWasAnnounced
