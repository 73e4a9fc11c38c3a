\* Liveness: with refused connections and lost answers every release gets through,
\* unless the list goes out of date while it is worked on.
SPECIFICATION FairSpec
CONSTANTS
  a = a
  b = b
  m = m
  x = x
  Names <- MCNames
  Payload <- MCPayload
  Items <- MCItems
  Kind <- MCKind
  MaxRelease = 2
  Manifest <- LiveManifest
  Size <- LiveSize
  MaxLength = 3
  Faults <- Reachability
PROPERTIES FinishedIsInPlace EventuallyUpToDate
