\* Copies that fail: nothing is deleted unless installed, what can be installed is.
SPECIFICATION FairSystemSpec
CONSTANTS
  a = a
  b = b
  x = x
  Names <- MCNames
  Payload <- MCPayload
  Items <- MCItems
  Kind <- MCKind
  MaxRelease = 1
  Manifest <- OneManifest
  Size <- OneSize
  MaxLength = 3
  Faults <- UpdaterDies
  CoverFaults <- CoverReturns
  KillsUpdater = TRUE
PROPERTIES DeletedOnlyWhenInstalled EventuallyInstalled MainRestarted
