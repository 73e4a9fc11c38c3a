\* autocover ignores the result of copyFile and then deletes the source.
SPECIFICATION SystemSpec
CONSTANTS
  a = a
  b = b
  x = x
  Names <- MCNames
  Payload <- MCPayload
  Items <- MCItems
  Kind <- MCKind
  MaxRelease = 2
  Manifest <- MCManifest
  Size <- MCSize
  MaxLength = 3
  Faults <- NoFaults
  CoverFaults <- CopyFails
  KillsUpdater = TRUE
INVARIANTS NoLostUpdate
