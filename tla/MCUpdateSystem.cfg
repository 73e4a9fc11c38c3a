\* The updater and autocover, which ends the updater before it copies.
SPECIFICATION SystemSpec
CONSTANTS
  a = a
  b = b
  x = x
  Names <- MCNames
  Payload <- MCPayload
  Items <- MCItems
  Kind <- MCKind
  MaxRelease = 2
  Manifest <- MCManifest
  Size <- MCSize
  MaxLength = 3
  Faults <- SessionFaults
  CoverFaults <- CoverFaultsButCopy
  KillsUpdater = TRUE
INVARIANTS SystemTypeOK NoLostUpdate
