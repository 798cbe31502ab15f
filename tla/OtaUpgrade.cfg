SPECIFICATION Spec
CONSTANTS
  a = a
  b = b
  Blocks = {a, b}
  Manifests <- MCManifests
  Capacity = 4
  MaxChunk = 2
  NoManifest = NoManifest
  NoContext = NoContext
  Erased = Erased
INVARIANTS
  OtaTypeOK
  VerifiedBeforeSwitch
  NothingHeldIdly
  ResultOfLastEnded
  RecordEarned
PROPERTY DownloadEnds
