SPECIFICATION Spec
CONSTANTS
  Services <- Combinations
  Value <- Chunks
  PipeSize = 2
  PacketKinds = {"identities", "signSelected", "signInvalid", "signOther", "query"}
  MaxPackets = 2
  Identities <- UpstreamKeys
INVARIANTS
  TypeOK
  PreparedIsAccepted
  InputIsWhole
  ServesItsOwner
  NoSilentExit
  AnswersMatch
  SelectedStaysHere
PROPERTIES
  LauncherReturns
  EverybodyIsReleased
