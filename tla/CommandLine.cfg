SPECIFICATION Spec
CONSTANTS
  Paths = {"bin", "usr", "opt", "link"}
  Inodes = {"i1", "i2"}
  Tails = {1, 2}
  MaxChanges = 2
  MaxResponse = 8
  MaxSize = 3
  WellFormed <- MCWellFormed
  Portable <- MCPortable
  Plain <- MCPlain
  Inputs <- MCInputs
  None = None
INVARIANTS
  AcceptedIsRequestable
  DeliveredAsApproved
  GitSettingsAreKept
  SearchesLikeExecvp
  RunsTheApproved
  UploadIsUnambiguous
  IgnoresPieces
CHECK_DEADLOCK FALSE
