SPECIFICATION FairLoaderSpec
CONSTANTS
  Names <- MCNames
  Versions = {"1.0.0"}
  DefaultVersion = "1.0.0"
  Offered <- MCOffered
  Dirs <- MCDirs
  DirOrder <- MCDirOrder
  Editions <- MCEditions
  Initially <- MCInitially
  OtherSkills <- MCOtherSkills
  Slots = {1, 2}
  MaxRequests = 1
CHECK_DEADLOCK FALSE
INVARIANT LoaderTypeOK
INVARIANT LoadedIsRegistered
INVARIANT NewestOrFailed
PROPERTY ChangesTakenUp
