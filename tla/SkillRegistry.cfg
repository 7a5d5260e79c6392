SPECIFICATION Spec
CONSTANTS
  Names <- MCNames
  Versions <- MCVersions
  Offered <- MCOffered
CHECK_DEADLOCK FALSE
INVARIANT TypeOK
INVARIANT VersionsFollowSkills
INVARIANT ValidatorDecides
PROPERTY OnlySwitchBreaksGraph
