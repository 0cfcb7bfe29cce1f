SPECIFICATION FairSpec
CONSTANTS
    self = self  counterpart = counterpart
    Segments <- ThreeSegments
    Speakers <- BothSpeakers
    MaxChanges = 1
    MaxFaults = 2
    Races <- NoRaces
    None = None
INVARIANTS RemovalIsAudited NoAudioLost RecoveryIsWhole LoggedRetentionApplies
PROPERTIES PendingIsAudited ExpiredIsRemoved
CHECK_DEADLOCK FALSE
