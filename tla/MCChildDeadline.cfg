SPECIFICATION FairSpec
CHECK_DEADLOCK FALSE
CONSTANTS
    Payload = 1
    PipeSize = 1
    MaxOutput = 1
PROPERTY
    DeadlineKills
