CONSTANTS
    MaxSize = 2
    MaxChanges = 2
    MaxBuilds = 0
    MaxCrashes = 0
    Shakes <- AppendOnly
SPECIFICATION FairSpec
PROPERTY EverythingCaptured
