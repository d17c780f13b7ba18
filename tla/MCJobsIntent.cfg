CONSTANTS
    Session = {s1}
    MaxCopies = 3
    MaxSignals = 3
    Limit = 2
    MaxFaults = 1
SPECIFICATION Spec
INVARIANT IntentActive
