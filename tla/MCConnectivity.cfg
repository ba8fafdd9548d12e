CONSTANTS
    Second = 2
    Oversleep = 1
    Gran = 1
    Timeouts <- MCTimeouts
SPECIFICATION FairSpec
INVARIANTS
    SeenIsSound
    WindowHonoured
PROPERTIES
    CheckReturns
