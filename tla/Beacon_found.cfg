\* Ticks of six seconds, expiry rounded down; a server is started twice, at one of two addresses.
CONSTANTS
    Addr = {a, b}
    None = None
    Interval = 2
    Expiry = 6
    SweepEvery = 2
    Copies = 2
    MaxLost = 2
    MaxStarts = 2
SPECIFICATION FairSpec
INVARIANTS TypeOK NoNudgeIsLost LeftOnce
PROPERTIES StaysFound Reached Missed
