\* Two files, of which one when a link breaks; offers may expire, files may fail. One
\* front end on either side: two at the receiver may accept at once, and SavedIsWhole fails.
CONSTANTS
    a = a b = b ann = ann bob = bob t1 = t1 sa = sa sb = sb
    None = None Clock = Clock
    Blocked <- MCBlocked
    Identity <- MCIdentity
    ScreenOf <- MCScreenOf
    Target <- MCTarget
    Daemon = {a, b}
    Person = {ann, bob}
    Transfer = {t1, t2}
    Screen = {sa, sb}
    Conn = {c1, c2, c3}
    Sender <- MCSender
    Chunks = 2
    MaxPaths = 2
    MaxOpen = 2
    OffersExpire = TRUE
    FilesMayFail = TRUE
    MaxBreaks = 1
    Faulty = {a, b}
SPECIFICATION Spec
CONSTRAINT MCOneIfBroken
SYMMETRY MCSymmetry
INVARIANTS TypeOK  RunningHasBothEnds
 
\* Nobody has to offer anything: the system may rest.
CHECK_DEADLOCK FALSE
