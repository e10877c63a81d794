\* Every transfer leaves the server, though a link breaks.
CONSTANTS
    a = a b = b ann = ann bob = bob t1 = t1 sa = sa sb = sb
    None = None Clock = Clock
    Blocked <- MCBlocked
    Identity <- MCIdentity
    ScreenOf <- MCScreenOf
    Target <- MCTarget
    Daemon = {a, b}
    Person = {ann, bob}
    Transfer = {t1}
    Screen = {sa, sb}
    Conn = {c1, c2, c3}
    Sender <- MCSender
    Chunks = 2
    MaxPaths = 2
    MaxOpen = 1
    OffersExpire = TRUE
    FilesMayFail = FALSE
    MaxBreaks = 1
    Faulty = {b}
SPECIFICATION FairSpec
PROPERTIES  AcceptedArrives
\* Nobody has to offer anything: the system may rest.
CHECK_DEADLOCK FALSE
