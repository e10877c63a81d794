\* Two daemons of one person, one of which says something; it is killed once.
CONSTANTS
    a = a b = b b2 = b2 m1 = m1 m2 = m2
    ann = ann bob = bob direct = direct None = None
    Daemon = {b, b2}
    Person = {ann, bob}
    Conv = {direct}
    Msg = {m1}
    Conn = {c1, c2}
    Identity <- MCIdentity
    Author <- BothOfBob
    ConvOf <- MCConvOf
    Recipients <- MCRecipients
    BacklogWindow = 1
    MaxBacklog = 2
    DiskMayFail = FALSE
    MaxBreaks = 0
    MaxKills = 1
    Faulty = {b}
SPECIFICATION FairSpec
INVARIANTS CursorIsBelievable NothingFallsBetween
PROPERTIES ComposedIsConfirmed 
\* Nobody has to say anything: the system may rest.
CHECK_DEADLOCK FALSE
