\* The receiver's connection may break once while it catches up.
CONSTANTS
    a = a b = b b2 = b2 m1 = m1 m2 = m2
    ann = ann bob = bob direct = direct None = None
    Daemon = {a, b}
    Person = {ann, bob}
    Conv = {direct}
    Msg = {m1, m2}
    Conn = {c1, c2, c3}
    Identity <- MCIdentity
    Author <- OneAuthor
    ConvOf <- MCConvOf
    Recipients <- MCRecipients
    BacklogWindow = 1
    MaxBacklog = 2
    DiskMayFail = FALSE
    MaxBreaks = 1
    MaxKills = 0
    Faulty = {b}
SPECIFICATION Spec
SYMMETRY ConnMsgSymmetry
INVARIANTS ResumeLosesNothing
\* Nobody has to say anything: the system may rest.
CHECK_DEADLOCK FALSE
