\* Two people with a message each; a connection of one breaks, and the disk may fail: resend.
CONSTANTS
    a = a b = b b2 = b2 m1 = m1 m2 = m2
    ann = ann bob = bob direct = direct None = None
    Daemon = {a, b}
    Person = {ann, bob}
    Conv = {direct}
    Msg = {m1, m2}
    Conn = {c1, c2}
    Identity <- MCIdentity
    Author <- TwoAuthors
    ConvOf <- MCConvOf
    Recipients <- MCRecipients
    BacklogWindow = 1
    MaxBacklog = 2
    DiskMayFail = TRUE
    MaxBreaks = 1
    MaxKills = 0
    Faulty = {a}
SPECIFICATION Spec
SYMMETRY ConnSymmetry
INVARIANTS TypeOK SeqNamesOneMessage CopiesAreFiled
PROPERTIES KeepsALedger
\* Nobody has to say anything: the system may rest.
CHECK_DEADLOCK FALSE
