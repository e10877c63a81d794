\* Two conversations, an offer in each, two messages; the daemon goes away once, the person does two things.
CONSTANTS
    c1 = c1 c2 = c2 None = None
    Conv = {c1, c2}
    Home = c1
    Transfer = {1, 3}
    ConvOf <- MCConvOf
    MaxMsgs = 2
    MaxRestarts = 1
    MaxSteps = 2
    MaxQueue = 2
SPECIFICATION FairSpec
INVARIANTS TypeOK BarIsPending
PROPERTIES  LookedAtIsRead
\* Nobody has to say anything: the system may rest.
CHECK_DEADLOCK FALSE
