\* Two offers wait in one conversation.
CONSTANTS
    c1 = c1 c2 = c2 None = None
    Conv = {c1, c2}
    Home = c1
    Transfer = {1, 2}
    ConvOf <- MCConvOf
    MaxMsgs = 1
    MaxRestarts = 0
    MaxSteps = 2
    MaxQueue = 2
SPECIFICATION FairSpec
PROPERTIES AskedIsAnswered
\* Nobody has to say anything: the system may rest.
CHECK_DEADLOCK FALSE
