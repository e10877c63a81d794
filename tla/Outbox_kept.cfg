\* Two messages are composed and one is received; the link breaks or the daemon is killed, twice in all.
CONSTANTS
    m1 = m1 m2 = m2 o1 = o1
    Own = {m1, m2}
    Others = {o1}
    Sent <- MCSent
    MayFail = {m2}
    MaxCalls = 1
    MaxFaults = 2
SPECIFICATION FairSpec
CONSTRAINT MCNothingSwallowed
INVARIANTS TypeOK ShownInOrder AcceptedIsKept DeliveredIsFiled JournalIsTheList  BadgeIsTheUnread
PROPERTIES AcceptedIsSequenced
\* Nobody has to say anything: the system may rest.
CHECK_DEADLOCK FALSE
