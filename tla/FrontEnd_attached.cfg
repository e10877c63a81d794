\* Three daemons come and go, a front end makes one call.
CONSTANTS
    Daemon = {d1, d2, d3}
    Call = {c1}
    None = None
SPECIFICATION FairSpec
INVARIANTS TypeOK NobodyIsLeft SomebodyAnswers
PROPERTIES Reattaches
\* Every daemon may have been stopped.
CHECK_DEADLOCK FALSE
