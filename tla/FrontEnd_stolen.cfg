\* One daemon stops while a second starts; then a third starts.
CONSTANTS
    Daemon = {d1, d2, d3}
    Call = {}
    None = None
SPECIFICATION Spec
INVARIANTS OneServes
SYMMETRY Processes
CHECK_DEADLOCK FALSE
