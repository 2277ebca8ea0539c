SPECIFICATION Spec
CONSTANTS
    n1 = n1
    n2 = n2
    p2p = p2p
    knee = knee
    confirm = confirm
    None = None
    Half = Half
    Nodes = {n1, n2}
    Controller = n1
    Variants = {p2p, knee, confirm}
    NameOf <- MCNameOf
    Plans <- MCPlans
    MaxRuns = 3
    MaxLaunches = 3
CHECK_DEADLOCK FALSE
INVARIANTS
    ReportOfVariant
    SummaryBacked
PROPERTIES
    MeasuredOnce
