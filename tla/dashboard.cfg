SPECIFICATION DashboardSpec
CONSTANTS
    Requests = {q1}
    MaxMishaps = 3
INVARIANT LightsTellTheTruth
INVARIANT ApprovalsShown
CHECK_DEADLOCK FALSE
