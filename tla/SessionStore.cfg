SPECIFICATION Spec
CONSTANTS
    s1 = s1
    s2 = s2
    c1 = c1
    c2 = c2
    Supervisors = {s1, s2}
    Commands = {c1, c2}
    Pids = {p1, p2}
    MaxId = 2
    Nobody = Nobody
    Scenarios <- Starts
SYMMETRY Interchangeable
INVARIANTS
    OwnersKeepTheirIds
    FailedRunLeavesNothing
    AnswersAreTrue
    KillHitsItsTarget
CHECK_DEADLOCK FALSE
