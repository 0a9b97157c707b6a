SPECIFICATION Spec
CONSTANTS
    c1 = c1
    c2 = c2
    Clients = {c1, c2}
    Initiator = c1
    NoClient = none
    Backlog = 1
    Budgets <- SafetyBudgets
INVARIANTS
    StreamIntact
    ClosedWithReason
    InputFollowsOwnership
    FlagSettles
    DeleteIsFinal
PROPERTIES
    OnlyLaggardsDropped
