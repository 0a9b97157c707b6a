SPECIFICATION FairSpec
CONSTANTS
    c1 = c1
    c2 = c2
    Clients = {c1, c2}
    Initiator = c1
    NoClient = none
    Backlog = 1
    Budgets <- LiveBudgets
PROPERTIES
    AttachDecided
    ExitedIsRemoved
