SPECIFICATION FairSpec
CONSTANTS
    Tasks = {t1, t2}
    Urgent = {t1}
    Groups = {g1}
    Processors = {p1, p2}
    From <- UrgentStay
    GroupOf <- OneGroup
    Workers = {w1}
    HomeOf <- OneTeam
    Shares = TRUE
    MaxFaults = 1
    Owner = Owner
    Nobody = Nobody
INVARIANTS RunsNearSubmitter TasksAccounted
PROPERTIES SubmittedEnds JoinReturns
