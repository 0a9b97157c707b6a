SPECIFICATION Spec
CONSTANTS
    Tasks = {t1, t2}
    Urgent = {t1}
    Groups = {g1, g2}
    Processors = {p1, p2}
    From <- Anywhere
    GroupOf <- GroupPerProcessor
    Workers = {w1, w2, w3}
    HomeOf <- SpareWorker
    Shares = FALSE
    MaxFaults = 0
    Owner = Owner
    Nobody = Nobody
SYMMETRY PoolSymmetry
INVARIANTS IdleWorkersAreWoken NoWorkerOutlivesPool
