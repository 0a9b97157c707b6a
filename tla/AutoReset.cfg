SPECIFICATION FairSpec
CONSTANTS
    Awaiters = {f1, f2}
    Wakers = {w1, w2}
    NoWaker = NoWaker
    Setters = {s1, s2}
    MaxSets = 2
INVARIANTS
    WaitersAnnounced
    NoWaiterBesideSignal
    SignalsConserved
    NobodyOverslept
PROPERTY NotifiedCompletes
