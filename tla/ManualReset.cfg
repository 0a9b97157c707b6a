SPECIFICATION FairSpec
CONSTANTS
    Awaiters = {f1, f2}
    Wakers = {w1}
    NoWaker = NoWaker
    Setters = {s1, s2}
    MaxSets = 2
INVARIANTS
    WaitersCovered
    OpenGateHoldsNobody
    NotifiedIsWoken
PROPERTIES
    OpeningReleases
    SetReturns
