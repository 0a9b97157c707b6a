SPECIFICATION Spec
CONSTANTS
    Awaiters = {f1, f2}
    Wakers = {w1}
    NoWaker = NoWaker
    Setters = {s1}
    MaxSets = 2
INVARIANT WaitersAnnounced
