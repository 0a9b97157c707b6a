SPECIFICATION Spec
CONSTANTS
    Wakers = {w1}
    NoWaker = NoWaker
INVARIANT SenderDropReleaseOrdered
