SPECIFICATION FairSpec
CONSTANTS
    Wakers = {w1, w2}
    NoWaker = NoWaker
INVARIANTS
    StorageSound
    NothingLeaks
    NoLostWakeup
PROPERTIES
    ReadinessIsStable
    NoReceiverStranded
    ImplementsExchange
