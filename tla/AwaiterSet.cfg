SPECIFICATION Spec
CONSTANTS
    Awaiters = {1, 2, 3}
    Wakers = {w1, w2}
    NoWaker = NoWaker
    DebugBuild = TRUE
    MaxGeneration = 3
INVARIANTS ListSound
PROPERTIES ImplementsQueue OperationsImplementQueue
