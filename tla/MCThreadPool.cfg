SPECIFICATION FairSpec
CONSTANTS
    a = a
    b = b
    c = c
    w1 = w1
    w2 = w2
    NoJob = NoJob
    Job <- MCJob
    Worker <- MCWorker
    N <- MCN
    Sub <- MCSub
    Fails <- MCFails
    Threads = 3
INVARIANTS
    TypeOK
    NoUseAfterReturn
    EachTaskOnce
    ErrorsAsSequential
    HelpersBounded
    NoLostWakeup
PROPERTY EveryCallReturns
CHECK_DEADLOCK FALSE
