\* Two workers at most, a queue of one message per worker and a pipe of one
\* byte: both limits are reached with four messages.
CONSTANTS
    m1 = m1
    m2 = m2
    m3 = m3
    m4 = m4
    s1 = s1
    s2 = s2
    Msgs = {m1, m2, m3, m4}
    NoMsg = NoMsg
    Sessions = {s1, s2}
    NoSession = NoSession
    SessionOf <- MCSessionOf
    MinThreads = 1
    MaxThreads = 2
    QueueSize = 1
    PipeCap = 1
SPECIFICATION FairSpec
INVARIANTS
    WaitingCounted
    NoLostWakeup
    PutSleepsOnlyWhenFull
    OutputSignalled
PROPERTIES
    ImplementsService
    EveryPutAnswered
    DestroyEnds
\* The pool stops for good once it is destroyed.
CHECK_DEADLOCK FALSE
