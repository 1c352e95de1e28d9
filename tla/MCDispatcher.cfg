SPECIFICATION MCSpec
CONSTANTS
    io = io
    sched = sched
    t1 = t1
    t2 = t2
    t3 = t3
    ShutdownTask = ShutdownTask
    Threads <- MCThreads
    Tasks <- MCTasks
    Timed <- MCTimed
    q1 = q1
    q2 = q2
    q3 = q3
    DbThreads <- MCDbThreads
    Queries <- MCQueries
    WithCallback <- MCWithCallback
    MaxLost = 1
    m1 = m1
    m2 = m2
    m3 = m3
    Messages = {m1, m2, m3}
    SingleSocket = FALSE
    p1 = p1
    p2 = p2
    Protocols = {p1, p2}
    Room = 2
    MaxWritten = 4
INVARIANTS
    NoLostWakeup
    TaskOrder
    ConnectionSafe
    PoolFlows
PROPERTIES
    ImplementsJobQueue
    ShutdownEnds
    ClosesProperly
    QueriesServed
