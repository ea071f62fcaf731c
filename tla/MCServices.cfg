CONSTANTS
    q1 = q1
    q2 = q2
    NoAnswer = NoAnswer
    Askers = {a1, a2}
    NoInstance = noinst
    k1 = k1
    k2 = k2
    NoQuery = none
    NoId = empty
    Partitions = {p1, p2}
    MaxMsgs = 2
    MaxFaults = 1
    NoPartition = none
    Requests = {h1, h2}
    NoHandler = none
    HealthQueues = {c1}
    NoCategory = nocat
    DataBases = {db1}
    HealthSeconds = 2
    HealthFaults = 1
    NoRecord = nil
    GroupSize = 2
    MaxFailed = 2
    Parts = {"rabbit", "pulsar", "instance", "mock", "kafka", "consumer", "one", "two", "saver", "publishers"}
    Calls = {q1, q2, q3}
    Subscribers = {s1, s2}
    KafkaQueries = {k1, k2, k3}
    KafkaFaults = 1
    Queued = {m1}
    Responses = {n1, n2}
    NoMsg = nomsg
    PublisherFaults = 2
    Records = {r1, r2, r3}
SPECIFICATION SafetySpec
INVARIANTS TypesOK AnswersDistinct  AnswersMatchId
INVARIANTS HandledOnceByProcess SkippedForAReason OneLostPerRestart OneCallbackAfterStop
INVARIANTS NoEarlyAnswer OneSuccessPerMessage InOnePlace
CHECK_DEADLOCK FALSE
