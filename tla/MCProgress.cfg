CONSTANTS
    q1 = q1
    Queries = {q1, q2}
    Ids = {q1, q2}
    Corr <- EachItsOwn
    NoAnswer = NoAnswer
    Instances = {s1, s2}
    a1 = a1
    Askers = {a1, a2}
    NoInstance = noinst
    k1 = k1
    KafkaQueries = {k1, k3}
    NoQuery = none
    NoId = empty
    KafkaFaults = 1
    h1 = h1
    NoHandler = none
    c1 = c1
    NoCategory = nocat
    db1 = db1
    NoRecord = nil
    Records = {r1, r2}
    Proxies = {p1}
    Parts = {"mock", "pulsar", "instance", "retried", "kafka", "health", "saver", "rabbit", "replaced"}
SPECIFICATION FairSpec
INVARIANTS OneSender
PROPERTIES KeepsPromise QueriesEnd SubscribersReady
PROPERTIES ImplementsQueryRPC CallsReturn ResponsesAreRead
PROPERTIES KafkaQueriesEnd RequestsEnd Saved
PROPERTIES MessagesLeave ReplacedStops
CHECK_DEADLOCK FALSE
