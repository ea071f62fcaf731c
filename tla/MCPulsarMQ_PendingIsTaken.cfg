SPECIFICATION Spec
CONSTANTS
    p1 = p1  p2 = p2  m1 = m1  t1 = t1  t2 = t2
    Msgs = {m1}
    Replies = {m1}
    Proxies = {p1, p2}
    Topics = {t1, t2}
    Topic <- MCTopic
    NoItem = NoItem
    Run = Run
    MaxConnectors = 2
    DsnMayFail = FALSE
    MayReplace = FALSE
INVARIANT PendingIsTaken
CHECK_DEADLOCK FALSE
