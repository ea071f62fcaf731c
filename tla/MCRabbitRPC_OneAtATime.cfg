CONSTANTS
    q1 = q1
    q2 = q2
    q3 = q3
    NoAnswer = NoAnswer
    Queries <- ThreeQueries
    Inst <- TwoInstances
    PublishChannelSize = 1
    MaxRedelivered = 1
SPECIFICATION Spec
INVARIANTS OneAtATimeAnswersOwn
CHECK_DEADLOCK FALSE
