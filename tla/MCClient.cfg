SPECIFICATION ClientSpec
CONSTANTS
    t1 = t1
    t2 = t2
    s1 = s1
    s2 = s2
    Tabs = {t1, t2}
    Sessions = {s1, s2}
    None = None
    MaxCalls <- TwoAndOne
    Inboxes = {t1}
    MaxTroubles = 2
INVARIANTS ClientTypeOK  StreamsAccounted
PROPERTIES EveryRequestEnds PollingCatchesUp
CHECK_DEADLOCK FALSE
