SPECIFICATION PublisherSpec
CONSTANTS
    s1 = s1
    t1 = t1
    Subscribers = {s1}
    Subscriptions = {"all_values"}
    Callers = {t1}
    MaxLens = {2}
    MinLens = {1}
    MaxItems = 2
CHECK_DEADLOCK FALSE
PROPERTIES NextKeepsItsWord
