\* One executor thread serving three requests in turn: the memo filled by the
\* first request is read back by the second.
CONSTANTS
    t1 = t1
    t2 = t2
    x = x
    y = y
    z = z
    Threads = {t1}
    Vars <- MCVars
    Occ <- MCOcc
    MaxRequests = 3
    PlannerReplies = {"plan", "empty"}

SPECIFICATION Spec

INVARIANT FeatureExtractionSound
INVARIANT RuntimeOnlyForAnswered

\* All requests served: the threads have nothing left to do.
CHECK_DEADLOCK FALSE
