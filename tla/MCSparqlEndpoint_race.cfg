\* Two executor threads handling one request each for the same cached query.
CONSTANTS
    t1 = t1
    t2 = t2
    x = x
    y = y
    z = z
    Threads = {t1, t2}
    Vars <- MCVars
    Occ <- MCOcc
    MaxRequests = 1
    PlannerReplies = {"plan"}

SPECIFICATION Spec

INVARIANT FeatureExtractionSound

\* All requests served: the threads have nothing left to do.
CHECK_DEADLOCK FALSE
