SPECIFICATION FairSpec
CONSTANTS
    w1 = w1
    w2 = w2
    r1 = r1
    r2 = r2
    Workers = {w1}
    Requests = {r1, r2}
    None = None
    MaxContent = 1
    MaxModel = 2
    MaxPublications = 3
    MaxResets = 0
    MaxBoots = 1
    MaxFailures = 1
CONSTRAINT OneEvent
PROPERTIES
    CatchesUp
    RequestsAnswered
