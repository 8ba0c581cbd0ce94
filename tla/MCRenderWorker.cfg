SPECIFICATION Spec
CONSTANTS
    w1 = w1
    w2 = w2
    r1 = r1
    r2 = r2
    Workers = {w1, w2}
    Requests = {r1}
    None = None
    MaxContent = 2
    MaxModel = 1
    MaxPublications = 2
    MaxResets = 1
    MaxBoots = 0
    MaxFailures = 0
SYMMETRY Symmetric
INVARIANTS
    CachesFollowStores
    StoresFollowPayload
    HitNeverOlder
