SPECIFICATION Spec
CONSTANTS
    c1 = c1
    c2 = c2
    r1 = r1
    r2 = r2
    Clients = {c1, c2}
    Renders = {r1, r2}
    None = None
    Timestamps = {1, 2}
    Nowcast = {2}
    OtherKeys <- OtherTiles
    Runs = {1, 2}
    Histories <- AllHistories
    WorkerSlots = 1
    QueueSlots = 0
    MaxBytes = 3
    SizeOf <- TileSize
SYMMETRY Symmetric
INVARIANTS
    CacheConsistent
    AdmittedWithinCapacity
    OneRenderPerTile
    WaitersServed
