SPECIFICATION FairSpec
CONSTANTS
    Studios = {s1}
    Ids <- MCIds
    FactoryId = "factory"
    None = "none"
    Closures = {1, 2}
    ClosureOf <- MCClosureOf
    Sound <- MCSound
    MaxMishaps = 3
INVARIANTS
    PointersArePublished
    LastKnownGoodStarts
PROPERTIES
    NoRollbackLoop
    ImplementsPointer
    EngineComesUp
