SPECIFICATION Spec
CONSTANTS
    Studios = {s1, s2}
    Ids <- TwoIds
    FactoryId = "factory"
    None = "none"
    Closures = {1}
    ClosureOf <- TwoClosureOf
    Sound <- TwoSound
    MaxMishaps = 2
SYMMETRY AnyStudio
PROPERTIES
    RolledBackStaysOut
