SPECIFICATION Spec
CONSTANTS
    Required = TRUE
    EndpointConfigured = TRUE
    MaxTime = 1
    Lifetime = 2
    Prefs = {p1, p2}
    Keys = {k1, k2}
    MaxMishaps = 3
SYMMETRY KeySymmetry
INVARIANTS StudioNeedsSession IdentityIsSound FoundIsKept
