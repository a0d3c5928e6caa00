SPECIFICATION Spec
CONSTANTS
    Releases <- MCReleases
    Published <- MCPublished
    Manifests <- MCManifests
    Publishers = {p1, p2, p3}
    MaxCommands = 2
    Nil = nil
    Broken = broken
SYMMETRY PublisherSymmetry
CONSTRAINT NotBoth
INVARIANTS
    WellFormed
    LockIsSound
    InstalledIsLocked
CHECK_DEADLOCK FALSE
