SPECIFICATION ManifestFairSpec
CONSTANTS
    Resolvers = {r1, r2, r3}
    Manifests = {m1, m2}
    Broken = {m2}
INVARIANTS OneProducer DownloadedOnce
PROPERTY EveryRequestEnds
CHECK_DEADLOCK FALSE
