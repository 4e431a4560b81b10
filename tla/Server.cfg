\* The applications change in any order and at any time; reads are told apart up
\* to MaxStamp.  One listener, besides two other tasks; the proofs are for any.
SPECIFICATION FairSpec
CONSTANTS
    IDs = {"a", "b"}
    Worlds <- MCWorlds
    Metrics = {}
    StoreConfigured = TRUE
    MaxStamp = 2
    Ports = {"443"}
    MaxOpen = 1
    UsesCertbus = TRUE
INVARIANTS AllOrNothing BackendMatches NothingCutOff
PROPERTIES NeverGoesBack EventuallyInstalled InstancesKept ServeEnds
