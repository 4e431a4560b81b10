SPECIFICATION FairSpec
CONSTANTS
    Clients = {c1, c2, c3}
    Keys = {k1, k2}
    Chans = {h1, h2, h3}
    NoClient = NoClient
    NoKey = NoKey
    NoChan = NoChan
INVARIANTS MutualExclusion NoLostWakeup
PROPERTIES ImplementsKeyedLock WaiterReleased
